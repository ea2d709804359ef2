-------------------------- MODULE RelaySessionProps --------------------------
(***************************************************************************)
(* What the relay's sessions promise.                                      *)
(***************************************************************************)
EXTENDS RelaySession

\* One session per identity: an identity is active exactly when some connection
\* holds its registration, and no two hold the same one, whatever the order in
\* which handshakes, refusals, failures and reconnections end
\* (ConnectionHub::register and the drop of ConnectionRegistration).
OneSession ==
  /\ active_identities = {conn[c].user : c \in {d \in Conns : Registered(d)}}
  /\ \A c, d \in Conns : Registered(c) /\ Registered(d) /\ conn[c].user = conn[d].user => c = d

\* Where the permits are: with a session task, with a reader task, in the queue.
Leased == {c \in Conns : conn[c].leased}
Reading == {c \in Conns : conn[c].reader \in {"permit", "message"}}
Carried == {i \in DOMAIN jobs : jobs[i].kind = "deliver"}

\* No permit of the payload budget is lost or made up: it is free, held by a
\* task of a connection, or travels with a queued command (PayloadLease).
PermitsConserved ==
  free + Cardinality(Leased) + Cardinality(Reading) + Cardinality(Carried) = Budget

\* No lost wakeup: while the relay runs, a session that was open when an append
\* was stored has a notice queued, or has begun to write one since, or the
\* session that appended has yet to call notify (the coalescing in notify).
NoticeFollowsAppend ==
  process = "running" =>
    \A c \in changed : conn[c].notice \/ \E d \in Conns : conn[d].result = "accepted"

\* A client that was enrolled is not turned away for want of a token, although
\* the answer to its first attempt may have been lost and its token is used up
\* (register_enrolled_identity looks for the identity first).
EnrolledNotRefused ==
  \A u \in Users : client[u].state = "refused" => u \notin identities

\* worker.rs says admitted work is drained when the last handle is dropped:
\* when the process has exited, no admitted command is left that never ran.
AdmittedWorkDrained == process = "exited" => jobs = <<>>

\* STORAGE.md says clients retry transient network failures: a client program
\* that has only met those does not stop with an authentication failure.
TransientFailuresRetried == \A u \in Users : client[u].state # "duplicate"

(***************************************************************************)
(* Liveness.                                                               *)
(***************************************************************************)

\* A relay task waits for its client, and has a deadline for it.
Waits(c) ==
  \/ conn[c].phase \in Handshaking \cup {"replying", "noticing"}
  \/ conn[c].phase = "serving" /\ ~conn[c].open /\ conn[c].reader # "idle"
  \/ process = "stopping"

\* What the session task does next without its client.
Continue(c) ==
  (Waits(c) /\ EndConnection(c)) \/ StopWaiting(c) \/ Answer(c) \/ ReleaseLease(c)

Fairness ==
  /\ WF_vars(Execute)
  /\ \A c \in Conns :
       /\ WF_vars(Continue(c))
       /\ SF_vars(AcquirePermit(c)) /\ WF_vars(ReadFrame(c))
       /\ SF_vars(RateLimited(c) \/ Submit(c) \/ QueueFull(c))

\* Every request is answered or its connection ends, with no help from the
\* client's own timeout: permits always come back to the readers that wait for
\* them and the database works its queue off.
RequestSettled == \A u \in Users : client[u].busy ~> ~client[u].busy

=============================================================================
