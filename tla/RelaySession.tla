---------------------------- MODULE RelaySession ----------------------------
(***************************************************************************)
(* The relay process around the repository: connections and their          *)
(* handshake, the registry of active identities, the payload budget, the   *)
(* database thread with its bounded queue, notices of new events,          *)
(* enrollment and orderly shutdown; and, on the other end, the clients'    *)
(* connect and retry loop.  What a request does to the repository is       *)
(* RelayDelivery; here it only matters whether it appended an event.       *)
(*                                                                         *)
(* A slot of Conns stands for a connection.  Connection identifiers are    *)
(* never reused, so a slot is taken again only when nothing refers to it.  *)
(* There are as many as the relay admits.  A permit is 2 MiB of the        *)
(* payload budget.                                                         *)
(***************************************************************************)
EXTENDS Options, Naturals, Sequences, FiniteSets

CONSTANTS
  Users,
  Conns,
  Budget,      \* permits of the payload budget (payload_bytes / 2 MiB)
  Handshakes,  \* handshakes under way at a time
  QueueLimit   \* database_queue; the command being run counts as queued

VARIABLES
  client,             \* user -> state and connection of its client program
  conn,               \* connection -> its tasks on the relay, and the socket
  free,               \* permits available
  active_identities,  \* users with a session
  jobs,               \* the database queue
  identities,         \* enrolled users
  tokens,             \* user -> state of its latest enrollment token
  process,            \* "running", "stopping" or "exited"
  changed             \* history: sessions not told of an append since it was stored

relay == <<free, active_identities, jobs>>
stored == <<identities, tokens>>
vars == <<client, conn, relay, stored, process, changed>>

ASSUME SessionAssumption ==
  /\ Budget \in Nat \ {0} /\ QueueLimit \in Nat \ {0} /\ Handshakes \in Nat \ {0}
  /\ IsFiniteSet(Conns) /\ None \notin Users \cup Conns
  /\ None \notin {"registered", "refused", "accepted", "other"}

Offline == [state |-> "off", conn |-> None, busy |-> FALSE]

\* phase: where the session task is; reader: where the reader task is; leased:
\* the session task holds a permit; result: what the database answered; notice:
\* the outbound channel holds a notice; open: the client's end of the socket.
Closed == [user |-> None, phase |-> "closed", reader |-> "idle", leased |-> FALSE,
           result |-> None, notice |-> FALSE, open |-> FALSE]

\* Authentication holds the registration from "accepting" on.
Sessions == {"accepting", "serving", "noticing", "executing", "replying", "replied"}
Handshaking == {"accepted", "handshake", "enrolling", "accepting"}
Registered(c) == conn[c].phase \in Sessions

\* Permits held by the two tasks of a connection.
Held(c) == (IF conn[c].leased THEN 1 ELSE 0)
         + (IF conn[c].reader \in {"permit", "message"} THEN 1 ELSE 0)

Referred(c) == \E i \in DOMAIN jobs : jobs[i].conn = c

(***************************************************************************)
(* The client program: connect, work, retry after a transport failure.     *)
(***************************************************************************)
Dial(u, c) ==
  /\ client[u].state = "off" /\ process = "running"
  /\ conn[c].phase = "closed" /\ ~Referred(c)
  /\ Cardinality({h \in Conns : conn[h].phase \in Handshaking}) < Handshakes
  /\ conn' = [conn EXCEPT ![c] = [Closed EXCEPT !.user = u, !.phase = "accepted", !.open = TRUE]]
  /\ client' = [client EXCEPT ![u] = [state |-> "dialing", conn |-> c, busy |-> FALSE]]
  /\ UNCHANGED <<relay, stored, process, changed>>

\* A timeout or a network failure.  The relay may not notice.
Break(u) ==
  /\ client[u].state \in {"dialing", "online"}
  /\ client' = [client EXCEPT ![u] = Offline]
  /\ conn' = [conn EXCEPT ![client[u].conn].open = FALSE]
  /\ UNCHANGED <<relay, stored, process, changed>>

\* Wire::request keeps one request in flight; its first byte wakes the reader.
SendRequest(u) ==
  LET c == client[u].conn
  IN  /\ client[u].state = "online" /\ ~client[u].busy
      /\ conn[c].reader = "idle"
      /\ client' = [client EXCEPT ![u].busy = TRUE]
      /\ conn' = [conn EXCEPT ![c].reader = "byte"]
      /\ UNCHANGED <<relay, stored, process, changed>>

\* A program that stopped on a protocol error is started again by its operator.
Reopen(u) ==
  /\ client[u].state \in {"refused", "duplicate"}
  /\ client' = [client EXCEPT ![u] = Offline]
  /\ UNCHANGED <<conn, relay, stored, process, changed>>

(***************************************************************************)
(* The end of a connection: every exit drops the permits of the task and   *)
(* of its reader and the registration, if there is one.  A client that     *)
(* still listens sees the end of the stream and retries ("off"), unless    *)
(* the relay told it why first.                                            *)
(***************************************************************************)
Hangup(c, verdict) ==
  /\ conn' = [conn EXCEPT ![c] = Closed]
  /\ client' = IF conn[c].open
                 THEN [client EXCEPT ![conn[c].user] = [Offline EXCEPT !.state = verdict]]
                 ELSE client
  /\ changed' = changed \ {c}

\* Mutant of Close: the reader's permit is not returned.
CloseKeepsPermit(c, verdict) ==
  /\ Hangup(c, verdict)
  /\ free' = free + (IF conn[c].leased THEN 1 ELSE 0)
  /\ active_identities' = IF Registered(c) THEN active_identities \ {conn[c].user}
                                           ELSE active_identities

\* Mutant of Close: the identity is released whether or not it was registered.
CloseReleases(c, verdict) ==
  /\ Hangup(c, verdict)
  /\ free' = free + Held(c)
  /\ active_identities' = active_identities \ {conn[c].user}

Close(c, verdict) ==
  /\ Hangup(c, verdict)
  /\ free' = free + Held(c)
  /\ active_identities' = IF Registered(c) THEN active_identities \ {conn[c].user}
                                           ELSE active_identities

\* The handshake deadline, a frame or write timeout, the end of the stream, or
\* shutdown.  A session that waits for its command to run is ended by nothing
\* but shutdown.
EndConnection(c) ==
  /\ conn[c].phase \in {"accepted", "handshake", "enrolling", "accepting", "serving",
                        "noticing", "replying"}
  /\ Close(c, "off")
  /\ UNCHANGED <<jobs, stored, process>>

StopWaiting(c) ==
  /\ process = "stopping" /\ conn[c].phase = "executing"
  /\ Close(c, "off")
  /\ UNCHANGED <<jobs, stored, process>>

(***************************************************************************)
(* Handshake, enrollment and registration.                                 *)
(***************************************************************************)
AcquireHandshakePermit(c) ==
  /\ conn[c].phase = "accepted" /\ free > 0
  /\ free' = free - 1
  /\ conn' = [conn EXCEPT ![c].phase = "handshake", ![c].leased = TRUE]
  /\ UNCHANGED <<client, active_identities, jobs, stored, process, changed>>

Admit(job) == Len(jobs) < QueueLimit /\ jobs' = Append(jobs, job)

\* The signature is good: ask the database to register the identity.  The bytes
\* may have been in the socket when the client went away.
SubmitEnrollment(c) ==
  /\ conn[c].phase = "handshake"
  /\ Admit([conn |-> c, user |-> conn[c].user, kind |-> "enroll"])
  /\ conn' = [conn EXCEPT ![c].phase = "enrolling"]
  /\ UNCHANGED <<client, free, active_identities, stored, process, changed>>

EnrollmentQueueFull(c) ==
  /\ conn[c].phase = "handshake" /\ Len(jobs) = QueueLimit
  /\ Close(c, "off")
  /\ UNCHANGED <<jobs, stored, process>>

\* The transaction registers a new user and consumes its token, or changes nothing.
register_enrolled_identity(u) ==
  IF u \notin identities /\ tokens[u] = "issued"
    THEN /\ identities' = identities \cup {u}
         /\ tokens' = [tokens EXCEPT ![u] = "consumed"]
    ELSE UNCHANGED stored

\* Mutant of Enrollment: the token alone decides.
EnrollmentByToken(u) == IF tokens[u] = "issued" THEN "registered" ELSE "refused"

\* Its result: Existing or New, or EnrollmentRequired.
Enrollment(u) ==
  IF u \in identities \/ tokens[u] = "issued" THEN "registered" ELSE "refused"

EnrollmentRefused(c) ==
  /\ conn[c].phase = "enrolling" /\ conn[c].result = "refused"
  /\ Close(c, "refused")
  /\ UNCHANGED <<jobs, stored, process>>

register(c) ==
  /\ conn[c].phase = "enrolling" /\ conn[c].result = "registered"
  /\ conn[c].user \notin active_identities
  /\ active_identities' = active_identities \cup {conn[c].user}
  /\ conn' = [conn EXCEPT ![c].phase = "accepting", ![c].result = None]
  /\ UNCHANGED <<client, free, jobs, stored, process, changed>>

AlreadyActive(c) ==
  /\ conn[c].phase = "enrolling" /\ conn[c].result = "registered"
  /\ conn[c].user \in active_identities
  /\ Close(c, "duplicate")
  /\ UNCHANGED <<jobs, stored, process>>

\* ServerIdentifyAccepted is written; the handshake's permit is dropped.  When
\* nobody reads it, the write may still succeed.
IdentifyAccepted(c) ==
  /\ conn[c].phase = "accepting"
  /\ conn' = [conn EXCEPT ![c].phase = "serving", ![c].leased = FALSE]
  /\ free' = free + 1
  /\ client' = IF conn[c].open THEN [client EXCEPT ![conn[c].user].state = "online"] ELSE client
  /\ UNCHANGED <<active_identities, jobs, stored, process, changed>>

(***************************************************************************)
(* The reader task: a permit of the budget, then the connection's own,     *)
(* then the frame.                                                         *)
(***************************************************************************)
AcquirePermit(c) ==
  /\ conn[c].reader = "byte" /\ conn[c].phase # "closed" /\ free > 0
  /\ free' = free - 1
  /\ conn' = [conn EXCEPT ![c].reader = "permit"]
  /\ UNCHANGED <<client, active_identities, jobs, stored, process, changed>>

ReadFrame(c) ==
  /\ conn[c].reader = "permit" /\ ~conn[c].leased /\ conn[c].open
  /\ conn' = [conn EXCEPT ![c].reader = "message"]
  /\ UNCHANGED <<client, relay, stored, process, changed>>

(***************************************************************************)
(* The session loop.  The lease comes with the message, goes to the        *)
(* database with the command, comes back with the answer and is dropped    *)
(* after the reply is written.                                             *)
(***************************************************************************)
Takes(c) == conn[c].phase = "serving" /\ conn[c].reader = "message"

\* admit_request refuses by the user's recent rate: any request may meet it.
RateLimited(c) ==
  /\ Takes(c)
  /\ conn' = [conn EXCEPT ![c].phase = "replying", ![c].reader = "idle", ![c].leased = TRUE]
  /\ UNCHANGED <<client, relay, stored, process, changed>>

Submit(c) ==
  /\ Takes(c)
  /\ Admit([conn |-> c, user |-> conn[c].user, kind |-> "deliver"])
  /\ conn' = [conn EXCEPT ![c].phase = "executing", ![c].reader = "idle"]
  /\ UNCHANGED <<client, free, active_identities, stored, process, changed>>

\* The refused command is dropped, and the lease in it: Overloaded is answered.
QueueFull(c) ==
  /\ Takes(c) /\ Len(jobs) = QueueLimit
  /\ conn' = [conn EXCEPT ![c].phase = "replying", ![c].reader = "idle"]
  /\ free' = free + 1
  /\ UNCHANGED <<client, active_identities, jobs, stored, process, changed>>

\* A connection with a notice waiting needs no second one.
notify(cs) == [d \in Conns |-> IF Registered(d) THEN [cs[d] EXCEPT !.notice = TRUE] ELSE cs[d]]

Answer(c) ==
  LET answered == [conn EXCEPT ![c].phase = "replying", ![c].result = None]
  IN  /\ conn[c].phase = "executing" /\ conn[c].result # None
      /\ conn' = IF conn[c].result = "accepted" THEN notify(answered) ELSE answered
      /\ UNCHANGED <<client, relay, stored, process, changed>>

Reply(c) ==
  /\ conn[c].phase = "replying"
  /\ conn' = [conn EXCEPT ![c].phase = "replied"]
  /\ client' = IF conn[c].open THEN [client EXCEPT ![conn[c].user].busy = FALSE] ELSE client
  /\ UNCHANGED <<relay, stored, process, changed>>

ReleaseLease(c) ==
  /\ conn[c].phase = "replied"
  /\ conn' = [conn EXCEPT ![c].phase = "serving", ![c].leased = FALSE]
  /\ free' = free + (IF conn[c].leased THEN 1 ELSE 0)
  /\ UNCHANGED <<client, active_identities, jobs, stored, process, changed>>

\* The notice leaves the channel before it is written.
SendNotice(c) ==
  /\ conn[c].phase = "serving" /\ conn[c].notice
  /\ conn' = [conn EXCEPT ![c].phase = "noticing", ![c].notice = FALSE]
  /\ changed' = changed \ {c}
  /\ UNCHANGED <<client, relay, stored, process>>

\* Mutant of NoticeWritten: what came during the write is taken for written too.
NoticeWrittenDrains(c) ==
  /\ conn[c].phase = "noticing"
  /\ conn' = [conn EXCEPT ![c].phase = "serving", ![c].notice = FALSE]
  /\ UNCHANGED <<client, relay, stored, process, changed>>

NoticeWritten(c) ==
  /\ conn[c].phase = "noticing"
  /\ conn' = [conn EXCEPT ![c].phase = "serving"]
  /\ UNCHANGED <<client, relay, stored, process, changed>>

(***************************************************************************)
(* The database thread.  A result nobody waits for is dropped, its lease   *)
(* with it.                                                                *)
(***************************************************************************)
ExecuteEnroll ==
  LET job == Head(jobs)
      waiting == conn[job.conn].phase = "enrolling"
  IN  /\ process # "exited" /\ jobs # <<>> /\ job.kind = "enroll"
      /\ jobs' = Tail(jobs)
      /\ register_enrolled_identity(job.user)
      /\ conn' = IF waiting THEN [conn EXCEPT ![job.conn].result = Enrollment(job.user)] ELSE conn
      /\ UNCHANGED <<client, free, active_identities, process, changed>>

\* result: AppendAccepted, or any other response.
ExecuteDeliver(result) ==
  LET job == Head(jobs)
      waiting == conn[job.conn].phase = "executing"
  IN  /\ process # "exited" /\ jobs # <<>> /\ job.kind = "deliver"
      /\ jobs' = Tail(jobs)
      /\ conn' = IF waiting
                   THEN [conn EXCEPT ![job.conn].result = result, ![job.conn].leased = TRUE]
                   ELSE conn
      /\ free' = IF waiting THEN free ELSE free + 1
      /\ changed' = IF result = "accepted" THEN changed \cup {d \in Conns : Registered(d)}
                                           ELSE changed
      /\ UNCHANGED <<client, active_identities, stored, process>>

(***************************************************************************)
(* Shutdown and restart; the operator's enrollment tokens.                 *)
(***************************************************************************)
Stop ==
  /\ process = "running" /\ process' = "stopping"
  /\ UNCHANGED <<client, conn, relay, stored, changed>>

\* run returns when the sessions have ended; the database thread is not joined.
Exit ==
  /\ process = "stopping" /\ \A c \in Conns : conn[c].phase = "closed"
  /\ process' = "exited"
  /\ UNCHANGED <<client, conn, relay, stored, changed>>

Restart ==
  /\ process = "exited" /\ process' = "running"
  /\ jobs' = <<>> /\ free' = Budget /\ active_identities' = {}
  /\ UNCHANGED <<client, conn, stored, changed>>

\* The command line opens the database, so the relay must be stopped.
issue_enrollment(u) ==
  /\ process = "exited" /\ u \notin identities
  /\ tokens' = [tokens EXCEPT ![u] = "issued"]
  /\ UNCHANGED <<client, conn, relay, identities, process, changed>>

TokenExpires(u) ==
  /\ tokens[u] = "issued"
  /\ tokens' = [tokens EXCEPT ![u] = "expired"]
  /\ UNCHANGED <<client, conn, relay, identities, process, changed>>

Init ==
  /\ client = [u \in Users |-> Offline]
  /\ conn = [c \in Conns |-> Closed]
  /\ free = Budget /\ active_identities = {} /\ jobs = <<>>
  /\ identities = {} /\ tokens = [u \in Users |-> "issued"]
  /\ process = "running" /\ changed = {}

ClientStep(u) == (\E c \in Conns : Dial(u, c)) \/ Break(u) \/ SendRequest(u) \/ Reopen(u)

HandshakeStep(c) ==
  \/ AcquireHandshakePermit(c) \/ SubmitEnrollment(c) \/ EnrollmentQueueFull(c)
  \/ EnrollmentRefused(c) \/ register(c) \/ AlreadyActive(c) \/ IdentifyAccepted(c)

SessionStep(c) ==
  \/ AcquirePermit(c) \/ ReadFrame(c) \/ RateLimited(c) \/ Submit(c) \/ QueueFull(c)
  \/ Answer(c) \/ Reply(c) \/ ReleaseLease(c) \/ SendNotice(c) \/ NoticeWritten(c)
  \/ EndConnection(c) \/ StopWaiting(c)

Execute == ExecuteEnroll \/ \E result \in {"accepted", "other"} : ExecuteDeliver(result)

Next ==
  \/ \E u \in Users : ClientStep(u) \/ issue_enrollment(u) \/ TokenExpires(u)
  \/ \E c \in Conns : HandshakeStep(c) \/ SessionStep(c)
  \/ Execute \/ Stop \/ Exit \/ Restart

Spec == Init /\ [][Next]_vars

=============================================================================
