---------------------------- MODULE MCTransport ----------------------------
(***************************************************************************)
(* Progress of what carries requests, on small instances.  Two parts that  *)
(* share no state: frames cross a connection ("link"), or the sessions of  *)
(* the relay serve the requests of clients ("sessions").                   *)
(***************************************************************************)
EXTENDS RelaySessionProps, FrameLink

VARIABLE part

MCMessages == {<<0, 4>>, <<7>>}

\* No token expires: whoever has sent a request needs none any more.
NoExpiry == \A u \in Users : tokens'[u] # "expired"

MCInit == Init /\ LinkInit /\ part \in {"sessions", "link"}
MCNext ==
  /\ UNCHANGED part
  /\ \/ part = "sessions" /\ Next /\ NoExpiry /\ UNCHANGED linkVars
     \/ part = "link" /\ LinkNext /\ UNCHANGED vars

MCSpec ==
  /\ MCInit /\ [][MCNext]_<<vars, linkVars, part>>
  /\ (part = "sessions" /\ Fairness) \/ (part = "link" /\ LinkFairness)

=============================================================================
