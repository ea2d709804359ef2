------------------------------- MODULE MCRelay -------------------------------
(***************************************************************************)
(* The repository of the relay on small instances.  In the part "log", two *)
(* users race to create rooms and to append in them, with Welcomes, stale  *)
(* and future parents, reused message ids and byte limits.  In the part    *)
(* "packages", one recipient publishes packages and sets grants while they *)
(* are reserved by two users, with retries, a full pool and both rates.    *)
(* In the part "pages", recovery pages are filled and sent.                *)
(*                                                                         *)
(* Requests of the first two parts touch different tables, and pages none, *)
(* so a run plays one part at a time.                                      *)
(***************************************************************************)
EXTENDS RelayDeliveryProps, MCPages, TLC

CONSTANTS a, b, r1, r2, body, empty

VARIABLE part

\* A Welcome makes an append dearer.
MCCost(req) ==
  IF req.kind = "AppendRoomOperation" /\ req.welcome # None THEN 2 ELSE 1

AppendsTo(room, parents) ==
  {[kind |-> "AppendRoomOperation", room |-> room, parent |-> p, body |-> body,
    welcome |-> w] : p \in parents, w \in {None, b}}

LogRequests ==
  {[kind |-> "CreateRoom", valid |-> v] : v \in BOOLEAN}
    \cup AppendsTo(r1, 0..MaxSequence) \cup AppendsTo(r2, {0})
    \cup {[kind |-> "AppendRoomOperation", room |-> r1, parent |-> 0, body |-> empty,
           welcome |-> None]}

PackageRequests ==
  {[kind |-> "PublishKeyPackages", count |-> n] : n \in {0, 2}}
    \cup {[kind |-> "SetFetchGrant", requester |-> u, allowed |-> g] :
            u \in Users, g \in BOOLEAN}
    \cup {[kind |-> "ReserveKeyPackage", recipient |-> b]}

MCRequests == LogRequests \cup PackageRequests

\* Two message ids are enough for the log.
IdsTold == {result.id : result \in told}
LogIds == IF Cardinality(IdsTold) < 2 THEN Ids ELSE IdsTold
LogDeliver ==
  \E user \in Users, id \in LogIds, req \in LogRequests :
    \E resp \in Answers(user, id, req) : deliver(user, id, req, resp)
LogNext == LogDeliver \/ Acknowledge

\* Pages start after a position of one byte, of as many as the last invitation's,
\* or of the most there are.
PageStarts == {1, 3, 9}

MCInit == Init /\ PageInit /\ part \in {"log", "packages", "pages"}
MCNext ==
  /\ UNCHANGED part
  /\ \/ part = "log" /\ LogNext /\ UNCHANGED pageVars
     \/ part = "packages" /\ (Deliver(PackageRequests) \/ AllocationExpires) /\ UNCHANGED pageVars
     \/ part = "pages" /\ PageNext /\ after' \in PageStarts /\ UNCHANGED vars
MCSpec == MCInit /\ [][MCNext]_<<vars, pageVars, part>>

\* Message ids are interchangeable.
Symmetry == Permutations(Ids)

=============================================================================
