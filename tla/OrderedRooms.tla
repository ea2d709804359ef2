---------------------------- MODULE OrderedRooms ----------------------------
(***************************************************************************)
(* What delivery promises the members of a room: one order of events, seen *)
(* by every member without gaps from the point where the member joined,    *)
(* and extended only by a member who has seen all of it.                   *)
(***************************************************************************)
EXTENDS Naturals, Sequences

CONSTANTS Users, Rooms, Ids, None

VARIABLES
  log,   \* room -> events
  seen   \* user -> room -> how much of the log was applied, None for outsiders

Init ==
  /\ log = [r \in Rooms |-> << >>]
  /\ seen = [u \in Users |-> [r \in Rooms |-> None]]

Used(id) == \E r \in Rooms : \E s \in DOMAIN log[r] : log[r][s].id = id

Extend(u, r, id) ==
  /\ seen[u][r] = Len(log[r])
  /\ ~Used(id)
  /\ log' = [log EXCEPT ![r] = Append(@, [id |-> id, sender |-> u])]
  /\ UNCHANGED seen

Apply(u, r) ==
  /\ seen[u][r] \in 0..(Len(log[r]) - 1)
  /\ seen' = [seen EXCEPT ![u][r] = @ + 1]
  /\ UNCHANGED log

Enter(u, r) ==
  /\ seen[u][r] = None
  /\ \E s \in 0..Len(log[r]) : seen' = [seen EXCEPT ![u][r] = s]
  /\ UNCHANGED log

\* A step that extends a log changes it: said first, it spares most steps the
\* search for an event.
Next ==
  \/ log' # log /\ \E u \in Users, r \in Rooms, id \in Ids : Extend(u, r, id)
  \/ \E u \in Users, r \in Rooms : Apply(u, r) \/ Enter(u, r)

Spec == Init /\ [][Next]_<<log, seen>>

=============================================================================
