----------------------------- MODULE AtomicStore -----------------------------
(***************************************************************************)
(* What the client database promises the engine: an operation takes place  *)
(* as a whole, from the state that the previous one left, or not at all.   *)
(***************************************************************************)
EXTENDS StoreTables

VARIABLE tables

Init == tables = EmptyTables

\* A room is entered once: its group is never replaced by a new one.
Enters(o) == o.kind \in {"create", "join"}
May(o) ==
  /\ Allowed(o, tables)
  /\ Enters(o) => tables.mls_groups[o.room] = None /\ o.room \notin tables.cursors

Operate(o) == May(o) /\ tables' = Applied(o, StepsOf[o.kind], tables)

\* The single statements outside a transaction: a room is asked for, a
\* published batch of packages is confirmed.
Ask(o) ==
  /\ o.kind = "create" /\ o.room \in OwnRooms /\ Fresh(o.id, tables)
  /\ tables' = [tables EXCEPT !.outbox = @ \cup {Entry(o, "create", NewGroup(0))}]
Confirm(o) ==
  /\ o.kind = "publish" /\ Journalled(o, "publish", tables)
  /\ tables' = [tables EXCEPT !.outbox = {e \in @ : e.id # o.id}]

\* Said first, that the tables change spares most steps the search.
Next == tables' # tables /\ \E o \in Operations : Operate(o) \/ Ask(o) \/ Confirm(o)

Spec == Init /\ [][Next]_tables

=============================================================================
