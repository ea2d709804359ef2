----------------------------- MODULE StoreTables -----------------------------
(***************************************************************************)
(* The tables of the client database that MLS operations change, and what  *)
(* each operation changes in them.  A group state is its epoch, how far    *)
(* the epoch's ratchets have moved, and whether a commit is pending.       *)
(***************************************************************************)
EXTENDS Options, Naturals, FiniteSets

CONSTANTS
  Rooms,
  OwnRooms,       \* the rooms this client creates; it is welcomed to the others
  Ids,       \* random identifiers: requests, and the packages published by them
  MaxEpoch,  \* bound: epochs of a group
  MaxGen     \* bound: messages of an epoch, sent or opened

Groups == [epoch : 0..MaxEpoch, gen : 0..MaxGen, pending : BOOLEAN]

\* A journalled request; an append carries the epoch and generation it uses.
Entries == [id : Ids, what : {"create", "publish", "app", "commit"}, room : Rooms \cup {None},
            epoch : 0..MaxEpoch, gen : 0..MaxGen]

TablesAssumption ==
  MaxEpoch \in Nat \ {0} /\ MaxGen \in Nat /\ OwnRooms \subseteq Rooms /\ None \notin Groups
ASSUME TablesAssumption

Tables == [mls_groups : [Rooms -> Groups \cup {None}],
           mls_epochs : [Rooms -> SUBSET (0..MaxEpoch)],
           mls_packages : SUBSET Ids,
           outbox : SUBSET Entries,
           cursors : SUBSET Rooms]

EmptyTables == [mls_groups |-> [r \in Rooms |-> None], mls_epochs |-> [r \in Rooms |-> {}],
                mls_packages |-> {}, outbox |-> {}, cursors |-> {}]

\* The steps of an operation, in the order in which they are taken: find the
\* group, change it in memory, check what was received, write the group state,
\* the retained epochs and the packages, then the rows of the application.
Order == [find |-> 1, change |-> 2, check |-> 3, state |-> 4, epochs |-> 5,
          package |-> 6, rows |-> 7]

StepsOf == [publish |-> {"package", "rows"},
            create  |-> {"find", "change", "state", "rows"},
            send    |-> {"find", "change", "state", "rows"},
            add     |-> {"find", "change", "state", "rows"},
            drop    |-> {"rows"},
            discard |-> {"find", "change", "state", "rows"},
            settle  |-> {"rows"},
            apply   |-> {"find", "change", "state", "epochs", "rows"},
            open    |-> {"find", "change", "check", "state", "rows"},
            follow  |-> {"find", "change", "check", "state", "epochs", "rows"},
            join    |-> {"find", "change", "check", "state", "package", "rows"}]

Kinds == DOMAIN StepsOf

\* What is received comes under the sender's identifier, not one of ours; a
\* publication is about no room.
Received == {"open", "follow"}
Operations == [kind : Kinds \ (Received \cup {"publish"}), room : Rooms, id : Ids]
                \cup [kind : Received, room : Rooms, id : {None}]
                \cup [kind : {"publish"}, room : {None}, id : Ids]

\* These draw their identifier when they begin.
Draws == {"publish", "send", "add"}

Entry(o, what, g) == [id |-> o.id, what |-> what, room |-> o.room,
                      epoch |-> g.epoch, gen |-> g.gen]
Appends(t) == {e \in t.outbox : e.what \in {"app", "commit"}}
Fresh(id, t) == id \notin t.mls_packages /\ \A e \in t.outbox : e.id # id
Waiting(room, t) == {e \in Appends(t) : e.room = room}
Journalled(o, what, t) == \E e \in t.outbox : e.id = o.id /\ e.what = what /\ e.room = o.room

\* The group holds, no attempt is outstanding, and the bounds leave room.
Ready(room, t) ==
  /\ t.mls_groups[room] # None /\ Waiting(room, t) = {}
  /\ ~t.mls_groups[room].pending
MaySend(room, t) == Ready(room, t) /\ t.mls_groups[room].gen < MaxGen
MayAdvance(room, t) == Ready(room, t) /\ t.mls_groups[room].epoch < MaxEpoch

\* When the engine starts the operation.
Allowed(o, t) ==
  \/ o.kind = "publish" /\ Fresh(o.id, t)
  \/ o.kind = "create" /\ Journalled(o, "create", t)
  \/ o.kind = "send" /\ Fresh(o.id, t) /\ MaySend(o.room, t)
  \/ o.kind = "add" /\ Fresh(o.id, t) /\ MayAdvance(o.room, t)
  \/ o.kind \in {"drop", "settle"} /\ Journalled(o, "app", t)
  \/ o.kind \in {"discard", "apply"} /\ Journalled(o, "commit", t)
  \/ o.kind = "open" /\ MaySend(o.room, t)
  \/ o.kind = "follow" /\ MayAdvance(o.room, t)
  \/ o.kind = "join" /\ o.room \notin OwnRooms /\ o.id \in t.mls_packages

\* What the library makes of the group in memory.
NewGroup(epoch) == [epoch |-> epoch, gen |-> 0, pending |-> FALSE]

\* Mutant of Changed: a received message is opened in the group as it was at the
\* start of the epoch.
ChangedStale(kind, g) ==
  CASE kind = "create" -> NewGroup(0)
    [] kind = "join" -> NewGroup(1)
    [] kind = "send" -> [g EXCEPT !.gen = @ + 1]
    [] kind = "open" -> NewGroup(g.epoch)
    [] kind = "add" -> [g EXCEPT !.pending = TRUE]
    [] kind = "discard" -> [g EXCEPT !.pending = FALSE]
    [] kind \in {"apply", "follow"} -> NewGroup(g.epoch + 1)

Changed(kind, g) ==
  CASE kind = "create" -> NewGroup(0)
    [] kind = "join" -> NewGroup(1)
    [] kind \in {"send", "open"} -> [g EXCEPT !.gen = @ + 1]
    [] kind = "add" -> [g EXCEPT !.pending = TRUE]
    [] kind = "discard" -> [g EXCEPT !.pending = FALSE]
    [] kind \in {"apply", "follow"} -> NewGroup(g.epoch + 1)

\* What write_to_storage stores for a group: its state, and the epoch it left.
StateWritten(room, g, t) == [t EXCEPT !.mls_groups[room] = g]
EpochsWritten(room, g, t) == [t EXCEPT !.mls_epochs[room] = @ \cup {g.epoch - 1}]

PackageWritten(o, t) ==
  [t EXCEPT !.mls_packages = IF o.kind = "publish" THEN @ \cup {o.id} ELSE @ \ {o.id}]

\* The rows of the application; `g` is the group as the operation found it.
RowsWritten(o, g, t) ==
  CASE o.kind = "publish" -> [t EXCEPT !.outbox = @ \cup {Entry(o, "publish", NewGroup(0))}]
    [] o.kind = "send" -> [t EXCEPT !.outbox = @ \cup {Entry(o, "app", g)}]
    [] o.kind = "add" -> [t EXCEPT !.outbox = @ \cup {Entry(o, "commit", g)}]
    [] o.kind = "join" -> [t EXCEPT !.cursors = @ \cup {o.room}]
    [] o.kind = "create" -> [t EXCEPT !.cursors = @ \cup {o.room},
                                      !.outbox = {e \in @ : e.id # o.id}]
    [] o.kind \in {"drop", "settle", "discard", "apply"} ->
         [t EXCEPT !.outbox = {e \in @ : e.id # o.id}]
    [] o.kind \in Received -> t

\* What step `s` of the operation makes of the tables `t`.
Written(o, s, g, t) ==
  CASE s = "state" -> StateWritten(o.room, Changed(o.kind, g), t)
    [] s = "epochs" -> EpochsWritten(o.room, Changed(o.kind, g), t)
    [] s = "package" -> PackageWritten(o, t)
    [] s = "rows" -> RowsWritten(o, g, t)

\* What the steps `done` of the operation make of the database `db`.
Applied(o, done, db) ==
  LET Put(s, t) == IF s \in done THEN Written(o, s, db.mls_groups[o.room], t) ELSE t
  IN  Put("rows", Put("package", Put("epochs", Put("state", db))))

=============================================================================
