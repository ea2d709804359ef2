----------------------------- MODULE ClientStore -----------------------------
(***************************************************************************)
(* MlsSession::atomic over the client database: the groups cached in       *)
(* memory, the application transaction that mls-rs writes into through the *)
(* storage provider, and what failures leave behind.  Every statement may  *)
(* fail, SQLite may give the transaction up when one does, and the process *)
(* may stop between any two steps.                                         *)
(*                                                                         *)
(* One thread runs the operations, one at a time.  The connection sees     *)
(* `work`; it becomes `durable` at COMMIT, or with each statement when no  *)
(* transaction is open.                                                    *)
(***************************************************************************)
EXTENDS StoreTables

CONSTANT CacheLimit   \* groups cached at a time (8)

VARIABLES
  durable,   \* the committed tables
  work,      \* the tables as the connection sees them
  open,      \* SQLite has a transaction open
  owner,     \* ClientStore::owner is set
  poisoned,  \* ClientStore::poisoned
  cache,     \* room -> group held in memory, or None
  op,        \* the operation under way, or None
  running,   \* FALSE once an error has ended the program
  ids_drawn, \* identifiers drawn so far
  sent       \* history: appends that have been in the durable outbox

store == <<durable, work, open, owner, poisoned>>
storeVars == <<store, cache, op, running, ids_drawn, sent>>

\* An operation, what it has done, the group it found, and how it failed.
UnderWay == [o : Operations, done : SUBSET DOMAIN Order, base : Groups \cup {None},
             failed : BOOLEAN, fault : BOOLEAN]

StoreAssumption == CacheLimit \in Nat \ {0} /\ None \notin UnderWay
ASSUME StoreAssumption

NoGroups == [r \in Rooms |-> None]

StoreInit ==
  /\ durable = EmptyTables /\ work = EmptyTables
  /\ open = FALSE /\ owner = FALSE /\ poisoned = FALSE
  /\ cache = NoGroups /\ op = None /\ running = TRUE
  /\ ids_drawn = {} /\ sent = {}

\* One statement: without a transaction it is durable at once.
Execute(t) ==
  /\ work' = t
  /\ durable' = IF open THEN durable ELSE t
  /\ sent' = sent \cup Appends(durable')

Idle == op = None /\ running /\ ~poisoned

DrawId(id) == id \notin ids_drawn /\ ids_drawn' = ids_drawn \cup {id}

(***************************************************************************)
(* Single statements outside a transaction.                                *)
(***************************************************************************)
\* The CreateRoom command journals its request.
Ask(o) ==
  /\ Idle /\ o.kind = "create" /\ o.room \in OwnRooms /\ DrawId(o.id)
  /\ \A e \in work.outbox : e.what = "create" => e.room # o.room
  /\ o.room \notin work.cursors
  /\ Execute([work EXCEPT !.outbox = @ \cup {Entry(o, "create", NewGroup(0))}])
  /\ UNCHANGED <<open, owner, poisoned, cache, op, running>>

\* KeyPackagesPublished removes the entry.
Confirm(o) ==
  /\ Idle /\ o.kind = "publish" /\ Journalled(o, "publish", work)
  /\ Execute([work EXCEPT !.outbox = {e \in @ : e.id # o.id}])
  /\ UNCHANGED <<open, owner, poisoned, cache, op, running, ids_drawn>>

(***************************************************************************)
(* The cache of groups.                                                    *)
(***************************************************************************)
Cached == {r \in Rooms : cache[r] # None}
Evicted == IF Cardinality(Cached) >= CacheLimit THEN NoGroups ELSE cache

\* group_mut: whether the group was there, and what is cached afterwards.  A
\* load fails when nothing is stored, and may fail anyway: a statement fails,
\* or a member is not verified.
Loaded(room, ok) ==
  IF cache[room] # None THEN ok /\ cache' = cache
  ELSE /\ ok => work.mls_groups[room] # None
       /\ cache' = IF ok THEN [Evicted EXCEPT ![room] = work.mls_groups[room]] ELSE Evicted

\* has_group, called by the engine between operations.
Peek(room) ==
  /\ Idle /\ \E ok \in BOOLEAN : Loaded(room, ok)
  /\ UNCHANGED <<store, op, running, ids_drawn, sent>>

\* A transport failure ends the session; the program connects again.
Disconnect ==
  /\ Idle /\ cache' = NoGroups
  /\ UNCHANGED <<store, op, running, ids_drawn, sent>>

(***************************************************************************)
(* MlsSession::atomic.                                                     *)
(***************************************************************************)
\* ClientStore::transaction: BEGIN IMMEDIATE.
Begin(o) ==
  /\ Idle /\ ~owner /\ ~open /\ Allowed(o, work)
  /\ IF o.kind \in Draws THEN DrawId(o.id) ELSE ids_drawn' = ids_drawn
  /\ open' = TRUE /\ owner' = TRUE
  /\ op' = [o |-> o, done |-> {}, base |-> None, failed |-> FALSE, fault |-> FALSE]
  /\ UNCHANGED <<durable, work, poisoned, cache, running, sent>>

Steps == StepsOf[op.o.kind]

\* The next step of the operation is `s`.
Due(s) ==
  /\ op # None /\ ~op.failed /\ s \in Steps \ op.done
  /\ \A r \in Steps : Order[r] < Order[s] => r \in op.done

Done(s) == op' = [op EXCEPT !.done = @ \cup {s}]

\* SQLite may roll the transaction back when a statement fails.
MayGiveUp ==
  \/ UNCHANGED <<work, open>>
  \/ open /\ open' = FALSE /\ work' = durable

\* The error is returned through `?`.
Error(fault) ==
  /\ op' = [op EXCEPT !.failed = TRUE, !.fault = fault]
  /\ MayGiveUp
  /\ UNCHANGED <<durable, owner, poisoned, running, ids_drawn, sent>>

\* create_group and join read a failed load as "there is no group".  A group that
\* is there already is refused for a join; no room is created twice.
Swallows == op.o.kind \in {"create", "join"}

Find(ok) ==
  /\ Due("find") /\ Loaded(op.o.room, ok)
  /\ \/ /\ ok # Swallows /\ Done("find")
        /\ IF ok THEN UNCHANGED <<work, open>> ELSE MayGiveUp
        /\ UNCHANGED <<durable, owner, poisoned, running, ids_drawn, sent>>
     \/ ok = Swallows /\ Error(FALSE)

\* The library changes the group in memory only.
Change ==
  /\ Due("change")
  /\ cache' = [cache EXCEPT ![op.o.room] = Changed(op.o.kind, cache[op.o.room])]
  /\ op' = [op EXCEPT !.done = @ \cup {"change"}, !.base = cache[op.o.room]]
  /\ UNCHANGED <<store, running, ids_drawn, sent>>

\* Authenticated data, sender and roster are checked after the change.
CheckEvent ==
  /\ Due("check") /\ Done("check")
  /\ UNCHANGED <<store, cache, running, ids_drawn, sent>>
Refuse ==
  /\ Due("check") /\ Error(TRUE) /\ UNCHANGED cache

\* Mutant of Provide: require_transaction is dropped.
ProvideAnytime(s, t) ==
  /\ Due(s)
  /\ \/ Execute(t) /\ Done(s) /\ UNCHANGED <<open, owner, poisoned, running, ids_drawn>>
     \/ Error(FALSE)
  /\ UNCHANGED cache

\* MlsStorage::write and the package store, inside the transaction only.
Provide(s, t) ==
  /\ Due(s)
  /\ \/ open /\ Execute(t) /\ Done(s) /\ UNCHANGED <<open, owner, poisoned, running, ids_drawn>>
     \/ Error(FALSE)
  /\ UNCHANGED cache

WriteState == Provide("state", StateWritten(op.o.room, cache[op.o.room], work))
WriteEpochs == Provide("epochs", EpochsWritten(op.o.room, cache[op.o.room], work))
WritePackage == Provide("package", PackageWritten(op.o, work))

\* The rows of the engine.  A second cursor for a room breaks the key.
WriteRows ==
  /\ Due("rows")
  /\ \/ /\ op.o.kind = "join" => op.o.room \notin work.cursors
        /\ Execute(RowsWritten(op.o, op.base, work)) /\ Done("rows")
        /\ UNCHANGED <<open, owner, poisoned, running, ids_drawn>>
     \/ Error(FALSE)
  /\ UNCHANGED cache

\* ClientTransaction::commit.
Commit ==
  /\ op # None /\ ~op.failed /\ op.done = Steps /\ open
  /\ durable' = work /\ sent' = sent \cup Appends(work)
  /\ open' = FALSE /\ owner' = FALSE /\ op' = None
  /\ UNCHANGED <<work, poisoned, cache, running, ids_drawn>>
CommitFails ==
  /\ op # None /\ ~op.failed /\ op.done = Steps
  /\ Error(FALSE) /\ UNCHANGED cache

\* The engine goes on after a rejected command, a blocked Welcome and a fault
\* of a received message; any other error ends the program.
Survives == op.fault \/ op.o.kind \in {"publish", "join"}

\* The transaction is dropped: ROLLBACK, which fails when there is none, or for
\* a reason of its own; a store that could not roll back takes no more work.
\* Then atomic forgets every group.
RolledBack ==
  \/ /\ open /\ work' = durable /\ open' = FALSE /\ owner' = FALSE
     /\ UNCHANGED poisoned
  \/ poisoned' = TRUE /\ UNCHANGED <<work, open, owner>>

\* Mutant of Abort: atomic keeps its groups.
AbortKeepsGroups ==
  /\ op # None /\ op.failed
  /\ RolledBack
  /\ op' = None /\ running' = Survives
  /\ UNCHANGED <<durable, cache, ids_drawn, sent>>

Abort ==
  /\ op # None /\ op.failed
  /\ RolledBack
  /\ cache' = NoGroups
  /\ op' = None /\ running' = Survives
  /\ UNCHANGED <<durable, ids_drawn, sent>>

\* The program is stopped at any point, or has ended, and starts again.
StartAgain ==
  /\ work' = durable /\ open' = FALSE /\ owner' = FALSE /\ poisoned' = FALSE
  /\ cache' = NoGroups /\ op' = None /\ running' = TRUE
  /\ UNCHANGED <<durable, ids_drawn, sent>>

Operation ==
  \/ \E ok \in BOOLEAN : Find(ok)
  \/ Change \/ CheckEvent \/ Refuse
  \/ WriteState \/ WriteEpochs \/ WritePackage \/ WriteRows
  \/ Commit \/ CommitFails \/ Abort

StoreNext ==
  \/ \E o \in Operations : Ask(o) \/ Confirm(o) \/ Begin(o)
  \/ \E r \in Rooms : Peek(r)
  \/ Disconnect \/ Operation \/ StartAgain

StoreSpec == StoreInit /\ [][StoreNext]_storeVars

=============================================================================
