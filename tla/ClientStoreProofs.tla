-------------------------- MODULE ClientStoreProofs --------------------------
(***************************************************************************)
(* Proofs about the client store, for every set of rooms and identifiers   *)
(* and every limit: the cache follows the database, no generation is used  *)
(* twice, and the store implements operations that are atomic.             *)
(*                                                                         *)
(* The argument: `Database` holds of the committed tables and is kept by   *)
(* every whole operation; `InProgress` says how far an operation has got,  *)
(* so that what COMMIT makes durable is the whole operation, applied to    *)
(* the tables that it started from.                                        *)
(***************************************************************************)
EXTENDS ClientStoreProps, StoreTablesProofs, FiniteSetTheorems

\* The groups `c` in memory keep within the limit.
Full(c) == {r \in Rooms : c[r] # None}
Fits(c) ==
  /\ c \in [Rooms -> Groups \cup {None}]
  /\ IsFiniteSet(Full(c)) /\ Cardinality(Full(c)) <= CacheLimit

\* Between operations.
Rest ==
  /\ \A r \in Cached : cache[r] = durable.mls_groups[r]
  /\ ~poisoned => ~open /\ ~owner /\ work = durable

\* How far the operation has got: it has taken its first steps, the connection
\* sees what they wrote, or nothing when SQLite gave the transaction up, and the
\* group in memory is the stored one, or what the library made of it.
Taken == \A s \in op.done, r \in Steps : Order[r] < Order[s] => r \in op.done
Seen ==
  /\ open => work = Applied(op.o, op.done, durable)
  /\ ~open => work = durable /\ Swallows /\ "state" \notin op.done
Held ==
  LET room == op.o.room
      g == durable.mls_groups[room]
  IN  /\ \A r \in Cached : r # room \/ "change" \notin op.done => cache[r] = durable.mls_groups[r]
      /\ "find" \in op.done /\ "change" \notin op.done =>
           IF Swallows THEN cache[room] = None /\ Cardinality(Cached) < CacheLimit
           ELSE cache[room] = g
      /\ "change" \in op.done => cache[room] = Changed(op.o.kind, g) /\ (Swallows \/ op.base = g)
InProgress ==
  /\ Taken /\ Seen /\ Held
  /\ op.o.kind = "join" /\ "rows" \in op.done => op.o.room \notin durable.cursors

Pending ==
  /\ op \in UnderWay /\ Allowed(op.o, durable)
  /\ op.o.kind \in Draws => op.o.id \in ids_drawn
  /\ op.done \subseteq Steps
  /\ ~op.failed => InProgress

StoreInv ==
  /\ Database(durable, ids_drawn, sent)
  /\ Fits(cache)
  /\ op = None => Rest
  /\ op # None => Pending

(***************************************************************************)
(* The groups in memory.                                                   *)
(***************************************************************************)
LEMMA EmptyFits == Fits(NoGroups) /\ Full(NoGroups) = {} /\ Cardinality(Full(NoGroups)) < CacheLimit
<1>1. Full(NoGroups) = {}
  BY Zenon DEF Full, NoGroups
<1>2. NoGroups \in [Rooms -> Groups \cup {None}]
  BY Zenon DEF NoGroups
<1> QED
  BY <1>1, <1>2, FS_EmptySet, StoreAssumption DEF Fits, StoreAssumption

\* One more group fits where there is room, or where there was one.
LEMMA PutFits ==
  ASSUME NEW c, Fits(c), NEW r \in Rooms, NEW g \in Groups,
         c[r] # None \/ Cardinality(Full(c)) < CacheLimit
  PROVE  Fits([c EXCEPT ![r] = g])
<1> DEFINE d == [c EXCEPT ![r] = g]
<1>1. None \notin Groups /\ CacheLimit \in Nat
  BY Zenon, StoreAssumption, TablesAssumption DEF StoreAssumption, TablesAssumption
<1>2. /\ c \in [Rooms -> Groups \cup {None}] /\ IsFiniteSet(Full(c)) /\ Cardinality(Full(c)) \in Nat
      /\ Cardinality(Full(c)) <= CacheLimit
  BY Zenon, FS_CardinalityType DEF Fits
<1>3. d \in [Rooms -> Groups \cup {None}]
  BY Zenon, <1>2
<1>4. Full(d) = Full(c) \cup {r}
  BY Zenon, <1>1, <1>2 DEF Full
<1>5. c[r] # None <=> r \in Full(c)
  BY Zenon DEF Full
<1>6. /\ IsFiniteSet(Full(d))
      /\ Cardinality(Full(d)) = IF r \in Full(c) THEN Cardinality(Full(c)) ELSE Cardinality(Full(c)) + 1
  <2> DEFINE S == Full(c)
  <2>1. IsFiniteSet(S) /\ Full(d) = S \cup {r}
    BY Zenon, <1>2, <1>4
  <2> HIDE DEF S
  <2>2. /\ IsFiniteSet(S \cup {r})
        /\ Cardinality(S \cup {r}) = IF r \in S THEN Cardinality(S) ELSE Cardinality(S) + 1
    BY Zenon, <2>1, FS_AddElement
  <2> QED
    BY Zenon, <2>1, <2>2 DEF S
<1> QED
  BY <1>1, <1>2, <1>3, <1>5, <1>6 DEF Fits

\* Loading a group keeps memory right: the group is the stored one, or there is
\* none and room for one.
LEMMA LoadKeeps ==
  ASSUME Fits(cache), work = durable, durable \in Tables, NEW room \in Rooms, NEW ok \in BOOLEAN,
         \A r \in Full(cache) : cache[r] = durable.mls_groups[r], Loaded(room, ok)
  PROVE  /\ Fits(cache') /\ \A r \in Full(cache') : cache'[r] = durable.mls_groups[r]
         /\ ok => cache'[room] = durable.mls_groups[room]
         /\ ~ok => cache'[room] = None /\ Cardinality(Full(cache')) < CacheLimit
<1>1. CASE cache[room] # None
  BY Zenon, <1>1 DEF Loaded, Full
<1>2. CASE cache[room] = None
  <2>1. /\ Fits(Evicted) /\ Cardinality(Full(Evicted)) < CacheLimit /\ Evicted[room] = None
        /\ \A r \in Full(Evicted) : Evicted[r] = durable.mls_groups[r]
    <3>1. CASE Cardinality(Cached) >= CacheLimit
      BY Zenon, <3>1, EmptyFits DEF Evicted, NoGroups
    <3>2. CASE ~(Cardinality(Cached) >= CacheLimit)
      <4>1. Cardinality(Full(cache)) \in Nat /\ CacheLimit \in Nat /\ Cached = Full(cache)
        BY Zenon, FS_CardinalityType, StoreAssumption DEF Fits, StoreAssumption, Full, Cached
      <4> QED
        BY <1>2, <3>2, <4>1 DEF Evicted
    <3> QED
      BY Zenon, <3>1, <3>2
  <2>2. CASE ok
    <3> DEFINE g == durable.mls_groups[room]
    <3>1. g \in Groups /\ cache' = [Evicted EXCEPT ![room] = g]
      BY Zenon, <1>2, <2>2 DEF Loaded, Tables
    <3> HIDE DEF g
    <3>2. Fits(cache')
      BY Zenon, <2>1, <3>1, PutFits
    <3>3. cache'[room] = g /\ \A r \in Rooms : r # room => cache'[r] = Evicted[r]
      BY Zenon, <2>1, <3>1 DEF Fits
    <3> QED
      BY Zenon, <2>1, <2>2, <3>2, <3>3 DEF Full, g
  <2>3. CASE ~ok
    <3>1. cache' = Evicted
      BY Zenon, <1>2, <2>3 DEF Loaded
    <3> QED
      BY Zenon, <2>1, <2>3, <3>1
  <2> QED
    BY Zenon, <2>2, <2>3
<1> QED
  BY Zenon, <1>1, <1>2

(***************************************************************************)
(* The steps of an operation.                                              *)
(***************************************************************************)
\* What the invariant says while an operation goes on.
LEMMA OpFacts ==
  ASSUME StoreInv, op # None
  PROVE  /\ op \in UnderWay /\ op.o \in Operations /\ op.o.kind \in Kinds /\ Pending
         /\ op.done \subseteq DOMAIN Order /\ Steps \subseteq DOMAIN Order
         /\ durable \in Tables /\ Attempts(durable) /\ Fits(cache) /\ Allowed(op.o, durable)
         /\ op.failed \in BOOLEAN
<1>1. op \in UnderWay /\ op.o \in Operations /\ op.failed \in BOOLEAN /\ op.done \subseteq DOMAIN Order
  BY Zenon DEF StoreInv, Pending, UnderWay
<1>2. op.o.kind \in Kinds /\ Steps \subseteq DOMAIN Order
  BY Zenon, <1>1, OperationFacts, StepFacts DEF Steps
<1> QED
  BY Zenon, <1>1, <1>2 DEF StoreInv, Pending, Database, Rows

\* The operation keeps its fields when one changes.
LEMMA OpFields ==
  ASSUME op \in UnderWay, NEW s \in DOMAIN Order
  PROVE  /\ LET p == [op EXCEPT !.done = @ \cup {s}]
            IN  /\ p \in UnderWay /\ p # None /\ p.o = op.o /\ p.done = op.done \cup {s}
                /\ p.base = op.base /\ p.failed = op.failed
         /\ \A f \in BOOLEAN :
              LET p == [op EXCEPT !.failed = TRUE, !.fault = f]
              IN  p \in UnderWay /\ p # None /\ p.o = op.o /\ p.done = op.done /\ p.failed = TRUE
         /\ \A g \in Groups \cup {None} :
              LET p == [op EXCEPT !.done = @ \cup {s}, !.base = g]
              IN  /\ p \in UnderWay /\ p # None /\ p.o = op.o /\ p.done = op.done \cup {s}
                  /\ p.base = g /\ p.failed = op.failed
<1>1. None \notin UnderWay
  BY Zenon, StoreAssumption DEF StoreAssumption
<1> DEFINE D == SUBSET DOMAIN Order
<1>2. op.done \cup {s} \in D
  BY Zenon DEF UnderWay
<1>3. UnderWay = [o : Operations, done : D, base : Groups \cup {None}, failed : BOOLEAN, fault : BOOLEAN]
  BY Zenon DEF UnderWay
<1> HIDE DEF D
<1> QED
  BY Zenon, <1>1, <1>2, <1>3

\* A due step comes after all that were taken.
LEMMA DueLast ==
  ASSUME StoreInv, NEW s, Due(s)
  PROVE  /\ op # None /\ ~op.failed /\ s \in Steps /\ s \in DOMAIN Order /\ s \notin op.done
         /\ InProgress
         /\ \A r \in op.done : r \in DOMAIN Order /\ Order[r] < Order[s]
         /\ \A r \in Steps : Order[r] < Order[s] => r \in op.done
<1>1. /\ op # None /\ ~op.failed /\ s \in Steps /\ s \notin op.done
      /\ \A r \in Steps : Order[r] < Order[s] => r \in op.done
  BY Zenon DEF Due
<1>2. op.done \subseteq DOMAIN Order /\ s \in DOMAIN Order /\ InProgress
  BY Zenon, <1>1, OpFacts DEF Pending
<1>3. ASSUME NEW r \in op.done PROVE Order[r] < Order[s]
  <2>1. ~(Order[s] < Order[r])
    BY Zenon, <1>1, <1>2 DEF InProgress, Taken
  <2>2. r # s /\ r \in DOMAIN Order
    BY Zenon, <1>1, <1>2
  <2> QED
    BY <1>2, <2>1, <2>2, OrderFacts
<1> QED
  BY Zenon, <1>1, <1>2, <1>3

\* One more step leaves no gap.
LEMMA TakenNext ==
  ASSUME StoreInv, NEW s, Due(s), op'.o = op.o, op'.done = op.done \cup {s}
  PROVE  Taken' /\ op'.done \subseteq Steps' /\ Steps' = Steps
<1>1. /\ s \in Steps /\ Taken /\ op.done \subseteq Steps
      /\ \A r \in Steps : Order[r] < Order[s] => r \in op.done
  BY Zenon, DueLast DEF InProgress, StoreInv, Pending
<1>2. Steps' = Steps
  BY Zenon DEF Steps
<1> QED
  BY Zenon, <1>1, <1>2 DEF Taken

\* An error keeps the database and the memory that there is.
LEMMA ErrorKeeps ==
  ASSUME StoreInv, op # None, NEW f \in BOOLEAN, Error(f), Fits(cache')
  PROVE  StoreInv' /\ UNCHANGED durable
<1>1. op \in UnderWay /\ Pending
  BY Zenon, OpFacts
<1>2. /\ op' \in UnderWay /\ op' # None /\ op'.o = op.o /\ op'.done = op.done /\ op'.failed = TRUE
      /\ durable' = durable /\ ids_drawn' = ids_drawn /\ sent' = sent
  <2>1. "find" \in DOMAIN Order
    BY Zenon, OrderFacts
  <2> QED
    BY Zenon, <1>1, <2>1, OpFields DEF Error
<1>3. Pending'
  <2>1. Steps' = Steps
    BY Zenon, <1>2 DEF Steps
  <2> QED
    BY Zenon, <1>1, <1>2, <2>1 DEF Pending
<1>4. Database(durable, ids_drawn, sent)'
  BY Zenon, <1>2 DEF StoreInv
<1> QED
  BY Zenon, <1>2, <1>3, <1>4 DEF StoreInv

\* A step that succeeds keeps the invariant if what it does to the connection and
\* to memory is right.
LEMMA GoesOn ==
  ASSUME StoreInv, NEW s, Due(s), op' \in UnderWay, op' # None, op'.o = op.o,
         op'.done = op.done \cup {s}, op'.failed = op.failed,
         UNCHANGED <<durable, ids_drawn, sent>>, Fits(cache'), Seen', Held',
         s = "rows" /\ op.o.kind = "join" => op.o.room \notin durable.cursors
  PROVE  StoreInv'
<1>1. Pending /\ InProgress /\ ~op.failed
  BY Zenon, OpFacts, DueLast
<1>2. Taken' /\ op'.done \subseteq Steps'
  BY Zenon, TakenNext
<1>3. InProgress'
  BY Zenon, <1>1, <1>2 DEF InProgress
<1>4. Pending'
  BY Zenon, <1>1, <1>2, <1>3 DEF Pending
<1>5. Database(durable, ids_drawn, sent)'
  BY Zenon DEF StoreInv
<1> QED
  BY Zenon, <1>4, <1>5 DEF StoreInv

\* Nothing is written, and nothing in memory changed, before the group is found.
LEMMA BeforeFind ==
  ASSUME StoreInv, Due("find")
  PROVE  /\ op.done = {} /\ work = durable /\ op.o.room \in Rooms
         /\ \A r \in Full(cache) : cache[r] = durable.mls_groups[r]
<1>1. InProgress /\ op # None /\ "find" \in Steps /\ \A r \in op.done : r \in DOMAIN Order /\ Order[r] < 1
  BY Zenon, DueLast, OrderFacts
<1>2. op.done = {}
  BY <1>1, OrderFacts
<1>3. Applied(op.o, {}, durable) = durable
  BY AppliedNothing
<1>4. work = durable
  BY Zenon, <1>1, <1>2, <1>3 DEF InProgress, Seen
<1>5. op.o.room \in Rooms
  BY Zenon, <1>1, OpFacts, StepFacts, OperationFacts DEF Steps
<1>6. \A r \in Full(cache) : cache[r] = durable.mls_groups[r]
  BY Zenon, <1>1, <1>2 DEF InProgress, Held, Full, Cached
<1> QED
  BY <1>2, <1>4, <1>5, <1>6

LEMMA FindKeeps ==
  ASSUME StoreInv, NEW ok \in BOOLEAN, Find(ok)
  PROVE  StoreInv' /\ UNCHANGED durable
<1>1. Due("find") /\ Loaded(op.o.room, ok)
  BY Zenon DEF Find
<1>2. /\ op # None /\ op \in UnderWay /\ durable \in Tables /\ Fits(cache)
  BY Zenon, <1>1, OpFacts, DueLast
<1>3. /\ op.done = {} /\ work = durable /\ op.o.room \in Rooms
      /\ \A r \in Full(cache) : cache[r] = durable.mls_groups[r]
  BY Zenon, <1>1, BeforeFind
<1>4. /\ Fits(cache') /\ \A r \in Full(cache') : cache'[r] = durable.mls_groups[r]
      /\ ok => cache'[op.o.room] = durable.mls_groups[op.o.room]
      /\ ~ok => cache'[op.o.room] = None /\ Cardinality(Full(cache')) < CacheLimit
  BY <1>1, <1>2, <1>3, LoadKeeps
<1>5. CASE Error(FALSE)
  BY Zenon, <1>2, <1>4, <1>5, ErrorKeeps
<1>6. CASE /\ ok # Swallows /\ Done("find")
           /\ IF ok THEN UNCHANGED <<work, open>> ELSE MayGiveUp
           /\ UNCHANGED <<durable, owner, poisoned, running, ids_drawn, sent>>
  <2>1. /\ op' \in UnderWay /\ op' # None /\ op'.o = op.o /\ op'.done = op.done \cup {"find"}
        /\ op'.failed = op.failed
    <3>1. "find" \in DOMAIN Order
      BY Zenon, OrderFacts
    <3> QED
      BY Zenon, <1>2, <1>6, <3>1, OpFields DEF Done
  <2>2. op'.done = {"find"} /\ Swallows' = Swallows
    BY Zenon, <1>3, <2>1 DEF Swallows
  <2>3. Applied(op'.o, op'.done, durable') = durable
    <3>1. op'.done \cap Writes = {}
      BY Zenon, <2>2 DEF Writes
    <3> QED
      BY Zenon, <1>6, <3>1, AppliedNothing
  <2>4. work' = durable /\ (~open' => open = FALSE \/ ~ok)
    BY <1>3, <1>6 DEF MayGiveUp
  <2>5. Seen'
    <3>1. ~open => Swallows
      BY Zenon, <1>1, DueLast DEF InProgress, Seen
    <3>2. ~ok => Swallows
      BY SMTT(30), <1>6 DEF Swallows
    <3> QED
      BY SMTT(30), <1>6, <2>2, <2>3, <2>4, <3>1, <3>2 DEF Seen
  <2>6. Held'
    <3>1. Cached' = Full(cache')
      BY Zenon DEF Cached, Full
    <3>2. IF Swallows THEN ~ok ELSE ok
      BY <1>6 DEF Swallows
    <3> QED
      BY Zenon, <1>4, <1>6, <2>1, <2>2, <3>1, <3>2 DEF Held
  <2> QED
    BY <1>1, <1>4, <1>6, <2>1, <2>5, <2>6, GoesOn
<1> QED
  BY Zenon, <1>5, <1>6 DEF Find

\* After "find", memory holds the group, or has room for one.
LEMMA ChangeKeeps ==
  ASSUME StoreInv, Change
  PROVE  StoreInv' /\ UNCHANGED durable
<1> DEFINE room == op.o.room
           g == durable.mls_groups[room]
           new == Changed(op.o.kind, g)
<1>1. /\ Due("change") /\ cache' = [cache EXCEPT ![room] = Changed(op.o.kind, cache[room])]
      /\ op' = [op EXCEPT !.done = @ \cup {"change"}, !.base = cache[room]]
      /\ UNCHANGED <<durable, work, open, ids_drawn, sent>>
  BY Zenon DEF Change, store
<1>2. /\ op # None /\ "change" \in Steps /\ InProgress /\ "change" \notin op.done
      /\ \A r \in Steps : Order[r] < 2 => r \in op.done
  BY Zenon, <1>1, DueLast, OrderFacts
<1>3. /\ op \in UnderWay /\ op.o \in Operations /\ op.o.kind \in Kinds /\ durable \in Tables
      /\ Attempts(durable) /\ Fits(cache) /\ Allowed(op.o, durable)
  BY Zenon, <1>2, OpFacts
<1>4. /\ "find" \in op.done /\ room \in Rooms /\ op.o.kind \notin {"publish", "drop", "settle"}
  <2>1. "find" \in Steps /\ op.o.kind \notin {"publish", "drop", "settle"}
    BY Zenon, <1>2, <1>3, StepFacts DEF Steps
  <2> QED
    BY SMTT(30), <1>2, <1>3, <2>1, OrderFacts, OperationFacts
<1>5. IF Swallows THEN cache[room] = None /\ Cardinality(Full(cache)) < CacheLimit
      ELSE cache[room] = g
  BY Zenon, <1>2, <1>4 DEF InProgress, Held, Full, Cached
<1>6. Changed(op.o.kind, cache[room]) = new
  BY Zenon, <1>5 DEF Changed, Swallows
<1>7. new \in Groups
  BY Zenon, <1>3, <1>4, GroupChange
<1>8. ~Swallows => g # None
  <2>1. None \notin Groups
    BY Zenon, StoreAssumption, TablesAssumption DEF StoreAssumption, TablesAssumption
  <2>2. ~Swallows => op.o.kind \in {"send", "open", "add", "discard", "apply", "follow"}
    BY Zenon, <1>3, <1>4 DEF Swallows, Kinds, StepsOf
  <2> QED
    BY Zenon, <1>3, <2>1, <2>2, GroupThere
<1> HIDE DEF new
<1>9. Fits(cache')
  BY Zenon, <1>1, <1>3, <1>4, <1>5, <1>6, <1>7, <1>8, PutFits
<1>10. /\ op' \in UnderWay /\ op' # None /\ op'.o = op.o /\ op'.done = op.done \cup {"change"}
       /\ op'.base = cache[room] /\ op'.failed = op.failed
  <2>1. "change" \in DOMAIN Order /\ cache[room] \in Groups \cup {None}
    BY Zenon, <1>3, <1>4, OrderFacts DEF Fits
  <2> QED
    BY ZenonT(30), <1>1, <1>3, <2>1, OpFields
<1>11. Seen'
  <2>1. Applied(op'.o, op'.done, durable') = Applied(op.o, op.done, durable)
    <3>1. "change" \notin Writes
      BY Zenon DEF Writes
    <3>2. Applied(op.o, op.done \cup {"change"}, durable) = Applied(op.o, op.done, durable)
      BY Zenon, <3>1, AppliedSame
    <3> QED
      BY Zenon, <1>1, <1>10, <3>2
  <2> QED
    BY Zenon, <1>1, <1>2, <1>10, <2>1 DEF InProgress, Seen, Swallows
<1>12. Held'
  <2>1. cache'[room] = new /\ \A r \in Rooms : r # room => cache'[r] = cache[r]
    BY Zenon, <1>1, <1>3, <1>4, <1>6 DEF Fits
  <2>2. \A r \in Cached' : r # room => r \in Cached /\ cache'[r] = durable.mls_groups[r]
    BY Zenon, <1>2, <2>1 DEF Cached, InProgress, Held
  <2> QED
    BY <1>1, <1>5, <1>10, <2>1, <2>2 DEF Held, Swallows, new
<1> QED
  BY Zenon, <1>1, <1>9, <1>10, <1>11, <1>12, GoesOn

LEMMA CheckKeeps ==
  ASSUME StoreInv, CheckEvent
  PROVE  StoreInv' /\ UNCHANGED durable
<1>1. /\ Due("check") /\ op' = [op EXCEPT !.done = @ \cup {"check"}]
      /\ UNCHANGED <<durable, work, open, cache, ids_drawn, sent>>
  BY Zenon DEF CheckEvent, Done, store
<1>2. op # None /\ op \in UnderWay /\ Fits(cache) /\ InProgress
  BY Zenon, <1>1, OpFacts, DueLast
<1>3. /\ op' \in UnderWay /\ op' # None /\ op'.o = op.o /\ op'.done = op.done \cup {"check"}
      /\ op'.base = op.base /\ op'.failed = op.failed
  <2>1. "check" \in DOMAIN Order
    BY Zenon, OrderFacts
  <2> QED
    BY Zenon, <1>1, <1>2, <2>1, OpFields
<1>4. Seen'
  <2>1. "check" \notin Writes
    BY Zenon DEF Writes
  <2>2. Applied(op.o, op.done \cup {"check"}, durable) = Applied(op.o, op.done, durable)
    BY Zenon, <2>1, AppliedSame
  <2> QED
    BY Zenon, <1>1, <1>2, <1>3, <2>2 DEF InProgress, Seen, Swallows
<1>5. Held'
  BY Zenon, <1>1, <1>2, <1>3 DEF InProgress, Held, Swallows, Cached
<1> QED
  BY Zenon, <1>1, <1>2, <1>3, <1>4, <1>5, GoesOn

\* A write inside the transaction: the connection sees one step more.
LEMMA WriteKeeps ==
  ASSUME StoreInv, NEW s \in Writes, Due(s), open, Done(s),
         work' = Written(op.o, s, durable.mls_groups[op.o.room], work),
         durable' = durable, sent' = sent \cup Appends(durable'),
         UNCHANGED <<open, ids_drawn, cache>>,
         s = "rows" /\ op.o.kind = "join" => op.o.room \notin durable.cursors
  PROVE  StoreInv'
<1>1. /\ op # None /\ op \in UnderWay /\ Fits(cache) /\ InProgress /\ s \in DOMAIN Order
      /\ s \notin op.done /\ \A r \in op.done : r \in DOMAIN Order /\ Order[r] < Order[s]
  BY Zenon, OpFacts, DueLast
<1>2. sent' = sent
  BY Zenon DEF StoreInv, Database, Used
<1>3. /\ op' \in UnderWay /\ op' # None /\ op'.o = op.o /\ op'.done = op.done \cup {s}
      /\ op'.base = op.base /\ op'.failed = op.failed
  BY Zenon, <1>1, OpFields DEF Done
<1>4. Seen'
  <2>1. Applied(op.o, op.done \cup {s}, durable)
          = Written(op.o, s, durable.mls_groups[op.o.room], Applied(op.o, op.done, durable))
    BY Zenon, <1>1, AppliedNext
  <2>2. work = Applied(op.o, op.done, durable)
    BY Zenon, <1>1 DEF InProgress, Seen
  <2> QED
    BY Zenon, <1>3, <2>1, <2>2 DEF Seen
<1>5. Held'
  <2>1. s \notin {"find", "change"}
    BY Zenon DEF Writes
  <2> QED
    BY Zenon, <1>1, <1>3, <2>1 DEF InProgress, Held, Swallows, Cached
<1> QED
  BY SMTT(30), <1>1, <1>2, <1>3, <1>4, <1>5, GoesOn

\* The group that is stored is the one in memory, and the one that it came from
\* is the stored one.
LEMMA WritesChanged ==
  ASSUME StoreInv, NEW s \in {"state", "epochs"}, Due(s)
  PROVE  cache[op.o.room] = Changed(op.o.kind, durable.mls_groups[op.o.room])
<1>1. /\ op # None /\ s \in Steps /\ InProgress /\ op.o.kind \in Kinds
      /\ \A r \in Steps : Order[r] < Order[s] => r \in op.done
  BY Zenon, OpFacts, DueLast
<1>2. "change" \in Steps
  BY Zenon, <1>1, StepFacts DEF Steps
<1>3. "change" \in op.done
  BY <1>1, <1>2, OrderFacts
<1> QED
  BY Zenon, <1>1, <1>3 DEF InProgress, Held

\* The provider's writes.
LEMMA ProvideKeeps ==
  ASSUME StoreInv, NEW s \in {"state", "epochs", "package"}, NEW t, Provide(s, t),
         t = Written(op.o, s, durable.mls_groups[op.o.room], work)
  PROVE  StoreInv' /\ UNCHANGED durable
<1>1. Due(s) /\ cache' = cache
  BY Zenon DEF Provide
<1>2. op # None /\ Fits(cache)
  BY Zenon, <1>1, OpFacts, DueLast
<1>3. CASE Error(FALSE)
  BY Zenon, <1>1, <1>2, <1>3, ErrorKeeps
<1>4. CASE open /\ Execute(t) /\ Done(s) /\ UNCHANGED <<open, owner, poisoned, running, ids_drawn>>
  <2>1. /\ s \in Writes /\ s # "rows" /\ work' = t /\ durable' = durable
        /\ sent' = sent \cup Appends(durable')
    BY Zenon, <1>4 DEF Execute, Writes
  <2> QED
    BY Zenon, <1>1, <1>4, <2>1, WriteKeeps
<1> QED
  BY Zenon, <1>3, <1>4 DEF Provide

LEMMA ProvidersKeep ==
  ASSUME StoreInv, WriteState \/ WriteEpochs \/ WritePackage
  PROVE  StoreInv' /\ UNCHANGED durable
<1> DEFINE g == durable.mls_groups[op.o.room]
<1>1. CASE WriteState
  <2>1. Due("state")
    BY Zenon, <1>1 DEF WriteState, Provide
  <2>2. StateWritten(op.o.room, cache[op.o.room], work) = Written(op.o, "state", g, work)
    BY Zenon, <2>1, WritesChanged DEF Written
  <2> QED
    BY Zenon, <1>1, <2>2, ProvideKeeps DEF WriteState
<1>2. CASE WriteEpochs
  <2>1. Due("epochs")
    BY Zenon, <1>2 DEF WriteEpochs, Provide
  <2>2. EpochsWritten(op.o.room, cache[op.o.room], work) = Written(op.o, "epochs", g, work)
    BY Zenon, <2>1, WritesChanged DEF Written
  <2> QED
    BY Zenon, <1>2, <2>2, ProvideKeeps DEF WriteEpochs
<1>3. CASE WritePackage
  <2>1. PackageWritten(op.o, work) = Written(op.o, "package", g, work)
    BY Zenon DEF Written
  <2> QED
    BY Zenon, <1>3, <2>1, ProvideKeeps DEF WritePackage
<1> QED
  BY Zenon, <1>1, <1>2, <1>3

\* The rows of the engine are written inside the transaction: where SQLite gave
\* it up, the provider has refused the group before.
LEMMA RowsKeep ==
  ASSUME StoreInv, WriteRows
  PROVE  StoreInv' /\ UNCHANGED durable
<1> DEFINE o == op.o
           g == durable.mls_groups[o.room]
<1>1. Due("rows") /\ cache' = cache
  BY Zenon DEF WriteRows
<1>2. /\ op # None /\ Fits(cache) /\ InProgress /\ o.kind \in Kinds /\ durable \in Tables
      /\ "rows" \notin op.done /\ \A r \in Steps : Order[r] < Order["rows"] => r \in op.done
  BY Zenon, <1>1, OpFacts, DueLast
<1>3. CASE Error(FALSE)
  BY Zenon, <1>1, <1>2, <1>3, ErrorKeeps
<1>4. CASE /\ op.o.kind = "join" => op.o.room \notin work.cursors
           /\ Execute(RowsWritten(op.o, op.base, work)) /\ Done("rows")
           /\ UNCHANGED <<open, owner, poisoned, running, ids_drawn>>
  <2>1. o.kind \notin {"publish", "drop", "settle"} => "state" \in op.done /\ "change" \in op.done
    <3>1. o.kind \notin {"publish", "drop", "settle"} => "state" \in Steps /\ "change" \in Steps
      BY Zenon, <1>2, StepFacts DEF Steps
    <3> QED
      BY SMTT(30), <1>2, <3>1, OrderFacts
  <2>2. open
    BY Zenon, <1>2, <2>1 DEF InProgress, Seen, Swallows
  <2>3. work = Applied(o, op.done, durable)
    BY Zenon, <1>2, <2>2 DEF InProgress, Seen
  <2>4. work.cursors = durable.cursors
    <3>1. Effect(work, o, op.done, durable)
      BY Zenon, <1>2, <2>3, TablesColumns, AppliedColumns
    <3> QED
      BY Zenon, <1>2, <3>1 DEF Effect
  <2>5. RowsWritten(o, op.base, work) = RowsWritten(o, g, work)
    <3>1. CASE o.kind \in {"send", "add"}
      <4>1. op.base = g
        BY Zenon, <1>2, <2>1, <3>1 DEF InProgress, Held, Swallows
      <4> QED
        BY Zenon, <4>1
    <3>2. CASE o.kind \notin {"send", "add"}
      BY <3>2 DEF RowsWritten
    <3> QED
      BY Zenon, <3>1, <3>2
  <2>6. /\ work' = Written(o, "rows", g, work) /\ durable' = durable
        /\ sent' = sent \cup Appends(durable') /\ "rows" \in Writes
    BY Zenon, <1>4, <2>2, <2>5 DEF Execute, Written, Writes
  <2> QED
    BY <1>1, <1>4, <2>2, <2>4, <2>6, WriteKeeps
<1> QED
  BY Zenon, <1>3, <1>4 DEF WriteRows

(***************************************************************************)
(* The steps that change the database, and those around an operation.      *)
(***************************************************************************)
\* The atomic store speaks of the same tables and operations.
LEMMA SameTables ==
  /\ Atomic!EmptyTables = EmptyTables /\ Atomic!Operations = Operations /\ Atomic!StepsOf = StepsOf
  /\ \A o, t : Atomic!Allowed(o, t) <=> Allowed(o, t)
  /\ \A i, t : Atomic!Fresh(i, t) <=> Fresh(i, t)
  /\ \A o, what, t : Atomic!Journalled(o, what, t) <=> Journalled(o, what, t)
  /\ \A o, what, g : Atomic!Entry(o, what, g) = Entry(o, what, g)
  /\ \A e : Atomic!NewGroup(e) = NewGroup(e)
<1>1. Atomic!EmptyTables = EmptyTables
  BY Zenon DEF Atomic!EmptyTables, EmptyTables
<1>2. Atomic!Operations = Operations
  BY Zenon DEF Atomic!Operations, Operations, Atomic!Received, Received, Atomic!Kinds, Kinds,
         Atomic!StepsOf, StepsOf
<1>3. Atomic!StepsOf = StepsOf
  BY Zenon DEF Atomic!StepsOf, StepsOf
<1>4. ASSUME NEW o, NEW t PROVE Atomic!Allowed(o, t) <=> Allowed(o, t)
  BY Zenon DEF Atomic!Allowed, Allowed, Atomic!Fresh, Fresh, Atomic!Journalled, Journalled,
         Atomic!MaySend, MaySend, Atomic!MayAdvance, MayAdvance, Atomic!Ready, Ready,
         Atomic!Waiting, Waiting, Atomic!Appends, Appends
<1>5. ASSUME NEW i, NEW t PROVE Atomic!Fresh(i, t) <=> Fresh(i, t)
  BY Zenon DEF Atomic!Fresh, Fresh
<1>6. ASSUME NEW o, NEW what, NEW t PROVE Atomic!Journalled(o, what, t) <=> Journalled(o, what, t)
  BY Zenon DEF Atomic!Journalled, Journalled
<1>7. ASSUME NEW o, NEW what, NEW g PROVE Atomic!Entry(o, what, g) = Entry(o, what, g)
  BY Zenon DEF Atomic!Entry, Entry
<1>8. ASSUME NEW e PROVE Atomic!NewGroup(e) = NewGroup(e)
  BY Zenon DEF Atomic!NewGroup, NewGroup
<1> QED
  BY Zenon, <1>1, <1>2, <1>3, <1>4, <1>5, <1>6, <1>7, <1>8

\* And its operations write the same.
LEMMA SameWrites == \A o, done, t : Atomic!Applied(o, done, t) = Applied(o, done, t)
<1>1. ASSUME NEW k, NEW g PROVE Atomic!Changed(k, g) = Changed(k, g)
  BY Zenon DEF Atomic!Changed, Changed, Atomic!NewGroup, NewGroup
<1>2. ASSUME NEW o, NEW g, NEW t PROVE Atomic!RowsWritten(o, g, t) = RowsWritten(o, g, t)
  BY Zenon DEF Atomic!RowsWritten, RowsWritten, Atomic!NewGroup, NewGroup, Atomic!Entry, Entry,
         Atomic!Received, Received
<1>3. ASSUME NEW r, NEW g, NEW t PROVE Atomic!StateWritten(r, g, t) = StateWritten(r, g, t)
  BY Zenon DEF Atomic!StateWritten, StateWritten
<1>4. ASSUME NEW r, NEW g, NEW t PROVE Atomic!EpochsWritten(r, g, t) = EpochsWritten(r, g, t)
  BY Zenon DEF Atomic!EpochsWritten, EpochsWritten
<1>5. ASSUME NEW o, NEW t PROVE Atomic!PackageWritten(o, t) = PackageWritten(o, t)
  BY Zenon DEF Atomic!PackageWritten, PackageWritten
<1>6. ASSUME NEW o, NEW s, NEW g, NEW t PROVE Atomic!Written(o, s, g, t) = Written(o, s, g, t)
  BY Zenon, <1>1, <1>2, <1>3, <1>4, <1>5 DEF Atomic!Written, Written
<1>7. ASSUME NEW o, NEW done, NEW t PROVE Atomic!Applied(o, done, t) = Applied(o, done, t)
  BY Zenon, <1>6 DEF Atomic!Applied, Applied
<1> QED
  BY Zenon, <1>7

\* COMMIT makes the whole operation durable, applied to what it started from.
LEMMA CommitKeeps ==
  ASSUME StoreInv, Commit
  PROVE  StoreInv' /\ [Atomic!Next]_durable
<1> DEFINE o == op.o
           u == After(o, durable)
<1>1. /\ op # None /\ ~op.failed /\ op.done = Steps /\ open /\ durable' = work
      /\ sent' = sent \cup Appends(work) /\ open' = FALSE /\ owner' = FALSE /\ op' = None
      /\ UNCHANGED <<work, poisoned, cache, running, ids_drawn>>
  BY Zenon DEF Commit
<1>2. /\ o \in Operations /\ o.kind \in Kinds /\ Allowed(o, durable) /\ Fits(cache) /\ InProgress
      /\ Database(durable, ids_drawn, sent)
      /\ o.kind \in Draws => o.id \in ids_drawn
  BY Zenon, <1>1, OpFacts DEF Pending, StoreInv
<1>3. durable' = u
  BY Zenon, <1>1, <1>2 DEF InProgress, Seen, After, Steps
<1>4. o.kind \in {"create", "join"} => o.room \notin durable.cursors
  <2>1. CASE o.kind = "create"
    <3>1. PICK e \in durable.outbox : e.what = "create" /\ e.room = o.room
      BY Zenon, <1>2, <2>1 DEF Allowed, Journalled
    <3> QED
      BY Zenon, <1>2, <3>1 DEF Database, Asked
  <2>2. CASE o.kind = "join"
    <3>1. "rows" \in op.done
      BY Zenon, <1>1, <1>2, StepFacts DEF Steps
    <3> QED
      BY Zenon, <1>2, <2>2, <3>1 DEF InProgress
  <2> QED
    BY Zenon, <2>1, <2>2
<1>5. Starts(o, durable, ids_drawn, sent)
  BY Zenon, <1>2, <1>4 DEF Starts
<1>6. Database(durable, ids_drawn, sent)'
  BY Zenon, <1>1, <1>3, <1>5, OperationKeeps
<1>7. \A r \in Cached' : cache'[r] = durable'.mls_groups[r]
  <2> SUFFICES ASSUME NEW r \in Rooms, cache[r] # None PROVE cache[r] = u.mls_groups[r]
    BY Zenon, <1>1, <1>3 DEF Cached
  <2>1. u.mls_groups[r] = IF r = o.room /\ o.kind \notin {"publish", "drop", "settle"}
                          THEN Changed(o.kind, durable.mls_groups[o.room]) ELSE durable.mls_groups[r]
    BY SMTT(30), <1>5, AfterGroup
  <2>2. "change" \in op.done <=> o.kind \notin {"publish", "drop", "settle"}
    BY Zenon, <1>1, <1>2, StepFacts DEF Steps
  <2> QED
    BY Zenon, <1>2, <2>1, <2>2 DEF InProgress, Held, Cached
<1>8. StoreInv'
  BY Zenon, <1>1, <1>2, <1>6, <1>7 DEF StoreInv, Rest
<1>9. Atomic!Operate(o)
  <2>1. o.kind \in {"create", "join"} => durable.mls_groups[o.room] = None
    BY Zenon, <1>2, <1>4, OperationFacts DEF Database, Entered
  <2> QED
    BY Zenon, <1>2, <1>3, <1>4, <2>1, SameTables, SameWrites DEF Atomic!Operate, Atomic!May, Atomic!Enters, After
<1> QED
  BY Zenon, <1>2, <1>8, <1>9, SameTables DEF Atomic!Next

\* The statements outside a transaction.
LEMMA AskStep ==
  ASSUME StoreInv, NEW o \in Operations, Ask(o)
  PROVE  StoreInv' /\ [Atomic!Next]_durable
<1> DEFINE u == Request(o, durable)
<1>1. /\ op = None /\ ~poisoned /\ op' = None /\ Database(durable, ids_drawn, sent) /\ Fits(cache)
      /\ work = durable /\ ~open /\ ~owner /\ \A r \in Cached : cache[r] = durable.mls_groups[r]
  BY Zenon DEF Ask, Idle, StoreInv, Rest
<1>2. /\ o.kind = "create" /\ o.room \in OwnRooms \ durable.cursors /\ o.id \notin ids_drawn
      /\ \A e \in durable.outbox : e.what = "create" => e.room # o.room
      /\ ids_drawn' = ids_drawn \cup {o.id} /\ work' = u /\ durable' = u
      /\ sent' = sent \cup Appends(u)
      /\ UNCHANGED <<open, owner, poisoned, cache>>
  BY Zenon, <1>1 DEF Ask, DrawId, Execute, Request
<1>3. /\ Database(u, ids_drawn \cup {o.id}, sent \cup Appends(u)) /\ Fresh(o.id, durable)
      /\ u.mls_groups = durable.mls_groups
  BY Zenon, <1>1, <1>2, AskKeeps
<1>4. Atomic!Ask(o)
  BY Zenon, <1>2, <1>3, SameTables DEF Atomic!Ask, Request
<1> HIDE DEF u
<1>5. StoreInv'
  BY Zenon, <1>1, <1>2, <1>3 DEF StoreInv, Rest, Cached
<1> QED
  BY Zenon, <1>4, <1>5, SameTables DEF Atomic!Next

LEMMA ConfirmStep ==
  ASSUME StoreInv, NEW o \in Operations, Confirm(o)
  PROVE  StoreInv' /\ [Atomic!Next]_durable
<1> DEFINE u == [durable EXCEPT !.outbox = {e \in @ : e.id # o.id}]
<1>1. /\ op = None /\ ~poisoned /\ op' = None /\ Database(durable, ids_drawn, sent) /\ Fits(cache)
      /\ work = durable /\ ~open /\ ~owner /\ \A r \in Cached : cache[r] = durable.mls_groups[r]
  BY Zenon DEF Confirm, Idle, StoreInv, Rest
<1>2. /\ o.kind = "publish" /\ Journalled(o, "publish", durable) /\ work' = u /\ durable' = u
      /\ sent' = sent \cup Appends(u) /\ UNCHANGED <<open, owner, poisoned, cache, ids_drawn>>
  BY Zenon, <1>1 DEF Confirm, Execute
<1>3. Database(u, ids_drawn, sent \cup Appends(u)) /\ u.mls_groups = durable.mls_groups
  BY <1>1, RemoveKeeps
<1>4. Atomic!Confirm(o)
  BY Zenon, <1>2, SameTables DEF Atomic!Confirm
<1> HIDE DEF u
<1>5. StoreInv'
  BY Zenon, <1>1, <1>2, <1>3 DEF StoreInv, Rest, Cached
<1> QED
  BY Zenon, <1>4, <1>5, SameTables DEF Atomic!Next

LEMMA BeginStep ==
  ASSUME StoreInv, NEW o \in Operations, Begin(o)
  PROVE  StoreInv' /\ UNCHANGED durable
<1>1. /\ op = None /\ Database(durable, ids_drawn, sent) /\ Fits(cache)
      /\ work = durable /\ \A r \in Cached : cache[r] = durable.mls_groups[r]
  BY Zenon DEF Begin, Idle, StoreInv, Rest
<1>2. /\ Allowed(o, durable) /\ open' = TRUE
      /\ op' = [o |-> o, done |-> {}, base |-> None, failed |-> FALSE, fault |-> FALSE]
      /\ UNCHANGED <<durable, work, cache, sent>>
  BY Zenon, <1>1 DEF Begin
<1>3. op' \in UnderWay /\ op' # None /\ op'.o = o /\ op'.done = {} /\ o.kind \in Kinds
  <2>1. op' \in UnderWay /\ op'.o = o /\ op'.done = {}
    BY Zenon, <1>2 DEF UnderWay
  <2> QED
    BY Zenon, <2>1, StoreAssumption, OperationFacts DEF StoreAssumption
<1>4. /\ ids_drawn' = ids_drawn \/ (o.id \in Ids /\ ids_drawn' = ids_drawn \cup {o.id})
      /\ o.kind \in Draws => o.id \in ids_drawn'
  <2>1. CASE o.kind \in Draws
    BY Zenon, <2>1, OperationFacts DEF Begin, DrawId, Draws, Received
  <2>2. CASE o.kind \notin Draws
    BY Zenon, <2>2 DEF Begin
  <2> QED
    BY Zenon, <2>1, <2>2
<1>5. Database(durable, ids_drawn, sent)'
  BY <1>1, <1>2, <1>4, DrawKeeps
<1>6. Seen'
  BY Zenon, <1>1, <1>2, <1>3, AppliedNothing DEF Seen
<1>7. Held'
  BY Zenon, <1>1, <1>2, <1>3 DEF Held, Cached
<1>8. Pending'
  BY Zenon, <1>2, <1>3, <1>4, <1>6, <1>7 DEF Pending, InProgress, Taken
<1> QED
  BY Zenon, <1>1, <1>2, <1>3, <1>5, <1>8 DEF StoreInv

LEMMA PeekStep ==
  ASSUME StoreInv, NEW r \in Rooms, Peek(r)
  PROVE  StoreInv' /\ UNCHANGED durable
<1>1. /\ op = None /\ ~poisoned /\ Database(durable, ids_drawn, sent) /\ Fits(cache) /\ durable \in Tables
      /\ work = durable /\ ~open /\ ~owner /\ \A q \in Full(cache) : cache[q] = durable.mls_groups[q]
  BY Zenon DEF Peek, Idle, StoreInv, Rest, Cached, Full, Database, Rows
<1>2. PICK ok \in BOOLEAN : Loaded(r, ok)
  BY Zenon DEF Peek
<1>3. UNCHANGED <<durable, work, open, owner, poisoned, op, ids_drawn, sent>>
  BY Zenon DEF Peek, store
<1>4. Fits(cache') /\ \A q \in Full(cache') : cache'[q] = durable.mls_groups[q]
  BY <1>1, <1>2, LoadKeeps
<1>5. Cached' = Full(cache')
  BY Zenon DEF Cached, Full
<1> QED
  BY Zenon, <1>1, <1>3, <1>4, <1>5 DEF StoreInv, Rest

\* Memory is emptied, and the transaction given up or left to a poisoned store.
LEMMA EmptyStep ==
  ASSUME StoreInv, op' = None, cache' = NoGroups, UNCHANGED <<durable, sent, ids_drawn>>,
         ~poisoned' => ~open' /\ ~owner' /\ work' = durable'
  PROVE  StoreInv' /\ UNCHANGED durable
<1>1. Fits(cache') /\ Cached' = {}
  BY Zenon, EmptyFits DEF Cached, NoGroups
<1>2. Database(durable, ids_drawn, sent)'
  BY Zenon DEF StoreInv
<1> QED
  BY Zenon, <1>1, <1>2 DEF StoreInv, Rest

\* Every step keeps the invariant and is a step of the atomic store.
LEMMA StoreStep ==
  ASSUME StoreInv, [StoreNext]_storeVars
  PROVE  StoreInv' /\ [Atomic!Next]_durable
<1>1. ASSUME NEW o \in Operations, Ask(o) \/ Confirm(o) \/ Begin(o)
      PROVE  StoreInv' /\ [Atomic!Next]_durable
  BY Zenon, <1>1, AskStep, ConfirmStep, BeginStep
<1>2. CASE \E r \in Rooms : Peek(r)
  BY Zenon, <1>2, PeekStep
<1>3. CASE Disconnect
  BY Zenon, <1>3, EmptyStep DEF Disconnect, Idle, StoreInv, Rest, store
<1>4. CASE StartAgain
  BY Zenon, <1>4, EmptyStep DEF StartAgain
<1>5. CASE Abort
  <2>1. /\ op' = None /\ cache' = NoGroups /\ UNCHANGED <<durable, sent, ids_drawn>>
        /\ ~poisoned' => ~open' /\ ~owner' /\ work' = durable'
    BY Zenon, <1>5 DEF Abort, RolledBack
  <2> QED
    BY Zenon, <2>1, EmptyStep
<1>6. CASE \E ok \in BOOLEAN : Find(ok)
  BY Zenon, <1>6, FindKeeps
<1>7. CASE Change \/ CheckEvent \/ WriteState \/ WriteEpochs \/ WritePackage \/ WriteRows
  BY Zenon, <1>7, ChangeKeeps, CheckKeeps, ProvidersKeep, RowsKeep
<1>8. CASE Refuse \/ CommitFails
  <2>1. op # None /\ cache' = cache /\ \E f \in BOOLEAN : Error(f)
    BY Zenon, <1>8 DEF Refuse, CommitFails, Due
  <2> QED
    BY Zenon, <2>1, ErrorKeeps DEF StoreInv
<1>9. CASE Commit
  BY Zenon, <1>9, CommitKeeps
<1>10. CASE UNCHANGED storeVars
  <2>1. UNCHANGED <<durable, work, open, owner, poisoned, cache, op, running, ids_drawn, sent>>
    BY Zenon, <1>10 DEF storeVars, store
  <2>2. Rest => Rest'
    BY Zenon, <2>1 DEF Rest, Cached
  <2>3. Pending => Pending'
    BY Zenon, <2>1 DEF Pending, InProgress, Taken, Seen, Held, Steps, Swallows, Cached
  <2> QED
    BY Zenon, <2>1, <2>2, <2>3 DEF StoreInv
<1> QED
  BY SMTT(30), <1>1, <1>2, <1>3, <1>4, <1>5, <1>6, <1>7, <1>8, <1>9, <1>10 DEF StoreNext, Operation

LEMMA StoreStarts == StoreInit => StoreInv /\ Atomic!Init
<1> SUFFICES ASSUME StoreInit PROVE StoreInv /\ Atomic!Init
  BY Zenon
<1>1. /\ durable = EmptyTables /\ work = EmptyTables /\ open = FALSE /\ owner = FALSE
      /\ cache = NoGroups /\ op = None /\ ids_drawn = {} /\ sent = {}
  BY Zenon DEF StoreInit
<1>2. EmptyTables \in Tables /\ \A r \in Rooms : EmptyTables.mls_groups[r] = None
  BY Zenon DEF EmptyTables, Tables
<1>3. /\ EmptyTables.outbox = {} /\ EmptyTables.mls_packages = {} /\ Appends(EmptyTables) = {}
  BY Zenon DEF EmptyTables, Appends
<1>4. Database(durable, ids_drawn, sent)
  BY Zenon, <1>1, <1>2, <1>3 DEF Database, Rows, Entered, Asked, Attempts, Used
<1>5. Fits(cache) /\ Rest
  BY Zenon, <1>1, EmptyFits DEF Rest, Cached, NoGroups
<1> QED
  BY Zenon, <1>1, <1>4, <1>5, SameTables DEF StoreInv, Atomic!Init

\* Whatever fails, and wherever the program stops: memory stays within its limit,
\* between operations it holds what is stored, and no transaction is left half
\* done unless the store is poisoned (MlsSession::atomic, group_mut).
THEOREM CacheFollows == StoreSpec => []CacheFollowsDatabase
<1>1. StoreInv => CacheFollowsDatabase
  BY Zenon DEF StoreInv, Fits, Full, Rest, CacheFollowsDatabase, Cached
<1> QED
  BY <1>1, StoreStarts, StoreStep, PTL DEF StoreSpec

\* No generation of an epoch's ratchet is ever used by two stored appends
\* (encrypt_bound and the journal, in one transaction).
THEOREM GenerationsUnique == StoreSpec => []GenerationUsedOnce
<1>1. StoreInv => GenerationUsedOnce
  BY Zenon DEF StoreInv, Database, Used, GenerationUsedOnce
<1> QED
  BY <1>1, StoreStarts, StoreStep, PTL DEF StoreSpec

\* The store, with its cache, its failures and its restarts, implements a store
\* whose operations are atomic.
THEOREM StoreRefines == StoreSpec => Implements
<1> QED
  BY StoreStarts, StoreStep, PTL DEF StoreSpec, Implements, Atomic!Spec

=============================================================================
