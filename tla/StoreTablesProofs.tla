-------------------------- MODULE StoreTablesProofs --------------------------
(***************************************************************************)
(* What the operations on the client database keep true of its tables, for *)
(* every set of rooms and identifiers and every limit.  `Database` holds   *)
(* of the committed tables; a whole operation keeps it (OperationKeeps),   *)
(* and so do the single statements (AskKeeps, RemoveKeeps).                *)
(***************************************************************************)
EXTENDS StoreTables, TLAPS

\* `d` used a generation that the group `g` has left behind.
Behind(d, g) ==
  /\ g # None
  /\ d.epoch < g.epoch \/ (d.epoch = g.epoch /\ d.gen < g.gen)

\* What holds of the committed tables `t` when `ids` have been drawn and `appends`
\* were stored for sending at some time.
Rows(t, ids) ==
  /\ t \in Tables
  /\ t.mls_packages \subseteq ids /\ \A e \in t.outbox : e.id \in ids
Entered(t) == \A r \in Rooms : t.mls_groups[r] # None => r \in t.cursors
Asked(t) ==
  \A d \in t.outbox : d.what = "create" =>
    /\ d.room \in OwnRooms \ t.cursors
    /\ \A e \in t.outbox : e.what = "create" /\ e.room = d.room => e = d
Attempts(t) ==
  \A d \in Appends(t) :
    /\ d.room \in Rooms
    /\ \A e \in Appends(t) : e.room = d.room => e = d
    /\ d.what = "commit" => t.mls_groups[d.room] # None /\ t.mls_groups[d.room].epoch < MaxEpoch
Used(t, appends) ==
  /\ appends \subseteq Entries /\ Appends(t) \subseteq appends
  /\ \A d \in appends : d.what = "app" => d.room \in Rooms /\ Behind(d, t.mls_groups[d.room])
  /\ \A d, e \in appends :
       d.what = "app" /\ e.what = "app" /\ d.room = e.room /\ d.epoch = e.epoch
         /\ d.gen = e.gen => d = e

Database(t, ids, appends) ==
  /\ Rows(t, ids) /\ ids \subseteq Ids /\ Entered(t) /\ Asked(t) /\ Attempts(t)
  /\ Used(t, appends)

(***************************************************************************)
(* Steps, and what they write.                                             *)
(***************************************************************************)
Writes == {"state", "epochs", "package", "rows"}

\* What the tables of steps say: an operation on a group finds it, changes it
\* and stores it, and every operation ends with its rows.
LEMMA StepFacts ==
  ASSUME NEW k \in Kinds
  PROVE  /\ StepsOf[k] \subseteq DOMAIN Order /\ "rows" \in StepsOf[k]
         /\ "find" \in StepsOf[k] <=> "state" \in StepsOf[k]
         /\ "change" \in StepsOf[k] <=> "state" \in StepsOf[k]
         /\ "state" \in StepsOf[k] <=> k \notin {"publish", "drop", "settle"}
         /\ "epochs" \in StepsOf[k] <=> k \in {"apply", "follow"}
         /\ "package" \in StepsOf[k] <=> k \in {"publish", "join"}
BY DEF Kinds, StepsOf, Order

\* The steps in their order.
LEMMA OrderFacts ==
  /\ DOMAIN Order = {"find", "change", "check", "state", "epochs", "package", "rows"}
  /\ Order["find"] = 1 /\ Order["change"] = 2 /\ Order["check"] = 3 /\ Order["state"] = 4
  /\ Order["epochs"] = 5 /\ Order["package"] = 6 /\ Order["rows"] = 7
BY Zenon DEF Order

\* An operation names a room unless it publishes packages.
LEMMA OperationFacts ==
  ASSUME NEW o \in Operations
  PROVE  /\ o.kind \in Kinds
         /\ o.kind # "publish" => o.room \in Rooms
         /\ o.kind \notin Received => o.id \in Ids
BY Zenon DEF Operations, Kinds, StepsOf, Received

\* The next step writes on top of what the earlier ones wrote.
LEMMA AppliedNext ==
  ASSUME NEW o, NEW done, NEW db, NEW s \in Writes, s \notin done,
         \A r \in done : r \in DOMAIN Order /\ Order[r] < Order[s]
  PROVE  Applied(o, done \cup {s}, db) = Written(o, s, db.mls_groups[o.room], Applied(o, done, db))
<1>1. CASE s = "state"
  <2>1. "epochs" \notin done /\ "package" \notin done /\ "rows" \notin done
    BY <1>1, OrderFacts
  <2> QED
    BY Zenon, <1>1, <2>1 DEF Applied
<1>2. CASE s = "epochs"
  <2>1. "package" \notin done /\ "rows" \notin done
    BY <1>2, OrderFacts
  <2> QED
    BY Zenon, <1>2, <2>1 DEF Applied
<1>3. CASE s = "package"
  <2>1. "rows" \notin done
    BY <1>3, OrderFacts
  <2> QED
    BY Zenon, <1>3, <2>1 DEF Applied
<1>4. CASE s = "rows"
  BY Zenon, <1>4 DEF Applied
<1> QED
  BY Zenon, <1>1, <1>2, <1>3, <1>4 DEF Writes

\* The other steps write nothing.
LEMMA AppliedSame ==
  ASSUME NEW o, NEW done, NEW db, NEW s, s \notin Writes
  PROVE  Applied(o, done \cup {s}, db) = Applied(o, done, db)
BY Zenon DEF Applied, Writes

LEMMA AppliedNothing ==
  ASSUME NEW o, NEW done, NEW db, done \cap Writes = {}
  PROVE  Applied(o, done, db) = db
BY Zenon DEF Applied, Writes

\* The rows that each operation leaves in the outbox.
Outbox(o, g, b) ==
  CASE o.kind = "publish" -> b \cup {Entry(o, "publish", NewGroup(0))}
    [] o.kind = "send" -> b \cup {Entry(o, "app", g)}
    [] o.kind = "add" -> b \cup {Entry(o, "commit", g)}
    [] o.kind \in {"create", "drop", "settle", "discard", "apply"} -> {e \in b : e.id # o.id}
    [] o.kind \in {"open", "follow", "join"} -> b

Columns == {"mls_groups", "mls_epochs", "mls_packages", "outbox", "cursors"}

\* A statement on one column leaves the others alone.
IsTables(t) == t = [c \in Columns |-> t[c]]

LEMMA OneColumn ==
  ASSUME NEW t, IsTables(t), NEW c \in Columns, NEW x
  PROVE  /\ IsTables([t EXCEPT ![c] = x])
         /\ [t EXCEPT ![c] = x][c] = x
         /\ \A d \in Columns : d # c => [t EXCEPT ![c] = x][d] = t[d]
BY Zenon DEF IsTables

\* What the rows change, column by column.
LEMMA RowColumns ==
  ASSUME NEW o, o.kind \in Kinds, NEW g, NEW t, IsTables(t)
  PROVE  LET u == RowsWritten(o, g, t)
         IN  /\ IsTables(u) /\ u.mls_groups = t.mls_groups /\ u.mls_epochs = t.mls_epochs
             /\ u.mls_packages = t.mls_packages /\ u.outbox = Outbox(o, g, t.outbox)
             /\ u.cursors = IF o.kind \in {"create", "join"} THEN t.cursors \cup {o.room}
                            ELSE t.cursors
<1> DEFINE u == RowsWritten(o, g, t)
           b == Outbox(o, g, t.outbox)
           s == t.cursors \cup {o.room}
<1>1. CASE o.kind \notin {"create", "join"} \cup Received
  <2>1. u = [t EXCEPT !.outbox = b]
    <3>1. CASE o.kind = "publish"
      BY Zenon, <3>1 DEF RowsWritten, Outbox, Received
    <3>2. CASE o.kind = "send"
      BY Zenon, <3>2 DEF RowsWritten, Outbox, Received
    <3>3. CASE o.kind = "add"
      BY Zenon, <3>3 DEF RowsWritten, Outbox, Received
    <3>4. CASE o.kind \in {"drop", "settle", "discard", "apply"}
      BY Zenon, <3>4 DEF RowsWritten, Outbox, Received
    <3> QED
      BY Zenon, <1>1, <3>1, <3>2, <3>3, <3>4 DEF Kinds, StepsOf, Received
  <2> QED
    BY <1>1, <2>1, OneColumn DEF Columns
<1>2. CASE o.kind = "join"
  <2>1. u = [t EXCEPT !.cursors = s] /\ b = t.outbox
    BY Zenon, <1>2 DEF RowsWritten, Outbox, Received
  <2> QED
    BY <1>2, <2>1, OneColumn DEF Columns
<1>3. CASE o.kind = "create"
  <2> DEFINE v == [t EXCEPT !.cursors = s]
  <2>1. u = [v EXCEPT !.outbox = b] /\ b = {e \in t.outbox : e.id # o.id}
    BY Zenon, <1>3 DEF RowsWritten, Outbox, Received, IsTables, Columns
  <2>2. /\ IsTables(v) /\ v.cursors = s /\ v.mls_groups = t.mls_groups
        /\ v.mls_epochs = t.mls_epochs /\ v.mls_packages = t.mls_packages
    BY OneColumn DEF Columns
  <2> HIDE DEF v
  <2> QED
    BY <1>3, <2>1, <2>2, OneColumn DEF Columns
<1>4. CASE o.kind \in Received
  <2>1. u = t /\ b = t.outbox
    BY Zenon, <1>4 DEF RowsWritten, Outbox, Received
  <2> QED
    BY Zenon, <1>4, <2>1 DEF Received
<1> QED
  BY Zenon, <1>1, <1>2, <1>3, <1>4

\* The tables `u` are what the steps `done` of an operation make of `db`, column by
\* column.
Effect(u, o, done, db) ==
  LET g == db.mls_groups[o.room]
      new == Changed(o.kind, g)
  IN  /\ IsTables(u)
      /\ u.mls_groups = IF "state" \in done THEN [db.mls_groups EXCEPT ![o.room] = new]
                        ELSE db.mls_groups
      /\ u.mls_epochs = IF "epochs" \in done
                        THEN [db.mls_epochs EXCEPT ![o.room] = @ \cup {new.epoch - 1}]
                        ELSE db.mls_epochs
      /\ u.mls_packages = IF "package" \notin done THEN db.mls_packages
                          ELSE IF o.kind = "publish" THEN db.mls_packages \cup {o.id}
                          ELSE db.mls_packages \ {o.id}
      /\ u.outbox = IF "rows" \in done THEN Outbox(o, g, db.outbox) ELSE db.outbox
      /\ u.cursors = IF "rows" \in done /\ o.kind \in {"create", "join"}
                     THEN db.cursors \cup {o.room} ELSE db.cursors

\* What an operation has changed when it has taken the steps `done`.
LEMMA AppliedColumns ==
  ASSUME NEW o, o.kind \in Kinds, NEW done, NEW db, IsTables(db)
  PROVE  Effect(Applied(o, done, db), o, done, db)
<1> DEFINE g == db.mls_groups[o.room]
           new == Changed(o.kind, g)
           Put(s, t) == IF s \in done THEN Written(o, s, g, t) ELSE t
           t1 == Put("state", db)
           t2 == Put("epochs", t1)
           t3 == Put("package", t2)
           t4 == Put("rows", t3)
<1>1. /\ IsTables(t1) /\ t1.mls_epochs = db.mls_epochs /\ t1.mls_packages = db.mls_packages
      /\ t1.outbox = db.outbox /\ t1.cursors = db.cursors
      /\ t1.mls_groups = IF "state" \in done THEN [db.mls_groups EXCEPT ![o.room] = new]
                         ELSE db.mls_groups
  <2>1. "state" \in done => t1 = [db EXCEPT !.mls_groups = [db.mls_groups EXCEPT ![o.room] = new]]
    BY Zenon DEF Written, StateWritten
  <2>2. "state" \notin done => t1 = db
    BY Zenon
  <2> HIDE DEF t1
  <2> QED
    BY <2>1, <2>2, OneColumn DEF Columns
<1>2. /\ IsTables(t2) /\ t2.mls_groups = t1.mls_groups /\ t2.mls_packages = t1.mls_packages
      /\ t2.outbox = t1.outbox /\ t2.cursors = t1.cursors
      /\ t2.mls_epochs = IF "epochs" \in done
                         THEN [t1.mls_epochs EXCEPT ![o.room] = @ \cup {new.epoch - 1}]
                         ELSE t1.mls_epochs
  <2> HIDE DEF t1
  <2>1. "epochs" \in done =>
          t2 = [t1 EXCEPT !.mls_epochs = [t1.mls_epochs EXCEPT ![o.room] = @ \cup {new.epoch - 1}]]
    BY Zenon DEF Written, EpochsWritten
  <2>2. "epochs" \notin done => t2 = t1
    BY Zenon
  <2> DEFINE x == [t1.mls_epochs EXCEPT ![o.room] = @ \cup {new.epoch - 1}]
  <2>3. IsTables(t1) /\ ("epochs" \in done => t2 = [t1 EXCEPT !.mls_epochs = x])
    BY Zenon, <1>1, <2>1
  <2> HIDE DEF t2, x
  <2>4. CASE "epochs" \in done
    <3>1. /\ IsTables(t2) /\ t2.mls_groups = t1.mls_groups /\ t2.mls_packages = t1.mls_packages
          /\ t2.outbox = t1.outbox /\ t2.cursors = t1.cursors /\ t2.mls_epochs = x
      BY <2>3, <2>4, OneColumn DEF Columns
    <3> QED
      BY Zenon, <2>4, <3>1 DEF x
  <2>5. CASE "epochs" \notin done
    BY Zenon, <2>2, <2>3, <2>5
  <2> QED
    BY Zenon, <2>4, <2>5
<1>3. /\ IsTables(t3) /\ t3.mls_groups = t2.mls_groups /\ t3.mls_epochs = t2.mls_epochs
      /\ t3.outbox = t2.outbox /\ t3.cursors = t2.cursors
      /\ t3.mls_packages = IF "package" \notin done THEN t2.mls_packages
                           ELSE IF o.kind = "publish" THEN t2.mls_packages \cup {o.id}
                           ELSE t2.mls_packages \ {o.id}
  <2> HIDE DEF t2
  <2>1. "package" \in done =>
          t3 = [t2 EXCEPT !.mls_packages = IF o.kind = "publish" THEN t2.mls_packages \cup {o.id}
                                           ELSE t2.mls_packages \ {o.id}]
    BY Zenon DEF Written, PackageWritten
  <2>2. "package" \notin done => t3 = t2
    BY Zenon
  <2> DEFINE x == IF o.kind = "publish" THEN t2.mls_packages \cup {o.id}
                  ELSE t2.mls_packages \ {o.id}
  <2>3. IsTables(t2) /\ ("package" \in done => t3 = [t2 EXCEPT !.mls_packages = x])
    BY Zenon, <1>2, <2>1
  <2> HIDE DEF t3, x
  <2>4. CASE "package" \in done
    BY <2>3, <2>4, OneColumn DEF Columns, x
  <2>5. CASE "package" \notin done
    BY Zenon, <2>2, <2>3, <2>5
  <2> QED
    BY Zenon, <2>4, <2>5
<1>4. /\ IsTables(t4) /\ t4.mls_groups = t3.mls_groups /\ t4.mls_epochs = t3.mls_epochs
      /\ t4.mls_packages = t3.mls_packages
      /\ t4.outbox = IF "rows" \in done THEN Outbox(o, g, t3.outbox) ELSE t3.outbox
      /\ t4.cursors = IF "rows" \in done /\ o.kind \in {"create", "join"}
                      THEN t3.cursors \cup {o.room} ELSE t3.cursors
  <2> HIDE DEF t3
  <2>1. "rows" \in done => t4 = RowsWritten(o, g, t3)
    BY Zenon DEF Written
  <2>2. "rows" \notin done => t4 = t3
    BY Zenon
  <2> HIDE DEF t4, g
  <2> QED
    BY <1>3, <2>1, <2>2, RowColumns
<1>5. Applied(o, done, db) = t4
  BY Zenon DEF Applied
<1> HIDE DEF t1, t2, t3, t4
<1> QED
  BY <1>1, <1>2, <1>3, <1>4, <1>5 DEF Effect

\* The tables have their columns.
LEMMA TablesColumns == ASSUME NEW t \in Tables PROVE IsTables(t)
BY Zenon DEF Tables, IsTables, Columns

(***************************************************************************)
(* Whole operations keep the database right.                               *)
(***************************************************************************)
\* A waiting commit or message names a room with one attempt.
LEMMA AttemptFacts ==
  ASSUME NEW t \in Tables, Attempts(t), NEW o \in Operations,
         o.kind \in {"discard", "apply"}, Journalled(o, "commit", t)
  PROVE  t.mls_groups[o.room] # None /\ t.mls_groups[o.room].epoch < MaxEpoch
<1>1. PICK e \in t.outbox : e.id = o.id /\ e.what = "commit" /\ e.room = o.room
  BY Zenon DEF Journalled
<1>2. e \in Appends(t)
  BY Zenon, <1>1 DEF Appends
<1> QED
  BY Zenon, <1>1, <1>2 DEF Attempts

\* An operation starts from a group that is there, unless it makes one.
LEMMA GroupThere ==
  ASSUME NEW t \in Tables, Attempts(t), NEW o \in Operations, Allowed(o, t),
         o.kind \in {"send", "open", "add", "discard", "apply", "follow"}
  PROVE  /\ o.room \in Rooms /\ t.mls_groups[o.room] \in Groups
         /\ o.kind \in {"send", "open"} => t.mls_groups[o.room].gen < MaxGen
         /\ o.kind \in {"add", "apply", "follow"} => t.mls_groups[o.room].epoch < MaxEpoch
         /\ o.kind \in {"send", "open", "add", "follow"} => Waiting(o.room, t) = {}
<1>1. o.room \in Rooms /\ t.mls_groups[o.room] \in Groups \cup {None}
  BY Zenon, OperationFacts DEF Tables
<1>2. CASE o.kind \in {"send", "open"}
  BY Zenon, <1>1, <1>2 DEF Allowed, MaySend, Ready
<1>3. CASE o.kind \in {"add", "follow"}
  BY Zenon, <1>1, <1>3 DEF Allowed, MayAdvance, Ready
<1>4. CASE o.kind \in {"discard", "apply"}
  <2>1. Journalled(o, "commit", t)
    BY Zenon, <1>4 DEF Allowed
  <2> QED
    BY Zenon, <1>1, <1>4, <2>1, AttemptFacts
<1> QED
  BY Zenon, <1>2, <1>3, <1>4

\* The library makes a group of a group, and never goes back.
LEMMA GroupChange ==
  ASSUME NEW t \in Tables, Attempts(t), NEW o \in Operations, Allowed(o, t),
         o.kind \notin {"publish", "drop", "settle"}
  PROVE  LET g == t.mls_groups[o.room]
             new == Changed(o.kind, g)
         IN  /\ new \in Groups
             /\ o.kind \in {"apply", "follow"} => new.epoch - 1 \in 0..MaxEpoch
             /\ o.kind \notin {"create", "join"} => \A d \in Entries : Behind(d, g) => Behind(d, new)
             /\ o.kind = "send" => Entry(o, "app", g) \in Entries /\ Behind(Entry(o, "app", g), new)
             /\ o.kind = "add" => Entry(o, "commit", g) \in Entries /\ new.epoch < MaxEpoch
<1> DEFINE g == t.mls_groups[o.room]
           new == Changed(o.kind, g)
<1>1. 0 \in 0..MaxEpoch /\ 1 \in 0..MaxEpoch /\ 0 \in 0..MaxGen /\ None \notin Groups
      /\ MaxEpoch \in Nat /\ MaxGen \in Nat
  BY TablesAssumption DEF TablesAssumption
<1>2. CASE o.kind \in {"create", "join"}
  <2>1. new = NewGroup(0) \/ new = NewGroup(1)
    BY Zenon, <1>2 DEF Changed
  <2>2. NewGroup(0) \in Groups /\ NewGroup(1) \in Groups
    BY Zenon, <1>1 DEF NewGroup, Groups
  <2> QED
    BY Zenon, <1>2, <2>1, <2>2
<1>3. CASE o.kind \in {"send", "open", "add", "discard", "apply", "follow"}
  <2>1. /\ o.room \in Rooms /\ g \in Groups
        /\ o.kind \in {"send", "open"} => g.gen < MaxGen
        /\ o.kind \in {"add", "apply", "follow"} => g.epoch < MaxEpoch
    BY Zenon, <1>3, GroupThere
  <2> HIDE DEF g
  <2>2. CASE o.kind \in {"send", "open"}
    <3>1. new = [g EXCEPT !.gen = @ + 1]
      BY Zenon, <2>2 DEF Changed
    <3>2. new \in Groups /\ new.epoch = g.epoch /\ new.gen = g.gen + 1
      BY <1>1, <2>1, <2>2, <3>1 DEF Groups
    <3>3. \A d \in Entries : Behind(d, g) => Behind(d, new)
      BY <1>1, <2>1, <3>2 DEF Behind, Groups, Entries
    <3>4. o.kind = "send" => Entry(o, "app", g) \in Entries /\ Behind(Entry(o, "app", g), new)
      <4> SUFFICES ASSUME o.kind = "send" PROVE Entry(o, "app", g) \in Entries /\ Behind(Entry(o, "app", g), new)
        BY Zenon
      <4>1. o.id \in Ids
        BY Zenon, OperationFacts DEF Received
      <4> QED
        BY <1>1, <2>1, <3>2, <4>1 DEF Behind, Groups, Entries, Entry
    <3> QED
      BY Zenon, <2>2, <3>2, <3>3, <3>4 DEF g
  <2>3. CASE o.kind \in {"add", "discard"}
    <3>1. new = [g EXCEPT !.pending = TRUE] \/ new = [g EXCEPT !.pending = FALSE]
      BY Zenon, <2>3 DEF Changed
    <3>2. new \in Groups /\ new.epoch = g.epoch /\ new.gen = g.gen
      BY Zenon, <2>1, <3>1 DEF Groups
    <3>3. \A d \in Entries : Behind(d, g) => Behind(d, new)
      BY Zenon, <1>1, <3>2 DEF Behind
    <3>4. o.kind = "add" => Entry(o, "commit", g) \in Entries /\ new.epoch < MaxEpoch
      <4> SUFFICES ASSUME o.kind = "add" PROVE Entry(o, "commit", g) \in Entries /\ new.epoch < MaxEpoch
        BY Zenon
      <4>1. o.id \in Ids
        BY Zenon, OperationFacts DEF Received
      <4> QED
        BY Zenon, <1>1, <2>1, <3>2, <4>1 DEF Groups, Entries, Entry
    <3> QED
      BY Zenon, <2>3, <3>2, <3>3, <3>4 DEF g
  <2>4. CASE o.kind \in {"apply", "follow"}
    <3>1. new = NewGroup(g.epoch + 1)
      BY Zenon, <2>4 DEF Changed
    <3>2. g.epoch \in 0..MaxEpoch /\ g.epoch < MaxEpoch
      BY Zenon, <2>1, <2>4 DEF Groups
    <3>3. new \in Groups /\ new.epoch = g.epoch + 1
      BY <1>1, <3>1, <3>2 DEF NewGroup, Groups
    <3>4. \A d \in Entries : Behind(d, g) => Behind(d, new)
      BY <1>1, <3>2, <3>3 DEF Behind, Entries
    <3>5. new.epoch - 1 \in 0..MaxEpoch
      BY <1>1, <3>2, <3>3
    <3> QED
      BY Zenon, <2>4, <3>3, <3>4, <3>5 DEF g
  <2> QED
    BY Zenon, <1>3, <2>2, <2>3, <2>4
<1> QED
  BY Zenon, <1>2, <1>3, OperationFacts DEF Kinds, StepsOf

\* Operation `o` may take place in the database `t`.
Starts(o, t, ids, appends) ==
  /\ o \in Operations /\ Allowed(o, t) /\ Database(t, ids, appends)
  /\ o.kind \in {"create", "join"} => o.room \notin t.cursors
  /\ o.kind \in Draws => o.id \in ids
After(o, t) == Applied(o, StepsOf[o.kind], t)

\* What the outbox holds afterwards.
LEMMA OutboxFacts ==
  ASSUME NEW o, o.kind \in Kinds, NEW g, NEW b, NEW e \in Outbox(o, g, b)
  PROVE  /\ \/ e \in b
            \/ o.kind = "publish" /\ e = Entry(o, "publish", NewGroup(0))
            \/ o.kind = "send" /\ e = Entry(o, "app", g)
            \/ o.kind = "add" /\ e = Entry(o, "commit", g)
         /\ o.kind \in {"create", "drop", "settle", "discard", "apply"} => e.id # o.id
<1>1. CASE o.kind = "publish"
  BY Zenon, <1>1 DEF Outbox
<1>2. CASE o.kind = "send"
  BY Zenon, <1>2 DEF Outbox
<1>3. CASE o.kind = "add"
  BY Zenon, <1>3 DEF Outbox
<1>4. CASE o.kind \in {"create", "drop", "settle", "discard", "apply"}
  BY Zenon, <1>4 DEF Outbox
<1>5. CASE o.kind \in {"open", "follow", "join"}
  BY Zenon, <1>5 DEF Outbox
<1> QED
  BY Zenon, <1>1, <1>2, <1>3, <1>4, <1>5 DEF Kinds, StepsOf

\* An entry says what it was made from.
LEMMA EntryFields ==
  ASSUME NEW o, NEW what, NEW g
  PROVE  /\ Entry(o, what, g).id = o.id /\ Entry(o, what, g).what = what
         /\ Entry(o, what, g).room = o.room
         /\ Entry(o, what, g).epoch = g.epoch /\ Entry(o, what, g).gen = g.gen
BY Zenon DEF Entry

\* The tables `u` are what the whole operation makes of `t`, column by column.
Whole(u, o, t) ==
  LET g == t.mls_groups[o.room]
      new == Changed(o.kind, g)
  IN  /\ IsTables(u)
      /\ u.mls_groups = IF o.kind \in {"publish", "drop", "settle"} THEN t.mls_groups
                        ELSE [t.mls_groups EXCEPT ![o.room] = new]
      /\ u.mls_epochs = IF o.kind \in {"apply", "follow"}
                        THEN [t.mls_epochs EXCEPT ![o.room] = @ \cup {new.epoch - 1}]
                        ELSE t.mls_epochs
      /\ u.mls_packages = IF o.kind = "publish" THEN t.mls_packages \cup {o.id}
                          ELSE IF o.kind = "join" THEN t.mls_packages \ {o.id}
                          ELSE t.mls_packages
      /\ u.outbox = Outbox(o, g, t.outbox)
      /\ u.cursors = IF o.kind \in {"create", "join"} THEN t.cursors \cup {o.room} ELSE t.cursors

\* A whole operation, column by column.
LEMMA AfterColumns ==
  ASSUME NEW o, NEW t, NEW ids, NEW appends, Starts(o, t, ids, appends)
  PROVE  Whole(After(o, t), o, t)
<1>1. o.kind \in Kinds /\ t \in Tables
  BY Zenon, OperationFacts DEF Starts, Database, Rows
<1>2. IsTables(t)
  BY Zenon, <1>1, TablesColumns
<1> DEFINE done == StepsOf[o.kind]
<1>3. /\ "rows" \in done
      /\ "state" \in done <=> o.kind \notin {"publish", "drop", "settle"}
      /\ "epochs" \in done <=> o.kind \in {"apply", "follow"}
      /\ "package" \in done <=> o.kind \in {"publish", "join"}
  BY Zenon, <1>1, StepFacts
<1> HIDE DEF done
<1>4. After(o, t) = Applied(o, done, t)
  BY Zenon DEF After, done
<1> DEFINE u == Applied(o, done, t)
           g == t.mls_groups[o.room]
           new == Changed(o.kind, g)
           groups == [t.mls_groups EXCEPT ![o.room] = new]
           epochs == [t.mls_epochs EXCEPT ![o.room] = @ \cup {new.epoch - 1}]
           b == Outbox(o, g, t.outbox)
<1>5. /\ IsTables(u)
      /\ u.mls_groups = IF "state" \in done THEN groups ELSE t.mls_groups
      /\ u.mls_epochs = IF "epochs" \in done THEN epochs ELSE t.mls_epochs
      /\ u.mls_packages = IF "package" \notin done THEN t.mls_packages
                          ELSE IF o.kind = "publish" THEN t.mls_packages \cup {o.id}
                          ELSE t.mls_packages \ {o.id}
      /\ u.outbox = IF "rows" \in done THEN b ELSE t.outbox
      /\ u.cursors = IF "rows" \in done /\ o.kind \in {"create", "join"}
                     THEN t.cursors \cup {o.room} ELSE t.cursors
  <2>1. Effect(u, o, done, t)
    BY Zenon, <1>1, <1>2, AppliedColumns
  <2> QED
    BY Zenon, <2>1 DEF Effect
<1> HIDE DEF u, groups, epochs, b
<1>6. /\ IsTables(u)
      /\ u.mls_groups = IF o.kind \in {"publish", "drop", "settle"} THEN t.mls_groups ELSE groups
      /\ u.mls_epochs = IF o.kind \in {"apply", "follow"} THEN epochs ELSE t.mls_epochs
      /\ u.mls_packages = IF o.kind = "publish" THEN t.mls_packages \cup {o.id}
                          ELSE IF o.kind = "join" THEN t.mls_packages \ {o.id}
                          ELSE t.mls_packages
      /\ u.outbox = b
      /\ u.cursors = IF o.kind \in {"create", "join"} THEN t.cursors \cup {o.room} ELSE t.cursors
  BY Zenon, <1>3, <1>5
<1> QED
  BY Zenon, <1>4, <1>6 DEF Whole, u, groups, epochs, b

\* The group that an operation leaves in a room.
LEMMA AfterGroup ==
  ASSUME NEW o, NEW t, NEW ids, NEW appends, Starts(o, t, ids, appends), NEW r \in Rooms
  PROVE  After(o, t).mls_groups[r] =
           IF r = o.room /\ o.kind \notin {"publish", "drop", "settle"}
           THEN Changed(o.kind, t.mls_groups[o.room]) ELSE t.mls_groups[r]
<1>1. t.mls_groups \in [Rooms -> Groups \cup {None}]
  BY Zenon DEF Starts, Database, Rows, Tables
<1> DEFINE u == After(o, t)
           new == Changed(o.kind, t.mls_groups[o.room])
<1>2. u.mls_groups = IF o.kind \in {"publish", "drop", "settle"} THEN t.mls_groups
                     ELSE [t.mls_groups EXCEPT ![o.room] = new]
  <2>1. Whole(u, o, t)
    BY Zenon, AfterColumns
  <2> QED
    BY Zenon, <2>1 DEF Whole
<1> HIDE DEF u, new
<1>3. u.mls_groups[r] = IF r = o.room /\ o.kind \notin {"publish", "drop", "settle"}
                        THEN new ELSE t.mls_groups[r]
  BY Zenon, <1>1, <1>2
<1> QED
  BY Zenon, <1>3 DEF u, new

LEMMA AfterRows ==
  ASSUME NEW o, NEW t, NEW ids, NEW appends, Starts(o, t, ids, appends)
  PROVE  Rows(After(o, t), ids)
<1> DEFINE u == After(o, t)
           g == t.mls_groups[o.room]
           new == Changed(o.kind, g)
<1>1. /\ o \in Operations /\ o.kind \in Kinds /\ t \in Tables /\ Attempts(t) /\ Allowed(o, t)
      /\ t.mls_packages \subseteq ids /\ ids \subseteq Ids /\ \A e \in t.outbox : e.id \in ids
      /\ o.kind \in {"publish", "send", "add"} => o.id \in ids
  BY Zenon, OperationFacts DEF Starts, Database, Rows, Draws
<1>2. /\ IsTables(u)
      /\ u.mls_epochs = IF o.kind \in {"apply", "follow"}
                        THEN [t.mls_epochs EXCEPT ![o.room] = @ \cup {new.epoch - 1}]
                        ELSE t.mls_epochs
      /\ u.mls_packages = IF o.kind = "publish" THEN t.mls_packages \cup {o.id}
                          ELSE IF o.kind = "join" THEN t.mls_packages \ {o.id}
                          ELSE t.mls_packages
      /\ u.outbox = Outbox(o, g, t.outbox)
      /\ u.cursors = IF o.kind \in {"create", "join"} THEN t.cursors \cup {o.room} ELSE t.cursors
      /\ u.mls_groups = IF o.kind \in {"publish", "drop", "settle"} THEN t.mls_groups
                        ELSE [t.mls_groups EXCEPT ![o.room] = new]
  <2>1. Whole(u, o, t)
    BY Zenon, AfterColumns
  <2> QED
    BY Zenon, <2>1 DEF Whole
<1>3. o.kind \notin {"publish", "drop", "settle"} =>
        /\ new \in Groups
        /\ o.kind \in {"apply", "follow"} => new.epoch - 1 \in 0..MaxEpoch
  BY Zenon, <1>1, GroupChange
<1>4. /\ t.mls_groups \in [Rooms -> Groups \cup {None}]
      /\ t.mls_epochs \in [Rooms -> SUBSET (0..MaxEpoch)]
      /\ t.outbox \subseteq Entries /\ t.cursors \subseteq Rooms
  BY Zenon, <1>1 DEF Tables
<1>5. u.outbox \subseteq Entries /\ \A e \in u.outbox : e.id \in ids
  <2> SUFFICES ASSUME NEW e \in u.outbox PROVE e \in Entries /\ e.id \in ids
    BY Zenon
  <2>1. CASE e \in t.outbox
    BY Zenon, <1>1, <1>4, <2>1
  <2>2. CASE o.kind = "publish" /\ e = Entry(o, "publish", NewGroup(0))
    <3>1. o.room = None /\ o.id \in Ids
      BY Zenon, <1>1, <2>2 DEF Operations, Received
    <3>2. 0 \in 0..MaxEpoch /\ 0 \in 0..MaxGen
      BY TablesAssumption DEF TablesAssumption
    <3> QED
      BY Zenon, <1>1, <2>2, <3>1, <3>2 DEF Entry, NewGroup, Entries
  <2>3. CASE o.kind = "send" /\ e = Entry(o, "app", g)
    BY SMTT(30), <1>1, <2>3, GroupChange, EntryFields
  <2>4. CASE o.kind = "add" /\ e = Entry(o, "commit", g)
    BY SMTT(30), <1>1, <2>4, GroupChange, EntryFields
  <2> QED
    BY <1>1, <1>2, <2>1, <2>2, <2>3, <2>4, OutboxFacts
<1> HIDE DEF u, g, new
<1>6. u.mls_groups \in [Rooms -> Groups \cup {None}]
  BY Zenon, <1>2, <1>3, <1>4
<1>7. u.mls_epochs \in [Rooms -> SUBSET (0..MaxEpoch)]
  <2>1. CASE o.kind \in {"apply", "follow"}
    <3> DEFINE e == new.epoch - 1
    <3>1. e \in 0..MaxEpoch
      BY Zenon, <1>3, <2>1
    <3>2. u.mls_epochs = [t.mls_epochs EXCEPT ![o.room] = @ \cup {e}]
      BY Zenon, <1>2, <2>1
    <3> DEFINE f == t.mls_epochs
               X == 0..MaxEpoch
    <3>3. f \in [Rooms -> SUBSET X] /\ e \in X /\ u.mls_epochs = [f EXCEPT ![o.room] = @ \cup {e}]
      BY Zenon, <1>4, <3>1, <3>2
    <3> HIDE DEF e, f, X
    <3>4. [f EXCEPT ![o.room] = @ \cup {e}] \in [Rooms -> SUBSET X]
      BY Zenon, <3>3
    <3> QED
      BY Zenon, <3>3, <3>4 DEF X
  <2>2. CASE o.kind \notin {"apply", "follow"}
    BY Zenon, <1>2, <1>4, <2>2
  <2> QED
    BY Zenon, <2>1, <2>2
<1>8. u.mls_packages \subseteq ids
  BY Zenon, <1>1, <1>2
<1>9. u.cursors \subseteq Rooms
  <2>1. o.kind \in {"create", "join"} => o.room \in Rooms
    BY Zenon, <1>1, OperationFacts
  <2> QED
    BY Zenon, <1>2, <1>4, <2>1
<1>10. u \in Tables
  BY Zenon, <1>1, <1>2, <1>5, <1>6, <1>7, <1>8, <1>9 DEF Tables, IsTables, Columns
<1> QED
  BY Zenon, <1>5, <1>8, <1>10 DEF Rows, u

LEMMA AfterEntered ==
  ASSUME NEW o, NEW t, NEW ids, NEW appends, Starts(o, t, ids, appends)
  PROVE  Entered(After(o, t))
<1> DEFINE u == After(o, t)
<1> SUFFICES ASSUME NEW r \in Rooms, u.mls_groups[r] # None PROVE r \in u.cursors
  BY Zenon DEF Entered
<1>1. /\ o \in Operations /\ t \in Tables /\ Attempts(t) /\ Allowed(o, t) /\ Entered(t)
  BY Zenon DEF Starts, Database, Rows
<1>2. u.cursors = IF o.kind \in {"create", "join"} THEN t.cursors \cup {o.room} ELSE t.cursors
  <2>1. Whole(u, o, t)
    BY Zenon, AfterColumns
  <2> QED
    BY Zenon, <2>1 DEF Whole
<1>3. CASE t.mls_groups[r] # None
  BY Zenon, <1>1, <1>2, <1>3 DEF Entered
<1>4. CASE t.mls_groups[r] = None
  <2>1. r = o.room /\ o.kind \notin {"publish", "drop", "settle"}
    BY <1>4, AfterGroup
  <2>2. o.kind \in {"create", "join"}
    <3>1. None \notin Groups
      BY Zenon, TablesAssumption DEF TablesAssumption
    <3> QED
      BY Zenon, <1>1, <1>4, <2>1, <3>1, GroupThere, OperationFacts DEF Kinds, StepsOf
  <2> QED
    BY Zenon, <1>2, <2>1, <2>2
<1> QED
  BY Zenon, <1>3, <1>4

LEMMA AfterAsked ==
  ASSUME NEW o, NEW t, NEW ids, NEW appends, Starts(o, t, ids, appends)
  PROVE  Asked(After(o, t))
<1> DEFINE u == After(o, t)
           g == t.mls_groups[o.room]
<1>1. /\ o \in Operations /\ o.kind \in Kinds /\ Allowed(o, t) /\ Asked(t)
  BY Zenon, OperationFacts DEF Starts, Database, Rows
<1>2. /\ u.cursors = IF o.kind \in {"create", "join"} THEN t.cursors \cup {o.room} ELSE t.cursors
      /\ u.outbox = Outbox(o, g, t.outbox)
  <2>1. Whole(u, o, t)
    BY Zenon, AfterColumns
  <2> QED
    BY Zenon, <2>1 DEF Whole
<1>3. \A e \in u.outbox : e.what = "create" => e \in t.outbox
  BY <1>1, <1>2, OutboxFacts, EntryFields
<1>4. ASSUME NEW d \in u.outbox, d.what = "create" PROVE d.room \in OwnRooms \ u.cursors
  <2>1. d \in t.outbox /\ d.room \in OwnRooms \ t.cursors
    BY Zenon, <1>1, <1>3, <1>4 DEF Asked
  <2>2. CASE o.kind = "join"
    <3>1. o.room \notin OwnRooms
      BY Zenon, <1>1, <2>2 DEF Allowed
    <3> QED
      BY Zenon, <1>2, <2>1, <2>2, <3>1
  <2>3. CASE o.kind = "create"
    <3>1. PICK e \in t.outbox : e.id = o.id /\ e.what = "create" /\ e.room = o.room
      BY Zenon, <1>1, <2>3 DEF Allowed, Journalled
    <3>2. d.id # o.id
      BY <1>1, <1>2, <2>3, OutboxFacts
    <3>3. d.room # o.room
      BY Zenon, <1>1, <1>4, <2>1, <3>1, <3>2 DEF Asked
    <3> QED
      BY Zenon, <1>2, <2>1, <2>3, <3>3
  <2>4. CASE o.kind \notin {"create", "join"}
    BY Zenon, <1>2, <2>1, <2>4
  <2> QED
    BY Zenon, <2>2, <2>3, <2>4
<1> QED
  BY Zenon, <1>1, <1>3, <1>4 DEF Asked

\* What is stored for sending: what was, and what a send or an add makes; while
\* an attempt for the room waits, the operation only removes it.
LEMMA AfterAppends ==
  ASSUME NEW o, NEW t, NEW ids, NEW appends, Starts(o, t, ids, appends),
         NEW d \in Appends(After(o, t))
  PROVE  LET g == t.mls_groups[o.room]
         IN  \/ d \in Appends(t) /\ (o.kind \in {"send", "open", "add", "follow"} => d.room # o.room)
                 /\ (o.kind \in {"discard", "apply"} => d.room # o.room)
             \/ o.kind = "send" /\ d = Entry(o, "app", g)
             \/ o.kind = "add" /\ d = Entry(o, "commit", g)
<1> DEFINE u == After(o, t)
           g == t.mls_groups[o.room]
<1>1. /\ o \in Operations /\ o.kind \in Kinds /\ Allowed(o, t) /\ t \in Tables /\ Attempts(t)
  BY Zenon, OperationFacts DEF Starts, Database, Rows
<1>2. u.outbox = Outbox(o, g, t.outbox)
  <2>1. Whole(u, o, t)
    BY Zenon, AfterColumns
  <2> QED
    BY Zenon, <2>1 DEF Whole
<1>3. d \in u.outbox /\ d.what \in {"app", "commit"}
  BY Zenon DEF Appends
<1>4. CASE d \in t.outbox
  <2>1. d \in Appends(t)
    BY Zenon, <1>3, <1>4 DEF Appends
  <2>2. o.kind \in {"send", "open", "add", "follow"} => d.room # o.room
    <3> SUFFICES ASSUME o.kind \in {"send", "open", "add", "follow"} PROVE d.room # o.room
      BY Zenon
    <3>1. Waiting(o.room, t) = {}
      BY Zenon, <1>1, GroupThere
    <3> QED
      BY Zenon, <1>3, <1>4, <3>1 DEF Waiting, Appends
  <2>3. o.kind \in {"discard", "apply"} => d.room # o.room
    <3> SUFFICES ASSUME o.kind \in {"discard", "apply"} PROVE d.room # o.room
      BY Zenon
    <3>1. PICK e \in t.outbox : e.id = o.id /\ e.what = "commit" /\ e.room = o.room
      BY Zenon, <1>1 DEF Allowed, Journalled
    <3>2. e \in Appends(t) /\ d.id # o.id
      BY SMTT(30), <1>1, <1>2, <1>3, <3>1, OutboxFacts DEF Appends
    <3> QED
      BY Zenon, <1>1, <2>1, <3>1, <3>2 DEF Attempts
  <2> QED
    BY Zenon, <2>1, <2>2, <2>3
<1>5. CASE d \notin t.outbox
  <2>1. \/ o.kind = "publish" /\ d = Entry(o, "publish", NewGroup(0))
        \/ o.kind = "send" /\ d = Entry(o, "app", g)
        \/ o.kind = "add" /\ d = Entry(o, "commit", g)
    BY <1>1, <1>2, <1>3, <1>5, OutboxFacts
  <2> QED
    BY SMTT(30), <1>3, <2>1, EntryFields
<1> QED
  BY Zenon, <1>4, <1>5

LEMMA AfterAttempts ==
  ASSUME NEW o, NEW t, NEW ids, NEW appends, Starts(o, t, ids, appends)
  PROVE  Attempts(After(o, t))
<1> DEFINE u == After(o, t)
           g == t.mls_groups[o.room]
           new == Changed(o.kind, g)
           Made(d) == \/ o.kind = "send" /\ d = Entry(o, "app", g)
                      \/ o.kind = "add" /\ d = Entry(o, "commit", g)
<1>1. /\ o \in Operations /\ o.kind \in Kinds /\ Allowed(o, t) /\ t \in Tables /\ Attempts(t)
      /\ Entered(t) /\ (o.kind \in {"create", "join"} => o.room \notin t.cursors)
  BY Zenon, OperationFacts DEF Starts, Database, Rows
<1>2. \A d \in Appends(u) :
        \/ d \in Appends(t) /\ (o.kind \in {"send", "open", "add", "follow"} => d.room # o.room)
             /\ (o.kind \in {"discard", "apply"} => d.room # o.room)
        \/ Made(d)
  BY Zenon, AfterAppends
<1>3. \A d : Made(d) => d.room = o.room /\ o.room \in Rooms /\ o.kind \in {"send", "add"}
  BY <1>1, EntryFields, OperationFacts
<1>4. \A d, e : Made(d) /\ Made(e) => d = e
  BY Zenon
<1> HIDE DEF u, Made
<1>5. ASSUME NEW d \in Appends(u) PROVE d.room \in Rooms /\ \A e \in Appends(u) : e.room = d.room => e = d
  BY Zenon, <1>1, <1>2, <1>3, <1>4, <1>5 DEF Attempts
<1>6. ASSUME NEW d \in Appends(u), d.what = "commit"
      PROVE  u.mls_groups[d.room] # None /\ u.mls_groups[d.room].epoch < MaxEpoch
  <2>1. CASE Made(d)
    <3>1. o.kind = "add"
      BY <1>6, <2>1, EntryFields DEF Made
    <3>2. u.mls_groups[o.room] = new
      BY Zenon, <1>1, <3>1, AfterGroup, OperationFacts DEF u
    <3>3. new \in Groups /\ new.epoch < MaxEpoch /\ None \notin Groups
      BY Zenon, <1>1, <3>1, GroupChange, TablesAssumption DEF TablesAssumption
    <3> QED
      BY Zenon, <1>3, <2>1, <3>2, <3>3
  <2>2. CASE ~Made(d)
    <3>1. /\ d \in Appends(t) /\ (o.kind \in {"send", "open", "add", "follow"} => d.room # o.room)
          /\ (o.kind \in {"discard", "apply"} => d.room # o.room)
      BY Zenon, <1>2, <2>2
    <3>2. /\ d.room \in Rooms /\ t.mls_groups[d.room] # None /\ t.mls_groups[d.room].epoch < MaxEpoch
      BY Zenon, <1>1, <1>6, <3>1 DEF Attempts
    <3>3. o.kind \in {"create", "join"} => d.room # o.room
      BY Zenon, <1>1, <3>2 DEF Entered
    <3>4. u.mls_groups[d.room] = t.mls_groups[d.room]
      BY SMTT(30), <1>1, <3>1, <3>2, <3>3, AfterGroup DEF Kinds, StepsOf, u
    <3> QED
      BY Zenon, <3>2, <3>4
  <2> QED
    BY Zenon, <2>1, <2>2
<1> QED
  BY Zenon, <1>5, <1>6 DEF Attempts, u

LEMMA AfterUsed ==
  ASSUME NEW o, NEW t, NEW ids, NEW appends, Starts(o, t, ids, appends)
  PROVE  Used(After(o, t), appends \cup Appends(After(o, t)))
<1> DEFINE u == After(o, t)
           g == t.mls_groups[o.room]
           new == Changed(o.kind, g)
           all == appends \cup Appends(u)
<1>1. /\ o \in Operations /\ o.kind \in Kinds /\ Allowed(o, t) /\ t \in Tables /\ Attempts(t)
      /\ Entered(t) /\ (o.kind \in {"create", "join"} => o.room \notin t.cursors)
      /\ Used(t, appends)
  BY Zenon, OperationFacts DEF Starts, Database, Rows
<1>2. all \subseteq Entries
  <2>1. Rows(u, ids)
    BY Zenon, AfterRows
  <2> QED
    BY Zenon, <1>1, <2>1 DEF Rows, Tables, Appends, Used
<1>3. \A d \in all : d.what = "app" =>
        d \in appends \/ (o.kind = "send" /\ d = Entry(o, "app", g))
  BY <1>1, AfterAppends, EntryFields DEF Used
<1>4. ASSUME NEW d \in appends, d.what = "app"
      PROVE  d.room \in Rooms /\ Behind(d, t.mls_groups[d.room]) /\ Behind(d, u.mls_groups[d.room])
  <2>1. d.room \in Rooms /\ Behind(d, t.mls_groups[d.room]) /\ d \in Entries
    BY Zenon, <1>1, <1>4 DEF Used
  <2>2. CASE d.room # o.room \/ o.kind \in {"publish", "drop", "settle"}
    BY <2>1, <2>2, AfterGroup
  <2>3. CASE d.room = o.room /\ o.kind \notin {"publish", "drop", "settle"}
    <3>1. u.mls_groups[d.room] = new
      BY Zenon, <2>1, <2>3, AfterGroup
    <3>2. o.kind \notin {"create", "join"}
      BY Zenon, <1>1, <2>1, <2>3 DEF Entered, Behind
    <3>3. \A e \in Entries : Behind(e, g) => Behind(e, new)
      BY Zenon, <1>1, <2>3, <3>2, GroupChange
    <3> QED
      BY Zenon, <2>1, <2>3, <3>1, <3>3
  <2> QED
    BY Zenon, <2>2, <2>3
<1>5. ASSUME o.kind = "send"
      PROVE  /\ o.room \in Rooms /\ u.mls_groups[o.room] = new
             /\ Behind(Entry(o, "app", g), new) /\ g \in Groups
  BY Zenon, <1>1, <1>5, GroupChange, GroupThere, AfterGroup
<1> HIDE DEF u, g, new
<1>6. \A d \in all : d.what = "app" => d.room \in Rooms /\ Behind(d, u.mls_groups[d.room])
  BY SMTT(30), <1>3, <1>4, <1>5, EntryFields
<1>7. ASSUME NEW d \in appends, d.what = "app", o.kind = "send", d.room = o.room
      PROVE  d.epoch # g.epoch \/ d.gen # g.gen
  BY <1>1, <1>4, <1>5, <1>7 DEF Behind, Used, Entries, Groups, g
<1>8. ASSUME NEW d \in all, NEW e \in all, d.what = "app", e.what = "app", d.room = e.room,
             d.epoch = e.epoch, d.gen = e.gen
      PROVE  d = e
  <2>1. CASE d \in appends /\ e \in appends
    BY Zenon, <1>1, <1>8, <2>1 DEF Used
  <2>2. CASE d \notin appends \/ e \notin appends
    BY <1>3, <1>7, <1>8, <2>2, EntryFields
  <2> QED
    BY Zenon, <2>1, <2>2
<1> QED
  BY Zenon, <1>2, <1>6, <1>8 DEF Used, u

\* A whole operation keeps the database right.
LEMMA OperationKeeps ==
  ASSUME NEW o, NEW t, NEW ids, NEW appends, Starts(o, t, ids, appends)
  PROVE  Database(After(o, t), ids, appends \cup Appends(After(o, t)))
<1>1. ids \subseteq Ids
  BY Zenon DEF Starts, Database
<1> QED
  BY Zenon, <1>1, AfterRows, AfterEntered, AfterAsked, AfterAttempts, AfterUsed DEF Database

(***************************************************************************)
(* The single statements.                                                  *)
(***************************************************************************)
\* A drawn identifier is known from then on.
LEMMA DrawKeeps ==
  ASSUME NEW t, NEW ids, NEW appends, Database(t, ids, appends), NEW i \in Ids
  PROVE  Database(t, ids \cup {i}, appends)
BY Zenon DEF Database, Rows

\* A request for a room is journalled once, under a new identifier.
Request(o, t) == [t EXCEPT !.outbox = @ \cup {Entry(o, "create", NewGroup(0))}]

LEMMA AskKeeps ==
  ASSUME NEW t, NEW ids, NEW appends, Database(t, ids, appends), NEW o \in Operations,
         o.kind = "create", o.room \in OwnRooms \ t.cursors, o.id \notin ids,
         \A e \in t.outbox : e.what = "create" => e.room # o.room
  PROVE  LET u == Request(o, t)
         IN  /\ Database(u, ids \cup {o.id}, appends \cup Appends(u)) /\ Fresh(o.id, t)
             /\ u.mls_groups = t.mls_groups
<1> DEFINE u == Request(o, t)
           e == Entry(o, "create", NewGroup(0))
           b == t.outbox \cup {e}
<1>1. /\ Rows(t, ids) /\ ids \subseteq Ids /\ t \in Tables /\ Entered(t) /\ Asked(t) /\ Attempts(t)
      /\ Used(t, appends)
  BY Zenon DEF Database, Rows
<1>2. /\ IsTables(u) /\ u.outbox = b /\ u.mls_groups = t.mls_groups /\ u.mls_epochs = t.mls_epochs
      /\ u.mls_packages = t.mls_packages /\ u.cursors = t.cursors
  <2>1. IsTables(t) /\ u = [t EXCEPT !.outbox = b]
    BY Zenon, <1>1, TablesColumns DEF Request
  <2> HIDE DEF b
  <2> QED
    BY <2>1, OneColumn DEF Columns
<1>3. o.id \in Ids /\ o.room \in Rooms /\ 0 \in 0..MaxEpoch /\ 0 \in 0..MaxGen
  BY OperationFacts, TablesAssumption DEF TablesAssumption, Received
<1>4. e \in Entries /\ e.id = o.id /\ e.what = "create" /\ e.room = o.room
  BY Zenon, <1>3 DEF Entry, NewGroup, Entries
<1> HIDE DEF e
<1>5. u \in Tables
  BY Zenon, <1>1, <1>2, <1>4 DEF Tables, IsTables, Columns
<1>6. Appends(u) = Appends(t)
  BY Zenon, <1>2, <1>4 DEF Appends
<1>7. Rows(u, ids \cup {o.id}) /\ ids \cup {o.id} \subseteq Ids
  BY Zenon, <1>1, <1>2, <1>3, <1>4, <1>5 DEF Rows
<1>8. Entered(u)
  BY Zenon, <1>1, <1>2 DEF Entered
<1>9. Asked(u)
  BY SMTT(30), <1>1, <1>2, <1>4 DEF Asked
<1>10. Attempts(u)
  BY Zenon, <1>1, <1>2, <1>6 DEF Attempts
<1>11. Used(u, appends \cup Appends(u))
  <2>1. appends \cup Appends(u) = appends
    BY Zenon, <1>1, <1>6 DEF Used
  <2> QED
    BY Zenon, <1>1, <1>2, <1>6, <2>1 DEF Used
<1>12. Fresh(o.id, t)
  BY Zenon, <1>1 DEF Rows, Fresh
<1> QED
  BY Zenon, <1>2, <1>7, <1>8, <1>9, <1>10, <1>11, <1>12 DEF Database

\* Removing entries breaks nothing.
LEMMA RemoveKeeps ==
  ASSUME NEW t, NEW ids, NEW appends, Database(t, ids, appends), NEW i,
         NEW u, u = [t EXCEPT !.outbox = {e \in @ : e.id # i}]
  PROVE  Database(u, ids, appends \cup Appends(u)) /\ u.mls_groups = t.mls_groups
<1> DEFINE b == {e \in t.outbox : e.id # i}
<1>1. /\ Rows(t, ids) /\ ids \subseteq Ids /\ t \in Tables /\ Entered(t) /\ Asked(t) /\ Attempts(t)
      /\ Used(t, appends)
  BY Zenon DEF Database, Rows
<1>2. /\ IsTables(u) /\ u.outbox = b /\ u.mls_groups = t.mls_groups /\ u.mls_epochs = t.mls_epochs
      /\ u.mls_packages = t.mls_packages /\ u.cursors = t.cursors
  <2>1. IsTables(t) /\ u = [t EXCEPT !.outbox = b]
    BY Zenon, <1>1, TablesColumns
  <2> HIDE DEF b
  <2> QED
    BY <2>1, OneColumn DEF Columns
<1>3. b \subseteq t.outbox
  BY Zenon
<1> HIDE DEF b
<1>4. u \in Tables
  BY Zenon, <1>1, <1>2, <1>3 DEF Tables, IsTables, Columns
<1>5. Appends(u) \subseteq Appends(t)
  BY Zenon, <1>2, <1>3 DEF Appends
<1>6. Rows(u, ids)
  BY Zenon, <1>1, <1>2, <1>3, <1>4 DEF Rows
<1>7. Entered(u)
  BY Zenon, <1>1, <1>2 DEF Entered
<1>8. Asked(u)
  BY Zenon, <1>1, <1>2, <1>3 DEF Asked
<1>9. Attempts(u)
  BY Zenon, <1>1, <1>2, <1>5 DEF Attempts
<1>10. Used(u, appends \cup Appends(u))
  <2>1. appends \cup Appends(u) = appends
    BY Zenon, <1>1, <1>5 DEF Used
  <2> QED
    BY <1>1, <1>2, <1>5, <2>1 DEF Used
<1> QED
  BY Zenon, <1>1, <1>2, <1>6, <1>7, <1>8, <1>9, <1>10 DEF Database

=============================================================================
