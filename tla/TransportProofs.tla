--------------------------- MODULE TransportProofs ----------------------------
(***************************************************************************)
(* What goes over a connection, for messages and records of every size.    *)
(*                                                                         *)
(* RecoveryPages: an encoded page fits the payload limit and is never empty*)
(* while there is more to read (PageInv).                                  *)
(*                                                                         *)
(* FrameLink: the session receives the messages that were written, in order*)
(* (LinkInv).  Every byte read or on its way has its place in the stream of*)
(* all frames written; where a frame ends in that stream is counted by a   *)
(* cardinality, which grows by one frame's bytes with each frame.          *)
(***************************************************************************)
EXTENDS FrameLink, RecoveryPages, FiniteSetTheorems, TLAPS

(***************************************************************************)
(* Recovery pages.                                                         *)
(***************************************************************************)
\* A row that the loop may meet: it fits a page by itself, and an event is sent
\* as it is stored.
RowSound(row) ==
  /\ row.position \in Positions /\ row.stored \in Nat /\ row.sent \in Nat
  /\ row.stored <= MAX_PAYLOAD - Margin

\* A length takes one to three bytes in front of its body.
LEMMA CountedSize ==
  ASSUME NEW n \in Nat
  PROVE  Counted(n) \in Nat /\ Counted(n) <= n + 3
<1>1. Varint(n) \in Nat /\ Varint(n) <= 3
  BY SMT DEF Varint
<1> QED BY SMT, <1>1 DEF Counted

\* What the append handler lets in fits a page: at most 155 bytes come on top of
\* the two bodies, and 256 - 96 = 160 are left for them.
LEMMA EventRowSound ==
  ASSUME NEW row \in EventEntries
  PROVE  RowSound(row) /\ row.sent = row.stored
<1>1. PICK e \in Appends : Acceptable(e) /\ row = EventEntry(e)
  BY Zenon DEF EventEntries
<1>2. e \in AppendRecords
  BY Zenon, PagesAssumption
<1>3. EventBytes(e) \in Nat /\ EventBytes(e) <= MAX_PAYLOAD - Margin
  <2>1. e.parent \in 1..9 /\ e.epoch \in 1..10 /\ e.body \in Nat /\ e.welcome \in Nat
    BY Zenon, <1>2 DEF AppendRecords
  <2>2. e.body + e.welcome + 256 <= 768 * 1024
    BY SMT, <1>1, <2>1 DEF Acceptable, Slack, MAX_PAYLOAD
  <2>3. EventBytes(e) \in Nat /\ EventBytes(e) <= e.body + e.welcome + 155
    <3> DEFINE a == Attachment(e.welcome)  b == Counted(e.body)
               p == e.parent  q == e.epoch  w == e.welcome
    <3>1. b \in Nat /\ b <= e.body + 3
      BY Zenon, <2>1, CountedSize
    <3>2. a \in Nat /\ a <= w + 83
      BY <2>1, CountedSize DEF Attachment, IdBytes, SignatureBytes
    <3>3. EventBytes(e) = 48 + p + q + 1 + b + 1 + (IF w = 0 THEN 0 ELSE a)
      BY <2>1 DEF EventBytes, IdBytes
    <3>4. p \in 1..9 /\ q \in 1..10 /\ w \in Nat /\ e.body \in Nat
      BY Zenon, <2>1
    <3> HIDE DEF a, b, p, q, w
    <3>5. CASE w = 0
      BY <3>1, <3>3, <3>4, <3>5 DEF w
    <3>6. CASE w # 0
      BY <3>1, <3>2, <3>3, <3>4, <3>6 DEF w
    <3> QED BY Zenon, <3>5, <3>6
  <2> QED BY SMT, <2>1, <2>2, <2>3 DEF MAX_PAYLOAD, Margin
<1> QED BY Zenon, <1>1, <1>2, <1>3 DEF RowSound, EventEntry, AppendRecords, Positions

\* So does every Welcome row: its body is at most 512 KiB.
LEMMA WelcomeRowSound ==
  ASSUME NEW row \in WelcomeEntries
  PROVE  RowSound(row)
<1>1. PICK w \in Invitations : row = WelcomeEntry(w)
  BY Zenon DEF WelcomeEntries
<1>2. w \in InvitationRecords
  BY Zenon, PagesAssumption
<1>3. w.name \in 1..400 /\ w.cursor \in 1..9 /\ w.sequence \in 1..9
      /\ w.body \in 1..MAX_MLS_BLOB_BYTES
  BY Zenon, <1>2 DEF InvitationRecords
<1> DEFINE n == w.name  c == w.cursor  q == w.sequence  b == w.body
<1> HIDE DEF n, c, q, b
<1>4. n \in 1..400 /\ c \in 1..9 /\ q \in 1..9 /\ b \in Nat /\ b <= 512 * 1024
  <2>1. MAX_MLS_BLOB_BYTES \in Nat /\ MAX_MLS_BLOB_BYTES <= 512 * 1024
    BY SMT DEF MAX_MLS_BLOB_BYTES
  <2>2. n \in 1..400 /\ c \in 1..9 /\ q \in 1..9 /\ b \in 1..MAX_MLS_BLOB_BYTES
    BY Zenon, <1>3 DEF n, c, q, b
  <2> QED BY SMT, <2>1, <2>2
<1>5. /\ WelcomeBytes(w, 1) = Counted(n) + 1 + 48 + q + (16 + Counted(b) + 64)
      /\ WelcomeBytes(w, w.cursor) = Counted(n) + c + 48 + q + (16 + Counted(b) + 64)
      /\ w.cursor = c
  BY SMT, <1>4 DEF n, c, q, b, WelcomeBytes, Attachment, IdBytes, SignatureBytes
<1>6. Counted(n) \in Nat /\ Counted(n) <= 403 /\ Counted(b) \in Nat /\ Counted(b) <= b + 3
  BY SMT, <1>4, CountedSize
<1>7. /\ WelcomeBytes(w, 1) \in Nat /\ WelcomeBytes(w, w.cursor) \in Nat
      /\ WelcomeBytes(w, 1) <= b + 600
  BY SMT, <1>4, <1>5, <1>6
<1>8. WelcomeBytes(w, 1) <= MAX_PAYLOAD - Margin
  BY SMT, <1>4, <1>7 DEF MAX_PAYLOAD, Margin
<1> QED BY Zenon, <1>1, <1>3, <1>7, <1>8 DEF RowSound, WelcomeEntry, Positions

\* The inductive invariant: while a page of events is filled, what the loop adds
\* up is what the rows take, and within the limit; a page without rows has
\* added up nothing, and stops early only with a row in it.
PageInv ==
  /\ PagesTypeOK
  /\ fetch = "events" /\ phase # "failed" => size = bytes /\ bytes <= MAX_PAYLOAD - Margin
  /\ fetch = "events" => phase # "failed"
  /\ count = 0 => bytes = 0
  /\ phase = "partial" => count > 0

LEMMA InitPageInv == PageInit => PageInv
BY SMT DEF PageInit, PageInv, PagesTypeOK, Positions, PAGE_SIZE, MAX_PAYLOAD, Margin

\* Within the limit of the loop, a response of room events is within the cap:
\* at most 45 of the 96 bytes of the margin are used.
LEMMA EventResponse ==
  ASSUME PageInv, fetch = "events"
  PROVE  ResponseBytes <= MAX_PAYLOAD
<1>1. size \in Nat /\ after \in 1..9 /\ size <= MAX_PAYLOAD - Margin
  BY Zenon DEF PageInv, PagesTypeOK, Positions
<1> QED BY SMT, <1>1 DEF ResponseBytes, IdBytes, MAX_PAYLOAD, Margin

LEMMA NextPageInv == PageInv /\ [PageNext]_pageVars => PageInv'
<1> SUFFICES ASSUME PageInv, [PageNext]_pageVars PROVE PageInv'
  BY Zenon
<1> USE DEF PageInv, PagesTypeOK
<1>1. ASSUME NEW what \in {"events", "welcomes"}, NEW p \in Positions, Request(what, p)
      PROVE  PageInv'
  BY SMT, <1>1 DEF Request, PAGE_SIZE, MAX_PAYLOAD, Margin
<1>2. ASSUME NEW row \in PageRows, TakeRow(row) PROVE PageInv'
  <2>1. RowSound(row) /\ (fetch = "events" => row.sent = row.stored)
    BY Zenon, <1>2, EventRowSound, WelcomeRowSound DEF PageRows
  <2>2. /\ row.position \in Positions /\ row.stored \in Nat /\ row.sent \in Nat
    BY Zenon, <2>1 DEF RowSound
  <2>3. count # PAGE_SIZE /\ bytes + row.stored <= MAX_PAYLOAD - Margin
    BY SMT, <1>2, <2>2 DEF TakeRow, Full, MAX_PAYLOAD, Margin
  <2> QED BY SMT, <1>2, <2>1, <2>2, <2>3 DEF TakeRow, PAGE_SIZE, MAX_PAYLOAD, Margin
<1>3. ASSUME NEW row \in PageRows, Stop(row) PROVE PageInv'
  <2>1. RowSound(row)
    BY Zenon, <1>3, EventRowSound, WelcomeRowSound DEF PageRows
  <2>2. count # 0
    BY SMT, <1>3, <2>1 DEF Stop, Full, RowSound, PAGE_SIZE, MAX_PAYLOAD, Margin
  <2> QED BY SMT, <1>3, <2>2 DEF Stop, PAGE_SIZE
<1>4. CASE LastRow
  BY Zenon, <1>4 DEF LastRow
<1>5. CASE Send
  BY Zenon, <1>5, EventResponse DEF Send
<1>6. CASE Reconnect
  BY SMT, <1>6 DEF Reconnect, PAGE_SIZE, MAX_PAYLOAD, Margin
<1>7. CASE UNCHANGED pageVars
  BY Zenon, <1>7 DEF pageVars
<1> QED BY Zenon, <1>1, <1>2, <1>3, <1>4, <1>5, <1>6, <1>7 DEF PageNext

\* For appends and invitations of every size: a page of room events is always
\* within the payload cap, whatever the numbers in it.
THEOREM EventPagesFit == PageSpec => []EventPageFits
<1>1. PageInv => EventPageFits
  BY Zenon, EventResponse DEF EventPageFits, PageInv
<1> QED BY <1>1, InitPageInv, NextPageInv, PTL DEF PageSpec

\* And no page of either kind stops before its first row.
THEOREM PagesAdvance == PageSpec => []PageAdvances
<1>1. PageInv => PageAdvances
  BY Zenon DEF PageAdvances, PageInv
<1> QED BY <1>1, InitPageInv, NextPageInv, PTL DEF PageSpec

(***************************************************************************)
(* Where frames and bytes are.                                             *)
(***************************************************************************)
Byte == 0..255
Frame(m) == BigEndian(Len(m)) \o m

\* The bytes of the first i frames, and where the i-th ends in the stream of all
\* bytes written.
Cells(ms, i) == UNION {{k} \X (1..HeaderSize + Len(ms[k])) : k \in 1..i}
EndOf(ms, i) == Cardinality(Cells(ms, i))

\* The frames the reader has finished: taken, in the channel, or about to be pushed.
Whole == Len(taken) + Len(channel)

\* Bytes s, the first of them after `from` others, are what the frames have there.
Placed(ms, s, from) ==
  \A q \in 1..Len(s), i \in 1..Len(ms) : \A j \in 1..HeaderSize + Len(ms[i]) :
    from + q = EndOf(ms, i - 1) + j => s[q] = Frame(ms[i])[j]

LinkShape ==
  /\ written \in Seq(Messages) /\ unsent \in Seq(Byte) /\ stream \in Seq(Byte)
  /\ up \in BOOLEAN /\ buf \in Seq(Byte) /\ read \in Nat
  /\ stage \in {"idle", "header", "payload", "push", "done"}
  /\ channel \in Seq([what : {"message", "closed", "error"}, body : Seq(Byte)])
  /\ taken \in Seq(Messages)
  /\ stage = "push" => event \in [what : {"message", "closed", "error"}, body : Seq(Byte)]
  /\ ended \in {None, "closed", "error", "left"}

\* What is on its way is what was written; after a cut some of it is missing.
OnTheWay ==
  /\ Placed(written, stream, read) /\ Placed(written, unsent, read + Len(stream))
  /\ read + Len(stream) + Len(unsent) <= EndOf(written, Len(written))
  /\ up => read + Len(stream) + Len(unsent) = EndOf(written, Len(written))
  /\ ~up => unsent = <<>>

\* The frame under way is the next one.
UnderWay ==
  stage \in {"idle", "header", "payload"} =>
    /\ Whole <= Len(written) /\ read = EndOf(written, Whole) + Len(buf)
    /\ stage = "idle" => buf = <<>>
    /\ stage = "header" => Len(buf) \in 1..HeaderSize - 1
    /\ stage # "idle" =>
         /\ Whole < Len(written)
         /\ Len(buf) <= HeaderSize + Len(written[Whole + 1])
         /\ buf = SubSeq(Frame(written[Whole + 1]), 1, Len(buf))
    /\ stage = "payload" => Len(buf) >= HeaderSize /\ Len(buf) < HeaderSize + Len(written[Whole + 1])

\* The n-th frame, counted from the first taken, is handed over as e.
Handed(e, n) ==
  /\ e.what = "message" => n <= Len(written) /\ e.body = written[n]
  /\ e.what = "closed" => n <= Len(written) + 1 /\ read = EndOf(written, n - 1) /\ ~up

HandedOver ==
  /\ Len(taken) <= Len(written) /\ taken = SubSeq(written, 1, Len(taken))
  /\ \A i \in DOMAIN channel : Handed(channel[i], Len(taken) + i)
  /\ stage = "push" =>
       /\ Handed(event, Whole + 1) /\ buf = <<>>
       /\ event.what = "message" => read = EndOf(written, Whole + 1)
  /\ \A i \in DOMAIN channel :
       channel[i].what # "message" => i = Len(channel) /\ stage = "done" /\ ended = None
  /\ ended # None => stage = "done" /\ channel = <<>>
  /\ ended = "closed" => read = EndOf(written, Len(taken)) /\ ~up

LinkInv == LinkShape /\ OnTheWay /\ UnderWay /\ HandedOver

LEMMA ByteSplit ==
  ASSUME NEW n \in Nat
  PROVE  n % 256 \in Nat /\ n % 256 \in 0..255 /\ n = (n \div 256) * 256 + (n % 256) /\ n \div 256 \in Nat
<1>1. n % 256 \in 0..255
  OBVIOUS
<1>2. n \div 256 \in Nat
  OBVIOUS
<1>3. n = 256 * (n \div 256) + (n % 256)
  OBVIOUS
<1> QED
  BY <1>1, <1>2, <1>3

LEMMA FromBytes ==
  ASSUME NEW w \in Nat, NEW x \in Nat, NEW y \in Nat, NEW z \in Nat
  PROVE  FromBigEndian(<<w, x, y, z>>) = w * (256 * 256 * 256) + x * (256 * 256) + y * 256 + z
  BY DEF FromBigEndian

LEMMA BigEndianRoundTrip ==
  ASSUME NEW n \in Nat, n < 1024 * 1024 * 1024
  PROVE  /\ BigEndian(n) \in Seq(Byte) /\ Len(BigEndian(n)) = HeaderSize
         /\ FromBigEndian(BigEndian(n)) = n
<1>1. n % 256 \in Nat /\ n % 256 \in 0..255 /\ n = (n \div 256) * 256 + (n % 256) /\ n \div 256 \in Nat
  BY ByteSplit
<1> DEFINE a == n \div 256
<1>2. a % 256 \in Nat /\ a % 256 \in 0..255 /\ a = (a \div 256) * 256 + (a % 256) /\ a \div 256 \in Nat
  BY <1>1, ByteSplit
<1> DEFINE b == n \div (256 * 256)
<1>3. b = a \div 256 /\ b \in Nat
  OBVIOUS
<1>4. b % 256 \in Nat /\ b % 256 \in 0..255 /\ b = (b \div 256) * 256 + (b % 256) /\ b \div 256 \in Nat
  BY <1>3, ByteSplit
<1> DEFINE c == n \div (256 * 256 * 256)
<1>5. c = b \div 256 /\ c \in Nat
  OBVIOUS
<1>6. c < 256 /\ c % 256 = c
  OBVIOUS
<1>7. BigEndian(n) = <<c % 256, b % 256, a % 256, n % 256>>
  BY DEF BigEndian
<1>8. BigEndian(n) \in Seq(Byte) /\ Len(BigEndian(n)) = HeaderSize
  BY <1>1, <1>2, <1>4, <1>5, <1>6, <1>7 DEF Byte, HeaderSize
<1>9. FromBigEndian(BigEndian(n))
        = (c % 256) * (256 * 256 * 256) + (b % 256) * (256 * 256) + (a % 256) * 256 + (n % 256)
  <2> HIDE DEF a, b, c
  <2>1. c % 256 \in Nat
    BY <1>5, <1>6
  <2>2. b % 256 \in Nat /\ a % 256 \in Nat /\ n % 256 \in Nat
    <3>1. n % 256 \in Nat
      BY <1>1
    <3>2. a % 256 \in Nat
      BY <1>2
    <3>3. b % 256 \in Nat
      BY <1>4
    <3> QED
      BY <3>1, <3>2, <3>3
  <2> QED
    BY SMTT(30), <1>7, <2>1, <2>2, FromBytes
<1> QED
  BY <1>1, <1>2, <1>3, <1>4, <1>5, <1>6, <1>8, <1>9

\* The bytes of the first i frames are finitely many, and so are counted.
LEMMA CellsFinite ==
  ASSUME NEW ms \in Seq(Messages), NEW i \in 0..Len(ms)
  PROVE  IsFiniteSet(Cells(ms, i)) /\ EndOf(ms, i) \in Nat
<1> DEFINE W == 1..HeaderSize + MAX_FRAME_SIZE
<1>1. IsFiniteSet(1..i) /\ IsFiniteSet(W)
  BY FS_Interval, LinkAssumption DEF HeaderSize
<1>2. IsFiniteSet((1..i) \X W)
  BY Zenon, <1>1, FS_Product
<1>3. ASSUME NEW k \in 1..i PROVE (1..HeaderSize + Len(ms[k])) \subseteq W
  <2>1. ms[k] \in Messages
    OBVIOUS
  <2> QED
    BY <2>1, LinkAssumption DEF HeaderSize
<1> HIDE DEF W
<1>4. Cells(ms, i) \subseteq (1..i) \X W
  BY <1>3 DEF Cells
<1> QED
  BY Zenon, <1>2, <1>4, FS_Subset, FS_CardinalityType DEF EndOf

LEMMA EndOfZero ==
  ASSUME NEW ms \in Seq(Messages)
  PROVE  EndOf(ms, 0) = 0
<1>1. Cells(ms, 0) = {}
  BY DEF Cells
<1> QED
  BY Zenon, <1>1, FS_EmptySet DEF EndOf

\* Each frame adds its header and its payload.
LEMMA EndOfNext ==
  ASSUME NEW ms \in Seq(Messages), NEW i \in 1..Len(ms)
  PROVE  EndOf(ms, i) = EndOf(ms, i - 1) + HeaderSize + Len(ms[i])
<1> DEFINE C == Cells(ms, i - 1)
           L == Len(ms[i])
           N == 1..HeaderSize + L
           D == {i} \X N
<1>1. IsFiniteSet(C) /\ EndOf(ms, i - 1) \in Nat /\ EndOf(ms, i) \in Nat
  BY CellsFinite
<1>2. L \in Nat
  BY LinkAssumption
<1> HIDE DEF L
<1>3. IsFiniteSet(N) /\ Cardinality(N) = HeaderSize + L
  BY <1>2, FS_Interval DEF HeaderSize
<1> HIDE DEF N
<1>4. IsFiniteSet({i}) /\ Cardinality({i}) = 1
  BY Zenon, FS_Singleton
<1>5. IsFiniteSet(D) /\ Cardinality(D) = HeaderSize + L
  <2>1. IsFiniteSet(D) /\ Cardinality(D) = Cardinality({i}) * Cardinality(N)
    BY Zenon, <1>3, <1>4, FS_Product
  <2> QED
    BY <1>2, <1>3, <1>4, <2>1 DEF HeaderSize
<1>6. Cells(ms, i) = C \cup D
  <2>1. 1..i = (1..i - 1) \cup {i}
    OBVIOUS
  <2> QED
    BY Zenon, <2>1 DEF Cells, N, L
<1>7. C \cap D = {}
  <2>1. ASSUME NEW p \in C, p \in D PROVE FALSE
    <3>1. PICK k \in 1..i - 1 : p \in {k} \X (1..HeaderSize + Len(ms[k]))
      BY Zenon DEF Cells
    <3>2. p[1] = k /\ p[1] = i
      BY Zenon, <2>1, <3>1
    <3> QED
      BY <3>2
  <2> QED
    BY Zenon, <2>1
<1> HIDE DEF C, D
<1>8. Cardinality(C \cup D) = Cardinality(C) + Cardinality(D)
  <2>1. Cardinality(C \cup D) = Cardinality(C) + Cardinality(D) - Cardinality(C \cap D)
    BY Zenon, <1>1, <1>5, FS_Union
  <2>2. Cardinality(C \cap D) = 0
    BY Zenon, <1>7, FS_EmptySet
  <2>3. Cardinality(C) \in Nat /\ Cardinality(D) \in Nat
    BY Zenon, <1>1, <1>5, FS_CardinalityType
  <2> QED
    BY <2>1, <2>2, <2>3
<1>9. Cardinality(C) = EndOf(ms, i - 1) /\ Cardinality(C \cup D) = EndOf(ms, i)
  BY Zenon, <1>6 DEF C, EndOf
<1> HIDE DEF L
<1>10. EndOf(ms, i) = EndOf(ms, i - 1) + HeaderSize + L
  BY <1>1, <1>2, <1>5, <1>8, <1>9 DEF HeaderSize
<1> QED
  BY Zenon, <1>10 DEF L

LEMMA EndOfMonotone ==
  ASSUME NEW ms \in Seq(Messages), NEW i \in 0..Len(ms), NEW j \in 0..Len(ms), i <= j
  PROVE  EndOf(ms, i) <= EndOf(ms, j)
<1>1. 1..i \subseteq 1..j
  OBVIOUS
<1>2. Cells(ms, i) \subseteq Cells(ms, j)
  BY Zenon, <1>1 DEF Cells
<1> QED
  BY Zenon, <1>2, CellsFinite, FS_Subset DEF EndOf

\* Writing another frame moves no earlier one.
LEMMA EndOfAppend ==
  ASSUME NEW ms \in Seq(Messages), NEW m \in Messages, NEW i \in 0..Len(ms)
  PROVE  EndOf(Append(ms, m), i) = EndOf(ms, i)
<1>1. \A k \in 1..i : Append(ms, m)[k] = ms[k]
  OBVIOUS
<1>2. Cells(Append(ms, m), i) = Cells(ms, i)
  BY Zenon, <1>1 DEF Cells
<1> QED
  BY Zenon, <1>2 DEF EndOf

\* The frames of a prefix end where the prefix does.
LEMMA PrefixBytes ==
  ASSUME NEW ms \in Seq(Messages), NEW i \in 0..Len(ms)
  PROVE  FrameBytes(SubSeq(ms, 1, i)) = EndOf(ms, i)
<1>1. DOMAIN SubSeq(ms, 1, i) = 1..i /\ \A k \in 1..i : SubSeq(ms, 1, i)[k] = ms[k]
  OBVIOUS
<1> QED
  BY Zenon, <1>1 DEF FrameBytes, EndOf, Cells

LEMMA Joined ==
  ASSUME NEW h \in Seq(Byte), NEW m \in Seq(Byte)
  PROVE  /\ h \o m \in Seq(Byte) /\ Len(h \o m) = Len(h) + Len(m)
         /\ SubSeq(h \o m, 1, Len(h)) = h
         /\ \A j \in 1..Len(m) : (h \o m)[Len(h) + j] = m[j]
<1>1. h \o m \in Seq(Byte) /\ Len(h \o m) = Len(h) + Len(m)
  OBVIOUS
<1>2. \A j \in 1..Len(m) : (h \o m)[Len(h) + j] = m[j]
  OBVIOUS
<1>3. \A j \in 1..Len(h) : (h \o m)[j] = h[j]
  OBVIOUS
<1> DEFINE s == h \o m
<1>4. s \in Seq(Byte) /\ Len(s) >= Len(h)
  BY <1>1
<1> HIDE DEF s
<1>5. SubSeq(s, 1, Len(h)) \in Seq(Byte) /\ Len(SubSeq(s, 1, Len(h))) = Len(h)
  BY <1>4
<1>6. \A j \in 1..Len(h) : SubSeq(s, 1, Len(h))[j] = s[j]
  BY <1>4
<1>7. SubSeq(s, 1, Len(h)) = h
  BY <1>3, <1>5, <1>6 DEF s
<1> QED
  BY Zenon, <1>1, <1>2, <1>7 DEF s

LEMMA FrameShape ==
  ASSUME NEW m \in Messages
  PROVE  /\ m \in Seq(Byte) /\ Len(m) \in 1..MAX_FRAME_SIZE
         /\ Frame(m) \in Seq(Byte) /\ Len(Frame(m)) = HeaderSize + Len(m)
         /\ SubSeq(Frame(m), 1, HeaderSize) = BigEndian(Len(m))
         /\ \A j \in 1..Len(m) : Frame(m)[HeaderSize + j] = m[j]
<1>1. m \in Seq(Byte) /\ Len(m) \in 1..MAX_FRAME_SIZE
  BY LinkAssumption DEF Byte
<1>2. Len(m) \in Nat /\ Len(m) < 1024 * 1024 * 1024
  BY <1>1, LinkAssumption
<1> DEFINE h == BigEndian(Len(m))
<1>3. h \in Seq(Byte) /\ Len(h) = 4
  BY <1>2, BigEndianRoundTrip DEF HeaderSize
<1> HIDE DEF h
<1>4. Frame(m) = h \o m
  BY Zenon DEF Frame, h
<1>5. /\ h \o m \in Seq(Byte) /\ Len(h \o m) = 4 + Len(m)
      /\ SubSeq(h \o m, 1, 4) = h
      /\ \A j \in 1..Len(m) : (h \o m)[4 + j] = m[j]
  <2>1. /\ h \o m \in Seq(Byte) /\ Len(h \o m) = Len(h) + Len(m)
        /\ SubSeq(h \o m, 1, Len(h)) = h
        /\ \A j \in 1..Len(m) : (h \o m)[Len(h) + j] = m[j]
    BY Zenon, <1>1, <1>3, Joined
  <2> QED
    BY Zenon, <1>3, <2>1
<1>8. SubSeq(Frame(m), 1, 4) = BigEndian(Len(m))
  BY Zenon, <1>4, <1>5 DEF h
<1> QED
  BY Zenon, <1>1, <1>4, <1>5, <1>8 DEF HeaderSize

(***************************************************************************)
(* Bytes keep their place when they are joined and split.                  *)
(***************************************************************************)
LEMMA PlacedJoin ==
  ASSUME NEW ms \in Seq(Messages), NEW s \in Seq(Byte), NEW t \in Seq(Byte), NEW from \in Nat,
         Placed(ms, s, from), Placed(ms, t, from + Len(s))
  PROVE  Placed(ms, s \o t, from)
<1> SUFFICES ASSUME NEW q \in 1..Len(s \o t), NEW i \in 1..Len(ms),
                    NEW j \in 1..HeaderSize + Len(ms[i]), from + q = EndOf(ms, i - 1) + j
             PROVE  (s \o t)[q] = Frame(ms[i])[j]
  BY Zenon DEF Placed
<1>1. CASE q <= Len(s)
  <2>1. q \in 1..Len(s) /\ (s \o t)[q] = s[q]
    BY <1>1
  <2> QED
    BY Zenon, <2>1 DEF Placed
<1>2. CASE q > Len(s)
  <2>1. q - Len(s) \in 1..Len(t) /\ (s \o t)[q] = t[q - Len(s)]
    BY <1>2
  <2>2. (from + Len(s)) + (q - Len(s)) = EndOf(ms, i - 1) + j
    BY <1>2
  <2> QED
    BY ZenonT(30), <2>1, <2>2 DEF Placed
<1> QED
  BY SMTT(30), <1>1, <1>2

LEMMA PlacedFirst ==
  ASSUME NEW ms \in Seq(Messages), NEW s \in Seq(Byte), NEW from \in Nat, NEW n \in 0..Len(s),
         Placed(ms, s, from)
  PROVE  Placed(ms, SubSeq(s, 1, n), from)
<1>1. 1..Len(SubSeq(s, 1, n)) \subseteq 1..Len(s)
  OBVIOUS
<1>2. \A q \in 1..Len(SubSeq(s, 1, n)) : SubSeq(s, 1, n)[q] = s[q]
  OBVIOUS
<1> QED
  BY Zenon, <1>1, <1>2 DEF Placed

LEMMA PlacedRest ==
  ASSUME NEW ms \in Seq(Messages), NEW s \in Seq(Byte), NEW from \in Nat, NEW n \in 0..Len(s),
         Placed(ms, s, from)
  PROVE  Placed(ms, SubSeq(s, n + 1, Len(s)), from + n)
<1> DEFINE t == SubSeq(s, n + 1, Len(s))
<1>1. \A q \in 1..Len(t) : n + q \in 1..Len(s) /\ t[q] = s[n + q] /\ (from + n) + q = from + (n + q)
  OBVIOUS
<1> HIDE DEF t
<1>2. Placed(ms, t, from + n)
  <2> SUFFICES ASSUME NEW q \in 1..Len(t), NEW i \in 1..Len(ms),
                      NEW j \in 1..HeaderSize + Len(ms[i]),
                      (from + n) + q = EndOf(ms, i - 1) + j
               PROVE  t[q] = Frame(ms[i])[j]
    BY Zenon DEF Placed
  <2>1. n + q \in 1..Len(s) /\ t[q] = s[n + q] /\ from + (n + q) = EndOf(ms, i - 1) + j
    BY Zenon, <1>1
  <2> QED
    BY Zenon, <2>1 DEF Placed
<1> QED
  BY Zenon, <1>2 DEF t

LEMMA PlacedNone ==
  ASSUME NEW ms, NEW from
  PROVE  Placed(ms, <<>>, from)
  BY DEF Placed

\* A frame written after all the others has its place, and takes none of theirs.
LEMMA PlacedOlder ==
  ASSUME NEW ms \in Seq(Messages), NEW m \in Messages, NEW s \in Seq(Byte), NEW from \in Nat,
         Placed(ms, s, from), from + Len(s) <= EndOf(ms, Len(ms))
  PROVE  Placed(Append(ms, m), s, from)
<1> SUFFICES ASSUME NEW q \in 1..Len(s), NEW i \in 1..Len(Append(ms, m)),
                    NEW j \in 1..HeaderSize + Len(Append(ms, m)[i]),
                    from + q = EndOf(Append(ms, m), i - 1) + j
             PROVE  s[q] = Frame(Append(ms, m)[i])[j]
  BY Zenon DEF Placed
<1>1. EndOf(Append(ms, m), i - 1) = EndOf(ms, i - 1) /\ EndOf(ms, i - 1) \in Nat
  <2>1. i - 1 \in 0..Len(ms)
    OBVIOUS
  <2> QED
    BY Zenon, <2>1, EndOfAppend, CellsFinite
<1>2. CASE i = Len(ms) + 1
  <2>1. EndOf(ms, i - 1) = EndOf(ms, Len(ms))
    BY <1>2
  <2>2. j \in Nat /\ j >= 1
    BY FrameShape DEF HeaderSize
  <2> QED
    BY <1>1, <2>1, <2>2
<1>3. CASE i # Len(ms) + 1
  <2>1. i \in 1..Len(ms) /\ Append(ms, m)[i] = ms[i]
    BY <1>3
  <2>2. j \in 1..HeaderSize + Len(ms[i]) /\ from + q = EndOf(ms, i - 1) + j
    BY Zenon, <1>1, <2>1
  <2>3. s[q] = Frame(ms[i])[j]
    BY Zenon, <2>1, <2>2 DEF Placed
  <2> QED
    BY Zenon, <2>1, <2>3
<1> QED
  BY Zenon, <1>2, <1>3

LEMMA PlacedNewest ==
  ASSUME NEW ms \in Seq(Messages), NEW m \in Messages
  PROVE  Placed(Append(ms, m), Frame(m), EndOf(ms, Len(ms)))
<1> DEFINE e == EndOf(ms, Len(ms))
<1> SUFFICES ASSUME NEW q \in 1..Len(Frame(m)), NEW i \in 1..Len(Append(ms, m)),
                    NEW j \in 1..HeaderSize + Len(Append(ms, m)[i]),
                    e + q = EndOf(Append(ms, m), i - 1) + j
             PROVE  Frame(m)[q] = Frame(Append(ms, m)[i])[j]
  BY Zenon DEF Placed
<1>0. e \in Nat /\ q \in Nat /\ q >= 1
  <2>1. Len(ms) \in 0..Len(ms)
    OBVIOUS
  <2>2. Len(Frame(m)) \in Nat
    BY FrameShape DEF HeaderSize
  <2> QED
    BY <2>1, <2>2, CellsFinite
<1>1. EndOf(Append(ms, m), i - 1) = EndOf(ms, i - 1) /\ EndOf(ms, i - 1) \in Nat
  <2>1. i - 1 \in 0..Len(ms)
    OBVIOUS
  <2> QED
    BY Zenon, <2>1, EndOfAppend, CellsFinite
<1>2. CASE i = Len(ms) + 1
  <2>1. EndOf(ms, i - 1) = e /\ Append(ms, m)[i] = m
    BY <1>2
  <2>2. j \in Nat
    BY <2>1, FrameShape DEF HeaderSize
  <2> HIDE DEF e
  <2>3. q = j
    BY <1>0, <1>1, <2>1, <2>2
  <2> QED
    BY Zenon, <2>1, <2>3
<1>3. CASE i # Len(ms) + 1
  <2>1. i \in 1..Len(ms) /\ Append(ms, m)[i] = ms[i] /\ ms[i] \in Messages
    BY <1>3
  <2>2. EndOf(ms, i) = EndOf(ms, i - 1) + HeaderSize + Len(ms[i])
    BY Zenon, <2>1, EndOfNext
  <2>3. i \in 0..Len(ms) /\ Len(ms) \in 0..Len(ms) /\ i <= Len(ms)
    BY <2>1
  <2>4. EndOf(ms, i) <= e
    BY Zenon, <2>3, EndOfMonotone
  <2>5. Len(ms[i]) \in Nat /\ j \in 1..HeaderSize + Len(ms[i])
    BY <2>1, FrameShape
  <2> HIDE DEF e
  <2> QED
    BY SMTT(30), <1>0, <1>1, <2>2, <2>4, <2>5 DEF HeaderSize
<1> QED
  BY Zenon, <1>2, <1>3

\* The bytes of the next frame that have arrived, with the next n of the stream,
\* are again the beginning of that frame.
LEMMA FrameGrows ==
  ASSUME NEW ms \in Seq(Messages), NEW i \in 1..Len(ms), NEW b \in Seq(Byte), NEW s \in Seq(Byte),
         NEW n \in 0..Len(s), Len(b) + n <= HeaderSize + Len(ms[i]),
         b = SubSeq(Frame(ms[i]), 1, Len(b)), Placed(ms, s, EndOf(ms, i - 1) + Len(b))
  PROVE  b \o SubSeq(s, 1, n) = SubSeq(Frame(ms[i]), 1, Len(b) + n)
<1> DEFINE F == Frame(ms[i])
<1>1. F \in Seq(Byte) /\ Len(F) = HeaderSize + Len(ms[i]) /\ Len(ms[i]) \in Nat
  BY SMTT(30), FrameShape
<1>2. EndOf(ms, i - 1) \in Nat
  <2>1. i - 1 \in 0..Len(ms)
    OBVIOUS
  <2> QED
    BY Zenon, <2>1, CellsFinite
<1>3. ASSUME NEW q \in 1..n PROVE s[q] = F[Len(b) + q]
  <2>1. q \in 1..Len(s) /\ Len(b) + q \in 1..HeaderSize + Len(ms[i])
    BY SMTT(30), <1>1 DEF HeaderSize
  <2>2. (EndOf(ms, i - 1) + Len(b)) + q = EndOf(ms, i - 1) + (Len(b) + q)
    BY <1>2
  <2> QED
    BY Zenon, <2>1, <2>2 DEF Placed
<1> HIDE DEF F
<1>4. b = SubSeq(F, 1, Len(b))
  BY Zenon DEF F
<1>5. b \o SubSeq(s, 1, n) = SubSeq(F, 1, Len(b) + n)
  <2> DEFINE x == b \o SubSeq(s, 1, n)
             y == SubSeq(F, 1, Len(b) + n)
  <2>1. x \in Seq(Byte) /\ y \in Seq(Byte) /\ Len(x) = Len(b) + n /\ Len(y) = Len(b) + n
    <3>1. SubSeq(s, 1, n) \in Seq(Byte) /\ Len(SubSeq(s, 1, n)) = n
      OBVIOUS
    <3>2. x \in Seq(Byte) /\ Len(x) = Len(b) + n
      BY <3>1
    <3>3. y \in Seq(Byte) /\ Len(y) = Len(b) + n
      BY <1>1 DEF HeaderSize
    <3> QED
      BY Zenon, <3>2, <3>3
  <2>2. ASSUME NEW q \in 1..Len(b) + n PROVE x[q] = y[q]
    <3>1. y[q] = F[q]
      BY <1>1 DEF HeaderSize
    <3>2. CASE q <= Len(b)
      <4>1. x[q] = b[q]
        BY <3>2
      <4>2. SubSeq(F, 1, Len(b))[q] = F[q]
        BY <1>1, <3>2 DEF HeaderSize
      <4> HIDE DEF x, y
      <4> QED
        BY Zenon, <1>4, <3>1, <4>1, <4>2
    <3>3. CASE q > Len(b)
      <4>1. x[q] = s[q - Len(b)] /\ q - Len(b) \in 1..n /\ Len(b) + (q - Len(b)) = q
        BY <3>3
      <4> HIDE DEF x, y
      <4> QED
        BY Zenon, <1>3, <3>1, <4>1
    <3> QED
      BY <3>2, <3>3
  <2> HIDE DEF x, y
  <2>3. x = y
    BY <2>1, <2>2
  <2> QED
    BY Zenon, <2>3 DEF x, y
<1> QED
  BY Zenon, <1>5 DEF F

(***************************************************************************)
(* The writer and the transport.                                           *)
(***************************************************************************)
LEMMA PrefixKept ==
  ASSUME NEW ms \in Seq(Messages), NEW m \in Messages, NEW i \in Nat, i <= Len(ms)
  PROVE  SubSeq(Append(ms, m), 1, i) = SubSeq(ms, 1, i)
  OBVIOUS

LEMMA WriteKeeps ==
  ASSUME LinkInv, NEW m \in Messages, WriteFrame(m)
  PROVE  LinkInv'
<1> USE DEF LinkShape
<1> DEFINE w == written
           x == Append(written, m)
           top == EndOf(w, Len(w))
<1>1. /\ LinkShape /\ OnTheWay /\ UnderWay /\ HandedOver
      /\ up /\ unsent = <<>> /\ written' = x /\ unsent' = Frame(m)
      /\ UNCHANGED <<stream, up, stage, buf, event, read, channel, taken, ended>>
  BY Zenon DEF LinkInv, WriteFrame, Frame, reader, session
<1>2. x \in Seq(Messages) /\ Len(x) = Len(w) + 1 /\ x[Len(w) + 1] = m /\ \A i \in 1..Len(w) : x[i] = w[i]
  BY <1>1
<1>3. \A i \in 0..Len(w) : EndOf(x, i) = EndOf(w, i) /\ EndOf(w, i) \in Nat
  BY Zenon, <1>1, EndOfAppend, CellsFinite
<1>4. top \in Nat /\ Len(w) \in Nat /\ EndOf(x, Len(x)) = top + HeaderSize + Len(m)
  <2>1. Len(x) \in 1..Len(x) /\ Len(w) \in 0..Len(w) /\ Len(w) = Len(x) - 1 /\ Len(w) \in Nat
    BY <1>1, <1>2
  <2>2. EndOf(x, Len(x)) = EndOf(x, Len(x) - 1) + HeaderSize + Len(x[Len(x)])
    BY Zenon, <1>2, <2>1, EndOfNext
  <2> QED
    BY Zenon, <1>2, <1>3, <2>1, <2>2
<1>5. read + Len(stream) = top
  BY <1>1 DEF OnTheWay
<1>6. Frame(m) \in Seq(Byte) /\ Len(Frame(m)) = HeaderSize + Len(m) /\ Len(m) \in Nat
  BY FrameShape
<1>7. LinkShape'
  BY Zenon, <1>1, <1>2, <1>6
<1>8. OnTheWay'
  <2>1. Placed(x, stream, read)
    <3>1. read + Len(stream) <= EndOf(w, Len(w)) /\ Placed(w, stream, read)
      BY Zenon, <1>1, <1>4, <1>5 DEF OnTheWay
    <3> QED
      BY Zenon, <1>1, <3>1, PlacedOlder
  <2>2. Placed(x, Frame(m), read + Len(stream))
    BY Zenon, <1>1, <1>5, PlacedNewest
  <2>3. read + Len(stream) + Len(Frame(m)) = EndOf(x, Len(x))
    BY <1>4, <1>5, <1>6 DEF HeaderSize
  <2>4. read + Len(stream) + Len(Frame(m)) <= EndOf(x, Len(x))
    BY <1>4, <2>3, <1>6 DEF HeaderSize
  <2> QED
    BY Zenon, <1>1, <2>1, <2>2, <2>3, <2>4 DEF OnTheWay
<1> HIDE DEF x, top
<1>9. Whole \in Nat /\ Whole' = Whole
  BY <1>1 DEF Whole
<1>10. UnderWay'
  <2>1. SUFFICES ASSUME stage \in {"idle", "header", "payload"}
                 PROVE  UnderWay'
    BY Zenon, <1>1 DEF UnderWay
  <2>2. Whole \in 0..Len(w) /\ Whole <= Len(x)
    BY <1>1, <1>2, <1>4, <1>9, <2>1 DEF UnderWay
  <2>3. EndOf(x, Whole) = EndOf(w, Whole)
    BY Zenon, <1>3, <2>2
  <2>4. stage # "idle" => Whole < Len(w) /\ Whole < Len(x) /\ x[Whole + 1] = w[Whole + 1]
    <3>1. stage # "idle" => Whole < Len(w)
      BY Zenon, <1>1, <2>1 DEF UnderWay
    <3>2. stage # "idle" => Whole + 1 \in 1..Len(w) /\ Whole < Len(x)
      BY <1>2, <1>4, <1>9, <3>1
    <3> QED
      BY Zenon, <1>2, <3>1, <3>2
  <2> QED
    BY Zenon, <1>1, <1>9, <2>1, <2>2, <2>3, <2>4 DEF UnderWay
<1>11. HandedOver'
  <2>1. ASSUME NEW e, NEW n \in Nat \ {0}, Handed(e, n)
        PROVE  Handed(e, n)' /\ (e.what = "message" => EndOf(x, n) = EndOf(w, n))
    <3>1. e.what # "closed"
      BY Zenon, <1>1, <2>1 DEF Handed
    <3>2. e.what = "message" => n \in 1..Len(w) /\ n \in 0..Len(w) /\ n <= Len(x)
      BY <1>2, <1>4, <2>1 DEF Handed
    <3> QED
      BY Zenon, <1>1, <1>2, <1>3, <2>1, <3>1, <3>2 DEF Handed
  <2>2. Len(taken) <= Len(x) /\ taken = SubSeq(x, 1, Len(taken))
    <3>1. Len(taken) <= Len(w) /\ taken = SubSeq(w, 1, Len(taken)) /\ Len(taken) \in Nat
      BY <1>1 DEF HandedOver
    <3>2. SubSeq(x, 1, Len(taken)) = SubSeq(w, 1, Len(taken))
      BY Zenon, <1>1, <3>1, PrefixKept DEF x
    <3> QED
      BY <1>2, <1>4, <3>1, <3>2
  <2>3. ASSUME NEW i \in DOMAIN channel PROVE Handed(channel[i], Len(taken) + i)'
    <3>1. Len(taken) + i \in Nat \ {0}
      BY <1>1
    <3>2. Handed(channel[i], Len(taken) + i)
      BY Zenon, <1>1 DEF HandedOver
    <3> QED
      BY Zenon, <1>1, <2>1, <3>1, <3>2 DEF Handed
  <2>4. ASSUME stage = "push"
        PROVE  /\ Handed(event, Whole + 1)' /\ buf = <<>>
               /\ event.what = "message" => read = EndOf(x, Whole + 1)
    <3>1. Whole + 1 \in Nat \ {0}
      BY <1>9
    <3>2. Handed(event, Whole + 1) /\ buf = <<>> /\ (event.what = "message" => read = EndOf(w, Whole + 1))
      BY Zenon, <1>1, <2>4 DEF HandedOver
    <3> QED
      BY Zenon, <1>1, <1>9, <2>1, <3>1, <3>2 DEF Handed
  <2>5. ended # "closed"
    BY Zenon, <1>1 DEF HandedOver
  <2> QED
    BY Zenon, <1>1, <1>9, <2>2, <2>3, <2>4, <2>5 DEF HandedOver
<1> QED
  BY Zenon, <1>7, <1>8, <1>10, <1>11 DEF LinkInv

LEMMA TransmitKeeps ==
  ASSUME LinkInv, NEW n \in Nat, Transmit(n)
  PROVE  LinkInv'
<1> DEFINE first == SubSeq(unsent, 1, n)
           rest == SubSeq(unsent, n + 1, Len(unsent))
<1>1. /\ LinkShape /\ OnTheWay /\ UnderWay /\ HandedOver
      /\ up /\ n <= Len(unsent) /\ stream' = stream \o first /\ unsent' = rest
      /\ UNCHANGED <<written, up, stage, buf, event, read, channel, taken, ended>>
  BY Zenon DEF LinkInv, Transmit, reader, session
<1>2. unsent \in Seq(Byte) /\ stream \in Seq(Byte) /\ read \in Nat /\ written \in Seq(Messages)
  BY Zenon, <1>1 DEF LinkShape
<1>3. n \in 0..Len(unsent)
  BY <1>1, <1>2
<1>4. first \in Seq(Byte) /\ Len(first) = n /\ rest \in Seq(Byte) /\ Len(rest) = Len(unsent) - n
  BY <1>2, <1>3
<1> HIDE DEF first, rest
<1>5. stream \o first \in Seq(Byte) /\ Len(stream \o first) = Len(stream) + n
  BY Zenon, <1>2, <1>4, Joined
<1>6. LinkShape'
  BY Zenon, <1>1, <1>4, <1>5 DEF LinkShape
<1>7. OnTheWay'
  <2>1. read + Len(stream) \in Nat /\ (read + Len(stream)) + n = read + Len(stream \o first)
    BY <1>2, <1>5
  <2>2. Placed(written, stream, read) /\ Placed(written, unsent, read + Len(stream))
    BY Zenon, <1>1 DEF OnTheWay
  <2>3. Placed(written, first, read + Len(stream))
    BY Zenon, <1>2, <1>3, <2>1, <2>2, PlacedFirst DEF first
  <2>4. Placed(written, stream \o first, read)
    BY Zenon, <1>2, <1>4, <2>2, <2>3, PlacedJoin
  <2>5. Placed(written, rest, read + Len(stream \o first))
    <3>1. Placed(written, rest, (read + Len(stream)) + n)
      BY Zenon, <1>2, <1>3, <2>1, <2>2, PlacedRest DEF rest
    <3> QED
      BY Zenon, <2>1, <3>1
  <2>6. read + Len(stream \o first) + Len(rest) = read + Len(stream) + Len(unsent)
    BY <1>2, <1>4, <1>5
  <2> QED
    BY Zenon, <1>1, <2>4, <2>5, <2>6 DEF OnTheWay
<1>8. UnderWay' /\ HandedOver'
  BY Zenon, <1>1 DEF UnderWay, HandedOver, Handed, Whole
<1> QED
  BY Zenon, <1>6, <1>7, <1>8 DEF LinkInv

\* The connection ends; what the session has, and what was written, stays.
LEMMA CutKeeps ==
  ASSUME LinkInv, NEW n \in 0..Len(stream), Cut(n)
  PROVE  LinkInv'
<1> DEFINE first == SubSeq(stream, 1, n)
<1>1. /\ LinkShape /\ OnTheWay /\ UnderWay /\ HandedOver
      /\ up /\ ~up' /\ stream' = first /\ unsent' = <<>>
      /\ UNCHANGED <<written, stage, buf, event, read, channel, taken, ended>>
  BY Zenon DEF LinkInv, Cut, reader, session
<1>2. stream \in Seq(Byte) /\ unsent \in Seq(Byte) /\ read \in Nat /\ written \in Seq(Messages)
  BY Zenon, <1>1 DEF LinkShape
<1>3. first \in Seq(Byte) /\ Len(first) = n
  BY <1>2
<1>4. Placed(written, first, read)
  BY Zenon, <1>1, <1>2, PlacedFirst DEF OnTheWay
<1> HIDE DEF first
<1>5. up' = FALSE
  BY Zenon DEF Cut
<1>6. LinkShape'
  <2>1. <<>> \in Seq(Byte)
    OBVIOUS
  <2> QED
    BY Zenon, <1>1, <1>3, <1>5, <2>1 DEF LinkShape
<1>7. OnTheWay'
  <2>1. Placed(written, <<>>, read + Len(first))
    BY Zenon, PlacedNone
  <2>2. EndOf(written, Len(written)) \in Nat
    <3>1. Len(written) \in 0..Len(written)
      BY <1>2
    <3> QED
      BY Zenon, <1>2, <3>1, CellsFinite
  <2>3. read + Len(stream) + Len(unsent) <= EndOf(written, Len(written))
    BY Zenon, <1>1 DEF OnTheWay
  <2>4. Len(unsent) \in Nat /\ Len(stream) \in Nat /\ Len(<<>>) = 0
    BY <1>2
  <2>5. read + Len(first) + Len(<<>>) <= EndOf(written, Len(written))
    BY <1>2, <1>3, <2>2, <2>3, <2>4
  <2> QED
    BY Zenon, <1>1, <1>4, <2>1, <2>5 DEF OnTheWay
<1>8. UnderWay' /\ HandedOver'
  BY Zenon, <1>1 DEF UnderWay, HandedOver, Handed, Whole
<1> QED
  BY Zenon, <1>6, <1>7, <1>8 DEF LinkInv

LEMMA LeaveKeeps ==
  ASSUME LinkInv, Leave
  PROVE  LinkInv'
<1>1. /\ LinkShape /\ OnTheWay /\ HandedOver
      /\ up' = FALSE /\ unsent' = <<>> /\ stage' = "done" /\ channel' = <<>> /\ ended' = "left"
      /\ buf' = <<>> /\ UNCHANGED <<written, stream, taken, read>>
  BY Zenon DEF LinkInv, Leave
<1>2. stream \in Seq(Byte) /\ unsent \in Seq(Byte) /\ read \in Nat /\ written \in Seq(Messages)
  BY Zenon, <1>1 DEF LinkShape
<1>3. LinkShape'
  <2>1. <<>> \in Seq(Byte) /\ <<>> \in Seq([what : {"message", "closed", "error"}, body : Seq(Byte)])
    OBVIOUS
  <2> QED
    BY Zenon, <1>1, <2>1 DEF LinkShape
<1>4. OnTheWay'
  <2>1. Placed(written, <<>>, read + Len(stream))
    BY Zenon, PlacedNone
  <2>2. EndOf(written, Len(written)) \in Nat
    <3>1. Len(written) \in 0..Len(written)
      BY <1>2
    <3> QED
      BY Zenon, <1>2, <3>1, CellsFinite
  <2>3. read + Len(stream) + Len(unsent) <= EndOf(written, Len(written))
    BY Zenon, <1>1 DEF OnTheWay
  <2>4. Len(unsent) \in Nat /\ Len(stream) \in Nat /\ Len(<<>>) = 0
    BY <1>2
  <2>5. read + Len(stream) + Len(<<>>) <= EndOf(written, Len(written))
    BY <1>2, <2>2, <2>3, <2>4
  <2> QED
    BY Zenon, <1>1, <2>1, <2>5 DEF OnTheWay
<1>5. UnderWay'
  BY Zenon, <1>1 DEF UnderWay
<1>6. HandedOver'
  BY <1>1 DEF HandedOver
<1> QED
  BY Zenon, <1>3, <1>4, <1>5, <1>6 DEF LinkInv

(***************************************************************************)
(* The reader.                                                             *)
(***************************************************************************)
\* The reader's stages in which it waits for bytes.
AtWork == stage \in {"idle", "header", "payload"}

\* While it does, nothing but messages was handed over.
LEMMA OnlyMessages ==
  ASSUME LinkInv, AtWork
  PROVE  ended = None /\ ended # "closed" /\ \A i \in DOMAIN channel : channel[i].what = "message"
<1>1. stage # "done" /\ HandedOver
  BY Zenon DEF LinkInv, AtWork
<1>2. None # "closed"
  BY LinkAssumption
<1> QED
  BY Zenon, <1>1, <1>2 DEF HandedOver

LEMMA WholeType ==
  ASSUME LinkInv
  PROVE  /\ Whole \in Nat /\ Len(taken) \in Nat /\ Len(channel) \in Nat /\ written \in Seq(Messages)
         /\ read \in Nat /\ stream \in Seq(Byte) /\ unsent \in Seq(Byte) /\ buf \in Seq(Byte)
         /\ EndOf(written, Len(written)) \in Nat /\ Len(written) \in Nat
<1>1. LinkShape
  BY Zenon DEF LinkInv
<1>2. written \in Seq(Messages) /\ read \in Nat /\ stream \in Seq(Byte) /\ unsent \in Seq(Byte) /\ buf \in Seq(Byte)
  BY Zenon, <1>1 DEF LinkShape
<1>3. Len(taken) \in Nat /\ Len(channel) \in Nat /\ Whole \in Nat
  BY <1>1 DEF LinkShape, Whole
<1>4. Len(written) \in 0..Len(written) /\ Len(written) \in Nat
  BY <1>2
<1> QED
  BY Zenon, <1>2, <1>3, <1>4, CellsFinite

LEMMA GetsKeeps ==
  ASSUME LinkInv, NEW n \in Nat, Gets(n), UNCHANGED <<written, unsent, up>>
  PROVE  OnTheWay' /\ stream' \in Seq(Byte) /\ read' \in Nat /\ n \in 0..Len(stream)
<1> DEFINE rest == SubSeq(stream, n + 1, Len(stream))
<1>1. OnTheWay /\ n <= Len(stream) /\ stream' = rest /\ read' = read + n /\ UNCHANGED <<written, unsent, up>>
  BY Zenon DEF LinkInv, Gets
<1>2. stream \in Seq(Byte) /\ read \in Nat /\ written \in Seq(Messages) /\ unsent \in Seq(Byte)
  BY Zenon, WholeType
<1>3. n \in 0..Len(stream) /\ read + n \in Nat
  BY <1>1, <1>2
<1>4. rest \in Seq(Byte) /\ Len(rest) = Len(stream) - n
  BY <1>2, <1>3
<1>5. Placed(written, rest, read + n)
  BY Zenon, <1>1, <1>2, <1>3, PlacedRest DEF OnTheWay
<1> HIDE DEF rest
<1>6. (read + n) + Len(rest) = read + Len(stream)
  BY <1>2, <1>3, <1>4
<1>7. OnTheWay'
  <2>1. Placed(written, unsent, (read + n) + Len(rest))
    BY Zenon, <1>1, <1>6 DEF OnTheWay
  <2>2. (read + n) + Len(rest) + Len(unsent) = read + Len(stream) + Len(unsent)
    BY Zenon, <1>6
  <2>3. Placed(written', stream', read') /\ Placed(written', unsent', read' + Len(stream'))
    BY Zenon, <1>1, <1>5, <2>1
  <2>4. read' + Len(stream') + Len(unsent') = read + Len(stream) + Len(unsent)
    BY Zenon, <1>1, <2>2
  <2>5. EndOf(written', Len(written')) = EndOf(written, Len(written)) /\ up' = up /\ unsent' = unsent
    BY Zenon, <1>1
  <2>6. OnTheWay
    BY Zenon, <1>1
  <2>7. read' + Len(stream') + Len(unsent') <= EndOf(written', Len(written'))
    BY Zenon, <2>4, <2>5, <2>6 DEF OnTheWay
  <2>8. up' => read' + Len(stream') + Len(unsent') = EndOf(written', Len(written'))
    BY <2>4, <2>5, <2>6 DEF OnTheWay
  <2>9. ~up' => unsent' = <<>>
    BY <2>5, <2>6 DEF OnTheWay
  <2> QED
    BY Zenon, <2>3, <2>7, <2>8, <2>9 DEF OnTheWay
<1> QED
  BY Zenon, <1>1, <1>3, <1>4, <1>7

\* A byte that arrives belongs to a frame that was written.
LEMMA NextFrame ==
  ASSUME LinkInv, AtWork, stream # <<>>
  PROVE  Whole < Len(written) /\ Whole + 1 \in 1..Len(written) /\ written[Whole + 1] \in Messages
<1>1. Whole <= Len(written) /\ read = EndOf(written, Whole) + Len(buf)
  BY Zenon DEF LinkInv, UnderWay, AtWork
<1>2. read + Len(stream) + Len(unsent) <= EndOf(written, Len(written))
  BY Zenon DEF LinkInv, OnTheWay
<1>3. /\ Whole \in Nat /\ Len(written) \in Nat /\ EndOf(written, Len(written)) \in Nat
      /\ stream \in Seq(Byte) /\ unsent \in Seq(Byte) /\ read \in Nat /\ buf \in Seq(Byte)
      /\ written \in Seq(Messages)
  BY Zenon, WholeType
<1>4. Len(stream) \in Nat /\ Len(stream) > 0 /\ Len(unsent) \in Nat /\ Len(buf) \in Nat
  BY <1>3
<1>5. Whole # Len(written)
  <2>1. SUFFICES ASSUME Whole = Len(written) PROVE FALSE
    BY Zenon
  <2>2. EndOf(written, Whole) = EndOf(written, Len(written))
    BY Zenon, <2>1
  <2> QED
    BY <1>1, <1>2, <1>3, <1>4, <2>2
<1>6. Whole < Len(written) /\ Whole + 1 \in 1..Len(written)
  BY <1>1, <1>3, <1>5
<1> QED
  BY <1>3, <1>6

\* Bytes that extend the frame under way.
Gathered(n) == buf \o SubSeq(stream, 1, n)

LEMMA GatheredBytes ==
  ASSUME LinkInv, AtWork, NEW n \in Nat \ {0}, Gets(n), UNCHANGED written,
         Len(buf) + n <= HeaderSize + Len(written[Whole + 1])
  PROVE  /\ Whole < Len(written) /\ written[Whole + 1] \in Messages
         /\ Gathered(n) \in Seq(Byte) /\ Len(Gathered(n)) = Len(buf) + n
         /\ Gathered(n) = SubSeq(Frame(written[Whole + 1]), 1, Len(Gathered(n)))
         /\ read' = EndOf(written, Whole) + Len(Gathered(n))
<1> DEFINE F == Frame(written[Whole + 1])
<1>1. /\ Whole \in Nat /\ stream \in Seq(Byte) /\ read \in Nat /\ buf \in Seq(Byte)
      /\ written \in Seq(Messages)
  BY Zenon, WholeType
<1>2. n <= Len(stream) /\ n \in Nat /\ n # 0 /\ read' = read + n /\ Gathered(n) = buf \o SubSeq(stream, 1, n)
  BY Zenon DEF Gets, Gathered
<1>3. n \in 0..Len(stream) /\ stream # <<>>
  BY <1>1, <1>2
<1>4. Whole < Len(written) /\ Whole + 1 \in 1..Len(written) /\ written[Whole + 1] \in Messages
  BY Zenon, <1>3, NextFrame
<1>5. F \in Seq(Byte) /\ Len(F) = HeaderSize + Len(written[Whole + 1]) /\ Len(written[Whole + 1]) \in Nat
  BY <1>4, FrameShape
<1>6. read = EndOf(written, Whole) + Len(buf) /\ (stage = "idle" => buf = <<>>)
        /\ (stage # "idle" => buf = SubSeq(F, 1, Len(buf)))
  BY Zenon DEF LinkInv, UnderWay, AtWork
<1> HIDE DEF F
<1>7. buf = SubSeq(F, 1, Len(buf))
  <2>1. CASE stage = "idle"
    BY <1>5, <1>6, <2>1
  <2> QED
    BY Zenon, <1>6, <2>1
<1>8. (Whole + 1) - 1 = Whole /\ EndOf(written, Whole) \in Nat
  <2>1. Whole \in 0..Len(written)
    BY <1>1, <1>4
  <2> QED
    BY <1>1, <2>1, CellsFinite
<1>9. Placed(written, stream, EndOf(written, (Whole + 1) - 1) + Len(buf))
  BY Zenon, <1>6, <1>8 DEF LinkInv, OnTheWay
<1>10. Gathered(n) = SubSeq(F, 1, Len(buf) + n)
  BY ZenonT(30), <1>1, <1>2, <1>3, <1>4, <1>7, <1>9, FrameGrows DEF F
<1>11. Len(buf) + n \in 0..Len(F) /\ Len(buf) \in Nat
  BY <1>1, <1>2, <1>5 DEF HeaderSize
<1>12. Gathered(n) \in Seq(Byte) /\ Len(Gathered(n)) = Len(buf) + n
  BY <1>5, <1>10, <1>11
<1>13. read' = EndOf(written, Whole) + Len(Gathered(n))
  BY <1>2, <1>6, <1>8, <1>11, <1>12
<1> QED
  BY Zenon, <1>4, <1>10, <1>12, <1>13 DEF F

LEMMA ReadingKeeps ==
  ASSUME LinkInv, AtWork, AtWork', UNCHANGED <<written, taken, channel, ended, up>>
  PROVE  HandedOver'
<1>1. HandedOver
  BY Zenon DEF LinkInv
<1>2. stage' # "push" /\ stage' # "done"
  BY Zenon DEF AtWork
<1>3. ended = None /\ ended # "closed" /\ \A i \in DOMAIN channel : channel[i].what = "message"
  BY Zenon, OnlyMessages
<1>4. \A i \in DOMAIN channel : channel[i].what # "closed"
  BY Zenon, <1>3
<1>5. \A i \in DOMAIN channel : Handed(channel[i], Len(taken) + i)'
  BY Zenon, <1>1, <1>3, <1>4 DEF HandedOver, Handed
<1> QED
  BY Zenon, <1>1, <1>2, <1>3, <1>5 DEF HandedOver

LEMMA HandsKeeps ==
  ASSUME LinkInv, AtWork, UNCHANGED <<written, taken, channel, ended, up>>,
         NEW what \in {"message", "closed", "error"}, NEW body \in Seq(Byte), Hands(what, body),
         what = "message" =>
           Whole + 1 <= Len(written) /\ body = written[Whole + 1] /\ read' = EndOf(written, Whole + 1),
         what = "closed" => Whole + 1 <= Len(written) + 1 /\ read' = EndOf(written, Whole) /\ ~up
  PROVE  UnderWay' /\ HandedOver'
<1>1. HandedOver
  BY Zenon DEF LinkInv
<1>2. stage' = "push" /\ event' = [what |-> what, body |-> body] /\ buf' = <<>>
  BY Zenon DEF Hands
<1>3. ended = None /\ ended # "closed" /\ \A i \in DOMAIN channel : channel[i].what = "message"
  BY Zenon, OnlyMessages
<1>4. \A i \in DOMAIN channel : Handed(channel[i], Len(taken) + i)'
  <2>1. \A i \in DOMAIN channel : channel[i].what # "closed"
    BY Zenon, <1>3
  <2> QED
    BY Zenon, <1>1, <1>3, <2>1 DEF HandedOver, Handed
<1>5. event'.what = what /\ event'.body = body
  BY Zenon, <1>2
<1>6. Whole' = Whole /\ (Whole + 1) - 1 = Whole
  BY WholeType DEF Whole
<1>7. Handed(event, Whole + 1)'
  BY Zenon, <1>5, <1>6 DEF Handed
<1>8. UnderWay'
  BY Zenon, <1>2 DEF UnderWay
<1>9. event'.what = "message" => read' = EndOf(written', (Whole + 1)')
  BY Zenon, <1>5, <1>6
<1> QED
  BY Zenon, <1>1, <1>2, <1>3, <1>4, <1>7, <1>8, <1>9 DEF HandedOver

\* What the reader's steps leave of the shape of the state.
LEMMA ReaderShape ==
  ASSUME LinkInv, UNCHANGED <<written, unsent, up, taken, channel, ended>>,
         stream' \in Seq(Byte), read' \in Nat, buf' \in Seq(Byte),
         stage' \in {"idle", "header", "payload", "push", "done"},
         stage' = "push" => event' \in [what : {"message", "closed", "error"}, body : Seq(Byte)]
  PROVE  LinkShape'
  BY Zenon DEF LinkInv, LinkShape

LEMMA FirstKeeps ==
  ASSUME LinkInv, First
  PROVE  LinkInv'
<1>1. /\ stage = "idle" /\ stream # <<>> /\ Gets(1) /\ Holds(1) /\ stage' = "header"
      /\ UNCHANGED <<written, unsent, up, event, channel, taken, ended>>
  BY Zenon DEF First, session
<1>2. AtWork /\ AtWork' /\ 1 \in Nat \ {0} /\ 1 \in Nat
  BY <1>1 DEF AtWork
<1>3. buf = <<>> /\ Len(buf) = 0
  <2>1. buf = <<>>
    BY Zenon, <1>1 DEF LinkInv, UnderWay
  <2> QED
    BY Zenon, <2>1
<1>4. Whole < Len(written) /\ Whole + 1 \in 1..Len(written) /\ written[Whole + 1] \in Messages
  BY Zenon, <1>1, <1>2, NextFrame
<1>5. Len(written[Whole + 1]) \in Nat /\ Len(written[Whole + 1]) >= 1
  BY <1>4, LinkAssumption
<1>6. Len(buf) + 1 <= HeaderSize + Len(written[Whole + 1])
  BY <1>3, <1>5 DEF HeaderSize
<1>7. /\ buf' \in Seq(Byte) /\ Len(buf') = Len(buf) + 1
      /\ buf' = SubSeq(Frame(written[Whole + 1]), 1, Len(buf'))
      /\ read' = EndOf(written, Whole) + Len(buf')
  <2>1. buf' = Gathered(1)
    BY Zenon, <1>1 DEF Holds, Gathered
  <2> QED
    BY Zenon, <1>1, <1>2, <1>6, <2>1, GatheredBytes
<1>8. OnTheWay' /\ stream' \in Seq(Byte) /\ read' \in Nat
  BY Zenon, <1>1, <1>2, GetsKeeps
<1>9. LinkShape'
  <2>1. stage' \in {"idle", "header", "payload", "push", "done"} /\ stage' # "push"
    BY Zenon, <1>1
  <2> QED
    BY Zenon, <1>1, <1>7, <1>8, <2>1, ReaderShape
<1>10. UnderWay'
  <2>1. Whole' = Whole /\ Whole <= Len(written)
    BY <1>1, <1>4, WholeType DEF Whole
  <2>2. Len(buf') \in 1..HeaderSize - 1 /\ Len(buf') <= HeaderSize + Len(written[Whole + 1])
    BY <1>3, <1>5, <1>7 DEF HeaderSize
  <2>3. stage' # "idle" /\ stage' # "payload"
    BY Zenon, <1>1
  <2> QED
    BY Zenon, <1>1, <1>4, <1>7, <2>1, <2>2, <2>3 DEF UnderWay
<1>11. HandedOver'
  BY Zenon, <1>1, <1>2, ReadingKeeps
<1> QED
  BY Zenon, <1>8, <1>9, <1>10, <1>11 DEF LinkInv

\* An event that ends the reading leaves the transport alone.
LEMMA EndsKeeps ==
  ASSUME LinkInv, AtWork, NEW what \in {"closed", "error"}, Hands(what, <<>>),
         what = "closed" => stage = "idle" /\ ~up,
         UNCHANGED <<transport, read, session>>
  PROVE  LinkInv'
<1>1. /\ stage' = "push" /\ event' = [what |-> what, body |-> <<>>] /\ buf' = <<>>
      /\ UNCHANGED <<written, unsent, stream, up, read, channel, taken, ended>>
  BY Zenon DEF Hands, transport, session
<1>2. <<>> \in Seq(Byte) /\ what \in {"message", "closed", "error"} /\ what # "message"
  OBVIOUS
<1>3. LinkShape'
  <2>1. event' \in [what : {"message", "closed", "error"}, body : Seq(Byte)]
    BY Zenon, <1>1, <1>2
  <2>2. stream \in Seq(Byte) /\ read \in Nat
    BY Zenon, WholeType
  <2> QED
    BY Zenon, <1>1, <1>2, <2>1, <2>2, ReaderShape
<1>4. OnTheWay'
  BY Zenon, <1>1 DEF LinkInv, OnTheWay
<1>5. what = "closed" => Whole + 1 <= Len(written) + 1 /\ read' = EndOf(written, Whole) /\ ~up
  <2>1. SUFFICES ASSUME what = "closed"
                 PROVE  Whole + 1 <= Len(written) + 1 /\ read' = EndOf(written, Whole) /\ ~up
    BY Zenon
  <2>2. Whole <= Len(written) /\ read = EndOf(written, Whole) + Len(buf) /\ buf = <<>>
    BY Zenon, <2>1 DEF LinkInv, UnderWay
  <2>3. Whole \in 0..Len(written) /\ Whole \in Nat /\ Len(written) \in Nat /\ written \in Seq(Messages)
    BY <2>2, WholeType
  <2>4. EndOf(written, Whole) \in Nat
    BY Zenon, <2>3, CellsFinite
  <2> QED
    BY <1>1, <2>1, <2>2, <2>3, <2>4
<1>6. UnderWay' /\ HandedOver'
  BY Zenon, <1>1, <1>2, <1>5, HandsKeeps
<1> QED
  BY Zenon, <1>3, <1>4, <1>6 DEF LinkInv

LEMMA EndOfStreamKeeps ==
  ASSUME LinkInv, EndOfStream
  PROVE  LinkInv'
<1>1. AtWork
  BY Zenon DEF EndOfStream, AtWork
<1>2. "closed" \in {"closed", "error"}
  BY Zenon
<1> QED
  BY Zenon, <1>1, <1>2, EndsKeeps DEF EndOfStream

LEMMA BreaksKeeps ==
  ASSUME LinkInv, Truncated \/ Timeout
  PROVE  LinkInv'
<1>1. AtWork
  BY Zenon DEF Truncated, Timeout, AtWork
<1>2. "error" \in {"closed", "error"} /\ "error" # "closed"
  BY Zenon
<1>3. Hands("error", <<>>) /\ UNCHANGED <<transport, read, session>>
  BY Zenon DEF Truncated, Timeout
<1> QED
  BY Zenon, <1>1, <1>2, <1>3, EndsKeeps

\* The header of a frame that was written is its length, which is within the limit.
LEMMA HeaderOfFrame ==
  ASSUME NEW m \in Messages
  PROVE  /\ FromBigEndian(SubSeq(Frame(m), 1, HeaderSize)) = Len(m)
         /\ Len(m) \in Nat /\ Len(m) >= 1 /\ Len(m) <= MAX_FRAME_SIZE
<1>1. Len(m) \in 1..MAX_FRAME_SIZE /\ MAX_FRAME_SIZE \in Nat
  BY LinkAssumption
<1>2. Len(m) \in Nat /\ Len(m) >= 1 /\ Len(m) <= MAX_FRAME_SIZE
  BY <1>1
<1>3. SubSeq(Frame(m), 1, HeaderSize) = BigEndian(Len(m))
  BY Zenon, FrameShape
<1>4. FromBigEndian(BigEndian(Len(m))) = Len(m)
  <2>1. Len(m) < 1024 * 1024 * 1024
    BY <1>1, LinkAssumption
  <2> QED
    BY <1>2, <2>1, BigEndianRoundTrip
<1>5. FromBigEndian(SubSeq(Frame(m), 1, HeaderSize)) = Len(m)
  BY Zenon, <1>3, <1>4
<1> QED
  BY Zenon, <1>2, <1>5

\* The frame under way and its header.
LEMMA InFrame ==
  ASSUME LinkInv, stage \in {"header", "payload"}
  PROVE  /\ AtWork /\ Whole < Len(written) /\ Whole + 1 \in 1..Len(written)
         /\ written[Whole + 1] \in Messages
         /\ Len(buf) \in Nat /\ Len(written[Whole + 1]) \in Nat /\ Len(written[Whole + 1]) >= 1
         /\ Len(written[Whole + 1]) <= MAX_FRAME_SIZE
         /\ buf = SubSeq(Frame(written[Whole + 1]), 1, Len(buf))
         /\ stage = "header" => Len(buf) < HeaderSize
         /\ stage = "payload" =>
              Len(buf) >= HeaderSize /\ Len(buf) < HeaderSize + Len(written[Whole + 1])
<1>1. AtWork /\ stage # "idle" /\ stage \in {"idle", "header", "payload"}
  BY Zenon DEF AtWork
<1>2. /\ Whole < Len(written) /\ buf = SubSeq(Frame(written[Whole + 1]), 1, Len(buf))
      /\ stage = "header" => Len(buf) \in 1..HeaderSize - 1
      /\ stage = "payload" =>
           Len(buf) >= HeaderSize /\ Len(buf) < HeaderSize + Len(written[Whole + 1])
  BY Zenon, <1>1 DEF LinkInv, UnderWay
<1>3. Whole \in Nat /\ written \in Seq(Messages) /\ buf \in Seq(Byte)
  BY Zenon, WholeType
<1>4. Whole + 1 \in 1..Len(written) /\ Len(buf) \in Nat
  BY <1>2, <1>3
<1>5. written[Whole + 1] \in Messages
  BY <1>3, <1>4
<1>6. Len(written[Whole + 1]) \in Nat /\ Len(written[Whole + 1]) >= 1 /\ Len(written[Whole + 1]) <= MAX_FRAME_SIZE
  BY Zenon, <1>5, HeaderOfFrame
<1>7. stage = "header" => Len(buf) < HeaderSize
  <2>1. stage = "header" => Len(buf) \in 1..HeaderSize - 1
    BY Zenon, <1>2
  <2>2. ASSUME NEW k \in 1..HeaderSize - 1 PROVE k < HeaderSize
    BY DEF HeaderSize
  <2> QED
    BY Zenon, <2>1, <2>2
<1> QED
  BY Zenon, <1>1, <1>2, <1>4, <1>5, <1>6, <1>7

\* More bytes of the same frame.
LEMMA MoreKeeps ==
  ASSUME LinkInv, stage \in {"header", "payload"}, stage' \in {"header", "payload"},
         NEW n \in Nat \ {0}, Gets(n), Holds(n),
         UNCHANGED <<written, unsent, up, channel, taken, ended>>,
         stage' = "header" => Len(buf) + n < HeaderSize,
         stage' = "payload" =>
           Len(buf) + n >= HeaderSize /\ Len(buf) + n < HeaderSize + Len(written[Whole + 1])
  PROVE  LinkInv'
<1>1. /\ AtWork /\ AtWork' /\ n \in Nat /\ n > 0
      /\ stage' \in {"idle", "header", "payload", "push", "done"} /\ stage' # "push" /\ stage' # "idle"
  BY DEF AtWork
<1>2. /\ Whole < Len(written) /\ Whole + 1 \in 1..Len(written) /\ Len(buf) \in Nat
      /\ Len(written[Whole + 1]) \in Nat
  BY Zenon, InFrame
<1>3. Len(buf) + n <= HeaderSize + Len(written[Whole + 1])
  BY <1>1, <1>2 DEF HeaderSize
<1>4. /\ buf' \in Seq(Byte) /\ Len(buf') = Len(buf) + n
      /\ buf' = SubSeq(Frame(written[Whole + 1]), 1, Len(buf'))
      /\ read' = EndOf(written, Whole) + Len(buf')
  <2>1. buf' = Gathered(n)
    BY Zenon DEF Holds, Gathered
  <2> QED
    BY Zenon, <1>1, <1>3, <2>1, GatheredBytes
<1>5. OnTheWay' /\ stream' \in Seq(Byte) /\ read' \in Nat
  BY Zenon, <1>1, GetsKeeps
<1>6. LinkShape'
  BY Zenon, <1>1, <1>4, <1>5, ReaderShape
<1>7. UnderWay'
  <2>1. Whole' = Whole /\ Whole <= Len(written)
    BY <1>2, WholeType DEF Whole
  <2>2. stage' = "header" => Len(buf') \in 1..HeaderSize - 1
    BY <1>1, <1>2, <1>4 DEF HeaderSize
  <2> QED
    BY Zenon, <1>1, <1>2, <1>3, <1>4, <2>1, <2>2 DEF UnderWay
<1>8. HandedOver'
  BY Zenon, <1>1, ReadingKeeps
<1> QED
  BY Zenon, <1>5, <1>6, <1>7, <1>8 DEF LinkInv

LEMMA ReadHeaderKeeps ==
  ASSUME LinkInv, NEW n \in Nat \ {0}, ReadHeader(n)
  PROVE  LinkInv'
<1> DEFINE m == written[Whole + 1]
<1>1. /\ stage = "header" /\ n <= HeaderSize - Len(buf) /\ Gets(n)
      /\ IF Len(Gathered(n)) < HeaderSize
         THEN Holds(n) /\ UNCHANGED <<stage, event>>
         ELSE IF FromBigEndian(Gathered(n)) > MAX_FRAME_SIZE THEN Hands("error", <<>>)
         ELSE Holds(n) /\ stage' = "payload" /\ UNCHANGED event
      /\ UNCHANGED <<written, unsent, up, channel, taken, ended>>
  BY Zenon DEF ReadHeader, Gathered, session
<1>2. stage \in {"header", "payload"} /\ n \in Nat /\ n > 0
  BY <1>1
<1>3. /\ AtWork /\ m \in Messages /\ Len(buf) \in Nat /\ Len(buf) < HeaderSize
      /\ Len(m) \in Nat /\ Len(m) >= 1 /\ Len(m) <= MAX_FRAME_SIZE
  BY Zenon, <1>1, <1>2, InFrame
<1> HIDE DEF m
<1>4. Len(buf) + n <= HeaderSize /\ Len(buf) + n <= HeaderSize + Len(m)
  BY <1>1, <1>2, <1>3 DEF HeaderSize
<1>5. Len(Gathered(n)) = Len(buf) + n /\ Gathered(n) = SubSeq(Frame(m), 1, Len(Gathered(n)))
  BY Zenon, <1>1, <1>3, <1>4, GatheredBytes DEF m
<1>6. CASE Len(buf) + n < HeaderSize
  <2>1. Holds(n) /\ stage' = stage
    BY Zenon, <1>1, <1>5, <1>6
  <2>2. stage' # "payload" /\ stage' \in {"header", "payload"}
    BY Zenon, <1>1, <2>1
  <2> QED
    BY Zenon, <1>1, <1>2, <1>6, <2>1, <2>2, MoreKeeps
<1>7. CASE ~(Len(buf) + n < HeaderSize)
  <2>1. Len(buf) + n = HeaderSize
    BY <1>2, <1>3, <1>4, <1>7 DEF HeaderSize
  <2>2. FromBigEndian(Gathered(n)) = Len(m)
    BY Zenon, <1>3, <1>5, <2>1, HeaderOfFrame
  <2>3. ~(FromBigEndian(Gathered(n)) > MAX_FRAME_SIZE)
    BY <1>3, <2>2, LinkAssumption
  <2>4. Holds(n) /\ stage' = "payload"
    BY Zenon, <1>1, <1>5, <1>7, <2>3
  <2>5. stage' # "header" /\ stage' \in {"header", "payload"}
    BY Zenon, <2>4
  <2>6. Len(buf) + n >= HeaderSize /\ Len(buf) + n < HeaderSize + Len(m)
    BY <1>3, <2>1 DEF HeaderSize
  <2> QED
    BY Zenon, <1>1, <1>2, <2>4, <2>5, <2>6, MoreKeeps DEF m
<1> QED
  BY Zenon, <1>6, <1>7

\* What follows the first k bytes.
LEMMA BodyOf ==
  ASSUME NEW b \in Seq(Byte), NEW t \in Seq(Byte), NEW m \in Seq(Byte), NEW k \in Nat, k <= Len(b),
         Len(b) + Len(t) = k + Len(m), \A q \in 1..Len(m) : (b \o t)[k + q] = m[q]
  PROVE  SubSeq(b, k + 1, Len(b)) \o t = m
<1> DEFINE r == SubSeq(b, k + 1, Len(b))
<1>1. r \in Seq(Byte) /\ Len(r) = Len(b) - k
  OBVIOUS
<1>2. \A q \in 1..Len(b) - k : r[q] = b[k + q]
  OBVIOUS
<1> HIDE DEF r
<1>3. Len(r) + Len(t) = Len(m) /\ r \o t \in Seq(Byte) /\ Len(r \o t) = Len(m)
  <2>1. r \o t \in Seq(Byte) /\ Len(r \o t) = Len(r) + Len(t)
    BY Zenon, <1>1, Joined
  <2>2. Len(r) + Len(t) = Len(m)
    BY <1>1
  <2> QED
    BY Zenon, <2>1, <2>2
<1>4. ASSUME NEW q \in 1..Len(m) PROVE (r \o t)[q] = m[q]
  <2>1. CASE q <= Len(b) - k
    <3>1. q \in 1..Len(b) - k /\ q \in 1..Len(r) /\ k + q \in 1..Len(b)
      BY <1>1, <2>1
    <3>2. \A i \in 1..Len(r) : (r \o t)[i] = r[i]
      BY <1>1
    <3>3. \A i \in 1..Len(b) : (b \o t)[i] = b[i]
      OBVIOUS
    <3> QED
      BY Zenon, <1>2, <3>1, <3>2, <3>3
  <2>2. CASE q > Len(b) - k
    <3>1. \A i \in 1..Len(t) : (r \o t)[Len(r) + i] = t[i] /\ (b \o t)[Len(b) + i] = t[i]
      BY ZenonT(30), <1>1, Joined
    <3>2. PICK i \in 1..Len(t) : Len(r) + i = q /\ Len(b) + i = k + q
      <4>1. q - Len(r) \in 1..Len(t) /\ Len(r) + (q - Len(r)) = q /\ Len(b) + (q - Len(r)) = k + q
        BY <1>1, <2>2
      <4> QED
        BY Zenon, <4>1
    <3>3. (r \o t)[Len(r) + i] = (b \o t)[Len(b) + i]
      BY Zenon, <3>1
    <3> QED
      BY Zenon, <3>2, <3>3
  <2> QED
    BY SMTT(30), <1>1, <2>1, <2>2
<1> DEFINE x == r \o t
<1>5. x \in Seq(Byte) /\ Len(x) = Len(m) /\ \A q \in 1..Len(m) : x[q] = m[q]
  BY Zenon, <1>3, <1>4
<1> HIDE DEF x
<1>6. x = m
  BY SMTT(30), <1>5
<1> QED
  BY Zenon, <1>6 DEF x, r

LEMMA ReadPayloadKeeps ==
  ASSUME LinkInv, NEW n \in Nat \ {0}, ReadPayload(n)
  PROVE  LinkInv'
<1> DEFINE m == written[Whole + 1]
           F == Frame(m)
           body == SubSeq(buf, HeaderSize + 1, Len(buf)) \o SubSeq(stream, 1, n)
<1>1. /\ stage = "payload" /\ n <= Missing /\ Gets(n)
      /\ IF n < Missing THEN Holds(n) /\ UNCHANGED <<stage, event>> ELSE Hands("message", body)
      /\ UNCHANGED <<written, unsent, up, channel, taken, ended>>
  BY Zenon DEF ReadPayload, session
<1>2. stage \in {"header", "payload"} /\ n \in Nat /\ n > 0
  BY <1>1
<1>3. /\ AtWork /\ Whole < Len(written) /\ Whole + 1 \in 1..Len(written) /\ m \in Messages
      /\ Len(buf) \in Nat /\ Len(m) \in Nat
      /\ buf = SubSeq(F, 1, Len(buf)) /\ Len(buf) >= HeaderSize /\ Len(buf) < HeaderSize + Len(m)
  BY Zenon, <1>1, <1>2, InFrame
<1>4. F \in Seq(Byte) /\ Len(F) = HeaderSize + Len(m) /\ m \in Seq(Byte)
        /\ \A j \in 1..Len(m) : F[HeaderSize + j] = m[j]
  BY Zenon, <1>3, FrameShape
<1> HIDE DEF m, F, body
<1>5. Missing = HeaderSize + Len(m) - Len(buf)
  <2>1. SubSeq(buf, 1, HeaderSize) = SubSeq(F, 1, HeaderSize)
    <3>1. ASSUME NEW k \in Nat, k >= HeaderSize, k <= Len(F)
          PROVE  SubSeq(SubSeq(F, 1, k), 1, HeaderSize) = SubSeq(F, 1, HeaderSize)
      BY <1>4, <3>1 DEF HeaderSize
    <3>2. Len(buf) <= Len(F)
      BY <1>3, <1>4 DEF HeaderSize
    <3> QED
      BY Zenon, <1>3, <3>1, <3>2
  <2>2. Length = Len(m)
    BY Zenon, <1>3, <2>1, HeaderOfFrame DEF Length, F
  <2> QED
    BY Zenon, <2>2 DEF Missing
<1>6. Len(buf) + n <= HeaderSize + Len(m)
  BY <1>1, <1>2, <1>3, <1>5 DEF HeaderSize
<1>7. /\ Gathered(n) \in Seq(Byte) /\ Len(Gathered(n)) = Len(buf) + n
      /\ Gathered(n) = SubSeq(F, 1, Len(Gathered(n)))
      /\ read' = EndOf(written, Whole) + Len(Gathered(n))
  BY Zenon, <1>1, <1>2, <1>3, <1>6, GatheredBytes DEF m, F
<1>8. CASE n < Missing
  <2>1. Holds(n) /\ stage' = stage
    BY Zenon, <1>1, <1>8
  <2>2. stage' # "header" /\ stage' \in {"header", "payload"}
    BY Zenon, <1>1, <2>1
  <2>3. Len(buf) + n >= HeaderSize /\ Len(buf) + n < HeaderSize + Len(m)
    BY <1>2, <1>3, <1>5, <1>8 DEF HeaderSize
  <2> QED
    BY Zenon, <1>1, <1>2, <2>1, <2>2, <2>3, MoreKeeps DEF m
<1>9. CASE ~(n < Missing)
  <2>1. Hands("message", body)
    BY Zenon, <1>1, <1>9
  <2>2. Len(buf) + n = HeaderSize + Len(m)
    BY <1>2, <1>3, <1>5, <1>6, <1>9 DEF HeaderSize
  <2>3. buf \in Seq(Byte) /\ stream \in Seq(Byte) /\ Whole \in Nat /\ written \in Seq(Messages)
    BY Zenon, WholeType
  <2>4. OnTheWay' /\ stream' \in Seq(Byte) /\ read' \in Nat /\ n \in 0..Len(stream)
    BY Zenon, <1>1, <1>2, GetsKeeps
  <2>5. body = m
    <3> DEFINE t == SubSeq(stream, 1, n)
    <3>1. t \in Seq(Byte) /\ Len(t) = n
      BY <2>3, <2>4
    <3> HIDE DEF t
    <3>2. Len(buf) + Len(t) = HeaderSize + Len(m)
      BY Zenon, <2>2, <3>1
    <3>3. \A q \in 1..Len(m) : (buf \o t)[HeaderSize + q] = m[q]
      <4>1. Len(Gathered(n)) = Len(F)
        BY Zenon, <1>4, <1>7, <2>2
      <4>2. SubSeq(F, 1, Len(F)) = F
        BY <1>4
      <4>3. Gathered(n) = F
        BY Zenon, <1>7, <4>1, <4>2
      <4>4. Gathered(n) = buf \o t
        BY Zenon DEF Gathered, t
      <4> QED
        BY Zenon, <1>4, <4>3, <4>4
    <3>4. HeaderSize \in Nat /\ HeaderSize <= Len(buf)
      BY Zenon, <1>3 DEF HeaderSize
    <3>5. SubSeq(buf, HeaderSize + 1, Len(buf)) \o t = m
      <4>1. buf \in Seq(Byte) /\ t \in Seq(Byte) /\ m \in Seq(Byte)
        BY Zenon, <1>4, <2>3, <3>1
      <4> QED
        BY Zenon, <3>2, <3>3, <3>4, <4>1, BodyOf
    <3> QED
      BY Zenon, <3>5 DEF body, t
  <2>6. read' = EndOf(written, Whole + 1) /\ Whole + 1 <= Len(written)
    <3>1. EndOf(written, Whole + 1) = EndOf(written, (Whole + 1) - 1) + HeaderSize + Len(m)
      BY Zenon, <1>3, <2>3, EndOfNext DEF m
    <3>2. (Whole + 1) - 1 = Whole /\ Whole \in 0..Len(written) /\ Whole + 1 <= Len(written)
      BY <1>3, <2>3
    <3>3. EndOf(written, Whole) \in Nat
      BY Zenon, <2>3, <3>2, CellsFinite
    <3>4. read' = EndOf(written, Whole) + (HeaderSize + Len(m))
      BY Zenon, <1>7, <2>2
    <3>5. EndOf(written, Whole + 1) = EndOf(written, Whole) + HeaderSize + Len(m)
      BY Zenon, <3>1, <3>2
    <3> QED
      BY <1>3, <3>2, <3>3, <3>4, <3>5 DEF HeaderSize
  <2>7. "message" # "closed" /\ "message" \in {"message", "closed", "error"} /\ "push" # "idle"
    BY Zenon
  <2>8. UnderWay' /\ HandedOver'
    BY Zenon, <1>1, <1>3, <1>4, <2>1, <2>5, <2>6, <2>7, HandsKeeps DEF m
  <2>9. LinkShape'
    <3>1. /\ stage' = "push" /\ event' = [what |-> "message", body |-> m] /\ buf' = <<>>
      BY Zenon, <2>1, <2>5 DEF Hands
    <3>2. buf' \in Seq(Byte) /\ stage' \in {"idle", "header", "payload", "push", "done"}
      BY <3>1
    <3>3. event' \in [what : {"message", "closed", "error"}, body : Seq(Byte)]
      BY Zenon, <1>4, <2>7, <3>1
    <3> QED
      BY Zenon, <1>1, <2>4, <3>2, <3>3, ReaderShape
  <2> QED
    BY Zenon, <2>4, <2>8, <2>9 DEF LinkInv
<1> QED
  BY Zenon, <1>8, <1>9

(***************************************************************************)
(* The channel and the session.                                            *)
(***************************************************************************)
LEMMA PushKeeps ==
  ASSUME LinkInv, Push
  PROVE  LinkInv'
<1> DEFINE e == event
           c == Append(channel, e)
           E == [what : {"message", "closed", "error"}, body : Seq(Byte)]
<1>1. /\ stage = "push" /\ channel' = c
      /\ stage' = IF e.what = "message" THEN "idle" ELSE "done"
      /\ UNCHANGED <<written, unsent, stream, up, buf, read, taken, ended>>
  BY Zenon DEF Push, transport
<1>2. LinkShape /\ OnTheWay /\ HandedOver
  BY Zenon DEF LinkInv
<1>3. channel \in Seq(E) /\ e \in E
  BY Zenon, <1>1, <1>2 DEF LinkShape
<1>4. Whole \in Nat /\ Len(taken) \in Nat /\ Len(channel) \in Nat /\ Len(written) \in Nat
        /\ read \in Nat
  BY Zenon, WholeType
<1> HIDE DEF E, e
<1>5. c \in Seq(E) /\ Len(c) = Len(channel) + 1 /\ c[Len(channel) + 1] = e
  BY <1>3
<1>6. DOMAIN c = 1..Len(channel) + 1 /\ \A i \in 1..Len(channel) : c[i] = channel[i]
  BY <1>3
<1> HIDE DEF c
<1>7. stage' \in {"idle", "done"} /\ stage' # "push" /\ (stage' = "idle" => e.what = "message")
        /\ (e.what # "message" => stage' = "done")
  BY Zenon, <1>1
<1>8. Whole' = Whole + 1 /\ Whole' = Len(taken) + (Len(channel) + 1)
  <2>1. Whole' = Len(taken) + Len(c)
    BY Zenon, <1>1 DEF Whole
  <2>2. Len(taken) + (Len(channel) + 1) = (Len(taken) + Len(channel)) + 1
    BY <1>4
  <2> QED
    BY Zenon, <1>5, <2>1, <2>2 DEF Whole
<1>9. /\ Handed(e, Whole + 1) /\ buf = <<>> /\ (e.what = "message" => read = EndOf(written, Whole + 1))
      /\ ended = None
  <2>1. stage # "done"
    BY Zenon, <1>1
  <2> QED
    BY Zenon, <1>1, <1>2, <2>1 DEF HandedOver, e
<1>10. LinkShape'
  <2>1. stage' \in {"idle", "header", "payload", "push", "done"}
    BY Zenon, <1>7
  <2> QED
    BY Zenon, <1>1, <1>2, <1>5, <1>7, <2>1 DEF LinkShape, E
<1>11. OnTheWay'
  BY Zenon, <1>1, <1>2 DEF OnTheWay
<1>12. UnderWay'
  <2>1. SUFFICES ASSUME stage' = "idle" PROVE UnderWay'
    BY Zenon, <1>7 DEF UnderWay
  <2>2. Whole + 1 <= Len(written) /\ read = EndOf(written, Whole + 1)
    BY Zenon, <1>7, <1>9, <2>1 DEF Handed
  <2>3. read = EndOf(written, Whole + 1) + Len(buf)
    BY <1>4, <1>9, <2>2
  <2>4. stage' # "header" /\ stage' # "payload"
    BY Zenon, <2>1
  <2> QED
    BY Zenon, <1>1, <1>8, <1>9, <2>1, <2>2, <2>3, <2>4 DEF UnderWay
<1>13. HandedOver'
  <2>1. ASSUME NEW i \in DOMAIN c
        PROVE  /\ Handed(channel[i], Len(taken) + i)'
               /\ c[i].what # "message" => i = Len(c) /\ stage' = "done" /\ ended = None
    <3>1. CASE i \in 1..Len(channel)
      <4>1. c[i] = channel[i] /\ i \in DOMAIN channel
        <5>1. DOMAIN channel = 1..Len(channel)
          BY <1>3
        <5> QED
          BY Zenon, <1>6, <3>1, <5>1
      <4>2. Handed(channel[i], Len(taken) + i) /\ channel[i].what = "message"
        <5>1. stage # "done"
          BY Zenon, <1>1
        <5> QED
          BY Zenon, <1>2, <4>1, <5>1 DEF HandedOver
      <4>3. channel'[i] = channel[i]
        BY Zenon, <1>1, <4>1
      <4> QED
        BY Zenon, <1>1, <4>1, <4>2, <4>3 DEF Handed
    <3>2. CASE i = Len(channel) + 1
      <4>1. Len(taken) + i = Whole + 1 /\ c[i] = e /\ i = Len(c)
        BY <1>4, <1>5, <3>2 DEF Whole
      <4>2. Handed(e, Len(taken) + i) /\ channel'[i] = e
        BY Zenon, <1>1, <1>9, <4>1
      <4>3. e.what # "message" => stage' = "done" /\ ended = None
        BY Zenon, <1>7, <1>9
      <4> QED
        BY Zenon, <1>1, <4>1, <4>2, <4>3 DEF Handed
    <3> QED
      BY <1>4, <1>6, <3>1, <3>2
  <2>2. ended # "closed"
    <3>1. None # "closed"
      BY LinkAssumption
    <3> QED
      BY Zenon, <1>9, <3>1
  <2> QED
    BY Zenon, <1>1, <1>2, <1>7, <1>9, <2>1, <2>2 DEF HandedOver
<1> QED
  BY Zenon, <1>10, <1>11, <1>12, <1>13 DEF LinkInv

LEMMA TakeKeeps ==
  ASSUME LinkInv, Take
  PROVE  LinkInv'
<1> DEFINE h == Head(channel)
           t == Tail(channel)
           E == [what : {"message", "closed", "error"}, body : Seq(Byte)]
<1>1. /\ ended = None /\ channel # <<>> /\ channel' = t
      /\ IF h.what = "message"
         THEN taken' = Append(taken, h.body) /\ ended' = ended
         ELSE ended' = h.what /\ taken' = taken
      /\ UNCHANGED <<written, unsent, stream, up, stage, buf, event, read>>
  BY Zenon DEF Take, transport, reader
<1>2. LinkShape /\ OnTheWay /\ UnderWay /\ HandedOver
  BY Zenon DEF LinkInv
<1>3. channel \in Seq(E) /\ written \in Seq(Messages) /\ taken \in Seq(Messages)
  BY Zenon, <1>2 DEF LinkShape
<1>4. Whole \in Nat /\ Len(taken) \in Nat /\ Len(channel) \in Nat /\ Len(written) \in Nat
  BY Zenon, WholeType
<1> HIDE DEF E
<1>5. /\ 1 \in DOMAIN channel /\ h = channel[1] /\ h \in E
      /\ t \in Seq(E) /\ Len(t) = Len(channel) - 1 /\ DOMAIN t = 1..Len(channel) - 1
  BY <1>1, <1>3
<1>6. \A i \in 1..Len(channel) - 1 : t[i] = channel[i + 1] /\ i + 1 \in DOMAIN channel
  BY <1>1, <1>3
<1>7. Handed(h, Len(taken) + 1)
      /\ (h.what # "message" => 1 = Len(channel) /\ stage = "done")
  BY Zenon, <1>2, <1>5 DEF HandedOver
<1>8. h.what \in {"message", "closed", "error"}
  BY Zenon, <1>5 DEF E
<1> HIDE DEF h, t
<1>9. OnTheWay'
  BY Zenon, <1>1, <1>2 DEF OnTheWay
<1>10. CASE h.what = "message"
  <2> DEFINE k == Append(taken, h.body)
  <2>1. Len(taken) + 1 <= Len(written) /\ h.body = written[Len(taken) + 1] /\ taken' = k /\ ended' = ended
    BY Zenon, <1>1, <1>7, <1>10 DEF Handed
  <2>2. h.body \in Messages
    BY <1>3, <1>4, <2>1
  <2>3. k \in Seq(Messages) /\ Len(k) = Len(taken) + 1
    BY <1>3, <2>2
  <2>4. k = SubSeq(written, 1, Len(k))
    <3>1. Len(taken) + 1 \in 1..Len(written) /\ taken = SubSeq(written, 1, Len(taken))
      BY <1>2, <1>4, <2>1 DEF HandedOver
    <3>2. ASSUME NEW j \in Nat, j + 1 <= Len(written)
          PROVE  Append(SubSeq(written, 1, j), written[j + 1]) = SubSeq(written, 1, j + 1)
      BY <1>3, <3>2
    <3>3. Append(SubSeq(written, 1, Len(taken)), written[Len(taken) + 1])
            = SubSeq(written, 1, Len(taken) + 1)
      BY Zenon, <1>4, <2>1, <3>2
    <3> QED
      BY Zenon, <2>1, <2>3, <3>1, <3>3
  <2> HIDE DEF k
  <2>5. Whole' = Whole
    <3>1. Whole' = Len(k) + Len(t)
      BY Zenon, <1>1, <2>1 DEF Whole
    <3> QED
      BY <1>4, <1>5, <2>3, <3>1 DEF Whole
  <2>6. LinkShape'
    BY Zenon, <1>1, <1>2, <1>5, <2>1, <2>3 DEF LinkShape, E
  <2>7. UnderWay'
    BY Zenon, <1>1, <1>2, <2>5 DEF UnderWay
  <2>8. ASSUME NEW i \in DOMAIN t
        PROVE  /\ Handed(channel[i], Len(taken) + i)'
               /\ t[i].what # "message" => i = Len(t) /\ stage = "done"
    <3>1. i \in 1..Len(channel) - 1 /\ Len(k) + i = Len(taken) + (i + 1)
      BY <1>4, <1>5, <2>3
    <3>2. t[i] = channel[i + 1] /\ i + 1 \in DOMAIN channel
      BY Zenon, <1>6, <3>1
    <3>3. Handed(t[i], Len(k) + i)
      BY Zenon, <1>2, <3>1, <3>2 DEF HandedOver
    <3>4. t[i].what # "message" => i + 1 = Len(channel) /\ stage = "done"
      BY Zenon, <1>2, <3>2 DEF HandedOver
    <3>5. i + 1 = Len(channel) => i = Len(t)
      BY SMTT(30), <1>4, <1>5, <3>1
    <3>6. channel'[i] = t[i] /\ Len(taken') = Len(k)
      BY Zenon, <1>1, <2>1
    <3> QED
      BY Zenon, <1>1, <3>3, <3>4, <3>5, <3>6 DEF Handed
  <2>9. ended' = None /\ ended' # "closed"
    BY <1>1, <2>1, LinkAssumption
  <2>10. Len(k) <= Len(written)
    BY Zenon, <1>4, <2>1, <2>3
  <2>11. HandedOver'
    <3>1. stage' = "push" =>
            /\ Handed(event, Whole + 1)' /\ buf' = <<>>
            /\ event'.what = "message" => read' = EndOf(written', Whole' + 1)
      BY Zenon, <1>1, <1>2, <2>5 DEF HandedOver, Handed
    <3> QED
      BY Zenon, <1>1, <2>1, <2>4, <2>8, <2>9, <2>10, <3>1 DEF HandedOver
  <2> QED
    BY Zenon, <1>9, <2>6, <2>7, <2>11 DEF LinkInv
<1>11. CASE h.what # "message"
  <2>1. ended' = h.what /\ taken' = taken /\ Len(channel) = 1 /\ stage = "done"
    BY Zenon, <1>1, <1>7, <1>11
  <2>2. t = <<>> /\ DOMAIN t = {}
    BY <1>5, <2>1
  <2>3. ended' \in {"closed", "error"}
    BY Zenon, <1>8, <1>11, <2>1
  <2>4. LinkShape'
    <3>1. ended' \in {None, "closed", "error", "left"}
      BY Zenon, <2>3
    <3> QED
      BY Zenon, <1>1, <1>2, <1>5, <2>1, <3>1 DEF LinkShape, E
  <2>5. UnderWay'
    BY Zenon, <1>1, <2>1 DEF UnderWay
  <2>6. h.what = "closed" => read = EndOf(written, Len(taken)) /\ ~up
    <3>1. (Len(taken) + 1) - 1 = Len(taken)
      BY <1>4
    <3> QED
      BY Zenon, <1>7, <3>1 DEF Handed
  <2>7. HandedOver'
    <3>1. stage' = "done" /\ stage' # "push" /\ ~(channel' # <<>>) /\ DOMAIN channel' = {}
      BY Zenon, <1>1, <2>1, <2>2
    <3>2. ended' = "closed" => read' = EndOf(written', Len(taken')) /\ ~up'
      BY Zenon, <1>1, <2>1, <2>6
    <3>3. Len(taken') <= Len(written') /\ taken' = SubSeq(written', 1, Len(taken'))
      BY Zenon, <1>1, <1>2, <2>1 DEF HandedOver
    <3> QED
      BY Zenon, <3>1, <3>2, <3>3 DEF HandedOver
  <2> QED
    BY Zenon, <1>9, <2>4, <2>5, <2>7 DEF LinkInv
<1> QED
  BY Zenon, <1>10, <1>11

(***************************************************************************)
(* The messages arrive in order, whole and once.                           *)
(***************************************************************************)
LEMMA LinkInvInit == LinkInit => LinkInv
<1> SUFFICES ASSUME LinkInit PROVE LinkInv
  BY Zenon
<1>1. LinkShape
  BY DEF LinkInit, LinkShape
<1>2. written = <<>> /\ written \in Seq(Messages) /\ EndOf(<<>>, 0) = 0 /\ Len(<<>>) = 0
  <2>1. <<>> \in Seq(Messages)
    OBVIOUS
  <2> QED
    BY Zenon, <2>1, EndOfZero DEF LinkInit
<1>3. OnTheWay
  BY <1>2, PlacedNone DEF LinkInit, OnTheWay
<1>4. Whole = 0
  BY DEF LinkInit, Whole
<1>5. UnderWay
  BY <1>2, <1>4 DEF LinkInit, UnderWay
<1>6. HandedOver
  <2>1. ended = None /\ ended # "closed" /\ stage # "push" /\ DOMAIN channel = {}
    BY LinkAssumption DEF LinkInit
  <2>2. Len(taken) <= Len(written) /\ taken = SubSeq(written, 1, Len(taken))
    BY DEF LinkInit
  <2> QED
    BY Zenon, <2>1, <2>2 DEF HandedOver
<1> QED
  BY Zenon, <1>1, <1>3, <1>5, <1>6 DEF LinkInv

LEMMA LinkInvStep == LinkInv /\ [LinkNext]_linkVars => LinkInv'
<1> SUFFICES ASSUME LinkInv, [LinkNext]_linkVars PROVE LinkInv'
  BY Zenon
<1>1. CASE UNCHANGED linkVars
  <2>1. UNCHANGED <<written, unsent, stream, up, stage, buf, event, read, channel, taken, ended>>
    BY Zenon, <1>1 DEF linkVars, transport, reader, session
  <2>2. LinkShape' /\ OnTheWay'
    BY Zenon, <2>1 DEF LinkInv, LinkShape, OnTheWay
  <2>3. UnderWay' /\ HandedOver'
    BY Zenon, <2>1 DEF LinkInv, UnderWay, HandedOver, Handed, Whole
  <2> QED
    BY Zenon, <2>2, <2>3 DEF LinkInv
<1>2. ASSUME NEW n \in 1..HeaderSize + MAX_FRAME_SIZE PROVE n \in Nat /\ n \in Nat \ {0}
  BY LinkAssumption DEF HeaderSize
<1>3. CASE LinkNext
  <2>1. CASE \E m \in Messages : WriteFrame(m)
    BY Zenon, <2>1, WriteKeeps
  <2>2. CASE TransmitSome
    BY Zenon, <1>2, <2>2, TransmitKeeps DEF TransmitSome
  <2>3. CASE ReadSome
    BY Zenon, <1>2, <2>3, ReadHeaderKeeps, ReadPayloadKeeps DEF ReadSome
  <2>4. CASE \E n \in 0..Len(stream) : Cut(n)
    BY Zenon, <2>4, CutKeeps
  <2> QED
    BY Zenon, <1>3, <2>1, <2>2, <2>3, <2>4, FirstKeeps, EndOfStreamKeeps, BreaksKeeps, PushKeeps,
       TakeKeeps, LeaveKeeps DEF LinkNext
<1> QED
  BY Zenon, <1>1, <1>3

\* However the bytes of the frames are cut into pieces, and wherever the
\* connection ends, the session receives the messages written, in their order,
\* each whole and once, and an orderly end only between two frames.
THEOREM FramesInOrder == LinkSpec => []InOrder
<1>1. LinkInv => InOrder
  <2> SUFFICES ASSUME LinkInv PROVE InOrder
    BY Zenon
  <2>1. HandedOver /\ written \in Seq(Messages) /\ Len(taken) \in Nat /\ Len(written) \in Nat
    BY Zenon, WholeType DEF LinkInv
  <2>2. Len(taken) <= Len(written) /\ taken = SubSeq(written, 1, Len(taken))
    BY Zenon, <2>1 DEF HandedOver
  <2>3. Len(taken) \in 0..Len(written)
    BY <2>1, <2>2
  <2>4. FrameBytes(taken) = EndOf(written, Len(taken))
    BY Zenon, <2>1, <2>2, <2>3, PrefixBytes
  <2> QED
    BY Zenon, <2>1, <2>2, <2>4 DEF InOrder, HandedOver
<1> QED
  BY PTL, LinkInvInit, LinkInvStep, <1>1 DEF LinkSpec

===============================================================================
