----------------------------- MODULE WireExchange -----------------------------
(***************************************************************************)
(* One message from encode_message to decode_message, over every variant   *)
(* that either side sends.  The frame that carries it may end early or     *)
(* have something after it, as from a peer of another build.               *)
(***************************************************************************)
EXTENDS WireFormat

VARIABLES
  kind,    \* the enum that the two sides exchange
  message, \* what is sent
  wire,    \* the payload of the frame
  whole,   \* the frame holds the message and nothing else
  progress,   \* "idle", "sent", "received", or "failed" when encoding failed
  got      \* what decode_message returned, None before it and on an error

wireVars == <<kind, message, wire, whole, progress, got>>

(***************************************************************************)
(* Values to send.  Numbers differ by position; of lists, the empty one    *)
(* and lists up to one beyond the limit.                                   *)
(***************************************************************************)
RECURSIVE Samples(_, _)
RECURSIVE SampleAll(_, _)
SampleAll(ts, n) ==
  IF ts = <<>> THEN {<<>>}
  ELSE {<<v>> \o w : v \in Samples(Head(ts), n), w \in SampleAll(Tail(ts), n + 1)}

\* Lists of `v` and copies of one other element.
ListSamples(t, n) ==
  LET w == CHOOSE x \in Samples(t.of, n + 1) : TRUE
  IN  {<<>>} \cup {<<v>> \o [i \in 1..k |-> w] : v \in Samples(t.of, n), k \in 0..t.max}

Samples(t, n) ==
  CASE t.k = "atom" -> {n}
    [] t.k = "flag" -> {0, 1}
    [] t.k = "code" -> DOMAIN WriteCode[t.name]
    [] t.k = "option" -> {<<>>} \cup {<<v>> : v \in Samples(t.of, n)}
    [] t.k = "list" -> ListSamples(t, n)
    [] t.k = "struct" -> SampleAll(t.of, n)
    [] t.k = "tagged" ->
         UNION {{<<variant>> \o fs : fs \in SampleAll(WriteTables[t.name][variant].fields, n)} :
                variant \in DOMAIN WriteTables[t.name]}

Enums == {"ClientMessage", "RelayMessage"}

WireInit == kind = None /\ message = None /\ wire = None
        /\ whole = TRUE /\ progress = "idle" /\ got = None

Send(k, m) ==
  /\ kind' = k /\ message' = m /\ wire' = Encode(k, m)
  /\ progress' = IF wire' = None THEN "failed" ELSE "sent"
  /\ UNCHANGED <<whole, got>>

CutShort(n) ==
  /\ progress = "sent" /\ whole /\ n < Len(wire)
  /\ wire' = SubSeq(wire, 1, n) /\ whole' = FALSE
  /\ UNCHANGED <<kind, message, progress, got>>

Extend(x) ==
  /\ progress = "sent" /\ whole
  /\ wire' = Append(wire, x) /\ whole' = FALSE
  /\ UNCHANGED <<kind, message, progress, got>>

Receive ==
  /\ progress = "sent" /\ progress' = "received"
  /\ got' = Decode(kind, wire)
  /\ UNCHANGED <<kind, message, wire, whole>>

WireNext ==
  \/ progress = "idle" /\ \E k \in Enums : \E m \in Samples(Tagged(k), 1) : Send(k, m)
  \/ \E n \in 0..MAX_PAYLOAD : CutShort(n)
  \/ \E x \in {0, 1} : Extend(x)
  \/ Receive

WireSpec == WireInit /\ [][WireNext]_wireVars

(***************************************************************************)
(* Properties.                                                             *)
(***************************************************************************)
\* Every list of a value is within its limit.
RECURSIVE Within(_, _)
Within(t, v) ==
  CASE t.k \in {"atom", "flag", "code"} -> TRUE
    [] t.k \in {"option", "list"} -> (t.k = "list" => Len(v) <= t.max)
                                       /\ \A i \in DOMAIN v : Within(t.of, v[i])
    [] t.k = "struct" -> \A i \in DOMAIN v : Within(t.of[i], v[i])
    [] t.k = "tagged" -> \A i \in 2..Len(v) : Within(WriteTables[t.name][v[1]].fields[i - 1], v[i])

\* What one side encodes the other side decodes to the same value: the tags, the
\* orders of fields and the element counts of the hand-written serialize and
\* deserialize agree for every variant of every message.  A list beyond the
\* receiver's limit, wherever it is nested, and a frame that ends before the
\* message does or goes on after it, are refused and never read as another
\* message ("trailing bytes after Postcard message").
RoundTrip ==
  progress = "received" =>
    got = IF whole /\ Within(Tagged(kind), message) THEN message ELSE None

=============================================================================
