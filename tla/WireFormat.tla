------------------------------ MODULE WireFormat ------------------------------
(***************************************************************************)
(* The encoding of messages.  The enums have hand-written tags, once in    *)
(* serialize and once in deserialize, and deserialize declares how many    *)
(* elements it may read; structs and options are derived.  A type is a     *)
(* record with its kind k, a value a number, a list, or <<variant, fields  *)
(* ...>>.  A number, an identifier, a key or a signature is one token.     *)
(***************************************************************************)
EXTENDS Options, Naturals, Sequences, SequencesExt

CONSTANTS
  ListLimit,   \* elements of a list that deserialize accepts
  BlobLimit,   \* bytes of a name, body or package that deserialize accepts
  MAX_PAYLOAD  \* tokens of a message

Atom == [k |-> "atom"]
Flag == [k |-> "flag"]
Option(t) == [k |-> "option", of |-> t]
Struct(ts) == [k |-> "struct", of |-> ts]
Bounded(t, n) == [k |-> "list", of |-> t, max |-> n]
Tagged(name) == [k |-> "tagged", name |-> name]
Code(name) == [k |-> "code", name |-> name]

Text == Bounded(Atom, BlobLimit)

(***************************************************************************)
(* Structs, in the order of their fields.                                  *)
(***************************************************************************)
WelcomeAttachment == Struct(<<Atom, Text, Atom>>)
Append_ == Struct(<<Atom, Atom, Atom, Code("MlsContentType"), Text, Option(WelcomeAttachment)>>)
Event == Struct(<<Atom, Atom, Append_>>)
WelcomeDelivery == Struct(<<Text, Atom, Atom, Atom, Atom, Atom, WelcomeAttachment>>)
RoomHead == Struct(<<Atom, Text, Atom>>)

(***************************************************************************)
(* Enums that are a single number, as written and as read.                 *)
(***************************************************************************)
WriteCode ==
  [MlsContentType |-> [Application |-> 0, Proposal |-> 1, Commit |-> 2],
   ClientMessageKind |-> [ClientHello |-> 1, ClientIdentify |-> 102,
                          ClientAuthenticationResponse |-> 3, Delivery |-> 100],
   Rejection |-> [Invalid |-> 0, Unauthorized |-> 1, NotFound |-> 2, RequestConflict |-> 3,
                  Overloaded |-> 4, Quota |-> 5, Internal |-> 6]]

Pick(table, n) == IF n \in DOMAIN table THEN table[n] ELSE None
ReadCode(name, n) ==
  CASE name = "MlsContentType" ->
         Pick((0 :> "Application") @@ (1 :> "Proposal") @@ (2 :> "Commit"), n)
    [] name = "ClientMessageKind" ->
         Pick((1 :> "ClientHello") @@ (102 :> "ClientIdentify")
              @@ (3 :> "ClientAuthenticationResponse") @@ (100 :> "Delivery"), n)
    [] name = "Rejection" ->
         Pick((0 :> "Invalid") @@ (1 :> "Unauthorized") @@ (2 :> "NotFound")
              @@ (3 :> "RequestConflict") @@ (4 :> "Overloaded") @@ (5 :> "Quota")
              @@ (6 :> "Internal"), n)

(***************************************************************************)
(* serialize: the tag and the fields of every variant.                     *)
(***************************************************************************)
W(tag, fields) == [tag |-> tag, fields |-> fields]

WriteClientMessage ==
  [ClientHello |-> W(1, <<Atom>>),
   ClientIdentify |-> W(102, <<Atom, Atom, Option(Atom)>>),
   ClientAuthenticationResponse |-> W(3, <<Atom>>),
   Delivery |-> W(100, <<Atom, Tagged("Request")>>)]

WriteRelayMessage ==
  [ServerHello |-> W(1, <<Atom>>),
   ServerIdentifyAccepted |-> W(2, <<Atom>>),
   ServerAuthenticationChallenge |-> W(3, <<Atom>>),
   ProtocolError |-> W(4, <<Option(Atom), Tagged("ProtocolError")>>),
   Delivery |-> W(100, <<Atom, Tagged("Response")>>),
   DeliveryChanged |-> W(101, <<>>)]

WriteProtocolError ==
  [UnsupportedVersion |-> W(1, <<Atom, Atom>>),
   UnexpectedMessage |-> W(2, <<Code("ClientMessageKind"), Code("ClientMessageKind")>>),
   InvalidPublicKey |-> W(3, <<>>),
   IdentityKeyConflict |-> W(4, <<>>),
   AuthenticationFailed |-> W(5, <<>>)]

WriteRequest ==
  [CreateRoom |-> W(0, <<Text>>),
   PublishKeyPackages |-> W(1, <<Bounded(Text, ListLimit)>>),
   Acknowledge |-> W(2, <<Bounded(Atom, ListLimit), Bounded(Atom, ListLimit)>>),
   AppendRoomOperation |-> W(3, <<Append_>>),
   FetchRoomEvents |-> W(4, <<Atom, Atom>>),
   SyncIndex |-> W(5, <<Option(Atom)>>),
   FetchWelcomes |-> W(6, <<Atom>>),
   ReserveKeyPackage |-> W(7, <<Atom>>),
   SetFetchGrant |-> W(8, <<Atom, Flag>>)]

WriteResponse ==
  [RoomCreated |-> W(0, <<Atom>>),
   KeyPackagesPublished |-> W(1, <<Atom>>),
   Acknowledged |-> W(2, <<>>),
   AppendAccepted |-> W(3, <<Event>>),
   HeadConflict |-> W(4, <<Atom, Atom>>),
   RoomEvents |-> W(5, <<Atom, Atom, Bounded(Event, ListLimit), Flag>>),
   SyncIndex |-> W(6, <<Bounded(RoomHead, ListLimit), Flag>>),
   Welcomes |-> W(7, <<Atom, Bounded(WelcomeDelivery, ListLimit), Flag>>),
   KeyPackage |-> W(8, <<Atom, Text>>),
   FetchGrantSet |-> W(9, <<>>),
   Rejected |-> W(10, <<Code("Rejection")>>)]

WriteTables ==
  [ClientMessage |-> WriteClientMessage, RelayMessage |-> WriteRelayMessage,
   ProtocolError |-> WriteProtocolError, Request |-> WriteRequest, Response |-> WriteResponse]

(***************************************************************************)
(* deserialize: the variant and the fields for every tag, None for a tag   *)
(* that is unknown or reserved.                                            *)
(***************************************************************************)
R(variant, fields) == [variant |-> variant, fields |-> fields]

ClientMessageOf(tag) ==
  CASE tag = 1 -> R("ClientHello", <<Atom>>)
    [] tag = 102 -> R("ClientIdentify", <<Atom, Atom, Option(Atom)>>)
    [] tag = 3 -> R("ClientAuthenticationResponse", <<Atom>>)
    [] tag = 100 -> R("Delivery", <<Atom, Tagged("Request")>>)
    [] OTHER -> None

RelayMessageOf(tag) ==
  CASE tag = 1 -> R("ServerHello", <<Atom>>)
    [] tag = 2 -> R("ServerIdentifyAccepted", <<Atom>>)
    [] tag = 3 -> R("ServerAuthenticationChallenge", <<Atom>>)
    [] tag = 4 -> R("ProtocolError", <<Option(Atom), Tagged("ProtocolError")>>)
    [] tag = 100 -> R("Delivery", <<Atom, Tagged("Response")>>)
    [] tag = 101 -> R("DeliveryChanged", <<>>)
    [] OTHER -> None

ProtocolErrorOf(tag) ==
  CASE tag = 1 -> R("UnsupportedVersion", <<Atom, Atom>>)
    [] tag = 2 -> R("UnexpectedMessage", <<Code("ClientMessageKind"), Code("ClientMessageKind")>>)
    [] tag = 3 -> R("InvalidPublicKey", <<>>)
    [] tag = 4 -> R("IdentityKeyConflict", <<>>)
    [] tag = 5 -> R("AuthenticationFailed", <<>>)
    [] OTHER -> None

RequestOf(tag) ==
  CASE tag = 0 -> R("CreateRoom", <<Text>>)
    [] tag = 1 -> R("PublishKeyPackages", <<Bounded(Text, ListLimit)>>)
    [] tag = 2 -> R("Acknowledge", <<Bounded(Atom, ListLimit), Bounded(Atom, ListLimit)>>)
    [] tag = 3 -> R("AppendRoomOperation", <<Append_>>)
    [] tag = 4 -> R("FetchRoomEvents", <<Atom, Atom>>)
    [] tag = 5 -> R("SyncIndex", <<Option(Atom)>>)
    [] tag = 6 -> R("FetchWelcomes", <<Atom>>)
    [] tag = 7 -> R("ReserveKeyPackage", <<Atom>>)
    [] tag = 8 -> R("SetFetchGrant", <<Atom, Flag>>)
    [] OTHER -> None

ResponseOf(tag) ==
  CASE tag = 0 -> R("RoomCreated", <<Atom>>)
    [] tag = 1 -> R("KeyPackagesPublished", <<Atom>>)
    [] tag = 2 -> R("Acknowledged", <<>>)
    [] tag = 3 -> R("AppendAccepted", <<Event>>)
    [] tag = 4 -> R("HeadConflict", <<Atom, Atom>>)
    [] tag = 5 -> R("RoomEvents", <<Atom, Atom, Bounded(Event, ListLimit), Flag>>)
    [] tag = 6 -> R("SyncIndex", <<Bounded(RoomHead, ListLimit), Flag>>)
    [] tag = 7 -> R("Welcomes", <<Atom, Bounded(WelcomeDelivery, ListLimit), Flag>>)
    [] tag = 8 -> R("KeyPackage", <<Atom, Text>>)
    [] tag = 9 -> R("FetchGrantSet", <<>>)
    [] tag = 10 -> R("Rejected", <<Code("Rejection")>>)
    [] OTHER -> None

Read(name, tag) ==
  CASE name = "ClientMessage" -> ClientMessageOf(tag)
    [] name = "RelayMessage" -> RelayMessageOf(tag)
    [] name = "ProtocolError" -> ProtocolErrorOf(tag)
    [] name = "Request" -> RequestOf(tag)
    [] name = "Response" -> ResponseOf(tag)

\* Mutant of Arity: the tag of a response is not counted.
ArityFieldsOnly == [ClientMessage |-> 4, RelayMessage |-> 4, ProtocolError |-> 3, Request |-> 3, Response |-> 4]

\* deserialize_tuple(n): the elements that can be read, the tag included.
Arity == [ClientMessage |-> 4, RelayMessage |-> 4, ProtocolError |-> 3, Request |-> 3, Response |-> 5]

(***************************************************************************)
(* encode_message.                                                         *)
(***************************************************************************)
RECURSIVE Enc(_, _)
EncAll(ts, vs) == FlattenSeq([i \in DOMAIN vs |-> Enc(ts[i], vs[i])])
Enc(t, v) ==
  CASE t.k \in {"atom", "flag"} -> <<v>>
    [] t.k = "code" -> <<WriteCode[t.name][v]>>
    [] t.k = "option" -> <<Len(v)>> \o EncAll(<<t.of>>, v)
    [] t.k = "list" -> <<Len(v)>> \o EncAll([i \in DOMAIN v |-> t.of], v)
    [] t.k = "struct" -> EncAll(t.of, v)
    [] t.k = "tagged" -> LET row == WriteTables[t.name][Head(v)]
                         IN  <<row.tag>> \o EncAll(row.fields, Tail(v))

Encode(name, v) ==
  LET s == Enc(Tagged(name), v) IN IF Len(s) > MAX_PAYLOAD THEN None ELSE s

(***************************************************************************)
(* decode_message: a value and what is left, no value on an error.         *)
(***************************************************************************)
Malformed == [v |-> None, rest |-> <<>>]
Parsed(v, rest) == IF v = None THEN Malformed ELSE [v |-> v, rest |-> rest]

RECURSIVE Dec(_, _)
RECURSIVE DecAll(_, _)
DecAll(ts, s) ==
  IF ts = <<>> THEN Parsed(<<>>, s)
  ELSE LET d == Dec(Head(ts), s)
           e == DecAll(Tail(ts), d.rest)
       IN  IF d.v = None \/ e.v = None THEN Malformed ELSE Parsed(<<d.v>> \o e.v, e.rest)

DecTagged(name, tag, s) ==
  LET row == Read(name, tag)
      d == DecAll(row.fields, s)
  IN  IF row = None \/ 1 + Len(row.fields) > Arity[name] \/ d.v = None THEN Malformed
      ELSE Parsed(<<row.variant>> \o d.v, d.rest)

DecList(t, n, s) == IF n > t.max THEN Malformed ELSE DecAll([i \in 1..n |-> t.of], s)

Dec(t, s) ==
  IF t.k = "struct" THEN DecAll(t.of, s)
  ELSE IF s = <<>> THEN Malformed
  ELSE LET n == Head(s)
           rest == Tail(s)
       IN  CASE t.k = "atom" -> Parsed(n, rest)
             [] t.k = "flag" -> IF n \in {0, 1} THEN Parsed(n, rest) ELSE Malformed
             [] t.k = "code" -> Parsed(ReadCode(t.name, n), rest)
             [] t.k = "option" -> IF n \in {0, 1} THEN DecAll([i \in 1..n |-> t.of], rest) ELSE Malformed
             [] t.k = "list" -> DecList(t, n, rest)
             [] t.k = "tagged" -> DecTagged(t.name, n, rest)

Decode(name, s) ==
  IF Len(s) > MAX_PAYLOAD THEN None
  ELSE LET d == Dec(Tagged(name), s) IN IF d.rest # <<>> THEN None ELSE d.v

=============================================================================
