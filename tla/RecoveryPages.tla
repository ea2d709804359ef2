---------------------------- MODULE RecoveryPages ----------------------------
(***************************************************************************)
(* The relay fills a recovery page row by row until a count or a byte      *)
(* limit stops it, then encodes the response; encode_message refuses one   *)
(* beyond MAX_PAYLOAD.  Records are modelled by the sizes of their parts.  *)
(* A number takes as many bytes as it has groups of seven bits, a list or  *)
(* string its length and its contents.                                     *)
(***************************************************************************)
EXTENDS Naturals

CONSTANTS
  Appends,    \* the appends clients send, by size
  Invitations \* the rows of delivery_welcomes, by size

VARIABLES
  fetch,  \* "events" or "welcomes"
  after,  \* bytes of the position the page starts after
  last,   \* bytes of the position of the last row taken
  count,  \* rows in the page
  bytes,  \* what the loop has added up
  size,   \* what the rows take in the response
  phase   \* "filling"; "whole", or "partial" when more rows are left; "sent", or
          \* "failed" when the session ends instead

pageVars == <<fetch, after, last, count, bytes, size, phase>>

MAX_PAYLOAD == 768 * 1024
MAX_MLS_BLOB_BYTES == 512 * 1024
PAGE_SIZE == 100
Margin == 96    \* left for the rest of the response
Slack == 256    \* left for the rest of an event

IdBytes == 16
SignatureBytes == 64

\* The bytes of a length, here always below 2^21, and of what it introduces.
Varint(n) == IF n < 128 THEN 1 ELSE IF n < 16384 THEN 2 ELSE 3
Counted(n) == Varint(n) + n

\* An append: bytes of its parent (below 2^63) and of its epoch, sizes of the
\* MLS message and of the Welcome body, 0 when there is none.
AppendRecords == [parent : 1..9, epoch : 1..10, body : Nat, welcome : Nat]

\* The size conditions of the append handler.
Acceptable(e) ==
  /\ e.body \in 1..MAX_MLS_BLOB_BYTES /\ e.welcome <= MAX_MLS_BLOB_BYTES
  /\ e.body + e.welcome + Slack <= MAX_PAYLOAD

Attachment(body) == IdBytes + Counted(body) + SignatureBytes

\* Event: id, sender, room, parent, epoch, content type, body, Welcome if any.
EventBytes(e) ==
  3 * IdBytes + e.parent + e.epoch + 1 + Counted(e.body)
    + 1 + (IF e.welcome = 0 THEN 0 ELSE Attachment(e.welcome))

\* WelcomeDelivery: room name, cursor, event, room, sequence, inviter, attachment.
InvitationRecords == [name : 1..400, cursor : 1..9, sequence : 1..9, body : 1..MAX_MLS_BLOB_BYTES]
WelcomeBytes(w, cursor) ==
  Counted(w.name) + cursor + 3 * IdBytes + w.sequence + Attachment(w.body)

\* A row as stored and as sent; a Welcome is stored with cursor 0 and sent with
\* its own.  A position is below 2^63.
EventEntry(e) == [position |-> e.parent, stored |-> EventBytes(e), sent |-> EventBytes(e)]
WelcomeEntry(w) == [position |-> w.cursor, stored |-> WelcomeBytes(w, 1),
                  sent |-> WelcomeBytes(w, w.cursor)]
Positions == 1..9

EventEntries == {EventEntry(e) : e \in {a \in Appends : Acceptable(a)}}
WelcomeEntries == {WelcomeEntry(w) : w \in Invitations}

ASSUME PagesAssumption ==
  Appends \subseteq AppendRecords /\ Invitations \subseteq InvitationRecords

(***************************************************************************)
(* The loops of FetchRoomEvents and FetchWelcomes.                         *)
(***************************************************************************)
Request(what, position) ==
  /\ phase = "sent"
  /\ fetch' = what /\ after' = position /\ last' = position
  /\ count' = 0 /\ bytes' = 0 /\ size' = 0 /\ phase' = "filling"

\* Mutant of Full: nothing is left for the rest of the response.
FullTight(row) == count = PAGE_SIZE \/ bytes + row.stored > MAX_PAYLOAD

Full(row) == count = PAGE_SIZE \/ bytes + row.stored > MAX_PAYLOAD - Margin

\* PageRows come in the order of their positions.
TakeRow(row) ==
  /\ phase = "filling" /\ row.position >= last /\ ~Full(row)
  /\ last' = row.position
  /\ count' = count + 1
  /\ bytes' = bytes + row.stored
  /\ size' = size + row.sent
  /\ UNCHANGED <<fetch, after, phase>>

Stop(row) ==
  /\ phase = "filling" /\ row.position >= last /\ Full(row)
  /\ phase' = "partial"
  /\ UNCHANGED <<fetch, after, last, count, bytes, size>>

LastRow ==
  /\ phase = "filling" /\ phase' = "whole"
  /\ UNCHANGED <<fetch, after, last, count, bytes, size>>

\* RelayMessage::Delivery around RoomEvents or Welcomes: tag, request, tag, room
\* for events, position, length of the list (below 128), more.
ResponseBytes ==
  1 + IdBytes + 1 + (IF fetch = "events" THEN IdBytes ELSE 0) + after + 1 + 1 + size

\* The session encodes the response; an error ends the session.
Send ==
  /\ phase \in {"partial", "whole"}
  /\ phase' = IF ResponseBytes <= MAX_PAYLOAD THEN "sent" ELSE "failed"
  /\ UNCHANGED <<fetch, after, last, count, bytes, size>>

\* The client connects again and asks for the same page.
Reconnect ==
  /\ phase = "failed" /\ last' = after
  /\ count' = 0 /\ bytes' = 0 /\ size' = 0 /\ phase' = "filling"
  /\ UNCHANGED <<fetch, after>>

PageInit ==
  /\ fetch = "events" /\ after = 1 /\ last = 1
  /\ count = 0 /\ bytes = 0 /\ size = 0 /\ phase = "sent"

PageRows == IF fetch = "events" THEN EventEntries ELSE WelcomeEntries

PageNext ==
  \/ \E what \in {"events", "welcomes"}, p \in Positions : Request(what, p)
  \/ \E row \in PageRows : TakeRow(row) \/ Stop(row)
  \/ LastRow \/ Send \/ Reconnect

PageSpec == PageInit /\ [][PageNext]_pageVars

(***************************************************************************)
(* Properties.                                                             *)
(***************************************************************************)
\* The variables of the loop, and the count limit: no page has more than 100
\* records, which is what the receiver's bounded list accepts.
PagesTypeOK ==
  /\ fetch \in {"events", "welcomes"} /\ after \in Positions /\ last \in Positions
  /\ count \in 0..PAGE_SIZE /\ bytes \in Nat /\ size \in Nat
  /\ phase \in {"filling", "partial", "whole", "sent", "failed"}

\* "Pages contain at most 100 records and fit the 768 KiB serialized payload
\* cap" (STORAGE.md), for room events: whatever the sizes and numbers in them,
\* the encoded response is within MAX_PAYLOAD and the session goes on.
EventPageFits ==
  fetch = "events" =>
    phase # "failed" /\ (phase \in {"partial", "whole"} => ResponseBytes <= MAX_PAYLOAD)

\* A page that stops early is not empty: every event that the append handler
\* let in fits a page by itself, so that a client can always go on ("room
\* history omitted a required sequence", "invalid Welcome page cursor").
PageAdvances == phase = "partial" => count > 0

\* The same sentence of STORAGE.md, for Welcomes.
WelcomePageFits == fetch = "welcomes" => phase # "failed"

=============================================================================
