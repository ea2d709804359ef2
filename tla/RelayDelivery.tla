--------------------------- MODULE RelayDelivery ---------------------------
(***************************************************************************)
(* The relay's repository: RelayState::deliver and the tables it writes.   *)
(* Every durable request runs in one SQLite transaction that also stores   *)
(* its result under (user, message id), so that an exact retry returns the *)
(* stored result.  A step of this module is one committed transaction; a   *)
(* transaction that fails or is rolled back is a stuttering step.          *)
(* Variables are named after the tables of storage.rs.                     *)
(***************************************************************************)
EXTENDS Protocol

CONSTANTS
  Requests,     \* the durable requests clients send
  RoomLimit,    \* rooms per creator (64)
  TotalRate,    \* packages of one recipient allocated per hour (16)
  PairRate,     \* of which to one requester (4)
  SenderBytes,  \* StorageLimits.sender
  RoomBytes,    \* StorageLimits.room
  Cost(_)       \* bytes charged for a request: 3 * wire length + 16 KiB

VARIABLES
  rooms,                \* creator of each room, None while it does not exist
  room_subscribers,     \* room -> users
  key_packages,         \* user -> unallocated packages, oldest row first
  fetch_grants,         \* <<recipient, requester>> pairs
  package_allocations,  \* rows <<requester, recipient>> in time order
  expired,              \* how many of those rows are older than an hour
  delivery_events,      \* room -> accepted events, in sequence order
  delivery_welcomes,    \* Welcome rows; the cursor of a row is its index
  delivery_requests,    \* <<user, id>> -> stored request and result, or None
  receipts,             \* stored acknowledgements, <<user, receipt>>
  usage_sender,
  usage_room,
  told                  \* history: the results reported so far

tables == <<rooms, room_subscribers, key_packages, fetch_grants,
            package_allocations, expired, delivery_events, delivery_welcomes>>
ledger == <<delivery_requests, usage_sender, usage_room>>
vars == <<tables, ledger, receipts, told>>

\* Limits that the code fixes as constants or reads from its configuration.
ASSUME LimitsAssumption ==
  /\ RoomLimit \in Nat /\ TotalRate \in Nat /\ PairRate \in Nat
  /\ SenderBytes \in Nat /\ RoomBytes \in Nat

ASSUME RequestsAssumption ==
  \A req \in Requests : req \in DurableRequests /\ Cost(req) \in Nat

(***************************************************************************)
(* Helpers of the handlers.                                                *)
(***************************************************************************)
subscribed(room, user) == user \in room_subscribers[room]

HeadOf(room) == Len(delivery_events[room])

\* Mutant of EventExists: the check is dropped.
EventExistsUnchecked(id) == FALSE

\* A stored event identifier is unique over all rooms.
EventExists(id) ==
  \E r \in Rooms : \E s \in DOMAIN delivery_events[r] : delivery_events[r][s].id = id

\* Rows of the last hour for a recipient.
RecentAllocations(recipient) ==
  {i \in (expired + 1)..Len(package_allocations) : package_allocations[i][2] = recipient}

\* Mutant of admit: the sender's limit is compared before the charge.
admitBeforeCharge(user, req) ==
  /\ usage_sender[user] < SenderBytes
  /\ req.kind = "AppendRoomOperation" => usage_room[req.room] + Cost(req) <= RoomBytes

\* The byte ledgers still hold the request (StorageLimits::admit).
admit(user, req) ==
  /\ usage_sender[user] + Cost(req) <= SenderBytes
  /\ req.kind = "AppendRoomOperation" => usage_room[req.room] + Cost(req) <= RoomBytes

\* History of the results reported to clients.
Tell(user, id, req, resp) ==
  told' = told \cup {[user |-> user, id |-> id, request |-> req, response |-> resp]}

Saved(user, id) == delivery_requests[<<user, id>>] # None

\* The results to choose from for a request: the stored one, or one of its kind.
Answers(user, id, req) ==
  IF Saved(user, id)
    THEN {delivery_requests[<<user, id>>].response, Rejected("RequestConflict")}
    ELSE Rejections \cup
          (CASE req.kind = "CreateRoom" -> Created
             [] req.kind = "PublishKeyPackages" -> Published
             [] req.kind = "SetFetchGrant" -> GrantSet
             [] req.kind = "ReserveKeyPackage" -> Allocations
             [] req.kind = "AppendRoomOperation" -> Accepted \cup Conflicts)

Charge(user, req) ==
  /\ usage_sender' = [usage_sender EXCEPT ![user] = @ + Cost(req)]
  /\ usage_room' = [r \in Rooms |->
                      IF req.kind = "AppendRoomOperation" /\ req.room = r
                        THEN usage_room[r] + Cost(req)
                        ELSE usage_room[r]]

\* Mutant of Save: a rejection is reported but not stored.
SaveSuccess(user, id, req, resp) ==
  /\ Charge(user, req)
  /\ IF resp.kind = "Rejected"
       THEN UNCHANGED delivery_requests
       ELSE delivery_requests' = [delivery_requests EXCEPT
                                    ![<<user, id>>] = [request |-> req, response |-> resp]]
  /\ Tell(user, id, req, resp)

\* The transaction ends by charging the ledgers and storing the result.
Save(user, id, req, resp) ==
  /\ Charge(user, req)
  /\ delivery_requests' = [delivery_requests EXCEPT
                             ![<<user, id>>] = [request |-> req, response |-> resp]]
  /\ Tell(user, id, req, resp)

\* The request fails for good: only its result is stored.
Settle(user, id, req, resp) == Save(user, id, req, resp) /\ UNCHANGED tables

\* A result that may change later is reported without being stored.
Defer(resp) == IsTemporary(resp) /\ UNCHANGED <<tables, ledger, told>>

(***************************************************************************)
(* Handlers.  `resp` is the result the transaction returns.                *)
(***************************************************************************)
CreateRoom(user, id, req, resp) ==
  LET owned == {r \in Rooms : rooms[r] = user}
  IN  \/ /\ ~req.valid
         /\ resp = Rejected("Invalid")
         /\ Settle(user, id, req, resp)
      \/ /\ req.valid /\ Cardinality(owned) >= RoomLimit
         /\ resp = Rejected("Quota")
         /\ Defer(resp)
      \/ /\ req.valid /\ Cardinality(owned) < RoomLimit
         /\ \E room \in Rooms :
              /\ rooms[room] = None
              /\ resp = [kind |-> "RoomCreated", room |-> room]
              /\ rooms' = [rooms EXCEPT ![room] = user]
              /\ room_subscribers' = [room_subscribers EXCEPT ![room] = @ \cup {user}]
         /\ Save(user, id, req, resp)
         /\ UNCHANGED <<key_packages, fetch_grants, package_allocations, expired,
                        delivery_events, delivery_welcomes>>

\* A count outside 1..PoolLimit stands for every malformed publication.
PublishKeyPackages(user, id, req, resp) ==
  LET valid == req.count \in 1..PoolLimit
      fits == Len(key_packages[user]) + req.count <= PoolLimit
  IN  \/ /\ ~valid
         /\ resp = Rejected("Invalid")
         /\ Settle(user, id, req, resp)
      \/ /\ valid /\ ~fits
         /\ resp = Rejected("Quota")
         /\ Defer(resp)
      \/ /\ valid /\ fits
         /\ resp = [kind |-> "KeyPackagesPublished"]
         /\ key_packages' = [key_packages EXCEPT ![user] =
              @ \o [k \in 1..req.count |-> [owner |-> user, id |-> id, k |-> k]]]
         /\ Save(user, id, req, resp)
         /\ UNCHANGED <<rooms, room_subscribers, fetch_grants, package_allocations,
                        expired, delivery_events, delivery_welcomes>>

SetFetchGrant(user, id, req, resp) ==
  /\ resp = [kind |-> "FetchGrantSet"]
  /\ fetch_grants' = IF req.allowed
                       THEN fetch_grants \cup {<<user, req.requester>>}
                       ELSE fetch_grants \ {<<user, req.requester>>}
  /\ Save(user, id, req, resp)
  /\ UNCHANGED <<rooms, room_subscribers, key_packages, package_allocations,
                 expired, delivery_events, delivery_welcomes>>

\* Mutant of Overloaded: the limits are off by one.
OverloadedLate(user, recipient) ==
  LET recent == RecentAllocations(recipient)
  IN  \/ Cardinality(recent) > TotalRate
      \/ Cardinality({i \in recent : package_allocations[i][1] = user}) > PairRate

Overloaded(user, recipient) ==
  LET recent == RecentAllocations(recipient)
  IN  \/ Cardinality(recent) >= TotalRate
      \/ Cardinality({i \in recent : package_allocations[i][1] = user}) >= PairRate

\* Mutant of TakePackage: the row is allocated but stays in the pool.
TakePackageKept(user, recipient) ==
  /\ package_allocations' = Append(package_allocations, <<user, recipient>>)
  /\ UNCHANGED key_packages

TakePackage(user, recipient) ==
  /\ key_packages' = [key_packages EXCEPT ![recipient] = Tail(@)]
  /\ package_allocations' = Append(package_allocations, <<user, recipient>>)

ReserveKeyPackage(user, id, req, resp) ==
  LET granted == <<req.recipient, user>> \in fetch_grants
      overloaded == Overloaded(user, req.recipient)
      pool == key_packages[req.recipient]
  IN  \/ /\ ~granted
         /\ resp = Rejected("Unauthorized")
         /\ Settle(user, id, req, resp)
      \/ /\ granted /\ overloaded
         /\ resp = Rejected("Overloaded")
         /\ Defer(resp)
      \/ /\ granted /\ ~overloaded /\ pool = << >>
         /\ resp = Rejected("NotFound")
         /\ Settle(user, id, req, resp)
      \/ /\ granted /\ ~overloaded /\ pool # << >>
         /\ resp = [kind |-> "KeyPackage", package |-> pool[1]]
         /\ TakePackage(user, req.recipient)
         /\ Save(user, id, req, resp)
         /\ UNCHANGED <<rooms, room_subscribers, fetch_grants, expired,
                        delivery_events, delivery_welcomes>>

InsertEvent(user, id, req) ==
  delivery_events' = [delivery_events EXCEPT ![req.room] =
    Append(@, [id |-> id, sender |-> user, parent |-> req.parent,
               body |-> req.body, welcome |-> req.welcome])]

WelcomeRow(user, id, req) ==
  [recipient |-> req.welcome, room |-> req.room, sequence |-> HeadOf(req.room) + 1,
   event |-> id, inviter |-> user]

subscribe(room, user) ==
  room_subscribers' = [room_subscribers EXCEPT ![room] = @ \cup {user}]

\* Mutant of InsertWelcome: the recipient is not subscribed.
InsertWelcomeOnly(user, id, req) ==
  /\ delivery_welcomes' = IF req.welcome = None
                            THEN delivery_welcomes
                            ELSE Append(delivery_welcomes, WelcomeRow(user, id, req))
  /\ UNCHANGED room_subscribers

InsertWelcome(user, id, req) ==
  IF req.welcome = None
    THEN UNCHANGED <<delivery_welcomes, room_subscribers>>
    ELSE /\ delivery_welcomes' = Append(delivery_welcomes, WelcomeRow(user, id, req))
         /\ subscribe(req.room, req.welcome)

\* Mutant of HeadMatches: an append behind the head is let through.
HeadNotBehind(req) == HeadOf(req.room) >= req.parent

HeadMatches(req) == HeadOf(req.room) = req.parent

\* The event, its Welcome row and the recipient's subscription are one
\* transaction, conditional on the sender's view of the head.  A body outside
\* ValidBodies stands for an empty or oversized body or attachment.
AppendRoomOperation(user, id, req, resp) ==
  LET allowed == subscribed(req.room, user)
      valid == req.body \in ValidBodies /\ req.parent < MaxSequence
      current == HeadMatches(req)
  IN  \/ /\ ~allowed
         /\ resp = Rejected("Unauthorized")
         /\ Settle(user, id, req, resp)
      \/ /\ allowed /\ ~valid
         /\ resp = Rejected("Invalid")
         /\ Settle(user, id, req, resp)
      \/ /\ allowed /\ valid /\ ~current
         /\ resp = [kind |-> "HeadConflict", room |-> req.room, head |-> HeadOf(req.room)]
         /\ Settle(user, id, req, resp)
      \/ /\ allowed /\ valid /\ current /\ EventExists(id)
         /\ resp = Rejected("RequestConflict")
         /\ Settle(user, id, req, resp)
      \/ /\ allowed /\ valid /\ current /\ ~EventExists(id)
         /\ resp = [kind |-> "AppendAccepted", room |-> req.room,
                    sequence |-> HeadOf(req.room) + 1]
         /\ InsertEvent(user, id, req)
         /\ InsertWelcome(user, id, req)
         /\ Save(user, id, req, resp)
         /\ UNCHANGED <<rooms, key_packages, fetch_grants, package_allocations, expired>>

(***************************************************************************)
(* RelayState::deliver: look up the stored result, admit, execute.         *)
(***************************************************************************)
\* Mutant of Retry: a retry is charged again.
RetryCharged(user, id, req, resp) ==
  /\ Saved(user, id)
  /\ delivery_requests[<<user, id>>] = [request |-> req, response |-> resp]
  /\ admit(user, req)
  /\ Charge(user, req)
  /\ UNCHANGED <<tables, delivery_requests, told>>

Retry(user, id, req, resp) ==
  LET row == delivery_requests[<<user, id>>]
  IN  /\ Saved(user, id)
      /\ \/ /\ row.request = req
            /\ resp = row.response
            /\ Tell(user, id, req, resp)
         \/ /\ row.request # req
            /\ resp = Rejected("RequestConflict")
            /\ UNCHANGED told
      /\ UNCHANGED <<tables, ledger>>

\* Besides the byte ledgers, admission depends on the size of the database
\* and of its log and on free disk space, so it may always fail.
Refuse(user, id, req, resp) ==
  /\ ~Saved(user, id)
  /\ resp = Rejected("Quota")
  /\ Defer(resp)

Execute(user, id, req, resp) ==
  /\ ~Saved(user, id)
  /\ admit(user, req)
  /\ \/ req.kind = "CreateRoom" /\ CreateRoom(user, id, req, resp)
     \/ req.kind = "PublishKeyPackages" /\ PublishKeyPackages(user, id, req, resp)
     \/ req.kind = "SetFetchGrant" /\ SetFetchGrant(user, id, req, resp)
     \/ req.kind = "ReserveKeyPackage" /\ ReserveKeyPackage(user, id, req, resp)
     \/ req.kind = "AppendRoomOperation" /\ AppendRoomOperation(user, id, req, resp)

deliver(user, id, req, resp) ==
  /\ \/ Retry(user, id, req, resp)
     \/ Refuse(user, id, req, resp)
     \/ Execute(user, id, req, resp)
  /\ UNCHANGED receipts

\* A receipt names one event or one Welcome row, and its message id is derived
\* from that: it has one row however often it is sent.  It bypasses admission,
\* is not charged, and is stored only when it is allowed.
AcknowledgeEvent(user, event) ==
  /\ \E r \in Rooms : /\ subscribed(r, user)
                      /\ \E s \in DOMAIN delivery_events[r] : delivery_events[r][s].id = event
  /\ receipts' = receipts \cup {<<user, "event", event>>}
  /\ UNCHANGED <<tables, ledger, told>>

\* Mutant of AcknowledgeWelcome: the receipt consumes the row.
AcknowledgeConsumes(user, cursor) ==
  /\ delivery_welcomes[cursor].recipient = user
  /\ receipts' = receipts \cup {<<user, "welcome", cursor>>}
  /\ delivery_welcomes' = SubSeq(delivery_welcomes, 1, cursor - 1)
                            \o SubSeq(delivery_welcomes, cursor + 1, Len(delivery_welcomes))
  /\ UNCHANGED <<rooms, room_subscribers, key_packages, fetch_grants, package_allocations,
                 expired, delivery_events, ledger, told>>

AcknowledgeWelcome(user, cursor) ==
  /\ cursor \in DOMAIN delivery_welcomes
  /\ delivery_welcomes[cursor].recipient = user
  /\ receipts' = receipts \cup {<<user, "welcome", cursor>>}
  /\ UNCHANGED <<tables, ledger, told>>

\* An hour has passed since the oldest allocation that still counted.
AllocationExpires ==
  /\ expired < Len(package_allocations)
  /\ expired' = expired + 1
  /\ UNCHANGED <<rooms, room_subscribers, key_packages, fetch_grants,
                 package_allocations, delivery_events, delivery_welcomes>>
  /\ UNCHANGED <<ledger, receipts, told>>

(***************************************************************************)
(* Reads.  They store nothing.  A page is cut by its row count and by its  *)
(* encoded size, so any nonempty prefix up to PageSize rows is possible.   *)
(***************************************************************************)
FetchRoomEvents(room, after) ==
  IF HeadOf(room) <= after
    THEN {<< >>}
    ELSE {SubSeq(delivery_events[room], after + 1, last) :
            last \in {n \in (after + 1)..HeadOf(room) : n <= after + PageSize}}

\* The cursors of one page; the client compares the page with its cursor.
FetchWelcomes(user, after) ==
  LET later == {c \in DOMAIN delivery_welcomes :
                  c > after /\ delivery_welcomes[c].recipient = user}
      upTo(last) == {c \in later : c <= last}
  IN  IF later = {}
        THEN {{}}
        ELSE {upTo(last) : last \in {c \in later : Cardinality(upTo(c)) <= PageSize}}

\* The whole index.  Beyond a hundred rooms it comes in pages, each after the last
\* room of the one before; an instance has fewer.
SyncIndex(user) ==
  {[room |-> r, sequence |-> HeadOf(r)] :
     r \in {q \in Rooms : rooms[q] # None /\ subscribed(q, user)}}

(***************************************************************************)
(* The repository on its own, serving any requests of its clients.         *)
(***************************************************************************)
Init ==
  /\ rooms = [r \in Rooms |-> None]
  /\ room_subscribers = [r \in Rooms |-> {}]
  /\ key_packages = [u \in Users |-> << >>]
  /\ fetch_grants = {}
  /\ package_allocations = << >>
  /\ expired = 0
  /\ delivery_events = [r \in Rooms |-> << >>]
  /\ delivery_welcomes = << >>
  /\ delivery_requests = [k \in Users \X Ids |-> None]
  /\ receipts = {}
  /\ usage_sender = [u \in Users |-> 0]
  /\ usage_room = [r \in Rooms |-> 0]
  /\ told = {}

Deliver(requests) ==
  \E user \in Users, id \in Ids, req \in requests : \E resp \in Answers(user, id, req) :
    deliver(user, id, req, resp)

Acknowledge ==
  \/ \E user \in Users, event \in Ids : AcknowledgeEvent(user, event)
  \/ \E user \in Users, cursor \in DOMAIN delivery_welcomes : AcknowledgeWelcome(user, cursor)

Next == Deliver(Requests) \/ Acknowledge \/ AllocationExpires

Spec == Init /\ [][Next]_vars

=============================================================================
