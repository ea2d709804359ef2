------------------------- MODULE RelayDeliveryProofs --------------------------
(***************************************************************************)
(* The relay repository for every set of users, rooms and requests and every*)
(* value of the limits: its types, the one outcome of a message id, the    *)
(* logs, the Welcome rows and the subscriptions.  For the logs a step is   *)
(* first reduced to what it does to these tables: nothing, a result        *)
(* recorded (with a room opened, perhaps), or one event accepted.          *)
(***************************************************************************)
EXTENDS RelayDeliveryProps, TLAPS

-----------------------------------------------------------------------------
(* Type correctness.                                                       *)

\* What is chosen as the result of a request is a result.
LEMMA AnswersAreResponses ==
  ASSUME TypeOK, NEW user \in Users, NEW id \in Ids, NEW req \in Requests,
         NEW resp \in Answers(user, id, req)
  PROVE  resp \in Responses
<1>1. CASE Saved(user, id)
  <2>1. delivery_requests[<<user, id>>] \in Rows
    BY Zenon, <1>1 DEF TypeOK, Saved
  <2>2. delivery_requests[<<user, id>>].response \in Responses
    BY Zenon, <2>1 DEF Rows
  <2>3. Rejected("RequestConflict") \in Responses
    BY Zenon DEF Responses, Rejections, Reasons
  <2> QED
    BY Zenon, <1>1, <2>2, <2>3 DEF Answers
<1>2. CASE ~Saved(user, id)
  <2>1. req.kind \in {"CreateRoom", "PublishKeyPackages", "SetFetchGrant",
                      "ReserveKeyPackage", "AppendRoomOperation"}
    BY Zenon, ProtocolAssumption, RequestsAssumption DEF DurableRequests, CreateRequests, PublishRequests,
         GrantRequests, ReserveRequests, AppendRequests
  <2> QED
    BY Zenon, <1>2, <2>1 DEF Answers, Responses
<1> QED
  BY Zenon, <1>1, <1>2

\* Storing an admitted request keeps the types of the ledgers.
LEMMA SaveType ==
  ASSUME TypeOK, NEW user \in Users, NEW id \in Ids, NEW req \in Requests,
         NEW resp \in Responses, admit(user, req), Save(user, id, req, resp)
  PROVE  /\ delivery_requests' \in [Users \X Ids -> Rows \cup {None}]
         /\ usage_sender' \in [Users -> 0..SenderBytes]
         /\ usage_room' \in [Rooms -> 0..RoomBytes]
         /\ told' \subseteq [user : Users, id : Ids, request : DurableRequests,
                             response : Responses]
<1>1. req \in DurableRequests /\ Cost(req) \in Nat
  BY Zenon, ProtocolAssumption, RequestsAssumption
<1>2. [request |-> req, response |-> resp] \in Rows
  BY Zenon, <1>1 DEF Rows
<1>3. delivery_requests' \in [Users \X Ids -> Rows \cup {None}]
  BY Zenon, <1>2 DEF TypeOK, Save
<1>4. usage_sender' \in [Users -> 0..SenderBytes]
  BY <1>1, ProtocolAssumption, LimitsAssumption DEF TypeOK, Save, Charge, admit
<1>5. usage_room' \in [Rooms -> 0..RoomBytes]
  BY <1>1, ProtocolAssumption, LimitsAssumption DEF TypeOK, Save, Charge, admit
<1>6. told' \subseteq [user : Users, id : Ids, request : DurableRequests,
                       response : Responses]
  BY <1>1 DEF TypeOK, Save, Tell
<1> QED
  BY Zenon, <1>3, <1>4, <1>5, <1>6

\* A settled request changes no table but the ledgers.
LEMMA SettleType ==
  ASSUME TypeOK, NEW user \in Users, NEW id \in Ids, NEW req \in Requests,
         NEW resp \in Responses, admit(user, req), Settle(user, id, req, resp)
  PROVE  TypeOK'
<1>1. Save(user, id, req, resp) /\ UNCHANGED tables
  BY Zenon DEF Settle
<1> QED
  BY Zenon, <1>1, SaveType DEF TypeOK, tables

LEMMA CreateRoomType ==
  ASSUME TypeOK, NEW user \in Users, NEW id \in Ids, NEW req \in Requests,
         NEW resp \in Responses, admit(user, req), CreateRoom(user, id, req, resp)
  PROVE  TypeOK'
<1>1. CASE Settle(user, id, req, resp)
  BY Zenon, <1>1, SettleType
<1>2. CASE Defer(resp)
  BY Zenon, <1>2 DEF Defer, TypeOK, tables, ledger
<1>3. CASE /\ \E room \in Rooms :
               /\ rooms' = [rooms EXCEPT ![room] = user]
               /\ room_subscribers' = [room_subscribers EXCEPT ![room] = @ \cup {user}]
           /\ Save(user, id, req, resp)
           /\ UNCHANGED <<key_packages, fetch_grants, package_allocations, expired,
                          delivery_events, delivery_welcomes>>
  <2> PICK room \in Rooms :
         /\ rooms' = [rooms EXCEPT ![room] = user]
         /\ room_subscribers' = [room_subscribers EXCEPT ![room] = @ \cup {user}]
    BY Zenon, <1>3
  <2>1. rooms' \in [Rooms -> Users \cup {None}]
    BY Zenon DEF TypeOK
  <2>2. room_subscribers' \in [Rooms -> SUBSET Users]
    BY Zenon DEF TypeOK
  <2> QED
    BY Zenon, <1>3, <2>1, <2>2, SaveType DEF TypeOK
<1> QED
  BY Zenon, <1>1, <1>2, <1>3 DEF CreateRoom

LEMMA PublishKeyPackagesType ==
  ASSUME TypeOK, NEW user \in Users, NEW id \in Ids, NEW req \in Requests,
         NEW resp \in Responses, admit(user, req), PublishKeyPackages(user, id, req, resp)
  PROVE  TypeOK'
<1>1. CASE Settle(user, id, req, resp)
  BY Zenon, <1>1, SettleType
<1>2. CASE Defer(resp)
  BY Zenon, <1>2 DEF Defer, TypeOK, tables, ledger
<1>3. CASE /\ req.count \in 1..PoolLimit
           /\ key_packages' = [key_packages EXCEPT ![user] =
                 @ \o [k \in 1..req.count |-> [owner |-> user, id |-> id, k |-> k]]]
           /\ Save(user, id, req, resp)
           /\ UNCHANGED <<rooms, room_subscribers, fetch_grants, package_allocations,
                          expired, delivery_events, delivery_welcomes>>
  <2> DEFINE new == [k \in 1..req.count |-> [owner |-> user, id |-> id, k |-> k]]
  <2>1. new \in Seq(Packages)
    <3>1. req.count \in Nat /\ 1..req.count \subseteq 1..PoolLimit
      BY <1>3, ProtocolAssumption, LimitsAssumption
    <3>2. new \in [1..req.count -> Packages]
      BY Zenon, <3>1 DEF Packages
    <3> QED
      BY <3>1, <3>2
  <2>2. key_packages[user] \o new \in Seq(Packages)
    BY <2>1 DEF TypeOK
  <2>3. key_packages' \in [Users -> Seq(Packages)]
    BY Zenon, <1>3, <2>2 DEF TypeOK
  <2> QED
    BY Zenon, <1>3, <2>3, SaveType DEF TypeOK
<1> QED
  BY Zenon, <1>1, <1>2, <1>3 DEF PublishKeyPackages

LEMMA SetFetchGrantType ==
  ASSUME TypeOK, NEW user \in Users, NEW id \in Ids, NEW req \in Requests,
         NEW resp \in Responses, admit(user, req), req.kind = "SetFetchGrant",
         SetFetchGrant(user, id, req, resp)
  PROVE  TypeOK'
<1>1. req.requester \in Users
  BY Zenon, ProtocolAssumption, RequestsAssumption DEF DurableRequests, CreateRequests, PublishRequests,
       GrantRequests, ReserveRequests, AppendRequests
<1>2. fetch_grants' \subseteq Users \X Users
  BY <1>1 DEF TypeOK, SetFetchGrant
<1> QED
  BY Zenon, <1>2, SaveType DEF TypeOK, SetFetchGrant

LEMMA ReserveKeyPackageType ==
  ASSUME TypeOK, NEW user \in Users, NEW id \in Ids, NEW req \in Requests,
         NEW resp \in Responses, admit(user, req), req.kind = "ReserveKeyPackage",
         ReserveKeyPackage(user, id, req, resp)
  PROVE  TypeOK'
<1>1. CASE Settle(user, id, req, resp)
  BY Zenon, <1>1, SettleType
<1>2. CASE Defer(resp)
  BY Zenon, <1>2 DEF Defer, TypeOK, tables, ledger
<1>3. CASE /\ key_packages[req.recipient] # << >>
           /\ TakePackage(user, req.recipient)
           /\ Save(user, id, req, resp)
           /\ UNCHANGED <<rooms, room_subscribers, fetch_grants, expired,
                          delivery_events, delivery_welcomes>>
  <2>1. req.recipient \in Users
    BY Zenon, ProtocolAssumption, RequestsAssumption DEF DurableRequests, CreateRequests, PublishRequests,
         GrantRequests, ReserveRequests, AppendRequests
  <2>2. key_packages' \in [Users -> Seq(Packages)]
    BY <1>3, <2>1 DEF TypeOK, TakePackage
  <2>3. /\ package_allocations' \in Seq(Users \X Users)
        /\ expired' \in 0..Len(package_allocations')
    BY <1>3, <2>1 DEF TypeOK, TakePackage
  <2> QED
    BY Zenon, <1>3, <2>2, <2>3, SaveType DEF TypeOK
<1> QED
  BY Zenon, <1>1, <1>2, <1>3 DEF ReserveKeyPackage

LEMMA AppendRoomOperationType ==
  ASSUME TypeOK, NEW user \in Users, NEW id \in Ids, NEW req \in Requests,
         NEW resp \in Responses, admit(user, req), req.kind = "AppendRoomOperation",
         AppendRoomOperation(user, id, req, resp)
  PROVE  TypeOK'
<1>1. CASE Settle(user, id, req, resp)
  BY Zenon, <1>1, SettleType
<1>2. CASE /\ InsertEvent(user, id, req)
           /\ InsertWelcome(user, id, req)
           /\ Save(user, id, req, resp)
           /\ UNCHANGED <<rooms, key_packages, fetch_grants, package_allocations, expired>>
  <2>1. /\ req.room \in Rooms /\ req.parent \in Nat
        /\ req.body \in Bodies /\ req.welcome \in Users \cup {None}
    BY Zenon, ProtocolAssumption, RequestsAssumption DEF DurableRequests, CreateRequests, PublishRequests,
         GrantRequests, ReserveRequests, AppendRequests
  <2>2. delivery_events' \in [Rooms -> Seq(Events)]
    <3> DEFINE event == [id |-> id, sender |-> user, parent |-> req.parent,
                         body |-> req.body, welcome |-> req.welcome]
    <3>1. event \in Events
      BY Zenon, <2>1 DEF Events
    <3>2. Append(delivery_events[req.room], event) \in Seq(Events)
      BY <2>1, <3>1 DEF TypeOK
    <3>3. delivery_events' = [delivery_events EXCEPT ![req.room] =
                                Append(delivery_events[req.room], event)]
      BY Zenon, <1>2 DEF InsertEvent
    <3> HIDE DEF event
    <3> QED
      BY Zenon, <2>1, <3>2, <3>3 DEF TypeOK
  <2>3. /\ delivery_welcomes' \in Seq(WelcomeRows)
        /\ room_subscribers' \in [Rooms -> SUBSET Users]
    <3>1. CASE req.welcome = None
      BY Zenon, <1>2, <3>1 DEF TypeOK, InsertWelcome
    <3>2. CASE req.welcome # None
      <4>1. HeadOf(req.room) + 1 \in Nat
        BY <2>1 DEF TypeOK, HeadOf
      <4>2. WelcomeRow(user, id, req) \in WelcomeRows
        BY Zenon, <2>1, <3>2, <4>1 DEF WelcomeRow, WelcomeRows
      <4>3. /\ delivery_welcomes' = Append(delivery_welcomes, WelcomeRow(user, id, req))
            /\ subscribe(req.room, req.welcome)
        BY Zenon, <1>2, <3>2 DEF InsertWelcome
      <4>4. delivery_welcomes' \in Seq(WelcomeRows)
        BY <4>2, <4>3 DEF TypeOK
      <4>5. room_subscribers' \in [Rooms -> SUBSET Users]
        BY Zenon, <2>1, <3>2, <4>3 DEF TypeOK, subscribe
      <4> QED
        BY Zenon, <4>4, <4>5
    <3> QED
      BY Zenon, <3>1, <3>2
  <2> QED
    BY Zenon, <1>2, <2>2, <2>3, SaveType DEF TypeOK
<1> QED
  BY Zenon, <1>1, <1>2 DEF AppendRoomOperation

\* Every result of deliver keeps the types.
LEMMA DeliverType ==
  ASSUME TypeOK, NEW user \in Users, NEW id \in Ids, NEW req \in Requests,
         NEW resp \in Answers(user, id, req), deliver(user, id, req, resp)
  PROVE  TypeOK'
<1>1. resp \in Responses
  BY Zenon, AnswersAreResponses
<1>2. CASE Retry(user, id, req, resp)
  <2>1. told' \subseteq [user : Users, id : Ids, request : DurableRequests,
                         response : Responses]
    BY <1>1, <1>2, ProtocolAssumption, RequestsAssumption DEF Retry, Tell, TypeOK
  <2> QED
    BY Zenon, <1>2, <2>1 DEF Retry, TypeOK, tables, ledger
<1>3. CASE Refuse(user, id, req, resp)
  BY Zenon, <1>3 DEF Refuse, Defer, TypeOK, tables, ledger
<1>4. CASE Execute(user, id, req, resp)
  BY Zenon, <1>1, <1>4, CreateRoomType, PublishKeyPackagesType, SetFetchGrantType,
     ReserveKeyPackageType, AppendRoomOperationType DEF Execute
<1> QED
  BY Zenon, <1>2, <1>3, <1>4 DEF deliver

LEMMA TypeStep == TypeOK /\ [Next]_vars => TypeOK'
<1> SUFFICES ASSUME TypeOK, [Next]_vars PROVE TypeOK'
  BY Zenon
<1>1. CASE \E user \in Users, id \in Ids, req \in Requests :
             \E resp \in Answers(user, id, req) : deliver(user, id, req, resp)
  BY Zenon, <1>1, DeliverType
<1>2. CASE \E user \in Users, event \in Ids : AcknowledgeEvent(user, event)
  BY Zenon, <1>2 DEF AcknowledgeEvent, TypeOK, tables, ledger
<1>3. CASE \E user \in Users, cursor \in DOMAIN delivery_welcomes :
             AcknowledgeWelcome(user, cursor)
  BY Zenon, <1>3 DEF AcknowledgeWelcome, TypeOK, tables, ledger
<1>4. CASE AllocationExpires
  BY <1>4 DEF AllocationExpires, TypeOK, ledger
<1>5. CASE UNCHANGED vars
  BY Zenon, <1>5 DEF vars, TypeOK, tables, ledger
<1> QED
  BY Zenon, <1>1, <1>2, <1>3, <1>4, <1>5 DEF Next, Deliver, Acknowledge

\* The tables of the relay are well typed and the byte ledgers stay within their
\* limits, whatever requests its clients send (deliver, StorageLimits::admit).
THEOREM TypeCorrect == Spec => []TypeOK
<1>1. Init => TypeOK
  BY ProtocolAssumption, LimitsAssumption DEF Init, TypeOK
<1> QED
  BY <1>1, TypeStep, PTL DEF Spec

-----------------------------------------------------------------------------
(* One outcome per message id.                                             *)

\* What deliver does to the stored results.
NewRow(user, id, req, resp) ==
  /\ ~Saved(user, id)
  /\ delivery_requests' = [delivery_requests EXCEPT
                             ![<<user, id>>] = [request |-> req, response |-> resp]]

LEMMA OutcomeEffect ==
  ASSUME TypeOK, NEW user \in Users, NEW id \in Ids, NEW req \in Requests,
         NEW resp \in Answers(user, id, req), deliver(user, id, req, resp)
  PROVE  \/ UNCHANGED <<delivery_requests, told>>
         \/ /\ delivery_requests[<<user, id>>] = [request |-> req, response |-> resp]
            /\ UNCHANGED delivery_requests
            /\ Tell(user, id, req, resp)
         \/ NewRow(user, id, req, resp) /\ Tell(user, id, req, resp)
<1>1. CASE Retry(user, id, req, resp)
  <2>1. delivery_requests[<<user, id>>] \in Rows
    BY Zenon, <1>1 DEF Retry, Saved, TypeOK
  <2>2. CASE resp = delivery_requests[<<user, id>>].response
             /\ req = delivery_requests[<<user, id>>].request
    BY Zenon, <1>1, <2>1, <2>2 DEF Retry, Rows, ledger
  <2> QED
    BY Zenon, <1>1, <2>2 DEF Retry, ledger
<1>2. CASE Refuse(user, id, req, resp)
  BY Zenon, <1>2 DEF Refuse, Defer, ledger
<1>3. CASE Execute(user, id, req, resp)
  <2>1. Save(user, id, req, resp) \/ Defer(resp)
    BY Zenon, <1>3 DEF Execute, CreateRoom, PublishKeyPackages, SetFetchGrant,
         ReserveKeyPackage, AppendRoomOperation, Settle
  <2>2. ~Saved(user, id)
    BY Zenon, <1>3 DEF Execute
  <2>3. CASE Save(user, id, req, resp)
    BY Zenon, <2>2, <2>3 DEF Save, NewRow
  <2>4. CASE Defer(resp)
    BY Zenon, <2>4 DEF Defer, ledger
  <2> QED
    BY Zenon, <2>1, <2>3, <2>4
<1> QED
  BY Zenon, <1>1, <1>2, <1>3 DEF deliver

\* A reported result is the stored one.
LEMMA DeliverTold ==
  ASSUME TypeOK, ToldStored, NEW user \in Users, NEW id \in Ids, NEW req \in Requests,
         NEW resp \in Answers(user, id, req), deliver(user, id, req, resp)
  PROVE  ToldStored'
<1>1. CASE UNCHANGED <<delivery_requests, told>>
  BY Zenon, <1>1 DEF ToldStored
<1>2. CASE /\ delivery_requests[<<user, id>>] = [request |-> req, response |-> resp]
           /\ UNCHANGED delivery_requests
           /\ Tell(user, id, req, resp)
  <2> SUFFICES ASSUME NEW t \in told'
               PROVE  delivery_requests[<<t.user, t.id>>]
                        = [request |-> t.request, response |-> t.response]
    BY Zenon, <1>2 DEF ToldStored
  <2>1. CASE t \in told
    BY Zenon, <2>1 DEF ToldStored
  <2>2. CASE t = [user |-> user, id |-> id, request |-> req, response |-> resp]
    BY Zenon, <1>2, <2>2
  <2> QED
    BY Zenon, <1>2, <2>1, <2>2 DEF Tell
<1>3. CASE NewRow(user, id, req, resp) /\ Tell(user, id, req, resp)
  <2> SUFFICES ASSUME NEW t \in told'
               PROVE  delivery_requests'[<<t.user, t.id>>]
                        = [request |-> t.request, response |-> t.response]
    BY Zenon DEF ToldStored
  <2>1. delivery_requests'[<<user, id>>] = [request |-> req, response |-> resp]
    BY Zenon, <1>3 DEF NewRow, TypeOK
  <2>2. CASE t \in told
    <3>1. t.user \in Users /\ t.id \in Ids
      BY Zenon, <2>2 DEF TypeOK
    <3>2. delivery_requests[<<t.user, t.id>>]
            = [request |-> t.request, response |-> t.response]
      BY Zenon, <2>2 DEF ToldStored
    <3>3. t.request \in DurableRequests /\ t.response \in Responses
      BY Zenon, <2>2 DEF TypeOK
    <3>4. delivery_requests[<<t.user, t.id>>] # None
      BY <3>2, <3>3, ProtocolAssumption, RequestsAssumption
    <3>5. <<t.user, t.id>> # <<user, id>>
      BY Zenon, <1>3, <3>4 DEF NewRow, Saved
    <3> QED
      BY Zenon, <1>3, <3>1, <3>2, <3>5 DEF NewRow, TypeOK
  <2>3. CASE t = [user |-> user, id |-> id, request |-> req, response |-> resp]
    BY Zenon, <2>1, <2>3
  <2> QED
    BY Zenon, <1>3, <2>2, <2>3 DEF Tell
<1> QED
  BY Zenon, <1>1, <1>2, <1>3, OutcomeEffect

\* For every run of the relay, a message id has one settled outcome
\* (the lookup and the insert of deliver, delivery.rs:23-38 and 81-103).
THEOREM OutcomeSettled == Spec => []OneOutcome
<1>1. Init => ToldStored
  BY Zenon DEF Init, ToldStored
<1>2. TypeOK /\ ToldStored /\ [Next]_vars => ToldStored'
  <2> SUFFICES ASSUME TypeOK, ToldStored, [Next]_vars PROVE ToldStored'
    BY Zenon
  <2>1. CASE \E user \in Users, id \in Ids, req \in Requests :
               \E resp \in Answers(user, id, req) : deliver(user, id, req, resp)
    BY Zenon, <2>1, DeliverTold
  <2>2. CASE UNCHANGED <<delivery_requests, told>>
    BY Zenon, <2>2 DEF ToldStored
  <2> QED
    BY Zenon, <2>1, <2>2 DEF Next, Deliver, Acknowledge, AcknowledgeEvent, AcknowledgeWelcome, AllocationExpires,
         ledger, vars
<1>3. TypeOK /\ ToldStored => OneOutcome
  <2> SUFFICES ASSUME TypeOK, ToldStored, NEW s \in told, NEW t \in told,
                      s.user = t.user, s.id = t.id
               PROVE  s = t
    BY Zenon DEF OneOutcome
  <2>1. [request |-> s.request, response |-> s.response]
          = [request |-> t.request, response |-> t.response]
    BY Zenon DEF ToldStored
  <2>2. s.request = t.request /\ s.response = t.response
    BY Zenon, <2>1
  <2>3. /\ s \in [user : Users, id : Ids, request : DurableRequests, response : Responses]
        /\ t \in [user : Users, id : Ids, request : DurableRequests, response : Responses]
    BY Zenon DEF TypeOK
  <2> QED
    BY <2>2, <2>3
<1> QED
  BY <1>1, <1>2, <1>3, TypeCorrect, PTL DEF Spec

(***************************************************************************)
(* The logs, the Welcome rows and the subscriptions.                       *)
(***************************************************************************)
logTables == <<delivery_requests, rooms, room_subscribers, delivery_events, delivery_welcomes>>

\* A created room.
Opens(user) ==
  \E room \in Rooms :
    /\ rooms[room] = None
    /\ rooms' = [rooms EXCEPT ![room] = user]
    /\ room_subscribers' = [room_subscribers EXCEPT ![room] = @ \cup {user}]

\* A stored result other than an acceptance.
Records(user, id, req, resp) ==
  /\ NewRow(user, id, req, resp) /\ resp.kind # "AppendAccepted"
  /\ UNCHANGED <<rooms, room_subscribers>> \/ Opens(user)
  /\ UNCHANGED <<delivery_events, delivery_welcomes>>

\* An accepted append.
Accepts(user, id, req, resp) ==
  /\ req.kind = "AppendRoomOperation"
  /\ HeadMatches(req) /\ ~EventExists(id)
  /\ resp = [kind |-> "AppendAccepted", room |-> req.room, sequence |-> HeadOf(req.room) + 1]
  /\ InsertEvent(user, id, req) /\ InsertWelcome(user, id, req)
  /\ NewRow(user, id, req, resp)
  /\ UNCHANGED rooms

\* What deliver does to the logs.
LEMMA LogEffect ==
  ASSUME TypeOK, NEW user \in Users, NEW id \in Ids, NEW req \in Requests,
         NEW resp \in Answers(user, id, req), deliver(user, id, req, resp)
  PROVE  \/ UNCHANGED logTables
         \/ Records(user, id, req, resp)
         \/ Accepts(user, id, req, resp)
<1>1. CASE Retry(user, id, req, resp)
  BY Zenon, <1>1 DEF Retry, tables, ledger, logTables
<1>2. CASE Refuse(user, id, req, resp)
  BY Zenon, <1>2 DEF Refuse, Defer, tables, ledger, logTables
<1>3. CASE Execute(user, id, req, resp)
  <2>1. ~Saved(user, id)
    BY Zenon, <1>3 DEF Execute
  <2>2. ASSUME Save(user, id, req, resp) PROVE NewRow(user, id, req, resp)
    BY Zenon, <2>1, <2>2 DEF Save, NewRow
  <2>3. ASSUME Settle(user, id, req, resp), resp.kind # "AppendAccepted"
        PROVE  Records(user, id, req, resp)
    BY Zenon, <2>2, <2>3 DEF Settle, Records, tables
  <2>4. ASSUME Defer(resp) PROVE UNCHANGED logTables
    BY Zenon, <2>4 DEF Defer, tables, ledger, logTables
  <2>5. \A reason : Rejected(reason).kind # "AppendAccepted"
    BY Zenon DEF Rejected
  <2>6. CASE CreateRoom(user, id, req, resp)
    <3>1. \/ Settle(user, id, req, resp) /\ resp = Rejected("Invalid")
          \/ Defer(resp)
          \/ /\ Opens(user) /\ Save(user, id, req, resp) /\ resp.kind # "AppendAccepted"
             /\ UNCHANGED <<delivery_events, delivery_welcomes>>
      BY <2>6 DEF CreateRoom, Opens
    <3> QED
      BY Zenon, <2>2, <2>3, <2>4, <2>5, <3>1 DEF Records
  <2>7. CASE PublishKeyPackages(user, id, req, resp)
    <3>1. \/ Settle(user, id, req, resp) /\ resp = Rejected("Invalid")
          \/ Defer(resp)
          \/ /\ Save(user, id, req, resp) /\ resp.kind # "AppendAccepted"
             /\ UNCHANGED <<rooms, room_subscribers>>
             /\ UNCHANGED <<delivery_events, delivery_welcomes>>
      BY <2>7 DEF PublishKeyPackages
    <3> QED
      BY Zenon, <2>2, <2>3, <2>4, <2>5, <3>1 DEF Records
  <2>8. CASE SetFetchGrant(user, id, req, resp)
    <3>1. /\ Save(user, id, req, resp) /\ resp.kind # "AppendAccepted"
          /\ UNCHANGED <<rooms, room_subscribers>>
          /\ UNCHANGED <<delivery_events, delivery_welcomes>>
      BY Zenon, <2>8 DEF SetFetchGrant
    <3> QED
      BY Zenon, <2>2, <3>1 DEF Records
  <2>9. CASE ReserveKeyPackage(user, id, req, resp)
    <3>1. \/ Settle(user, id, req, resp) /\ resp = Rejected("Unauthorized")
          \/ Settle(user, id, req, resp) /\ resp = Rejected("NotFound")
          \/ Defer(resp)
          \/ /\ Save(user, id, req, resp) /\ resp.kind # "AppendAccepted"
             /\ UNCHANGED <<rooms, room_subscribers>>
             /\ UNCHANGED <<delivery_events, delivery_welcomes>>
      BY <2>9 DEF ReserveKeyPackage
    <3> QED
      BY Zenon, <2>2, <2>3, <2>4, <2>5, <3>1 DEF Records
  <2>10. CASE req.kind = "AppendRoomOperation" /\ AppendRoomOperation(user, id, req, resp)
    <3>1. \/ Settle(user, id, req, resp) /\ \E reason : resp = Rejected(reason)
          \/ Settle(user, id, req, resp) /\ resp.kind = "HeadConflict"
          \/ /\ HeadMatches(req) /\ ~EventExists(id)
             /\ resp = [kind |-> "AppendAccepted", room |-> req.room,
                        sequence |-> HeadOf(req.room) + 1]
             /\ InsertEvent(user, id, req) /\ InsertWelcome(user, id, req)
             /\ Save(user, id, req, resp) /\ UNCHANGED rooms
      BY <2>10 DEF AppendRoomOperation
    <3> QED
      BY Zenon, <2>2, <2>3, <2>5, <2>10, <3>1 DEF Accepts
  <2> QED
    BY Zenon, <1>3, <2>6, <2>7, <2>8, <2>9, <2>10 DEF Execute
<1> QED
  BY Zenon, <1>1, <1>2, <1>3 DEF deliver

-----------------------------------------------------------------------------
(* What an accepted append does to each table.                             *)

Place(req) == HeadOf(req.room) + 1

Content(user, id, req) ==
  [id |-> id, sender |-> user, parent |-> req.parent, body |-> req.body, welcome |-> req.welcome]

\* The event has a new place, at the end of its log.
Appended(req) ==
  /\ req.room \in Rooms
  /\ Place(req) \in Nat /\ req.parent = Place(req) - 1
  /\ Place(req) \notin DOMAIN delivery_events[req.room]
  /\ Place(req) \in DOMAIN delivery_events'[req.room]

OnlyAppended(req) ==
  \A r \in Rooms : \A s \in DOMAIN delivery_events'[r] :
    s \in DOMAIN delivery_events[r] \/ (r = req.room /\ s = Place(req))

\* The fields of an append.
LEMMA AppendFields ==
  ASSUME NEW req \in Requests, req.kind = "AppendRoomOperation"
  PROVE  /\ req.room \in Rooms /\ req.parent \in Nat
         /\ req.body \in Bodies /\ req.welcome \in Users \cup {None}
  BY Zenon, RequestsAssumption DEF DurableRequests, CreateRequests, PublishRequests,
     GrantRequests, ReserveRequests, AppendRequests

\* An accepted append extends the log of its room by one event.
LEMMA AcceptedEvent ==
  ASSUME TypeOK, NEW user \in Users, NEW id \in Ids, NEW req \in Requests, NEW resp,
         Accepts(user, id, req, resp)
  PROVE  /\ Appended(req) /\ OnlyAppended(req) /\ EventsKept
         /\ delivery_events'[req.room][Place(req)] = Content(user, id, req)
<1> DEFINE log == delivery_events[req.room]
           e == Content(user, id, req)
<1>1. /\ req.room \in Rooms /\ req.parent \in Nat
      /\ req.body \in Bodies /\ req.welcome \in Users \cup {None}
  BY Zenon, AppendFields DEF Accepts
<1>2. delivery_events \in [Rooms -> Seq(Events)]
  BY Zenon DEF TypeOK
<1>3. log \in Seq(Events) /\ Len(log) \in Nat /\ DOMAIN log = 1..Len(log)
  BY <1>1, <1>2
<1>4. Place(req) = Len(log) + 1
  BY Zenon DEF Place, HeadOf
<1>5. e \in Events
  BY Zenon, <1>1 DEF Events, Content
<1>6. delivery_events' = [delivery_events EXCEPT ![req.room] = Append(log, e)]
  BY Zenon DEF Accepts, InsertEvent, Content
<1>7. delivery_events'[req.room] = Append(log, e)
  BY Zenon, <1>1, <1>2, <1>6
<1>8. \A r \in Rooms : r # req.room => delivery_events'[r] = delivery_events[r]
  BY Zenon, <1>2, <1>6
<1> HIDE DEF e
<1>9. /\ DOMAIN Append(log, e) = 1..(Len(log) + 1) /\ Append(log, e)[Len(log) + 1] = e
      /\ \A s \in 1..Len(log) : Append(log, e)[s] = log[s]
  BY <1>3, <1>5
<1>10. req.parent = Len(log)
  BY Zenon DEF Accepts, HeadMatches, HeadOf
<1>11. Appended(req)
  <2>1. /\ Len(log) + 1 \in Nat /\ Len(log) = (Len(log) + 1) - 1
        /\ Len(log) + 1 \notin 1..Len(log) /\ Len(log) + 1 \in 1..(Len(log) + 1)
    BY <1>3
  <2> QED
    BY Zenon, <1>1, <1>3, <1>4, <1>7, <1>9, <1>10, <2>1 DEF Appended
<1>12. delivery_events'[req.room][Place(req)] = e
  BY Zenon, <1>4, <1>7, <1>9
<1>13. OnlyAppended(req)
  <2>1. \A s \in 1..(Len(log) + 1) : s \in 1..Len(log) \/ s = Len(log) + 1
    BY <1>3
  <2> QED
    BY Zenon, <1>3, <1>4, <1>7, <1>8, <1>9, <2>1 DEF OnlyAppended
<1>14. EventsKept
  <2>1. \A s \in 1..Len(log) : s \in 1..(Len(log) + 1)
    BY <1>3
  <2> QED
    BY Zenon, <1>3, <1>7, <1>8, <1>9, <2>1 DEF EventsKept
<1> QED
  BY Zenon, <1>11, <1>12, <1>13, <1>14 DEF e

\* A new row leaves the stored rows alone.
LEMMA NewRowKeeps ==
  ASSUME TypeOK, NEW user \in Users, NEW id \in Ids, NEW req, NEW resp,
         NewRow(user, id, req, resp)
  PROVE  /\ delivery_requests'[<<user, id>>] = [request |-> req, response |-> resp]
         /\ delivery_requests[<<user, id>>] = None
         /\ \A k \in Users \X Ids :
              k # <<user, id>> => delivery_requests'[k] = delivery_requests[k]
<1>1. delivery_requests \in [Users \X Ids -> Rows \cup {None}]
  BY Zenon DEF TypeOK
<1> QED
  BY Zenon, <1>1 DEF NewRow, Saved

\* The rows of stored events are not the new one.
LEMMA EventRowKept ==
  ASSUME TypeOK, AcceptedIffLogged, NEW user \in Users, NEW id \in Ids, NEW req, NEW resp,
         NewRow(user, id, req, resp), NEW r \in Rooms, NEW s \in DOMAIN delivery_events[r]
  PROVE  LET e == delivery_events[r][s]
         IN  delivery_requests'[<<e.sender, e.id>>] = delivery_requests[<<e.sender, e.id>>]
<1> DEFINE e == delivery_events[r][s]
<1>1. delivery_events \in [Rooms -> Seq(Events)]
  BY Zenon DEF TypeOK
<1>2. e \in Events
  BY <1>1
<1>3. <<e.sender, e.id>> \in Users \X Ids
  BY Zenon, <1>2 DEF Events
<1>4. delivery_requests[<<e.sender, e.id>>] # None
  BY Zenon DEF AcceptedIffLogged, EventStored
<1> HIDE DEF e
<1>5. delivery_requests'[<<e.sender, e.id>>] = delivery_requests[<<e.sender, e.id>>]
  BY Zenon, <1>3, <1>4, NewRowKeeps
<1> QED
  BY Zenon, <1>5 DEF e

-----------------------------------------------------------------------------
(* Results and events.                                                     *)

\* A stored result that is not an acceptance does not concern the logs.
LEMMA OtherRowLogged ==
  ASSUME TypeOK, AcceptedIffLogged, NEW user \in Users, NEW id \in Ids, NEW req, NEW resp,
         NewRow(user, id, req, resp), resp.kind # "AppendAccepted",
         UNCHANGED delivery_events
  PROVE  AcceptedIffLogged'
<1>1. ASSUME NEW k \in Users \X Ids PROVE RowLogged(k)'
  <2>1. CASE k = <<user, id>>
    <3>1. delivery_requests'[<<user, id>>] = [request |-> req, response |-> resp]
      BY ZenonT(30), NewRowKeeps
    <3>2. delivery_requests'[k].response = resp
      BY <2>1, <3>1
    <3> QED
      BY Zenon, <3>2 DEF RowLogged
  <2>2. CASE k # <<user, id>>
    <3>1. delivery_requests'[k] = delivery_requests[k]
      BY Zenon, <2>2, NewRowKeeps
    <3>2. RowLogged(k)
      BY Zenon DEF AcceptedIffLogged
    <3> QED
      BY Zenon, <3>1, <3>2 DEF RowLogged
  <2> QED
    BY Zenon, <2>1, <2>2
<1>2. ASSUME NEW r \in Rooms, NEW s \in DOMAIN delivery_events[r] PROVE EventStored(r, s)'
  <2>1. LET e == delivery_events[r][s]
        IN  delivery_requests'[<<e.sender, e.id>>] = delivery_requests[<<e.sender, e.id>>]
    BY Zenon, EventRowKept
  <2>2. EventStored(r, s)
    BY Zenon DEF AcceptedIffLogged
  <2> QED
    BY Zenon, <2>1, <2>2 DEF EventStored
<1> QED
  BY Zenon, <1>1, <1>2 DEF AcceptedIffLogged

\* An accepted append and its stored result agree.
LEMMA AcceptedRowLogged ==
  ASSUME TypeOK, AcceptedIffLogged, NEW user \in Users, NEW id \in Ids,
         NEW req \in Requests, NEW resp \in Responses, Accepts(user, id, req, resp)
  PROVE  AcceptedIffLogged'
<1> DEFINE row == [request |-> req, response |-> resp]
<1>1. NewRow(user, id, req, resp) /\ req.kind = "AppendRoomOperation"
  BY Zenon DEF Accepts
<1>2. resp = [kind |-> "AppendAccepted", room |-> req.room, sequence |-> Place(req)]
  BY Zenon DEF Accepts, Place
<1>3. Appended(req) /\ OnlyAppended(req) /\ EventsKept
  BY Zenon, AcceptedEvent
<1>4. delivery_events'[req.room][Place(req)] = Content(user, id, req)
  BY Zenon, AcceptedEvent
<1>5. delivery_requests'[<<user, id>>] = row
  BY Zenon, <1>1, NewRowKeeps
<1>6. row.request = req /\ row.response = resp
  BY Zenon
<1>7. resp.kind = "AppendAccepted" /\ resp.room = req.room /\ resp.sequence = Place(req)
  BY Zenon, <1>2
<1>8. row # None
  <2>1. row \in [request : DurableRequests, response : Responses]
    BY Zenon, RequestsAssumption
  <2> QED
    BY Zenon, <2>1, ProtocolAssumption
<1> HIDE DEF row
<1>9. ASSUME NEW k \in Users \X Ids PROVE RowLogged(k)'
  <2>1. CASE k = <<user, id>>
    <3>1. k[1] = user /\ k[2] = id
      BY Zenon, <2>1
    <3>2. Place(req) \in DOMAIN delivery_events'[req.room]
      BY Zenon, <1>3 DEF Appended
    <3> QED
      BY Zenon, <1>1, <1>4, <1>5, <1>6, <1>7, <2>1, <3>1, <3>2 DEF RowLogged, Content
  <2>2. CASE k # <<user, id>>
    <3> DEFINE old == delivery_requests[k]
    <3>1. delivery_requests'[k] = old
      BY Zenon, <1>1, <2>2, NewRowKeeps
    <3>2. RowLogged(k)
      BY Zenon DEF AcceptedIffLogged
    <3>3. CASE old # None /\ old.response.kind = "AppendAccepted"
      <4>1. /\ old.request.kind = "AppendRoomOperation"
            /\ old.response.sequence \in DOMAIN delivery_events[old.request.room]
        BY Zenon, <3>2, <3>3 DEF RowLogged
      <4>2. delivery_requests \in [Users \X Ids -> Rows \cup {None}]
        BY Zenon DEF TypeOK
      <4>3. old.request \in DurableRequests
        BY Zenon, <3>3, <4>2 DEF Rows
      <4>4. old.request.room \in Rooms
        BY Zenon, <4>1, <4>3 DEF DurableRequests, CreateRequests, PublishRequests,
             GrantRequests, ReserveRequests, AppendRequests
      <4>5. /\ old.response.sequence \in DOMAIN delivery_events'[old.request.room]
            /\ delivery_events'[old.request.room][old.response.sequence]
                 = delivery_events[old.request.room][old.response.sequence]
        BY Zenon, <1>3, <4>1, <4>4 DEF EventsKept
      <4> QED
        BY Zenon, <3>1, <3>2, <3>3, <4>5 DEF RowLogged
    <3> QED
      BY Zenon, <3>1, <3>3 DEF RowLogged
  <2> QED
    BY Zenon, <2>1, <2>2
<1>10. ASSUME NEW r \in Rooms, NEW s \in DOMAIN delivery_events'[r]
       PROVE  EventStored(r, s)'
  <2>1. CASE r = req.room /\ s = Place(req)
    <3>1. /\ Content(user, id, req).sender = user /\ Content(user, id, req).id = id
          /\ Content(user, id, req).parent = req.parent
      BY Zenon DEF Content
    <3>2. req.parent = Place(req) - 1
      BY Zenon, <1>3 DEF Appended
    <3> QED
      BY Zenon, <1>2, <1>4, <1>5, <1>6, <1>8, <2>1, <3>1, <3>2 DEF EventStored
  <2>2. CASE s \in DOMAIN delivery_events[r]
    <3>1. LET e == delivery_events[r][s]
          IN  delivery_requests'[<<e.sender, e.id>>] = delivery_requests[<<e.sender, e.id>>]
      BY Zenon, <1>1, <2>2, EventRowKept
    <3>2. EventStored(r, s)
      BY Zenon, <2>2 DEF AcceptedIffLogged
    <3>3. delivery_events'[r][s] = delivery_events[r][s]
      BY Zenon, <1>3, <2>2 DEF EventsKept
    <3> QED
      BY Zenon, <3>1, <3>2, <3>3 DEF EventStored
  <2> QED
    BY Zenon, <1>3, <2>1, <2>2 DEF OnlyAppended
<1> QED
  BY Zenon, <1>9, <1>10 DEF AcceptedIffLogged

\* The test for an existing event id keeps event ids unique.
LEMMA AcceptedIdUnique ==
  ASSUME TypeOK, EventIdsUnique, NEW user \in Users, NEW id \in Ids,
         NEW req \in Requests, NEW resp, Accepts(user, id, req, resp)
  PROVE  EventIdsUnique'
<1>1. Appended(req) /\ OnlyAppended(req) /\ EventsKept
  BY Zenon, AcceptedEvent
<1>2. delivery_events'[req.room][Place(req)] = Content(user, id, req)
  BY Zenon, AcceptedEvent
<1>3. delivery_events'[req.room][Place(req)].id = id
  BY <1>2 DEF Content
<1>4. \A r \in Rooms : \A s \in DOMAIN delivery_events[r] : delivery_events[r][s].id # id
  BY Zenon DEF Accepts, EventExists
<1>5. SUFFICES ASSUME NEW q \in Rooms, NEW r \in Rooms, NEW s \in DOMAIN delivery_events'[q],
                      NEW t \in DOMAIN delivery_events'[r],
                      delivery_events'[q][s].id = delivery_events'[r][t].id
               PROVE  q = r /\ s = t
  BY Zenon DEF EventIdsUnique
<1>6. /\ s \in DOMAIN delivery_events[q] \/ (q = req.room /\ s = Place(req))
      /\ t \in DOMAIN delivery_events[r] \/ (r = req.room /\ t = Place(req))
  BY Zenon, <1>1 DEF OnlyAppended
<1>7. /\ s \in DOMAIN delivery_events[q] => delivery_events'[q][s] = delivery_events[q][s]
      /\ t \in DOMAIN delivery_events[r] => delivery_events'[r][t] = delivery_events[r][t]
  BY Zenon, <1>1 DEF EventsKept
<1>8. CASE s \in DOMAIN delivery_events[q] /\ t \in DOMAIN delivery_events[r]
  <2>1. delivery_events[q][s].id = delivery_events[r][t].id
    BY Zenon, <1>5, <1>7, <1>8
  <2> QED
    BY Zenon, <1>8, <2>1 DEF EventIdsUnique
<1>9. CASE s \in DOMAIN delivery_events[q] /\ (r = req.room /\ t = Place(req))
  BY Zenon, <1>3, <1>4, <1>5, <1>7, <1>9
<1>10. CASE (q = req.room /\ s = Place(req)) /\ t \in DOMAIN delivery_events[r]
  BY Zenon, <1>3, <1>4, <1>5, <1>7, <1>10
<1> QED
  BY Zenon, <1>6, <1>8, <1>9, <1>10

-----------------------------------------------------------------------------
(* Welcome rows and subscriptions.                                         *)

Slot == Len(delivery_welcomes) + 1

\* An accepted append without a Welcome touches neither rows nor subscriptions.
LEMMA AcceptedPlain ==
  ASSUME NEW user, NEW id, NEW req, NEW resp, Accepts(user, id, req, resp),
         req.welcome = None
  PROVE  UNCHANGED <<delivery_welcomes, room_subscribers>>
  BY Zenon DEF Accepts, InsertWelcome

\* An accepted append with a Welcome adds one row.
LEMMA AcceptedWelcome ==
  ASSUME TypeOK, NEW user \in Users, NEW id \in Ids, NEW req \in Requests, NEW resp,
         Accepts(user, id, req, resp), req.welcome # None
  PROVE  /\ Slot \notin DOMAIN delivery_welcomes
         /\ DOMAIN delivery_welcomes' = DOMAIN delivery_welcomes \cup {Slot}
         /\ WelcomesKept
         /\ delivery_welcomes'[Slot] = WelcomeRow(user, id, req)
<1> DEFINE len == Len(delivery_welcomes)
           w == WelcomeRow(user, id, req)
<1>1. delivery_welcomes' = Append(delivery_welcomes, w)
  BY Zenon DEF Accepts, InsertWelcome
<1>2. delivery_welcomes \in Seq(WelcomeRows)
  BY Zenon DEF TypeOK
<1>3. len \in Nat /\ DOMAIN delivery_welcomes = 1..len
  BY <1>2
<1>4. w \in WelcomeRows
  <2>1. req.room \in Rooms /\ req.welcome \in Users
    BY Zenon, AppendFields DEF Accepts
  <2>2. delivery_events \in [Rooms -> Seq(Events)]
    BY Zenon DEF TypeOK
  <2>3. HeadOf(req.room) + 1 \in Nat
    BY <2>1, <2>2 DEF HeadOf
  <2> QED
    BY Zenon, <2>1, <2>3 DEF WelcomeRow, WelcomeRows
<1> HIDE DEF w
<1>5. /\ DOMAIN Append(delivery_welcomes, w) = 1..(len + 1)
      /\ Append(delivery_welcomes, w)[len + 1] = w
      /\ \A c \in 1..len : Append(delivery_welcomes, w)[c] = delivery_welcomes[c]
  BY <1>2, <1>4
<1>6. 1..(len + 1) = (1..len) \cup {len + 1} /\ len + 1 \notin 1..len
  BY <1>3
<1>7. WelcomesKept
  BY Zenon, <1>1, <1>3, <1>5, <1>6 DEF WelcomesKept
<1> QED
  BY Zenon, <1>1, <1>3, <1>5, <1>6, <1>7 DEF Slot, w

\* The fields of the new row.
LEMMA AcceptedWelcomeFields ==
  ASSUME TypeOK, NEW user \in Users, NEW id \in Ids, NEW req \in Requests, NEW resp,
         Accepts(user, id, req, resp), req.welcome # None
  PROVE  LET w == delivery_welcomes'[Slot]
         IN  /\ w.recipient = req.welcome /\ w.room = req.room /\ w.sequence = Place(req)
             /\ w.event = id /\ w.inviter = user
<1>1. delivery_welcomes'[Slot] = WelcomeRow(user, id, req)
  BY Zenon, AcceptedWelcome
<1> QED
  BY <1>1 DEF WelcomeRow, Place

\* It also adds one subscription.
LEMMA AcceptedSubscription ==
  ASSUME TypeOK, NEW user \in Users, NEW id \in Ids, NEW req \in Requests, NEW resp,
         Accepts(user, id, req, resp), req.welcome # None, NEW r \in Rooms, NEW u
  PROVE  u \in room_subscribers'[r] <=>
           u \in room_subscribers[r] \/ (r = req.room /\ u = req.welcome)
<1>1. room_subscribers' = [room_subscribers EXCEPT ![req.room] = @ \cup {req.welcome}]
  BY Zenon DEF Accepts, InsertWelcome, subscribe
<1>2. room_subscribers \in [Rooms -> SUBSET Users]
  BY Zenon DEF TypeOK
<1> QED
  BY Zenon, <1>1, <1>2

\* Subscriptions are only added.
LEMMA AcceptedMembers ==
  ASSUME TypeOK, NEW user \in Users, NEW id \in Ids, NEW req \in Requests, NEW resp,
         Accepts(user, id, req, resp)
  PROVE  WelcomesKept /\ MembersKept
<1>1. UNCHANGED rooms
  BY Zenon DEF Accepts
<1>2. CASE req.welcome = None
  <2>1. UNCHANGED <<delivery_welcomes, room_subscribers>>
    BY Zenon, <1>2, AcceptedPlain
  <2> QED
    BY Zenon, <1>1, <2>1 DEF WelcomesKept, MembersKept
<1>3. CASE req.welcome # None
  <2>1. \A r \in Rooms : room_subscribers[r] \subseteq room_subscribers'[r]
    BY Zenon, <1>3, AcceptedSubscription
  <2>2. WelcomesKept
    BY Zenon, <1>3, AcceptedWelcome
  <2> QED
    BY Zenon, <1>1, <2>1, <2>2 DEF MembersKept
<1> QED
  BY Zenon, <1>2, <1>3

\* An element of a sequence.
LEMMA ElementType ==
  ASSUME NEW S, NEW seq \in Seq(S), NEW i \in DOMAIN seq
  PROVE  seq[i] \in S
  OBVIOUS

\* A Welcome row of the past still belongs to its event.
LEMMA OldWelcomeMatches ==
  ASSUME TypeOK, WelcomeWithEvent, EventsKept, WelcomesKept, MembersKept,
         NEW c \in DOMAIN delivery_welcomes
  PROVE  WelcomeMatches(c)'
<1> DEFINE w == delivery_welcomes[c]
<1>1. WelcomeMatches(c)
  BY Zenon DEF WelcomeWithEvent
<1>2. delivery_welcomes \in Seq(WelcomeRows)
  BY Zenon DEF TypeOK
<1>3. w.room \in Rooms
  <2>1. w \in WelcomeRows
    BY Zenon, <1>2, ElementType
  <2> QED
    BY Zenon, <2>1 DEF WelcomeRows
<1>4. delivery_welcomes'[c] = w
  BY Zenon DEF WelcomesKept
<1>5. w.recipient \in room_subscribers'[w.room]
  BY Zenon, <1>1, <1>3 DEF WelcomeMatches, MembersKept
<1>6. /\ w.sequence \in DOMAIN delivery_events'[w.room]
      /\ delivery_events'[w.room][w.sequence] = delivery_events[w.room][w.sequence]
  BY Zenon, <1>1, <1>3 DEF WelcomeMatches, EventsKept
<1> QED
  BY Zenon, <1>1, <1>4, <1>5, <1>6 DEF WelcomeMatches

\* A Welcome row and its event enter the tables together.
LEMMA AcceptedWithWelcome ==
  ASSUME TypeOK, WelcomeWithEvent, NEW user \in Users, NEW id \in Ids,
         NEW req \in Requests, NEW resp, Accepts(user, id, req, resp)
  PROVE  WelcomeWithEvent'
<1>1. Appended(req) /\ OnlyAppended(req) /\ EventsKept
  BY Zenon, AcceptedEvent
<1>2. delivery_events'[req.room][Place(req)] = Content(user, id, req)
  BY Zenon, AcceptedEvent
<1>3. LET e == delivery_events'[req.room][Place(req)]
      IN  e.id = id /\ e.sender = user /\ e.welcome = req.welcome
  BY <1>2 DEF Content
<1>4. WelcomesKept /\ MembersKept
  BY Zenon, AcceptedMembers
<1>5. ASSUME NEW c \in DOMAIN delivery_welcomes PROVE WelcomeMatches(c)'
  BY Zenon, <1>1, <1>4, OldWelcomeMatches
<1>6. ASSUME NEW r \in Rooms, NEW s \in DOMAIN delivery_events[r],
             delivery_events'[r][s].welcome # None
      PROVE  OneWelcome(r, s)
  <2>1. delivery_events'[r][s] = delivery_events[r][s]
    BY Zenon, <1>1 DEF EventsKept
  <2> QED
    BY Zenon, <1>6, <2>1 DEF WelcomeWithEvent
<1>7. CASE req.welcome = None
  <2>1. UNCHANGED <<delivery_welcomes, room_subscribers>>
    BY Zenon, <1>7, AcceptedPlain
  <2>2. ASSUME NEW r \in Rooms, NEW s \in DOMAIN delivery_events'[r],
               delivery_events'[r][s].welcome # None
        PROVE  OneWelcome(r, s)'
    <3>1. s \in DOMAIN delivery_events[r]
      BY Zenon, <1>1, <1>3, <1>7, <2>2 DEF OnlyAppended
    <3>2. OneWelcome(r, s)
      BY Zenon, <1>6, <2>2, <3>1
    <3> QED
      BY Zenon, <2>1, <3>2 DEF OneWelcome, WelcomeAt
  <2>3. DOMAIN delivery_welcomes' = DOMAIN delivery_welcomes
    BY Zenon, <2>1
  <2> QED
    BY Zenon, <1>5, <2>2, <2>3 DEF WelcomeWithEvent
<1>8. CASE req.welcome # None
  <2>1. /\ Slot \notin DOMAIN delivery_welcomes
        /\ DOMAIN delivery_welcomes' = DOMAIN delivery_welcomes \cup {Slot}
    BY Zenon, <1>8, AcceptedWelcome
  <2>2. LET w == delivery_welcomes'[Slot]
        IN  /\ w.recipient = req.welcome /\ w.room = req.room /\ w.sequence = Place(req)
            /\ w.event = id /\ w.inviter = user
    BY Zenon, <1>8, AcceptedWelcomeFields
  <2>3. ASSUME NEW c \in DOMAIN delivery_welcomes' PROVE WelcomeMatches(c)'
    <3>1. CASE c = Slot
      <4>1. req.welcome \in room_subscribers'[req.room]
        BY Zenon, <1>1, <1>8, AcceptedSubscription DEF Appended
      <4>2. Place(req) \in DOMAIN delivery_events'[req.room]
        BY Zenon, <1>1 DEF Appended
      <4> QED
        BY Zenon, <1>3, <2>2, <3>1, <4>1, <4>2 DEF WelcomeMatches
    <3> QED
      BY Zenon, <1>5, <2>1, <3>1
  <2>4. ASSUME NEW d \in DOMAIN delivery_welcomes
        PROVE  delivery_welcomes'[d] = delivery_welcomes[d]
    BY Zenon, <1>4 DEF WelcomesKept
  <2>5. ASSUME NEW r \in Rooms, NEW s \in DOMAIN delivery_events'[r],
               delivery_events'[r][s].welcome # None
        PROVE  \E c \in DOMAIN delivery_welcomes' :
                 /\ delivery_welcomes'[c].room = r /\ delivery_welcomes'[c].sequence = s
                 /\ \A d \in DOMAIN delivery_welcomes' :
                      delivery_welcomes'[d].room = r /\ delivery_welcomes'[d].sequence = s
                        => d = c
    <3>1. CASE r = req.room /\ s = Place(req)
      <4>1. ASSUME NEW d \in DOMAIN delivery_welcomes
            PROVE  ~(delivery_welcomes'[d].room = r /\ delivery_welcomes'[d].sequence = s)
        <5>1. delivery_welcomes[d].sequence \in DOMAIN delivery_events[delivery_welcomes[d].room]
          BY Zenon DEF WelcomeWithEvent, WelcomeMatches
        <5>2. Place(req) \notin DOMAIN delivery_events[req.room]
          BY Zenon, <1>1 DEF Appended
        <5> QED
          BY Zenon, <2>4, <3>1, <5>1, <5>2
      <4> QED
        BY Zenon, <2>1, <2>2, <3>1, <4>1
    <3>2. CASE s \in DOMAIN delivery_events[r]
      <4>1. OneWelcome(r, s)
        BY Zenon, <1>6, <2>5, <3>2
      <4>2. PICK c \in DOMAIN delivery_welcomes :
              /\ delivery_welcomes[c].room = r /\ delivery_welcomes[c].sequence = s
              /\ \A d \in DOMAIN delivery_welcomes :
                   delivery_welcomes[d].room = r /\ delivery_welcomes[d].sequence = s => d = c
        BY Zenon, <4>1 DEF OneWelcome, WelcomeAt
      <4>3. ~(delivery_welcomes'[Slot].room = r /\ delivery_welcomes'[Slot].sequence = s)
        BY Zenon, <1>1, <2>2, <3>2 DEF Appended
      <4>4. c \in DOMAIN delivery_welcomes'
        BY Zenon, <2>1
      <4>5. delivery_welcomes'[c].room = r /\ delivery_welcomes'[c].sequence = s
        BY Zenon, <2>4, <4>2
      <4>6. ASSUME NEW d \in DOMAIN delivery_welcomes',
                   delivery_welcomes'[d].room = r, delivery_welcomes'[d].sequence = s
            PROVE  d = c
        <5>1. d \in DOMAIN delivery_welcomes
          BY Zenon, <2>1, <4>3, <4>6
        <5> QED
          BY Zenon, <2>4, <4>2, <4>6, <5>1
      <4> QED
        BY Zenon, <4>4, <4>5, <4>6
    <3> QED
      BY Zenon, <1>1, <3>1, <3>2 DEF OnlyAppended
  <2> QED
    BY Zenon, <2>3, <2>5 DEF WelcomeWithEvent, OneWelcome, WelcomeAt
<1> QED
  BY Zenon, <1>7, <1>8

\* An invitation of the past stays one.
LEMMA InvitedKept ==
  ASSUME WelcomesKept, NEW r \in Rooms, NEW u, Invited(r, u), rooms'[r] = rooms[r]
  PROVE  Invited(r, u)'
  BY Zenon DEF WelcomesKept, Invited

\* A recipient is subscribed with the Welcome row that invites them.
LEMMA AcceptedSubscriber ==
  ASSUME TypeOK, SubscribersInvited, NEW user \in Users, NEW id \in Ids,
         NEW req \in Requests, NEW resp, Accepts(user, id, req, resp)
  PROVE  SubscribersInvited'
<1>1. UNCHANGED rooms
  BY Zenon DEF Accepts
<1>2. WelcomesKept
  BY Zenon, AcceptedMembers
<1>3. SUFFICES ASSUME NEW r \in Rooms, NEW u \in room_subscribers'[r]
               PROVE  Invited(r, u)'
  BY Zenon DEF SubscribersInvited
<1>4. CASE u \in room_subscribers[r]
  <2>1. Invited(r, u)
    BY Zenon, <1>4 DEF SubscribersInvited
  <2> QED
    BY Zenon, <1>1, <1>2, <2>1, InvitedKept
<1>5. CASE req.welcome = None
  BY Zenon, <1>4, <1>5, AcceptedPlain
<1>6. CASE req.welcome # None
  <2>1. CASE r = req.room /\ u = req.welcome
    <3>1. Slot \in DOMAIN delivery_welcomes'
      BY Zenon, <1>6, AcceptedWelcome
    <3>2. delivery_welcomes'[Slot].room = r /\ delivery_welcomes'[Slot].recipient = u
      BY Zenon, <1>6, <2>1, AcceptedWelcomeFields
    <3> QED
      BY Zenon, <3>1, <3>2 DEF Invited
  <2> QED
    BY Zenon, <1>4, <1>6, <2>1, AcceptedSubscription
<1> QED
  BY Zenon, <1>5, <1>6

\* A created room had no creator and gets a subscriber.
LEMMA OpensKept ==
  ASSUME TypeOK, NEW user \in Users, Opens(user)
  PROVE  MembersKept
<1>1. rooms \in [Rooms -> Users \cup {None}] /\ room_subscribers \in [Rooms -> SUBSET Users]
  BY Zenon DEF TypeOK
<1> QED
  BY Zenon, <1>1 DEF Opens, MembersKept

\* The creator of a room is its first subscriber.
LEMMA OpensInvited ==
  ASSUME TypeOK, WelcomeWithEvent, SubscribersInvited, NEW user \in Users, Opens(user),
         UNCHANGED <<delivery_events, delivery_welcomes>>
  PROVE  WelcomeWithEvent' /\ SubscribersInvited'
<1>1. MembersKept
  BY Zenon, OpensKept
<1>2. EventsKept /\ WelcomesKept
  BY Zenon DEF EventsKept, WelcomesKept
<1>3. WelcomeWithEvent'
  <2>1. \A c \in DOMAIN delivery_welcomes : WelcomeMatches(c)'
    BY Zenon, <1>1, <1>2, OldWelcomeMatches
  <2>2. ASSUME NEW r \in Rooms, NEW s \in DOMAIN delivery_events[r],
               delivery_events[r][s].welcome # None
        PROVE  OneWelcome(r, s)'
    <3>1. OneWelcome(r, s)
      BY Zenon, <2>2 DEF WelcomeWithEvent
    <3> QED
      BY Zenon, <3>1 DEF OneWelcome, WelcomeAt
  <2> QED
    BY Zenon, <2>1, <2>2 DEF WelcomeWithEvent
<1>4. PICK room \in Rooms :
        /\ rooms[room] = None
        /\ rooms' = [rooms EXCEPT ![room] = user]
        /\ room_subscribers' = [room_subscribers EXCEPT ![room] = @ \cup {user}]
  BY Zenon DEF Opens
<1>5. rooms \in [Rooms -> Users \cup {None}] /\ room_subscribers \in [Rooms -> SUBSET Users]
  BY Zenon DEF TypeOK
<1>6. ASSUME NEW r \in Rooms, NEW u \in room_subscribers'[r]
      PROVE  Invited(r, u)'
  <2>1. CASE r # room
    <3>1. rooms'[r] = rooms[r] /\ u \in room_subscribers[r]
      BY Zenon, <1>4, <1>5, <2>1
    <3>2. Invited(r, u)
      BY Zenon, <3>1 DEF SubscribersInvited
    <3> QED
      BY Zenon, <1>2, <3>1, <3>2, InvitedKept
  <2>2. CASE r = room /\ u = user
    <3>1. rooms'[r] = u
      BY Zenon, <1>4, <1>5, <2>2
    <3> QED
      BY Zenon, <3>1 DEF Invited
  <2>3. CASE r = room /\ u \in room_subscribers[r]
    <3>1. u \in Users
      BY Zenon, <1>5, <2>3
    <3>2. rooms[r] # u
      BY Zenon, <1>4, <2>3, <3>1, ProtocolAssumption
    <3>3. Invited(r, u)
      BY Zenon, <2>3 DEF SubscribersInvited
    <3> QED
      BY Zenon, <1>2, <3>2, <3>3 DEF Invited, WelcomesKept
  <2>4. r = room => u \in room_subscribers[r] \/ u = user
    BY Zenon, <1>4, <1>5
  <2> QED
    BY Zenon, <2>1, <2>2, <2>3, <2>4
<1> QED
  BY Zenon, <1>3, <1>6 DEF SubscribersInvited

-----------------------------------------------------------------------------
(* The steps of the relay.                                                 *)

\* The log invariants speak of five tables only.
LEMMA LogUnchanged ==
  ASSUME LogInv, UNCHANGED logTables
  PROVE  LogInv'
<1> USE DEF logTables
<1>1. AcceptedIffLogged'
  <2>1. ASSUME NEW k \in Users \X Ids PROVE RowLogged(k)'
    BY Zenon DEF LogInv, AcceptedIffLogged, RowLogged
  <2>2. ASSUME NEW r \in Rooms, NEW s \in DOMAIN delivery_events[r] PROVE EventStored(r, s)'
    BY DEF LogInv, AcceptedIffLogged, EventStored
  <2> QED
    BY Zenon, <2>1, <2>2 DEF AcceptedIffLogged
<1>2. EventIdsUnique'
  BY DEF LogInv, EventIdsUnique
<1>3. WelcomeWithEvent'
  BY DEF LogInv, WelcomeWithEvent, WelcomeMatches, OneWelcome, WelcomeAt
<1>4. SubscribersInvited'
  BY DEF LogInv, SubscribersInvited, Invited
<1> QED
  BY Zenon, <1>1, <1>2, <1>3, <1>4 DEF LogInv

\* A step is a step of deliver or leaves the logs alone.
LEMMA NextCases ==
  ASSUME [Next]_vars
  PROVE  \/ \E user \in Users, id \in Ids, req \in Requests :
              \E resp \in Answers(user, id, req) : deliver(user, id, req, resp)
         \/ UNCHANGED logTables /\ receipts \subseteq receipts'
<1>1. CASE \E user \in Users, event \in Ids : AcknowledgeEvent(user, event)
  BY Zenon, <1>1 DEF AcknowledgeEvent, tables, ledger, logTables
<1>2. CASE \E user \in Users, cursor \in DOMAIN delivery_welcomes :
             AcknowledgeWelcome(user, cursor)
  BY Zenon, <1>2 DEF AcknowledgeWelcome, tables, ledger, logTables
<1>3. CASE AllocationExpires
  BY Zenon, <1>3 DEF AllocationExpires, ledger, logTables
<1>4. CASE UNCHANGED vars
  BY Zenon, <1>4 DEF vars, tables, ledger, logTables
<1> QED
  BY Zenon, <1>1, <1>2, <1>3, <1>4 DEF Next, Deliver, Acknowledge

LEMMA DeliverLog ==
  ASSUME TypeOK, LogInv, NEW user \in Users, NEW id \in Ids, NEW req \in Requests,
         NEW resp \in Answers(user, id, req), deliver(user, id, req, resp)
  PROVE  LogInv'
<1>1. AcceptedIffLogged /\ EventIdsUnique /\ WelcomeWithEvent /\ SubscribersInvited
  BY Zenon DEF LogInv
<1>2. CASE Records(user, id, req, resp)
  <2>1. AcceptedIffLogged'
    BY Zenon, <1>1, <1>2, OtherRowLogged DEF Records
  <2>2. UNCHANGED <<delivery_events, delivery_welcomes>>
    BY Zenon, <1>2 DEF Records
  <2>3. EventIdsUnique'
    BY <1>1, <2>2 DEF EventIdsUnique
  <2>4. CASE UNCHANGED <<rooms, room_subscribers>>
    <3>1. WelcomeWithEvent'
      BY <1>1, <2>2, <2>4 DEF WelcomeWithEvent, WelcomeMatches, OneWelcome, WelcomeAt
    <3>2. SubscribersInvited'
      BY <1>1, <2>2, <2>4 DEF SubscribersInvited, Invited
    <3> QED
      BY Zenon, <2>1, <2>3, <3>1, <3>2 DEF LogInv
  <2>5. CASE Opens(user)
    BY Zenon, <1>1, <2>1, <2>2, <2>3, <2>5, OpensInvited DEF LogInv
  <2> QED
    BY Zenon, <1>2, <2>4, <2>5 DEF Records
<1>3. CASE Accepts(user, id, req, resp)
  <2>1. AcceptedIffLogged'
    BY Zenon, <1>1, <1>3, AnswersAreResponses, AcceptedRowLogged
  <2>2. EventIdsUnique'
    BY Zenon, <1>1, <1>3, AcceptedIdUnique
  <2>3. WelcomeWithEvent'
    BY Zenon, <1>1, <1>3, AcceptedWithWelcome
  <2>4. SubscribersInvited'
    BY Zenon, <1>1, <1>3, AcceptedSubscriber
  <2> QED
    BY Zenon, <2>1, <2>2, <2>3, <2>4 DEF LogInv
<1> QED
  BY Zenon, <1>2, <1>3, LogEffect, LogUnchanged

\* For every run of the relay, accepted results and stored events agree, event ids
\* are unique, Welcome rows come with their events, and only invited users are
\* subscribed (AppendRoomOperation and CreateRoom in execute).
THEOREM LogCorrect ==
  Spec => [](AcceptedIffLogged /\ EventIdsUnique /\ WelcomeWithEvent /\ SubscribersInvited)
<1>1. Init => LogInv
  <2> SUFFICES ASSUME Init PROVE LogInv
    BY Zenon
  <2>1. /\ \A k \in Users \X Ids : delivery_requests[k] = None
        /\ \A r \in Rooms : DOMAIN delivery_events[r] = {} /\ room_subscribers[r] = {}
        /\ DOMAIN delivery_welcomes = {}
    BY DEF Init
  <2> QED
    BY Zenon, <2>1 DEF LogInv, AcceptedIffLogged, RowLogged, EventIdsUnique, WelcomeWithEvent,
         SubscribersInvited
<1>2. TypeOK /\ LogInv /\ [Next]_vars => LogInv'
  BY Zenon, NextCases, DeliverLog, LogUnchanged
<1>3. LogInv => AcceptedIffLogged /\ EventIdsUnique /\ WelcomeWithEvent /\ SubscribersInvited
  BY Zenon DEF LogInv
<1> QED
  BY <1>1, <1>2, <1>3, TypeCorrect, PTL DEF Spec

\* deliver takes nothing back.
LEMMA DeliverKept ==
  ASSUME TypeOK, NEW user \in Users, NEW id \in Ids, NEW req \in Requests,
         NEW resp \in Answers(user, id, req), deliver(user, id, req, resp)
  PROVE  Kept
<1>1. UNCHANGED receipts
  BY Zenon DEF deliver
<1>2. CASE UNCHANGED logTables
  BY Zenon, <1>1, <1>2 DEF logTables, Kept, EventsKept, WelcomesKept, MembersKept, ResultsKept
<1>3. ASSUME NewRow(user, id, req, resp) PROVE ResultsKept
  <2>1. /\ delivery_requests[<<user, id>>] = None
        /\ \A k \in Users \X Ids :
             k # <<user, id>> => delivery_requests'[k] = delivery_requests[k]
    BY Zenon, <1>3, NewRowKeeps
  <2> QED
    BY Zenon, <1>1, <2>1 DEF ResultsKept
<1>4. CASE Records(user, id, req, resp)
  <2>1. EventsKept /\ WelcomesKept
    BY Zenon, <1>4 DEF Records, EventsKept, WelcomesKept
  <2>2. ASSUME UNCHANGED <<rooms, room_subscribers>> PROVE MembersKept
    BY Zenon, <2>2 DEF MembersKept
  <2>3. MembersKept
    BY Zenon, <1>4, <2>2, OpensKept DEF Records
  <2> QED
    BY Zenon, <1>3, <1>4, <2>1, <2>3 DEF Kept, Records
<1>5. CASE Accepts(user, id, req, resp)
  <2>1. NewRow(user, id, req, resp)
    BY Zenon, <1>5 DEF Accepts
  <2>2. EventsKept
    BY Zenon, <1>5, AcceptedEvent
  <2>3. WelcomesKept /\ MembersKept
    BY Zenon, <1>5, AcceptedMembers
  <2> QED
    BY Zenon, <1>3, <2>1, <2>2, <2>3 DEF Kept
<1> QED
  BY Zenon, <1>2, <1>4, <1>5, LogEffect

\* For every run of the relay, no step takes back an event, a Welcome row, a stored
\* result, a receipt, a subscription or a room's creator (execute only inserts).
THEOREM NothingTakenBack == Spec => HistoryKept
<1>1. TypeOK /\ [Next]_vars => [Kept]_vars
  <2> SUFFICES ASSUME TypeOK, [Next]_vars PROVE Kept
    BY Zenon
  <2>1. CASE UNCHANGED logTables /\ receipts \subseteq receipts'
    BY Zenon, <2>1 DEF logTables, Kept, EventsKept, WelcomesKept, MembersKept, ResultsKept
  <2> QED
    BY Zenon, <2>1, NextCases, DeliverKept
<1> QED
  BY <1>1, TypeCorrect, PTL DEF Spec, HistoryKept

\* The parts of LogCorrect one by one.  An event id occurs once over all rooms and
\* senders (the EventExists check of an append).
THEOREM EventsAreUnique == Spec => []EventIdsUnique
  BY LogCorrect, PTL

\* A Welcome row exists for the events that carry one, once, and its recipient is
\* subscribed: the three inserts of an accepted append are one transaction.
THEOREM WelcomesHaveEvents == Spec => []WelcomeWithEvent
  BY LogCorrect, PTL

\* Only a room's creator and the recipients of its Welcomes are subscribed.
THEOREM SubscribersAreInvited == Spec => []SubscribersInvited
  BY LogCorrect, PTL

===============================================================================
