------------------------------ MODULE Protocol ------------------------------
(***************************************************************************)
(* The delivery messages of grotto-protocol that clients and relay share.  *)
(* Payloads, names and packages are opaque; a message is a record with the *)
(* fields that decide what its receiver does.                              *)
(***************************************************************************)
EXTENDS Options, Naturals, Sequences, FiniteSets

CONSTANTS
  Users,        \* enrolled identities
  Rooms,        \* room identifiers, created or not
  Ids,          \* random message identifiers chosen by clients
  Bodies,       \* opaque MLS payloads of an append
  ValidBodies,  \* those within the size limits of the append handler
  PoolLimit,    \* key packages per user, and per publication (64)
  MaxSequence,  \* stands for i64::MAX, the bound on an append's parent
  PageSize      \* rows of one recovery page (100)

CreateRequests == [kind : {"CreateRoom"}, valid : BOOLEAN]
PublishRequests == [kind : {"PublishKeyPackages"}, count : Nat]
GrantRequests == [kind : {"SetFetchGrant"}, requester : Users, allowed : BOOLEAN]
ReserveRequests == [kind : {"ReserveKeyPackage"}, recipient : Users]
AppendRequests == [kind : {"AppendRoomOperation"}, room : Rooms, parent : Nat,
                   body : Bodies, welcome : Users \cup {None}]

DurableRequests == CreateRequests \cup PublishRequests \cup GrantRequests
                     \cup ReserveRequests \cup AppendRequests

\* The k-th package of the publication that user `owner` sent under `id`.
Packages == [owner : Users, id : Ids, k : 1..PoolLimit]

Events == [id : Ids, sender : Users, parent : Nat, body : Bodies,
           welcome : Users \cup {None}]
WelcomeRows == [recipient : Users, room : Rooms, sequence : Nat, event : Ids,
                inviter : Users]

Reasons == {"Invalid", "Unauthorized", "NotFound", "RequestConflict",
            "Overloaded", "Quota"}
Temporary == {"Overloaded", "Quota"}
Rejected(reason) == [kind |-> "Rejected", reason |-> reason]

\* The results a durable request can have.
Rejections == {Rejected(reason) : reason \in Reasons}
Created == [kind : {"RoomCreated"}, room : Rooms]
Published == {[kind |-> "KeyPackagesPublished"]}
GrantSet == {[kind |-> "FetchGrantSet"]}
Allocations == [kind : {"KeyPackage"}, package : Packages]
Accepted == [kind : {"AppendAccepted"}, room : Rooms, sequence : 1..MaxSequence]
Conflicts == [kind : {"HeadConflict"}, room : Rooms, head : 0..MaxSequence]

Responses == Rejections \cup Created \cup Published \cup GrantSet \cup Allocations
               \cup Accepted \cup Conflicts

IsTemporary(resp) == resp.kind = "Rejected" /\ resp.reason \in Temporary

\* Bounds that the code fixes as constants.
ASSUME ProtocolAssumption ==
  /\ PoolLimit \in Nat /\ MaxSequence \in Nat /\ PageSize \in Nat \ {0}
  /\ ValidBodies \subseteq Bodies
  /\ None \notin Users
  /\ None \notin [request : DurableRequests, response : Responses]

=============================================================================
