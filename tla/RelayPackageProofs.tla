-------------------------- MODULE RelayPackageProofs --------------------------
(***************************************************************************)
(* What the repository counts, for every set of users, message ids and     *)
(* requests and every value of the limits.                                 *)
(*                                                                         *)
(* A key package is handed out once.  The invariant is PackageInv: it holds*)
(* with the fact that a package, in a pool or handed out, belongs to a     *)
(* publication whose result is stored, so that a new publication makes new *)
(* packages.                                                               *)
(*                                                                         *)
(* The byte ledgers are the cost of the stored requests.  Each row has its *)
(* own bytes, a set; a ledger is the cardinality of their union, so that a *)
(* new row adds its cost (LedgerInv).                                      *)
(***************************************************************************)
EXTENDS RelayDeliveryProofs, FiniteSetTheorems

-----------------------------------------------------------------------------
(* What a request does to the pools.                                       *)

NewPackages(user, id, req) == [k \in 1..req.count |-> [owner |-> user, id |-> id, k |-> k]]

Publishes(user, id, req) ==
  /\ req.count \in 1..PoolLimit
  /\ key_packages' = [key_packages EXCEPT ![user] = @ \o NewPackages(user, id, req)]

HandsOut(req, resp) ==
  /\ req.recipient \in Users
  /\ key_packages[req.recipient] # << >>
  /\ resp = [kind |-> "KeyPackage", package |-> key_packages[req.recipient][1]]
  /\ key_packages' = [key_packages EXCEPT ![req.recipient] = Tail(@)]

\* A request leaves the pools and the stored results alone, stores a result of another
\* kind, publishes, or hands out the oldest package of a pool.
LEMMA PoolEffect ==
  ASSUME TypeOK, NEW user \in Users, NEW id \in Ids, NEW req \in Requests,
         NEW resp \in Answers(user, id, req), deliver(user, id, req, resp)
  PROVE  \/ UNCHANGED <<key_packages, delivery_requests>>
         \/ /\ NewRow(user, id, req, resp)
            /\ \/ resp.kind # "KeyPackage" /\ UNCHANGED key_packages
               \/ resp.kind # "KeyPackage" /\ Publishes(user, id, req)
               \/ HandsOut(req, resp)
<1>1. CASE Retry(user, id, req, resp)
  BY Zenon, <1>1 DEF Retry, tables, ledger
<1>2. CASE Refuse(user, id, req, resp)
  BY Zenon, <1>2 DEF Refuse, Defer, tables, ledger
<1>3. CASE Execute(user, id, req, resp)
  <2>1. ~Saved(user, id)
    BY Zenon, <1>3 DEF Execute
  <2>2. ASSUME Save(user, id, req, resp) PROVE NewRow(user, id, req, resp)
    BY Zenon, <2>1, <2>2 DEF Save, NewRow
  <2>3. CASE Defer(resp)
    BY Zenon, <2>3 DEF Defer, tables, ledger
  <2>4. ASSUME NEW reason, resp = Rejected(reason) PROVE resp.kind # "KeyPackage"
    BY Zenon, <2>4 DEF Rejected
  <2>5. ASSUME Settle(user, id, req, resp) PROVE Save(user, id, req, resp) /\ UNCHANGED key_packages
    BY Zenon, <2>5 DEF Settle, tables
  <2>6. CASE req.kind = "CreateRoom" /\ CreateRoom(user, id, req, resp)
    <3>1. \/ Defer(resp)
          \/ /\ Save(user, id, req, resp) /\ UNCHANGED key_packages
             /\ \/ resp = Rejected("Invalid")
                \/ \E room \in Rooms : resp = [kind |-> "RoomCreated", room |-> room]
      BY Zenon, <2>5, <2>6 DEF CreateRoom
    <3> QED
      BY <2>2, <2>3, <2>4, <3>1
  <2>7. CASE req.kind = "PublishKeyPackages" /\ PublishKeyPackages(user, id, req, resp)
    <3>1. \/ Defer(resp)
          \/ Save(user, id, req, resp) /\ UNCHANGED key_packages /\ resp = Rejected("Invalid")
          \/ /\ Save(user, id, req, resp) /\ Publishes(user, id, req)
             /\ resp = [kind |-> "KeyPackagesPublished"]
      BY Zenon, <2>5, <2>7 DEF PublishKeyPackages, Publishes, NewPackages
    <3>2. resp = [kind |-> "KeyPackagesPublished"] => resp.kind # "KeyPackage"
      OBVIOUS
    <3> QED
      BY Zenon, <2>2, <2>3, <2>4, <3>1, <3>2
  <2>8. CASE req.kind = "SetFetchGrant" /\ SetFetchGrant(user, id, req, resp)
    <3>1. /\ Save(user, id, req, resp) /\ UNCHANGED key_packages
          /\ resp = [kind |-> "FetchGrantSet"]
      BY Zenon, <2>8 DEF SetFetchGrant
    <3> QED
      BY Zenon, <2>2, <3>1
  <2>9. CASE req.kind = "ReserveKeyPackage" /\ ReserveKeyPackage(user, id, req, resp)
    <3>1. req.recipient \in Users
      BY Zenon, <2>9, RequestsAssumption DEF DurableRequests, CreateRequests, PublishRequests,
         GrantRequests, ReserveRequests, AppendRequests
    <3>2. \/ Defer(resp)
          \/ /\ Save(user, id, req, resp) /\ UNCHANGED key_packages
             /\ resp = Rejected("Unauthorized") \/ resp = Rejected("NotFound")
          \/ Save(user, id, req, resp) /\ HandsOut(req, resp)
      BY Zenon, <2>5, <2>9, <3>1 DEF ReserveKeyPackage, TakePackage, HandsOut
    <3> QED
      BY Zenon, <2>2, <2>3, <2>4, <3>2
  <2>10. CASE req.kind = "AppendRoomOperation" /\ AppendRoomOperation(user, id, req, resp)
    <3>1. /\ Save(user, id, req, resp) /\ UNCHANGED key_packages
          /\ \/ resp = Rejected("Unauthorized") \/ resp = Rejected("Invalid")
             \/ resp = Rejected("RequestConflict")
             \/ resp = [kind |-> "HeadConflict", room |-> req.room, head |-> HeadOf(req.room)]
             \/ resp = [kind |-> "AppendAccepted", room |-> req.room,
                        sequence |-> HeadOf(req.room) + 1]
      BY Zenon, <2>5, <2>10 DEF AppendRoomOperation
    <3> QED
      BY <2>2, <2>4, <3>1
  <2> QED
    BY Zenon, <1>3, <2>6, <2>7, <2>8, <2>9, <2>10 DEF Execute
<1> QED
  BY Zenon, <1>1, <1>2, <1>3 DEF deliver

-----------------------------------------------------------------------------
(* Stored results and the packages they hand out.                          *)

LEMMA RowStored ==
  ASSUME TypeOK, NEW user \in Users, NEW id \in Ids, NEW req \in Requests,
         NEW resp \in Responses, NewRow(user, id, req, resp)
  PROVE  /\ Saved(user, id)' /\ ~Saved(user, id)
         /\ \A u \in Users, i \in Ids : Saved(u, i) => Saved(u, i)'
<1>1. /\ delivery_requests'[<<user, id>>] = [request |-> req, response |-> resp]
      /\ delivery_requests[<<user, id>>] = None
      /\ \A k \in Users \X Ids :
           k # <<user, id>> => delivery_requests'[k] = delivery_requests[k]
  BY Zenon, NewRowKeeps
<1>2. [request |-> req, response |-> resp] # None
  BY ProtocolAssumption, RequestsAssumption
<1>3. delivery_requests'[<<user, id>>] # None
  BY Zenon, <1>1, <1>2
<1> QED
  BY Zenon, <1>1, <1>3 DEF Saved

LEMMA AllocatedKept ==
  ASSUME TypeOK, NEW user \in Users, NEW id \in Ids, NEW req \in Requests,
         NEW resp \in Responses, NewRow(user, id, req, resp)
  PROVE  /\ \A k \in Users \X Ids : k # <<user, id>> => Allocated(k)' = Allocated(k)
         /\ Allocated(<<user, id>>)'
              = IF resp.kind = "KeyPackage" THEN {resp.package} ELSE {}
<1>1. /\ delivery_requests'[<<user, id>>] = [request |-> req, response |-> resp]
      /\ \A k \in Users \X Ids :
           k # <<user, id>> => delivery_requests'[k] = delivery_requests[k]
  BY Zenon, NewRowKeeps
<1>2. ASSUME NEW k \in Users \X Ids, k # <<user, id>> PROVE Allocated(k)' = Allocated(k)
  <2>1. delivery_requests'[k] = delivery_requests[k] /\ k = <<k[1], k[2]>>
    BY <1>1, <1>2
  <2> QED
    BY Zenon, <2>1 DEF Allocated, Saved
<1>3. Allocated(<<user, id>>)' = IF resp.kind = "KeyPackage" THEN {resp.package} ELSE {}
  <2>1. Saved(user, id)'
    BY Zenon, RowStored
  <2>2. delivery_requests'[<<user, id>>].response = resp
    BY <1>1
  <2> QED
    BY Zenon, <2>1, <2>2 DEF Allocated
<1> QED
  BY Zenon, <1>2, <1>3

LEMMA PackageTypes ==
  ASSUME TypeOK
  PROVE  /\ \A u \in Users : \A i \in DOMAIN key_packages[u] : key_packages[u][i] \in Packages
         /\ \A k \in Users \X Ids : \A p \in Allocated(k) : p \in Packages
<1>1. ASSUME NEW u \in Users, NEW i \in DOMAIN key_packages[u] PROVE key_packages[u][i] \in Packages
  <2>1. key_packages[u] \in Seq(Packages)
    BY Zenon DEF TypeOK
  <2> QED
    BY Zenon, <2>1, ElementType
<1>2. ASSUME NEW k \in Users \X Ids, NEW p \in Allocated(k) PROVE p \in Packages
  <2>1. k = <<k[1], k[2]>>
    OBVIOUS
  <2>2. /\ delivery_requests[k] # None /\ delivery_requests[k].response.kind = "KeyPackage"
        /\ p = delivery_requests[k].response.package
    BY Zenon, <1>2, <2>1 DEF Allocated, Saved
  <2>3. delivery_requests[k] \in Rows
    BY Zenon, <2>2 DEF TypeOK
  <2>4. delivery_requests[k].response \in Responses
    BY Zenon, <2>3 DEF Rows
  <2>5. delivery_requests[k].response \in Allocations
    <3> DEFINE a == delivery_requests[k].response
    <3>1. a \in Responses /\ a.kind = "KeyPackage"
      BY Zenon, <2>2, <2>4
    <3> HIDE DEF a
    <3>2. a \notin Rejections
      BY <3>1 DEF Rejections, Rejected
    <3>3. a \notin Created \cup Published \cup GrantSet \cup Accepted \cup Conflicts
      BY <3>1 DEF Created, Published, GrantSet, Accepted, Conflicts
    <3>4. a \in Allocations
      BY Zenon, <3>1, <3>2, <3>3 DEF Responses
    <3> QED
      BY Zenon, <3>4 DEF a
  <2> QED
    BY Zenon, <2>2, <2>5 DEF Allocations
<1> QED
  BY Zenon, <1>1, <1>2

\* A package is what its owner, publication and number say.
LEMMA PackageFields ==
  ASSUME NEW p \in Packages
  PROVE  p.owner \in Users /\ p.id \in Ids
  BY Zenon DEF Packages

-----------------------------------------------------------------------------
(* The three changes.                                                      *)

\* A stored result that hands out nothing.
LEMMA RowKeepsPackages ==
  ASSUME TypeOK, PackageInv, NEW user \in Users, NEW id \in Ids, NEW req \in Requests,
         NEW resp \in Responses, NewRow(user, id, req, resp), resp.kind # "KeyPackage",
         UNCHANGED key_packages
  PROVE  PackageInv'
<1>1. \A u \in Users, i \in Ids : Saved(u, i) => Saved(u, i)'
  BY Zenon, RowStored
<1>2. \A k \in Users \X Ids : Allocated(k)' = Allocated(k) \/ Allocated(k)' = {}
  BY ZenonT(30), AllocatedKept
<1>3. PackagesPublished'
  <2>1. ASSUME NEW u \in Users, NEW i \in DOMAIN key_packages[u]
        PROVE  Saved(key_packages[u][i].owner, key_packages[u][i].id)'
    <3>1. key_packages[u][i] \in Packages
      BY Zenon, PackageTypes
    <3> QED
      BY Zenon, <3>1, <1>1, PackageFields DEF PackageInv, PackagesPublished
  <2>2. ASSUME NEW k \in Users \X Ids, NEW p \in Allocated(k)' PROVE Saved(p.owner, p.id)'
    <3>1. p \in Allocated(k)
      BY Zenon, <2>2, <1>2
    <3>2. p \in Packages
      BY Zenon, <3>1, PackageTypes
    <3> QED
      BY Zenon, <3>1, <3>2, <1>1, PackageFields DEF PackageInv, PackagesPublished
  <2> QED
    BY Zenon, <2>1, <2>2 DEF PackagesPublished
<1>4. PackageAllocatedOnce'
  <2>1. PackageAllocatedOnce
    BY Zenon DEF PackageInv
  <2>2. \A j, k \in Users \X Ids : j # k => Allocated(j)' \cap Allocated(k)' = {}
    BY <1>2, <2>1 DEF PackageAllocatedOnce
  <2>3. \A u \in Users : \A i \in DOMAIN key_packages[u] : \A k \in Users \X Ids :
          key_packages[u][i] \notin Allocated(k)'
    BY <1>2, <2>1 DEF PackageAllocatedOnce
  <2> QED
    BY <2>1, <2>2, <2>3 DEF PackageAllocatedOnce
<1> QED
  BY Zenon, <1>3, <1>4 DEF PackageInv

LEMMA ConcatElements ==
  ASSUME NEW S, NEW s \in Seq(S), NEW t \in Seq(S)
  PROVE  /\ Len(s) \in Nat /\ Len(t) \in Nat /\ DOMAIN s = 1..Len(s)
         /\ DOMAIN (s \o t) = 1..(Len(s) + Len(t))
         /\ \A i \in 1..Len(s) : (s \o t)[i] = s[i]
         /\ \A i \in (Len(s) + 1)..(Len(s) + Len(t)) : (s \o t)[i] = t[i - Len(s)]
<1>1. Len(s) \in Nat /\ Len(t) \in Nat /\ DOMAIN s = 1..Len(s)
  OBVIOUS
<1>2. DOMAIN (s \o t) = 1..(Len(s) + Len(t))
  OBVIOUS
<1>3. \A i \in 1..Len(s) : (s \o t)[i] = s[i]
  OBVIOUS
<1>4. \A i \in (Len(s) + 1)..(Len(s) + Len(t)) : (s \o t)[i] = t[i - Len(s)]
  OBVIOUS
<1> QED
  BY Zenon, <1>1, <1>2, <1>3, <1>4

\* The pool of a publisher: what was there, and new packages of this publication.
LEMMA PublishedPool ==
  ASSUME TypeOK, NEW user \in Users, NEW id \in Ids, NEW req \in Requests,
         Publishes(user, id, req)
  PROVE  /\ \A u \in Users : u # user => key_packages'[u] = key_packages[u]
         /\ \A i \in DOMAIN key_packages'[user] :
              \/ i \in DOMAIN key_packages[user] /\ key_packages'[user][i] = key_packages[user][i]
              \/ /\ i \notin DOMAIN key_packages[user]
                 /\ key_packages'[user][i]
                      = [owner |-> user, id |-> id, k |-> i - Len(key_packages[user])]
         /\ DOMAIN key_packages'[user] \subseteq Nat
<1> DEFINE old == key_packages[user]
           new == NewPackages(user, id, req)
           n == Len(old)
<1>1. old \in Seq(Packages) /\ key_packages \in [Users -> Seq(Packages)]
  BY Zenon DEF TypeOK
<1>2. req.count \in 1..PoolLimit /\ req.count \in Nat
  BY ProtocolAssumption DEF Publishes
<1>3. new \in Seq(Packages) /\ Len(new) = req.count
  <2>1. \A k \in 1..req.count : [owner |-> user, id |-> id, k |-> k] \in Packages
    BY <1>2, ProtocolAssumption DEF Packages
  <2>2. new \in [1..req.count -> Packages]
    BY Zenon, <2>1 DEF NewPackages
  <2> HIDE DEF new
  <2> QED
    BY <1>2, <2>2
<1>4. \A k \in 1..req.count : new[k] = [owner |-> user, id |-> id, k |-> k]
  BY Zenon DEF NewPackages
<1>5. key_packages' = [key_packages EXCEPT ![user] = old \o new]
  BY Zenon DEF Publishes
<1> HIDE DEF old, new
<1>6. key_packages'[user] = old \o new /\ \A u \in Users : u # user => key_packages'[u] = key_packages[u]
  BY Zenon, <1>1, <1>5
<1>7. /\ n \in Nat /\ DOMAIN old = 1..n /\ DOMAIN (old \o new) = 1..(n + req.count)
      /\ \A i \in 1..n : (old \o new)[i] = old[i]
      /\ \A i \in (n + 1)..(n + req.count) : (old \o new)[i] = new[i - n]
  <2>1. /\ n \in Nat /\ DOMAIN old = 1..n /\ DOMAIN (old \o new) = 1..(n + Len(new))
        /\ \A i \in 1..n : (old \o new)[i] = old[i]
        /\ \A i \in (n + 1)..(n + Len(new)) : (old \o new)[i] = new[i - n]
    BY ZenonT(30), <1>1, <1>3, ConcatElements
  <2> QED
    BY Zenon, <1>3, <2>1
<1>8. ASSUME NEW i \in 1..(n + req.count)
      PROVE  \/ i \in 1..n /\ (old \o new)[i] = old[i]
             \/ /\ i \notin 1..n
                /\ (old \o new)[i] = [owner |-> user, id |-> id, k |-> i - n]
  <2>1. CASE i \in 1..n
    BY Zenon, <2>1, <1>7
  <2>2. CASE i \notin 1..n
    <3>1. i \in (n + 1)..(n + req.count) /\ i - n \in 1..req.count
      BY <2>2, <1>2, <1>7
    <3>2. (old \o new)[i] = new[i - n] /\ new[i - n] = [owner |-> user, id |-> id, k |-> i - n]
      BY Zenon, <3>1, <1>4, <1>7
    <3> QED
      BY Zenon, <2>2, <3>2
  <2> QED
    BY Zenon, <2>1, <2>2
<1> QED
  BY <1>2, <1>6, <1>7, <1>8 DEF old

LEMMA PublishKeepsPackages ==
  ASSUME TypeOK, PackageInv, NEW user \in Users, NEW id \in Ids, NEW req \in Requests,
         NEW resp \in Responses, NewRow(user, id, req, resp), resp.kind # "KeyPackage",
         Publishes(user, id, req)
  PROVE  PackageInv'
<1> DEFINE New(i) == [owner |-> user, id |-> id, k |-> i - Len(key_packages[user])]
           Old(u, i) == i \in DOMAIN key_packages[u] /\ key_packages'[u][i] = key_packages[u][i]
<1>1. /\ Saved(user, id)' /\ ~Saved(user, id)
      /\ \A u \in Users, i \in Ids : Saved(u, i) => Saved(u, i)'
  BY Zenon, RowStored
<1>2. \A k \in Users \X Ids : Allocated(k)' = Allocated(k) \/ Allocated(k)' = {}
  BY ZenonT(30), AllocatedKept
<1>3. /\ \A u \in Users : u # user => key_packages'[u] = key_packages[u]
      /\ \A i \in DOMAIN key_packages'[user] :
           Old(user, i) \/ (i \notin DOMAIN key_packages[user] /\ key_packages'[user][i] = New(i))
      /\ DOMAIN key_packages'[user] \subseteq Nat
  BY Zenon, PublishedPool
<1>4. \A i : New(i).owner = user /\ New(i).id = id /\ New(i).k = i - Len(key_packages[user])
  BY Zenon
<1>5. Len(key_packages[user]) \in Nat
  BY DEF TypeOK
<1>6. \A u \in Users : \A i \in DOMAIN key_packages'[u] : Old(u, i) \/ (u = user /\ key_packages'[u][i] = New(i))
  BY Zenon, <1>3
<1> HIDE DEF New
<1>7. \A u \in Users : \A i \in DOMAIN key_packages[u] :
        /\ key_packages[u][i].owner = u /\ Saved(key_packages[u][i].owner, key_packages[u][i].id)
        /\ key_packages[u][i].id \in Ids
  BY Zenon, PackageTypes, PackageFields DEF PackageInv, PackagesPublished, PackageAllocatedOnce
<1>8. PackagesPublished'
  <2>1. ASSUME NEW u \in Users, NEW i \in DOMAIN key_packages'[u]
        PROVE  delivery_requests'[<<key_packages'[u][i].owner, key_packages'[u][i].id>>] # None
    <3>1. CASE Old(u, i)
      BY SMTT(30), <3>1, <1>1, <1>7 DEF Saved
    <3>2. CASE key_packages'[u][i] = New(i)
      BY Zenon, <3>2, <1>1, <1>4 DEF Saved
    <3> QED
      BY Zenon, <3>1, <3>2, <1>6
  <2>2. ASSUME NEW k \in Users \X Ids, NEW p \in Allocated(k)' PROVE Saved(p.owner, p.id)'
    <3>1. p \in Allocated(k)
      BY Zenon, <2>2, <1>2
    <3>2. p \in Packages
      BY Zenon, <3>1, PackageTypes
    <3> QED
      BY Zenon, <3>1, <3>2, <1>1, PackageFields DEF PackageInv, PackagesPublished
  <2> QED
    BY Zenon, <2>1, <2>2 DEF PackagesPublished, Saved
<1>9. PackageAllocatedOnce'
  <2>1. PackageAllocatedOnce
    BY Zenon DEF PackageInv
  <2>2. \A j, k \in Users \X Ids : j # k => Allocated(j)' \cap Allocated(k)' = {}
    BY <1>2, <2>1 DEF PackageAllocatedOnce
  <2>3. ASSUME NEW u \in Users, NEW i \in DOMAIN key_packages'[u]
        PROVE  key_packages'[u][i].owner = u
    BY SMTT(30), <1>4, <1>6, <1>7
  <2>4. ASSUME NEW u \in Users, NEW i \in DOMAIN key_packages'[u], NEW k \in Users \X Ids
        PROVE  key_packages'[u][i] \notin Allocated(k)'
    <3>1. CASE Old(u, i)
      BY <3>1, <1>2, <2>1 DEF PackageAllocatedOnce
    <3>2. CASE key_packages'[u][i] = New(i)
      <4>1. New(i) \notin Allocated(k)
        BY Zenon, <1>1, <1>4 DEF PackageInv, PackagesPublished
      <4> QED
        BY Zenon, <3>2, <4>1, <1>2
    <3> QED
      BY Zenon, <3>1, <3>2, <1>6
  <2>5. ASSUME NEW u \in Users, NEW i \in DOMAIN key_packages'[u], NEW j \in DOMAIN key_packages'[u],
               key_packages'[u][i] = key_packages'[u][j]
        PROVE  i = j
    <3>1. CASE Old(u, i) /\ Old(u, j)
      BY ZenonT(30), <3>1, <2>1, <2>5 DEF PackageAllocatedOnce
    <3>2. CASE Old(u, i) /\ u = user /\ key_packages'[u][j] = New(j)
      BY <3>2, <2>5, <1>1, <1>4, <1>7
    <3>3. CASE Old(u, j) /\ u = user /\ key_packages'[u][i] = New(i)
      <4>1. key_packages[u][j] = New(i) /\ j \in DOMAIN key_packages[u]
        BY Zenon, <3>3, <2>5
      <4>2. New(i).owner = user /\ New(i).id = id
        BY Zenon, <1>4
      <4> QED
        BY Zenon, <4>1, <4>2, <1>1, <1>7
    <3>4. CASE u = user /\ key_packages'[u][i] = New(i) /\ key_packages'[u][j] = New(j)
      <4>1. i - Len(key_packages[user]) = j - Len(key_packages[user]) /\ i \in Nat /\ j \in Nat
        BY Zenon, <3>4, <2>5, <1>3, <1>4
      <4> QED
        BY SMTT(30), <4>1, <1>5
    <3> QED
      BY Zenon, <3>1, <3>2, <3>3, <3>4, <1>6
  <2> QED
    BY Zenon, <2>2, <2>3, <2>4, <2>5 DEF PackageAllocatedOnce
<1> QED
  BY Zenon, <1>8, <1>9 DEF PackageInv

\* The oldest package leaves the pool in the step that stores it as a result.
LEMMA HandOutKeepsPackages ==
  ASSUME TypeOK, PackageInv, NEW user \in Users, NEW id \in Ids, NEW req \in Requests,
         NEW resp \in Responses, NewRow(user, id, req, resp), HandsOut(req, resp)
  PROVE  PackageInv'
<1> DEFINE r == req.recipient
           p == key_packages[r][1]
<1>1. /\ r \in Users /\ key_packages[r] # << >> /\ key_packages' = [key_packages EXCEPT ![r] = Tail(@)]
      /\ resp.kind = "KeyPackage" /\ resp.package = p
  BY Zenon DEF HandsOut
<1>2. key_packages \in [Users -> Seq(Packages)] /\ key_packages[r] \in Seq(Packages)
  BY Zenon, <1>1 DEF TypeOK
<1> HIDE DEF r, p
<1>3. /\ \A u \in Users : u # r => key_packages'[u] = key_packages[u]
      /\ 1 \in DOMAIN key_packages[r]
      /\ \A i \in DOMAIN key_packages'[r] :
           /\ i + 1 \in DOMAIN key_packages[r] /\ i + 1 # 1 /\ i \in Nat
           /\ key_packages'[r][i] = key_packages[r][i + 1]
  <2> DEFINE old == key_packages[r]
  <2>1. old \in Seq(Packages) /\ old # << >> /\ key_packages'[r] = Tail(old)
    BY Zenon, <1>1, <1>2
  <2>2. \A u \in Users : u # r => key_packages'[u] = key_packages[u]
    BY Zenon, <1>1, <1>2
  <2> HIDE DEF old
  <2>3. /\ Len(old) \in Nat /\ Len(old) > 0 /\ DOMAIN old = 1..Len(old)
        /\ DOMAIN Tail(old) = 1..(Len(old) - 1)
        /\ \A i \in 1..(Len(old) - 1) : Tail(old)[i] = old[i + 1]
    BY <2>1
  <2>4. 1 \in DOMAIN old
    BY <2>3
  <2>5. \A i \in DOMAIN Tail(old) : /\ i + 1 \in DOMAIN old /\ i + 1 # 1 /\ i \in Nat
                                    /\ Tail(old)[i] = old[i + 1]
    BY <2>3
  <2> QED
    BY Zenon, <2>1, <2>2, <2>4, <2>5 DEF old
<1>4. /\ PackageAllocatedOnce /\ PackagesPublished
      /\ \A u, i : Saved(u, i) /\ u \in Users /\ i \in Ids => Saved(u, i)'
  BY Zenon, RowStored DEF PackageInv
<1>5. /\ \A k \in Users \X Ids : k # <<user, id>> => Allocated(k)' = Allocated(k)
      /\ Allocated(<<user, id>>)' = {p}
  BY Zenon, <1>1, AllocatedKept
<1>6. p.owner = r /\ Saved(p.owner, p.id) /\ p \in Packages /\ \A k \in Users \X Ids : p \notin Allocated(k)
  BY Zenon, <1>1, <1>3, <1>4, PackageTypes DEF PackageAllocatedOnce, PackagesPublished, p
<1>7. ASSUME NEW u \in Users, NEW i \in DOMAIN key_packages'[u]
      PROVE  \E j \in DOMAIN key_packages[u] :
               key_packages'[u][i] = key_packages[u][j] /\ key_packages[u][j] # p
  <2>1. CASE u = r
    <3>1. key_packages[r][i + 1] # p
      BY SMTT(30), <2>1, <1>1, <1>3, <1>4 DEF PackageAllocatedOnce, p
    <3> QED
      BY Zenon, <2>1, <3>1, <1>3
  <2>2. CASE u # r
    <3>1. i \in DOMAIN key_packages[u] /\ key_packages'[u][i] = key_packages[u][i]
      BY Zenon, <2>2, <1>3
    <3>2. key_packages[u][i].owner = u
      BY Zenon, <3>1, <1>4 DEF PackageAllocatedOnce
    <3> QED
      BY Zenon, <2>2, <3>1, <3>2, <1>6
  <2> QED
    BY Zenon, <2>1, <2>2
<1>8. PackagesPublished'
  <2>1. ASSUME NEW u \in Users, NEW i \in DOMAIN key_packages'[u]
        PROVE  delivery_requests'[<<key_packages'[u][i].owner, key_packages'[u][i].id>>] # None
    <3>1. PICK j \in DOMAIN key_packages[u] : key_packages'[u][i] = key_packages[u][j]
      BY Zenon, <1>7
    <3>2. key_packages[u][j].owner \in Users /\ key_packages[u][j].id \in Ids
      BY Zenon, PackageTypes, PackageFields
    <3> QED
      BY Zenon, <3>1, <3>2, <1>4 DEF PackagesPublished, Saved
  <2>2. ASSUME NEW k \in Users \X Ids, NEW q \in Allocated(k)' PROVE Saved(q.owner, q.id)'
    <3>1. q \in Packages /\ Saved(q.owner, q.id)
      BY Zenon, <2>2, <1>4, <1>5, <1>6, PackageTypes DEF PackagesPublished
    <3> QED
      BY Zenon, <3>1, <1>4, PackageFields
  <2> QED
    BY Zenon, <2>1, <2>2 DEF PackagesPublished, Saved
<1>9. PackageAllocatedOnce'
  <2>1. \A j, k \in Users \X Ids : j # k => Allocated(j)' \cap Allocated(k)' = {}
    BY SMTT(30), <1>4, <1>5, <1>6 DEF PackageAllocatedOnce
  <2>2. ASSUME NEW u \in Users, NEW i \in DOMAIN key_packages'[u]
        PROVE  /\ key_packages'[u][i].owner = u
               /\ \A k \in Users \X Ids : key_packages'[u][i] \notin Allocated(k)'
    <3>1. PICK j \in DOMAIN key_packages[u] :
            key_packages'[u][i] = key_packages[u][j] /\ key_packages[u][j] # p
      BY Zenon, <1>7
    <3> QED
      BY SMTT(30), <3>1, <1>4, <1>5 DEF PackageAllocatedOnce
  <2>3. ASSUME NEW u \in Users, NEW i \in DOMAIN key_packages'[u], NEW j \in DOMAIN key_packages'[u],
               key_packages'[u][i] = key_packages'[u][j]
        PROVE  i = j
    <3>1. CASE u = r
      <4>1. i + 1 = j + 1 /\ i \in Nat /\ j \in Nat
        BY SMTT(30), <3>1, <2>3, <1>1, <1>3, <1>4 DEF PackageAllocatedOnce
      <4> QED
        BY <4>1
    <3>2. CASE u # r
      BY SMTT(30), <3>2, <2>3, <1>3, <1>4 DEF PackageAllocatedOnce
    <3> QED
      BY Zenon, <3>1, <3>2
  <2> QED
    BY Zenon, <2>1, <2>2, <2>3 DEF PackageAllocatedOnce
<1> QED
  BY Zenon, <1>8, <1>9 DEF PackageInv

-----------------------------------------------------------------------------
(* The theorem.                                                            *)

LEMMA PackagesUnchanged ==
  ASSUME PackageInv, UNCHANGED <<key_packages, delivery_requests>>
  PROVE  PackageInv'
  BY DEF PackageInv, PackagesPublished, PackageAllocatedOnce, Allocated, Saved

LEMMA DeliverPackages ==
  ASSUME TypeOK, PackageInv, NEW user \in Users, NEW id \in Ids, NEW req \in Requests,
         NEW resp \in Answers(user, id, req), deliver(user, id, req, resp)
  PROVE  PackageInv'
<1>1. resp \in Responses
  BY Zenon, AnswersAreResponses
<1> QED
  BY ZenonT(30), <1>1, PoolEffect, PackagesUnchanged, RowKeepsPackages, PublishKeepsPackages,
     HandOutKeepsPackages

\* For every run of the relay, a published key package is handed out at most once and
\* never while it is in the pool (PublishKeyPackages and ReserveKeyPackage in execute,
\* with the stored results that deliver returns to retries).
THEOREM PackagesAreSingleUse == Spec => []PackageAllocatedOnce
<1>1. Init => PackageInv
  <2> SUFFICES ASSUME Init PROVE PackageInv
    BY Zenon
  <2>1. /\ \A k \in Users \X Ids : delivery_requests[k] = None /\ k = <<k[1], k[2]>>
        /\ \A u \in Users : DOMAIN key_packages[u] = {}
    BY DEF Init
  <2>2. \A k \in Users \X Ids : Allocated(k) = {}
    BY Zenon, <2>1 DEF Allocated, Saved
  <2> QED
    BY Zenon, <2>1, <2>2 DEF PackageInv, PackagesPublished, PackageAllocatedOnce
<1>2. TypeOK /\ PackageInv /\ [Next]_vars => PackageInv'
  <2> SUFFICES ASSUME TypeOK, PackageInv, [Next]_vars PROVE PackageInv'
    BY Zenon
  <2>1. CASE \E user \in Users, id \in Ids, req \in Requests :
               \E resp \in Answers(user, id, req) : deliver(user, id, req, resp)
    BY Zenon, <2>1, DeliverPackages
  <2>2. CASE UNCHANGED <<key_packages, delivery_requests>>
    BY Zenon, <2>2, PackagesUnchanged
  <2> QED
    BY Zenon, <2>1, <2>2 DEF Next, Deliver, Acknowledge, AcknowledgeEvent, AcknowledgeWelcome, AllocationExpires,
         tables, ledger, vars
<1>3. PackageInv => PackageAllocatedOnce
  BY Zenon DEF PackageInv
<1> QED
  BY <1>1, <1>2, <1>3, TypeCorrect, PTL DEF Spec

-----------------------------------------------------------------------------
(* The rate limits.                                                        *)

LEMMA CardinalityBounds ==
  ASSUME NEW S, IsFiniteSet(S), NEW T, NEW x, NEW bound \in Nat
  PROVE  /\ T \subseteq S /\ Cardinality(S) <= bound => Cardinality(T) <= bound
         /\ T \subseteq S \cup {x} /\ Cardinality(S) < bound => Cardinality(T) <= bound
<1>1. Cardinality(S) \in Nat
  BY Zenon, FS_CardinalityType
<1>2. ASSUME T \subseteq S, Cardinality(S) <= bound PROVE Cardinality(T) <= bound
  <2>1. IsFiniteSet(T) /\ Cardinality(T) <= Cardinality(S)
    BY Zenon, <1>2, FS_Subset
  <2>2. Cardinality(T) \in Nat
    BY Zenon, <2>1, FS_CardinalityType
  <2> QED
    BY <1>1, <1>2, <2>1, <2>2
<1>3. ASSUME T \subseteq S \cup {x}, Cardinality(S) < bound PROVE Cardinality(T) <= bound
  <2>1. IsFiniteSet(S \cup {x}) /\ (Cardinality(S \cup {x}) = Cardinality(S)
                                     \/ Cardinality(S \cup {x}) = Cardinality(S) + 1)
    BY Zenon, FS_AddElement
  <2>2. IsFiniteSet(T) /\ Cardinality(T) <= Cardinality(S \cup {x})
    BY Zenon, <1>3, <2>1, FS_Subset
  <2>3. Cardinality(T) \in Nat
    BY Zenon, <2>2, FS_CardinalityType
  <2> QED
    BY SMTT(30), <1>1, <1>3, <2>1, <2>2, <2>3
<1> QED
  BY Zenon, <1>2, <1>3

RecentOf(recipient, requester) ==
  {i \in RecentAllocations(recipient) : package_allocations[i][1] = requester}

LEMMA RecentFinite ==
  ASSUME TypeOK, NEW recipient, NEW requester
  PROVE  IsFiniteSet(RecentAllocations(recipient)) /\ IsFiniteSet(RecentOf(recipient, requester))
<1> DEFINE n == Len(package_allocations)
<1>1. n \in Nat /\ expired \in Nat
  BY DEF TypeOK
<1>2. IsFiniteSet((expired + 1)..n)
  BY <1>1, FS_Interval
<1>3. /\ RecentAllocations(recipient) \subseteq (expired + 1)..n
      /\ RecentOf(recipient, requester) \subseteq (expired + 1)..n
  BY Zenon DEF RecentAllocations, RecentOf
<1> QED
  BY Zenon, <1>2, <1>3, FS_Subset

\* A step allocates nothing, allocates under the limits, or lets an hour pass.
LEMMA RateEffect ==
  ASSUME [Next]_vars
  PROVE  \/ UNCHANGED <<package_allocations, expired>>
         \/ expired' = expired + 1 /\ UNCHANGED package_allocations
         \/ \E user \in Users, recipient \in Users :
              /\ ~Overloaded(user, recipient) /\ UNCHANGED expired
              /\ package_allocations' = Append(package_allocations, <<user, recipient>>)
<1>1. ASSUME NEW user \in Users, NEW id \in Ids, NEW req \in Requests,
             NEW resp \in Answers(user, id, req), deliver(user, id, req, resp)
      PROVE  \/ UNCHANGED <<package_allocations, expired>>
             \/ \E recipient \in Users :
                  /\ ~Overloaded(user, recipient) /\ UNCHANGED expired
                  /\ package_allocations' = Append(package_allocations, <<user, recipient>>)
  <2>1. CASE Retry(user, id, req, resp) \/ Refuse(user, id, req, resp)
    BY Zenon, <2>1 DEF Retry, Refuse, Defer, tables
  <2>2. CASE req.kind = "ReserveKeyPackage" /\ ReserveKeyPackage(user, id, req, resp)
    <3>1. req.recipient \in Users
      BY Zenon, <2>2, RequestsAssumption DEF DurableRequests, CreateRequests, PublishRequests,
         GrantRequests, ReserveRequests, AppendRequests
    <3>2. \/ Settle(user, id, req, resp) \/ Defer(resp)
          \/ /\ ~Overloaded(user, req.recipient) /\ UNCHANGED expired
             /\ TakePackage(user, req.recipient)
      BY Zenon, <2>2 DEF ReserveKeyPackage
    <3> QED
      BY Zenon, <3>1, <3>2 DEF Settle, Defer, tables, TakePackage
  <2>3. CASE CreateRoom(user, id, req, resp) \/ PublishKeyPackages(user, id, req, resp)
               \/ SetFetchGrant(user, id, req, resp) \/ AppendRoomOperation(user, id, req, resp)
    <3>1. Settle(user, id, req, resp) \/ Defer(resp) \/ UNCHANGED <<package_allocations, expired>>
      BY Zenon, <2>3 DEF CreateRoom, PublishKeyPackages, SetFetchGrant, AppendRoomOperation
    <3> QED
      BY Zenon, <3>1 DEF Settle, Defer, tables
  <2> QED
    BY Zenon, <1>1, <2>1, <2>2, <2>3 DEF deliver, Execute
<1>2. CASE \E user \in Users, event \in Ids : AcknowledgeEvent(user, event)
  BY Zenon, <1>2 DEF AcknowledgeEvent, tables
<1>3. CASE \E user \in Users, cursor \in DOMAIN delivery_welcomes : AcknowledgeWelcome(user, cursor)
  BY Zenon, <1>3 DEF AcknowledgeWelcome, tables
<1>4. CASE AllocationExpires
  BY Zenon, <1>4 DEF AllocationExpires
<1>5. CASE UNCHANGED vars
  BY Zenon, <1>5 DEF vars, tables
<1> QED
  BY Zenon, <1>1, <1>2, <1>3, <1>4, <1>5 DEF Next, Deliver, Acknowledge

\* What a step does to the rows that count.
LEMMA RecentStep ==
  ASSUME TypeOK, [Next]_vars, NEW recipient \in Users, NEW requester \in Users
  PROVE  \/ /\ RecentAllocations(recipient)' \subseteq RecentAllocations(recipient)
            /\ RecentOf(recipient, requester)' \subseteq RecentOf(recipient, requester)
         \/ \E x : /\ RecentAllocations(recipient)' \subseteq RecentAllocations(recipient) \cup {x}
                   /\ Cardinality(RecentAllocations(recipient)) < TotalRate
                   /\ \/ RecentOf(recipient, requester)' \subseteq RecentOf(recipient, requester)
                      \/ /\ RecentOf(recipient, requester)'
                              \subseteq RecentOf(recipient, requester) \cup {x}
                         /\ Cardinality(RecentOf(recipient, requester)) < PairRate
<1> DEFINE n == Len(package_allocations)
<1>1. n \in Nat /\ expired \in Nat /\ package_allocations \in Seq(Users \X Users)
  BY DEF TypeOK
<1>2. CASE UNCHANGED <<package_allocations, expired>>
  BY Zenon, <1>2 DEF RecentAllocations, RecentOf
<1>3. CASE expired' = expired + 1 /\ UNCHANGED package_allocations
  <2>1. (expired' + 1)..n \subseteq (expired + 1)..n
    BY SMTT(30), <1>1, <1>3
  <2> QED
    BY Zenon, <1>3, <2>1 DEF RecentAllocations, RecentOf
<1>4. ASSUME NEW u \in Users, NEW r \in Users, ~Overloaded(u, r), UNCHANGED expired,
             package_allocations' = Append(package_allocations, <<u, r>>)
      PROVE  \/ /\ RecentAllocations(recipient)' \subseteq RecentAllocations(recipient)
                /\ RecentOf(recipient, requester)' \subseteq RecentOf(recipient, requester)
             \/ /\ RecentAllocations(recipient)' \subseteq RecentAllocations(recipient) \cup {n + 1}
                /\ Cardinality(RecentAllocations(recipient)) < TotalRate
                /\ \/ RecentOf(recipient, requester)' \subseteq RecentOf(recipient, requester)
                   \/ /\ RecentOf(recipient, requester)'
                           \subseteq RecentOf(recipient, requester) \cup {n + 1}
                      /\ Cardinality(RecentOf(recipient, requester)) < PairRate
  <2>1. /\ Len(package_allocations') = n + 1 /\ package_allocations'[n + 1] = <<u, r>>
        /\ \A i \in 1..n : package_allocations'[i] = package_allocations[i]
    BY <1>1, <1>4
  <2>2. \A i \in (expired + 1)..(n + 1) : i = n + 1 \/ (i \in (expired + 1)..n /\ i \in 1..n)
    BY <1>1
  <2>3. /\ RecentAllocations(recipient)' \subseteq RecentAllocations(recipient) \cup {n + 1}
        /\ RecentOf(recipient, requester)' \subseteq RecentOf(recipient, requester) \cup {n + 1}
        /\ r # recipient => n + 1 \notin RecentAllocations(recipient)'
        /\ u # requester => n + 1 \notin RecentOf(recipient, requester)'
        /\ RecentOf(recipient, requester)' \subseteq RecentAllocations(recipient)'
    <3>1. RecentAllocations(recipient)' \subseteq RecentAllocations(recipient) \cup {n + 1}
      BY Zenon, <1>4, <2>1, <2>2 DEF RecentAllocations
    <3>2. RecentOf(recipient, requester)' \subseteq RecentOf(recipient, requester) \cup {n + 1}
      <4> SUFFICES ASSUME NEW i \in RecentOf(recipient, requester)', i # n + 1
                   PROVE  i \in RecentOf(recipient, requester)
        BY Zenon
      <4>1. /\ i \in RecentAllocations(recipient)' /\ package_allocations'[i][1] = requester
        BY Zenon DEF RecentOf
      <4>2. i \in RecentAllocations(recipient)
        BY Zenon, <3>1, <4>1
      <4>3. i \in 1..n
        BY Zenon, <1>4, <2>1, <2>2, <4>1 DEF RecentAllocations
      <4> QED
        BY Zenon, <2>1, <4>1, <4>2, <4>3 DEF RecentOf
    <3>3. r # recipient => n + 1 \notin RecentAllocations(recipient)'
      BY <2>1 DEF RecentAllocations
    <3>4. u # requester => n + 1 \notin RecentOf(recipient, requester)'
      BY <2>1 DEF RecentOf
    <3>5. RecentOf(recipient, requester)' \subseteq RecentAllocations(recipient)'
      BY Zenon DEF RecentOf
    <3> QED
      BY Zenon, <3>1, <3>2, <3>3, <3>4, <3>5
  <2>4. CASE r # recipient
    BY Zenon, <2>3, <2>4
  <2>5. CASE r = recipient
    <3>1. /\ Cardinality(RecentAllocations(recipient)) \in Nat
          /\ Cardinality(RecentOf(recipient, requester)) \in Nat
      BY Zenon, RecentFinite, FS_CardinalityType
    <3>2. Cardinality(RecentAllocations(recipient)) < TotalRate
      BY SMTT(30), <1>4, <2>5, <3>1, LimitsAssumption DEF Overloaded
    <3>3. CASE u # requester
      BY Zenon, <2>3, <3>2, <3>3
    <3>4. CASE u = requester
      <4>1. Cardinality(RecentOf(recipient, requester)) < PairRate
        BY <1>4, <2>5, <3>1, <3>4, LimitsAssumption DEF Overloaded, RecentOf
      <4> QED
        BY Zenon, <2>3, <3>2, <4>1
    <3> QED
      BY Zenon, <3>3, <3>4
  <2> QED
    BY Zenon, <2>4, <2>5
<1> QED
  BY Zenon, <1>2, <1>3, <1>4, RateEffect

\* For every run of the relay and every pair of limits, no more packages of a recipient
\* are handed out within an hour than the limits say, in all and to one requester
\* (the two counts of ReserveKeyPackage in execute).
THEOREM RatesAreLimited == Spec => []RateLimited
<1> DEFINE Rated == \A recipient, requester \in Users :
                      /\ Cardinality(RecentAllocations(recipient)) <= TotalRate
                      /\ Cardinality(RecentOf(recipient, requester)) <= PairRate
<1>1. Init => Rated
  <2> SUFFICES ASSUME Init, NEW recipient \in Users, NEW requester \in Users
               PROVE  /\ Cardinality(RecentAllocations(recipient)) <= TotalRate
                      /\ Cardinality(RecentOf(recipient, requester)) <= PairRate
    BY Zenon
  <2>1. (expired + 1)..Len(package_allocations) = {}
    BY DEF Init
  <2>2. RecentAllocations(recipient) = {} /\ RecentOf(recipient, requester) = {}
    BY Zenon, <2>1 DEF RecentAllocations, RecentOf
  <2> QED
    BY <2>2, FS_EmptySet, LimitsAssumption
<1>2. TypeOK /\ Rated /\ [Next]_vars => Rated'
  <2> SUFFICES ASSUME TypeOK, Rated, [Next]_vars, NEW recipient \in Users, NEW requester \in Users
               PROVE  /\ Cardinality(RecentAllocations(recipient)') <= TotalRate
                      /\ Cardinality(RecentOf(recipient, requester)') <= PairRate
    BY Zenon
  <2> DEFINE S == RecentAllocations(recipient)
             P == RecentOf(recipient, requester)
  <2>1. IsFiniteSet(S) /\ IsFiniteSet(P) /\ TotalRate \in Nat /\ PairRate \in Nat
    BY Zenon, RecentFinite, LimitsAssumption
  <2>2. Cardinality(S) <= TotalRate /\ Cardinality(P) <= PairRate
    BY Zenon
  <2>3. \/ S' \subseteq S /\ P' \subseteq P
        \/ \E x : /\ S' \subseteq S \cup {x} /\ Cardinality(S) < TotalRate
                  /\ \/ P' \subseteq P
                     \/ P' \subseteq P \cup {x} /\ Cardinality(P) < PairRate
    BY Zenon, RecentStep
  <2> HIDE DEF S, P, Rated
  <2>4. Cardinality(S') <= TotalRate
    BY Zenon, <2>1, <2>2, <2>3, CardinalityBounds
  <2>5. Cardinality(P') <= PairRate
    BY Zenon, <2>1, <2>2, <2>3, CardinalityBounds
  <2> QED
    BY Zenon, <2>4, <2>5 DEF S, P
<1>3. Rated => RateLimited
  BY Zenon DEF RateLimited, RecentOf
<1> HIDE DEF Rated
<1> QED
  BY <1>1, <1>2, <1>3, TypeCorrect, PTL DEF Spec

(***************************************************************************)
(* The byte ledgers.                                                       *)
(***************************************************************************)
\* Finitely many requests are stored, and each has a price.
Priced == \A k \in StoredRows : Cost(delivery_requests[k].request) \in Nat
LedgerInv ==
  TypeOK /\ IsFiniteSet(StoredRows) /\ Priced /\ LedgerMatchesRequests

LEMMA RowBytes ==
  ASSUME NEW rows, NEW k, Cost(rows[k].request) \in Nat
  PROVE  /\ IsFiniteSet(BytesOf(rows, k))
         /\ Cardinality(BytesOf(rows, k)) = Cost(rows[k].request)
<1> DEFINE n == Cost(rows[k].request)
<1>1. IsFiniteSet({k}) /\ Cardinality({k}) = 1
  BY Zenon, FS_Singleton
<1>2. n \in Int /\ 1 \in Int
  OBVIOUS
<1> HIDE DEF n
<1>3. IsFiniteSet(1 .. n) /\ Cardinality(1 .. n) = n
  BY <1>2, FS_Interval DEF n
<1>4. IsFiniteSet({k} \X (1 .. n)) /\ Cardinality({k} \X (1 .. n)) = 1 * n
  <2>1. /\ IsFiniteSet({k} \X (1 .. n))
        /\ Cardinality({k} \X (1 .. n)) = Cardinality({k}) * Cardinality(1 .. n)
    BY Zenon, <1>1, <1>3, FS_Product
  <2> QED
    BY Zenon, <2>1, <1>1, <1>3
<1>5. 1 * n = n
  BY <1>2
<1> QED
  BY Zenon, <1>4, <1>5 DEF BytesOf, n

LEMMA ChargedFinite ==
  ASSUME NEW rows, NEW ks, IsFiniteSet(ks), \A k \in ks : Cost(rows[k].request) \in Nat
  PROVE  /\ IsFiniteSet(UNION {BytesOf(rows, k) : k \in ks})
         /\ Charged(rows, ks) \in Nat
<1> DEFINE parts == {BytesOf(rows, k) : k \in ks}
           f == [k \in ks |-> BytesOf(rows, k)]
<1>1. IsFiniteSet(parts)
  <2>1. f \in Surjection(ks, parts)
    BY Zenon DEF Surjection
  <2> HIDE DEF parts, f
  <2> QED
    BY Zenon, <2>1, FS_Surjection
<1>2. \A p \in parts : IsFiniteSet(p)
  BY Zenon, RowBytes
<1>3. IsFiniteSet(UNION parts)
  <2> HIDE DEF parts
  <2> QED
    BY Zenon, <1>1, <1>2, FS_UNION
<1> QED
  BY Zenon, <1>3, FS_CardinalityType DEF Charged

LEMMA ChargedMore ==
  ASSUME NEW rows, NEW ks, IsFiniteSet(ks), NEW j, j \notin ks,
         \A k \in ks \cup {j} : Cost(rows[k].request) \in Nat
  PROVE  Charged(rows, ks \cup {j}) = Charged(rows, ks) + Cost(rows[j].request)
<1> DEFINE old == UNION {BytesOf(rows, k) : k \in ks}
<1>1. IsFiniteSet(old) /\ Cardinality(old) \in Nat
  BY Zenon, ChargedFinite, FS_CardinalityType
<1>2. /\ IsFiniteSet(BytesOf(rows, j))
      /\ Cardinality(BytesOf(rows, j)) = Cost(rows[j].request)
  BY Zenon, RowBytes
<1>3. UNION {BytesOf(rows, k) : k \in ks \cup {j}} = old \cup BytesOf(rows, j)
  BY Zenon
<1>4. old \cap BytesOf(rows, j) = {}
  BY DEF BytesOf
<1> HIDE DEF old
<1>5. Cardinality(old \cup BytesOf(rows, j))
        = Cardinality(old) + Cardinality(BytesOf(rows, j)) - Cardinality({})
  BY <1>1, <1>2, <1>4, FS_Union
<1>6. Cardinality({}) = 0
  BY Zenon, FS_EmptySet
<1>7. Cardinality(old \cup BytesOf(rows, j)) = Cardinality(old) + Cost(rows[j].request)
  BY <1>1, <1>2, <1>5, <1>6
<1> QED
  BY Zenon, <1>3, <1>7 DEF Charged, old

LEMMA ChargedSame ==
  ASSUME NEW rows, NEW more, NEW ks, \A k \in ks : more[k] = rows[k]
  PROVE  Charged(more, ks) = Charged(rows, ks)
<1>1. \A k \in ks : BytesOf(more, k) = BytesOf(rows, k)
  BY Zenon DEF BytesOf
<1>2. {BytesOf(more, k) : k \in ks} = {BytesOf(rows, k) : k \in ks}
  BY Zenon, <1>1
<1> QED
  BY Zenon, <1>2 DEF Charged

\* A row more in a ledger is charged once.
LEMMA RowCharged ==
  ASSUME NEW rows, NEW more, NEW ks, IsFiniteSet(ks), NEW j, j \notin ks,
         \A k \in ks : more[k] = rows[k] /\ Cost(rows[k].request) \in Nat,
         Cost(more[j].request) \in Nat
  PROVE  Charged(more, ks \cup {j}) = Charged(rows, ks) + Cost(more[j].request)
<1>1. \A k \in ks \cup {j} : Cost(more[k].request) \in Nat
  BY Zenon
<1>2. Charged(more, ks \cup {j}) = Charged(more, ks) + Cost(more[j].request)
  BY Zenon, <1>1, ChargedMore
<1>3. Charged(more, ks) = Charged(rows, ks)
  BY Zenon, ChargedSame
<1> QED
  BY Zenon, <1>2, <1>3

LEMMA SaveLedger ==
  ASSUME LedgerInv, TypeOK', NEW user \in Users, NEW id \in Ids, NEW req \in Requests, NEW resp \in Responses,
         ~Saved(user, id), Save(user, id, req, resp)
  PROVE  LedgerInv'
<1> DEFINE j == <<user, id>>
           row == [request |-> req, response |-> resp]
           rows == delivery_requests
           more == delivery_requests'
<1>1. /\ j \in Users \X Ids /\ rows[j] = None
      /\ rows \in [Users \X Ids -> Rows \cup {None}]
      /\ more = [rows EXCEPT ![j] = row]
  BY Zenon DEF LedgerInv, TypeOK, Saved, Save
<1>2. row \in Rows /\ row # None /\ row.request = req /\ Cost(req) \in Nat
  BY RequestsAssumption, ProtocolAssumption DEF Rows
<1>3. /\ more[j] = row /\ \A k \in Users \X Ids : k # j => more[k] = rows[k]
  <2> HIDE DEF j, row
  <2> QED
    BY Zenon, <1>1
<1>4. j[1] = user
  BY Zenon
<1> HIDE DEF j, row, rows, more
<1>5. j \notin StoredRows /\ StoredRows' = StoredRows \cup {j}
  BY Zenon, <1>1, <1>2, <1>3 DEF StoredRows, rows, more
<1>6. IsFiniteSet(StoredRows')
  BY Zenon, <1>5, FS_AddElement DEF LedgerInv
<1>7. \A k \in StoredRows : more[k] = rows[k] /\ Cost(rows[k].request) \in Nat
  BY Zenon, <1>3, <1>5 DEF StoredRows, LedgerInv, Priced, rows
<1>8. Priced'
  BY Zenon, <1>2, <1>3, <1>5, <1>7 DEF Priced, more
<1>9. ASSUME NEW u \in Users
      PROVE  usage_sender'[u] = Charged(more, RowsOf(u)')
  <2>1. IsFiniteSet(RowsOf(u)) /\ RowsOf(u) \subseteq StoredRows
    BY Zenon, FS_Subset DEF RowsOf, LedgerInv
  <2>2. usage_sender[u] = Charged(rows, RowsOf(u)) /\ usage_sender \in [Users -> 0..SenderBytes]
    BY Zenon DEF LedgerInv, LedgerMatchesRequests, TypeOK, rows
  <2>3. usage_sender' = [usage_sender EXCEPT ![user] = usage_sender[user] + Cost(req)]
    BY Zenon DEF Save, Charge
  <2>4. CASE u = user
    <3>1. RowsOf(u)' = RowsOf(u) \cup {j} /\ j \notin RowsOf(u)
      BY Zenon, <1>4, <1>5, <2>4 DEF RowsOf
    <3>2. Charged(more, RowsOf(u) \cup {j}) = Charged(rows, RowsOf(u)) + Cost(more[j].request)
      <4>1. \A k \in RowsOf(u) : more[k] = rows[k] /\ Cost(rows[k].request) \in Nat
        BY Zenon, <2>1, <1>7
      <4>2. Cost(more[j].request) \in Nat
        BY Zenon, <1>2, <1>3
      <4> QED
        BY <4>1, <4>2, <2>1, <3>1, RowCharged
    <3> QED
      BY Zenon, <3>1, <3>2, <2>2, <2>3, <2>4, <1>2, <1>3
  <2>5. CASE u # user
    <3>1. RowsOf(u)' = RowsOf(u)
      BY Zenon, <1>4, <1>5, <2>5 DEF RowsOf
    <3>2. Charged(more, RowsOf(u)) = Charged(rows, RowsOf(u))
      BY Zenon, <2>1, <1>7, ChargedSame
    <3> QED
      BY Zenon, <3>1, <3>2, <2>2, <2>3, <2>5
  <2> QED
    BY Zenon, <2>4, <2>5
<1>10. ASSUME NEW r \in Rooms
       PROVE  usage_room'[r] = Charged(more, RowsIn(r)')
  <2>1. IsFiniteSet(RowsIn(r)) /\ RowsIn(r) \subseteq StoredRows
    BY Zenon, FS_Subset DEF RowsIn, LedgerInv
  <2>2. usage_room[r] = Charged(rows, RowsIn(r)) /\ usage_room \in [Rooms -> 0..RoomBytes]
    BY Zenon DEF LedgerInv, LedgerMatchesRequests, TypeOK, rows
  <2>3. usage_room'[r] = IF req.kind = "AppendRoomOperation" /\ req.room = r
                           THEN usage_room[r] + Cost(req) ELSE usage_room[r]
    BY Zenon DEF Save, Charge
  <2>4. RowsIn(r)' = {k \in StoredRows \cup {j} : /\ more[k].request.kind = "AppendRoomOperation"
                                                 /\ more[k].request.room = r}
    BY Zenon, <1>5 DEF RowsIn, more
  <2>5. RowsIn(r) = {k \in StoredRows : /\ rows[k].request.kind = "AppendRoomOperation"
                                         /\ rows[k].request.room = r}
    BY Zenon DEF RowsIn, rows
  <2>6. CASE req.kind = "AppendRoomOperation" /\ req.room = r
    <3>1. RowsIn(r)' = RowsIn(r) \cup {j} /\ j \notin RowsIn(r)
      BY <2>4, <2>5, <2>6, <1>2, <1>3, <1>5, <1>7
    <3>2. Charged(more, RowsIn(r) \cup {j}) = Charged(rows, RowsIn(r)) + Cost(more[j].request)
      <4>1. \A k \in RowsIn(r) : more[k] = rows[k] /\ Cost(rows[k].request) \in Nat
        BY Zenon, <2>1, <1>7
      <4>2. Cost(more[j].request) \in Nat
        BY Zenon, <1>2, <1>3
      <4> QED
        BY <4>1, <4>2, <2>1, <3>1, RowCharged
    <3> QED
      BY Zenon, <3>1, <3>2, <2>2, <2>3, <2>6, <1>2, <1>3
  <2>7. CASE ~(req.kind = "AppendRoomOperation" /\ req.room = r)
    <3>1. RowsIn(r)' = RowsIn(r)
      BY Zenon, <2>4, <2>5, <2>7, <1>2, <1>3, <1>5, <1>7
    <3>2. Charged(more, RowsIn(r)) = Charged(rows, RowsIn(r))
      BY Zenon, <2>1, <1>7, ChargedSame
    <3> QED
      BY Zenon, <3>1, <3>2, <2>2, <2>3, <2>7
  <2> QED
    BY Zenon, <2>6, <2>7
<1>11. LedgerMatchesRequests'
  BY Zenon, <1>9, <1>10 DEF LedgerMatchesRequests, more
<1> QED
  BY Zenon, <1>6, <1>8, <1>11 DEF LedgerInv

LEMMA LedgerStep == LedgerInv /\ [Next]_vars => LedgerInv'
<1> SUFFICES ASSUME LedgerInv, [Next]_vars PROVE LedgerInv'
  BY Zenon
<1>1. TypeOK'
  BY Zenon, TypeStep DEF LedgerInv
<1>2. ASSUME UNCHANGED ledger
      PROVE  LedgerInv'
  <2>1. UNCHANGED <<delivery_requests, usage_sender, usage_room>>
    BY Zenon, <1>2 DEF ledger
  <2>2. StoredRows' = StoredRows
    BY Zenon, <2>1 DEF StoredRows
  <2>3. Priced'
    BY Zenon, <2>1, <2>2 DEF LedgerInv, Priced
  <2>4. LedgerMatchesRequests'
    BY Zenon, <2>1 DEF LedgerInv, LedgerMatchesRequests, RowsOf, RowsIn, StoredRows
  <2> QED
    BY Zenon, <1>1, <2>2, <2>3, <2>4 DEF LedgerInv
<1>3. CASE Deliver(Requests)
  <2>1. PICK user \in Users, id \in Ids, req \in Requests :
          \E resp \in Answers(user, id, req) : deliver(user, id, req, resp)
    BY Zenon, <1>3 DEF Deliver
  <2>2. PICK resp \in Answers(user, id, req) : deliver(user, id, req, resp)
    BY Zenon, <2>1
  <2>3. resp \in Responses
    BY Zenon, <2>2, AnswersAreResponses DEF LedgerInv
  <2>4. CASE Retry(user, id, req, resp) \/ Refuse(user, id, req, resp)
    <3>1. UNCHANGED ledger
      BY Zenon, <2>4 DEF Retry, Refuse, Defer
    <3> QED
      BY Zenon, <3>1, <1>2
  <2>5. CASE Execute(user, id, req, resp)
    <3>1. Save(user, id, req, resp) \/ Defer(resp)
      BY Zenon, <2>5 DEF Execute, CreateRoom, PublishKeyPackages, SetFetchGrant,
           ReserveKeyPackage, AppendRoomOperation, Settle
    <3>2. ~Saved(user, id)
      BY Zenon, <2>5 DEF Execute
    <3>3. CASE Save(user, id, req, resp)
      BY Zenon, <1>1, <2>3, <3>2, <3>3, SaveLedger
    <3>4. CASE Defer(resp)
      BY Zenon, <1>2, <3>4 DEF Defer
    <3> QED
      BY Zenon, <3>1, <3>3, <3>4
  <2> QED
    BY Zenon, <2>2, <2>4, <2>5 DEF deliver
<1>4. CASE Acknowledge \/ AllocationExpires \/ UNCHANGED vars
  <2>1. UNCHANGED ledger
    BY Zenon, <1>4 DEF Acknowledge, AcknowledgeEvent, AcknowledgeWelcome, AllocationExpires, vars
  <2> QED
    BY Zenon, <2>1, <1>2
<1> QED
  BY Zenon, <1>3, <1>4 DEF Next

\* StorageLimits::admit and the charge at the end of deliver: the byte ledgers are
\* always the sum of what the stored requests cost, for any prices and limits.
THEOREM LedgersMatch == Spec => []LedgerMatchesRequests
<1>1. Init => LedgerInv
  <2> SUFFICES ASSUME Init PROVE LedgerInv
    BY Zenon
  <2>1. StoredRows = {} /\ TypeOK
    BY ProtocolAssumption, LimitsAssumption DEF Init, StoredRows, TypeOK
  <2>2. IsFiniteSet({}) /\ Cardinality({}) = 0
    BY Zenon, FS_EmptySet
  <2>3. (\A u \in Users : RowsOf(u) = {}) /\ (\A r \in Rooms : RowsIn(r) = {})
    BY Zenon, <2>1 DEF RowsOf, RowsIn
  <2>4. Charged(delivery_requests, {}) = 0
    <3>1. UNION {BytesOf(delivery_requests, k) : k \in {}} = {}
      BY Zenon
    <3> QED
      BY Zenon, <2>2, <3>1 DEF Charged
  <2>5. (\A u \in Users : usage_sender[u] = 0) /\ (\A r \in Rooms : usage_room[r] = 0)
    BY Zenon DEF Init
  <2>6. LedgerMatchesRequests
    BY Zenon, <2>3, <2>4, <2>5 DEF LedgerMatchesRequests
  <2> QED
    BY Zenon, <2>1, <2>2, <2>6 DEF LedgerInv, Priced
<1>2. LedgerInv => LedgerMatchesRequests
  BY Zenon DEF LedgerInv
<1> QED
  BY <1>1, <1>2, LedgerStep, PTL DEF Spec

===============================================================================
