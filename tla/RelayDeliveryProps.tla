------------------------- MODULE RelayDeliveryProps -------------------------
(***************************************************************************)
(* What the relay's repository promises to its clients.                    *)
(***************************************************************************)
EXTENDS RelayDelivery

Rows == [request : DurableRequests, response : Responses]

\* Type correctness of the tables of storage.rs.
TypeOK ==
  /\ rooms \in [Rooms -> Users \cup {None}]
  /\ room_subscribers \in [Rooms -> SUBSET Users]
  /\ key_packages \in [Users -> Seq(Packages)]
  /\ fetch_grants \subseteq Users \X Users
  /\ package_allocations \in Seq(Users \X Users)
  /\ expired \in 0..Len(package_allocations)
  /\ delivery_events \in [Rooms -> Seq(Events)]
  /\ delivery_welcomes \in Seq(WelcomeRows)
  /\ delivery_requests \in [Users \X Ids -> Rows \cup {None}]
  /\ usage_sender \in [Users -> 0..SenderBytes]
  /\ usage_room \in [Rooms -> 0..RoomBytes]
  /\ told \subseteq [user : Users, id : Ids, request : DurableRequests, response : Responses]

\* A message id has one settled outcome: whatever is executed between the
\* attempts (appends by others, quota, revoked grants), a retry is told what the
\* first attempt was told.  This is what makes the client's exact retry of an
\* uncertain request safe (delivery.rs:23-38, 81-103).
OneOutcome ==
  \A s, t \in told : s.user = t.user /\ s.id = t.id => s = t

\* A stored acceptance is in the log where its sender was told, with what the
\* sender sent.
RowLogged(k) ==
  LET row == delivery_requests[k]
  IN  row # None /\ row.response.kind = "AppendAccepted" =>
        /\ row.request.kind = "AppendRoomOperation"
        /\ row.response.room = row.request.room
        /\ row.response.sequence \in DOMAIN delivery_events[row.request.room]
        /\ delivery_events[row.request.room][row.response.sequence] =
             [id |-> k[2], sender |-> k[1], parent |-> row.request.parent,
              body |-> row.request.body, welcome |-> row.request.welcome]

\* A logged event extends the event before it, and its sender was told so.
EventStored(r, s) ==
  LET e == delivery_events[r][s]
      row == delivery_requests[<<e.sender, e.id>>]
  IN  /\ e.parent = s - 1
      /\ row # None
      /\ row.response = [kind |-> "AppendAccepted", room |-> r, sequence |-> s]

\* Accepted results and stored events are the same set: an accepted append is in
\* the log at the sequence its sender was told, with what the sender sent, and
\* every event of a log is the result of exactly one stored request.
AcceptedIffLogged ==
  /\ \A k \in Users \X Ids : RowLogged(k)
  /\ \A r \in Rooms : \A s \in DOMAIN delivery_events[r] : EventStored(r, s)

\* An event id occurs once over all rooms and senders: the client's inbox and
\* history tables use it as their key.
EventIdsUnique ==
  \A q, r \in Rooms : \A s \in DOMAIN delivery_events[q], t \in DOMAIN delivery_events[r] :
    delivery_events[q][s].id = delivery_events[r][t].id => q = r /\ s = t

\* A Welcome row belongs to its event and its recipient is subscribed.
WelcomeMatches(c) ==
  LET w == delivery_welcomes[c]
      e == delivery_events[w.room][w.sequence]
  IN  /\ w.recipient \in room_subscribers[w.room]
      /\ w.sequence \in DOMAIN delivery_events[w.room]
      /\ e.id = w.event /\ e.sender = w.inviter /\ e.welcome = w.recipient

WelcomeAt(c, r, s) == delivery_welcomes[c].room = r /\ delivery_welcomes[c].sequence = s

OneWelcome(r, s) ==
  \E c \in DOMAIN delivery_welcomes :
    /\ WelcomeAt(c, r, s)
    /\ \A d \in DOMAIN delivery_welcomes : WelcomeAt(d, r, s) => d = c

\* A Welcome row exists exactly for the accepted events that carry one, at their
\* sequence, once, and its recipient is subscribed: a member added by a commit is
\* never left without the Welcome or without access to the room's events.
WelcomeWithEvent ==
  /\ \A c \in DOMAIN delivery_welcomes : WelcomeMatches(c)
  /\ \A r \in Rooms : \A s \in DOMAIN delivery_events[r] :
       delivery_events[r][s].welcome # None => OneWelcome(r, s)

Invited(r, u) ==
  \/ rooms[r] = u
  \/ \E c \in DOMAIN delivery_welcomes :
       delivery_welcomes[c].room = r /\ delivery_welcomes[c].recipient = u

\* Only the creator and the recipients of Welcomes can read or append in a room.
SubscribersInvited == \A r \in Rooms : \A u \in room_subscribers[r] : Invited(r, u)

Allocated(k) ==
  IF Saved(k[1], k[2]) /\ delivery_requests[k].response.kind = "KeyPackage"
    THEN {delivery_requests[k].response.package}
    ELSE {}

\* A published package is handed out at most once, under one request, and never
\* while it is still in the pool, also when publications and reservations are
\* retried: MLS key packages are single use.
PackageAllocatedOnce ==
  /\ \A j, k \in Users \X Ids : j # k => Allocated(j) \cap Allocated(k) = {}
  /\ \A u \in Users : \A i \in DOMAIN key_packages[u] :
       /\ key_packages[u][i].owner = u
       /\ \A k \in Users \X Ids : key_packages[u][i] \notin Allocated(k)
       /\ \A j \in DOMAIN key_packages[u] : key_packages[u][i] = key_packages[u][j] => i = j

\* What OneOutcome and PackageAllocatedOnce rest on: a reported result is the
\* stored one, and a package, in a pool or allocated, belongs to a publication
\* whose result is stored.
ToldStored ==
  \A t \in told :
    delivery_requests[<<t.user, t.id>>] = [request |-> t.request, response |-> t.response]

PackagesPublished ==
  /\ \A u \in Users : \A i \in DOMAIN key_packages[u] :
       Saved(key_packages[u][i].owner, key_packages[u][i].id)
  /\ \A k \in Users \X Ids : \A p \in Allocated(k) : Saved(p.owner, p.id)

\* The log invariants are inductive together, the package invariants with
\* PackagesPublished.
LogInv == AcceptedIffLogged /\ EventIdsUnique /\ WelcomeWithEvent /\ SubscribersInvited
PackageInv == PackagesPublished /\ PackageAllocatedOnce

\* Within an hour a recipient's packages are handed out at most TotalRate times,
\* and at most PairRate times to one requester.
RateLimited ==
  \A recipient, requester \in Users :
    LET recent == RecentAllocations(recipient)
    IN  /\ Cardinality(recent) <= TotalRate
        /\ Cardinality({i \in recent : package_allocations[i][1] = requester}) <= PairRate

\* The bytes that some stored requests are charged for, counted one by one.
BytesOf(rows, k) == {k} \X (1..Cost(rows[k].request))
Charged(rows, ks) == Cardinality(UNION {BytesOf(rows, k) : k \in ks})

StoredRows == {k \in Users \X Ids : delivery_requests[k] # None}
RowsOf(u) == {k \in StoredRows : k[1] = u}
RowsIn(r) ==
  {k \in StoredRows : /\ delivery_requests[k].request.kind = "AppendRoomOperation"
                      /\ delivery_requests[k].request.room = r}

\* The byte ledgers are the charges of the stored results and nothing else: a
\* retry, a refused request or a receipt is not charged, and an append is charged
\* to its room whatever its result (delivery.rs:81-92).  With TypeOK this bounds
\* what a sender or a room can make the relay store.
LedgerMatchesRequests ==
  /\ \A u \in Users : usage_sender[u] = Charged(delivery_requests, RowsOf(u))
  /\ \A r \in Rooms : usage_room[r] = Charged(delivery_requests, RowsIn(r))

\* What a step keeps of the tables clients have seen.
EventsKept ==
  \A r \in Rooms : \A s \in DOMAIN delivery_events[r] :
    s \in DOMAIN delivery_events'[r] /\ delivery_events'[r][s] = delivery_events[r][s]
WelcomesKept ==
  \A c \in DOMAIN delivery_welcomes :
    c \in DOMAIN delivery_welcomes' /\ delivery_welcomes'[c] = delivery_welcomes[c]
MembersKept ==
  \A r \in Rooms : /\ room_subscribers[r] \subseteq room_subscribers'[r]
                   /\ rooms[r] # None => rooms'[r] = rooms[r]
ResultsKept ==
  /\ \A k \in Users \X Ids :
       delivery_requests[k] # None => delivery_requests'[k] = delivery_requests[k]
  /\ receipts \subseteq receipts'
Kept == EventsKept /\ WelcomesKept /\ MembersKept /\ ResultsKept

\* Nothing a client may have seen is taken back: logs and Welcome rows are only
\* extended, stored results and receipts stay, rooms keep their creator and
\* subscribers ("Limits reject new writes rather than deleting existing data",
\* STORAGE.md).
HistoryKept == [][Kept]_vars

=============================================================================
