# Verification of Grotto's delivery, clients and relay

Grotto is an end-to-end encrypted chat for the terminal. Clients exchange MLS
messages through a relay that stores opaque records and orders them per room.
This directory holds TLA+ models of the relay, of the client and of both
together, the TLC configurations that check them, and proofs checked by TLAPS.

## The system

**Relay** (`grotto-relay`). A tokio process with one SQLite thread behind a
bounded queue. `delivery.rs` executes each request in one transaction and stores
the result of a durable request under (user, message id), so that an exact retry
returns the stored result. An append names the head it was built on; it is
accepted only if that is still the head (*conditional append*), and a Welcome
for a new member is stored with the commit that adds it. Clients recover events
and Welcomes in *pages* cut by count and by bytes. `limits.rs` admits new
data against byte ledgers. `lib.rs` accepts connections, runs the handshake,
allows one session per identity, meters payload memory by permits, and notifies
sessions after an append. `enrollment.rs` registers identities with one-time
tokens; `shutdown.rs` sets the stop flag; the module `tls` in `lib.rs` makes or
loads the certificate and the key.

**Client** (`grotto-client`). One SQLite database holds the identity, the verified
contacts, the outbox, intents ("add this user", "send this text"; one per room),
received events and Welcomes, cursors, the history and the MLS groups.
`delivery.rs` has a serialized engine.
A *drive* repeats up to four rounds: resolve every outbox entry by sending it
again, synchronize (Welcomes, room index, events), build attempts for the intents
without one. Transactions never cross a network await, so a crash or a lost
connection can fall between any two of them. `mls_session.rs` caches loaded groups
and runs each operation in one transaction of `store.rs`, into which mls-rs also
writes. `lib.rs` makes the identity at the first start, reconnects after transport
failures and exits on any other error. `contacts.rs` keeps verified contacts;
an event or a Welcome that brings in an unverified member is *blocked* until the
contact is imported. The module `tls` in `lib.rs` pins the relay's certificate at
first use.

**Protocol** (`grotto-protocol`). Messages are postcard-encoded, bounded, and carried
in frames with a four-byte length.

**Interaction.** One request in flight per client. Its answer may be lost while
the relay has executed it; the relay may refuse it temporarily (rate limit,
full queue, quota, internal error); another member may append first.

**What is hard.** Retrying what was already done; lost races and their rebuild;
crashes between building, sending, accepting and applying; events that come back
before their predecessors were applied; groups blocked on trust; a cached group
that is ahead of the database after a failed commit; registrations,
permits and notices under every order of failure; programs that share a database,
a pin file or an identity. `PROJECT.json` lists each hazard at its line, with the
properties that cover it.

## Modules

| Module | Models |
| --- | --- |
| `Options` | the value `None`, shared by the modules |
| `Protocol` | requests, responses and rejections of `grotto-protocol` |
| `RelayDelivery` | the repository: `deliver`, `execute`, `admit` and the tables |
| `RelayDeliveryProps`; `RelayDeliveryProofs`, `RelayPackageProofs` | its properties; its theorems on results and logs, on packages and ledgers |
| `RecoveryPages` | how pages of events and Welcomes are filled and encoded |
| `ClientEngine` | the engine over its database and its MLS groups |
| `GrottoSystem`, `GrottoProps` | clients and relay composed; their properties |
| `OrderedRooms` | abstract specification: totally ordered rooms |
| `StoreTables`, `ClientStore`, `ClientStoreProps`; `StoreTablesProofs`, `ClientStoreProofs` | the client's transactions, the MLS storage and the group cache |
| `AtomicStore` | abstract specification: operations that happen whole or not at all |
| `ClientStartup` | the start of the client programs, identity, contact cards, trust in members |
| `RelayTrust` | the relay's certificate and key files, the clients' pin file |
| `TrustProofs` | theorems on `ClientStartup` and `RelayTrust` |
| `Handshake`; `HandshakeProofs` | the messages of `connect` and `authenticate` |
| `RelaySession`, `RelaySessionProps`; `RelaySessionProofs` | connections, registry, permits, worker, notices, enrollment, shutdown, the clients' connect loop |
| `FrameLink` | frames over a byte stream, the reader task and its channel |
| `TransportProofs` | theorems on `RecoveryPages` and `FrameLink` |
| `WireFormat`, `WireExchange` | the encoding of every message; one message from encoder to decoder |
| `MCRelay`, `MCPages` | instances for TLC: the repository and its pages |
| `MCGrotto`, `MCGrottoLive` | instances: scenarios of clients and relay; the same with fairness |
| `MCSession`, `MCTransport` | instances: sessions; sessions and frames with fairness |
| `MCConnect` | instances: handshake, wire format, client store |
| `MCStartup` | instances: the client's database and the files at start-up |

### RelayDelivery and RecoveryPages

Variables carry the names of the tables in `storage.rs`. A step is a committed
transaction; one that fails or is rolled back is a stuttering step, and the
answer `Internal` that it gets is left out of `Protocol`: the client treats it like
`Overloaded`, which `GrottoSystem` may always answer.
`deliver(user, id, req, resp)` is the retry of a stored request, a refusal by
admission, or the execution of one of the five durable handlers. Receipts
(`Acknowledge`) have ids derived from their content, bypass admission and are not
charged. The reads of events and Welcomes return every page the row limit and the byte
limit could cut; the room index is returned whole, since no instance has the hundred
rooms after which it is cut. Only the physical part of admission (pages, write-ahead
log, disk space) is a nondeterministic refusal; the byte ledgers are exact. `told` is
a history variable with the settled results reported to clients. Message sizes are
abstracted to `Cost`, payload checks to `ValidBodies`, room names to a flag.

`RecoveryPages` has what `RelayDelivery` leaves open, the byte arithmetic of one
page: the check on an append that leaves 256 bytes, the loop that leaves 96, and
the encoded response against `MAX_PAYLOAD`, with the real constants.

### ClientEngine and GrottoSystem

`db[u]` is the durable database, `eng[u]` the engine's position (lost in a
crash), `wire[u]` the request in flight. Every action is one transaction or one
answer; it ends by sending the request the engine waits for next, since a crash
before that send is the same as a request that never arrives. `command`,
`complete`, `SaveWelcomes`/`ProcessWelcome`, `ReadIndex`/`ReceiveEvents`,
`ApplyOwn`/`ApplyOther` and the three `Build` actions follow the methods of
`Engine` of the same names and the loops of `synchronize`. `BuildRefused` is the
error of mls-rs on adding a user who is a member by now: it leaves the drive and
ends the program with the intent in place.

MLS is external. A group is the sequence of its epochs (the event that opened
each, the member it added) with a pending commit or none. A payload is named by
the message id it was built under, and `sealed` maps that id to the epochs it was
sealed in, the authenticated parent, and the text or the package. A group opens a
payload exactly in the epoch that sealed it; it can be blocked (later epoch or
unverified member) or rejected (anything else), as in `process_bound`. For an event
that would be both, which only a forged one can be, the order of the two checks is not
the code's. The checks whose failure ends the engine on something it reads or applies
have no action: `NoProtocolError` states that none of them fails. The
error of building an Add of a user who is a member by now is an action, `BuildRefused`.

`GrottoSystem` serves the request in flight in one relay transaction, loses it,
or refuses it; an answer to a client that is gone is lost.

### ClientStore

`ClientEngine` takes a transaction as one step; `ClientStore` opens it up.
`MlsSession::atomic` begins a transaction, runs an operation on a cached or loaded
group, lets mls-rs write the group through the storage provider, writes the
journal rows and commits. `work` is what the connection sees and `durable` what
is committed. Every statement may fail, SQLite may give the transaction up when
one does, COMMIT and ROLLBACK may fail, and the process may stop between any two
steps. After a failure `atomic` drops the cached groups; a rollback that fails
poisons the store. `AtomicStore` is what the engine relies on; the run checks the
refinement with `durable` as its tables.

### ClientStartup, RelayTrust and Handshake

`ClientStartup` follows `run_inner` up to the connect loop, for the running client
and the offline card commands on one database. The file lock admits one at a time,
but a program may stop at any step and leave the identity without MLS keys, or
both without the own contact. `verified`, `exported` and `accepted` record what
users were shown, so that the invariants can relate it to the tables for ever
after. A card may be of anyone, the client's own user included. `Verify` is what
the identity provider's `verify` accepts; its other methods, which refuse external
senders and successors with another credential, are not modelled.

`RelayTrust` has the files of the module `tls` on both sides. Relays that start together
create certificate and key with `create_new` and read what another has written;
a file is torn while it is written, and stays torn if the writer dies. Removing
the files (`Reset`) is the operator's and happens with the relays stopped.
Clients append pins under a lock; a line without its newline is refused by every
later read. TLS is external: a peer that presents a certificate is a relay that
has it.

`Handshake` exchanges version, hello, challenge, proof and verdict between client
programs and one relay, with enrollment between proof and verdict. `Programs` are
client programs with their identity, token and version; some have the same
identity or claim the same user. An end may leave at any point, with its last
message read or not. A signature is the key and the whole transcript that was signed
(version, user, key, challenge).

### RelaySession

A slot of `Conns` is a connection with its session task and its reader task;
`client[u]` is the client program of a user. Permits stand for the 2 MiB units of
the payload budget. The lease moves from the reader to the session, to the
database job, back with the answer, and is dropped after the reply. `Break` cuts
a connection on the client's side only: the relay may notice much later, since
idle connections send no heartbeat. `EndConnection` is every deadline, end of
stream or shutdown. What a request does to the repository is left to
`RelayDelivery`; here only "did it append?" matters, and it may always do either.
`register` enters the user in the registry and the channel in the table of
connections under two locks, and is one step here: a notice that falls between them
is lost in the code, and the client synchronizes after it is accepted anyway. A client
has one request in flight, as `Wire::request` has; a peer that sends frames ahead of
the answers is not modelled.

Eviction of a lagging connection in `notify` has no action: a notice is skipped
when one is queued, so the channel never fills.

### FrameLink, WireFormat and WireExchange

`FrameLink` is one direction of a connection. The stream delivers bytes in pieces
of any size and may end anywhere, between frames or inside one. The reader task
owns the frame under way and pushes whole messages into a bounded channel, or
the reason it stopped. Bytes and the big-endian length are modelled as they are. The
client also takes a closed channel for the end; the reader has always pushed a reason
before it closes, and the session ends on that.

`WireFormat` describes the fields of every message. The enums of the protocol have
hand-written tags, once in `serialize` and once in `deserialize`, and the number of
elements that `deserialize` declares; the module keeps the two apart. Structs and
options are derived, and the limits of lists are the decoder's. `WireExchange`
encodes every variant with every choice of options, codes and list lengths, cuts or
extends the bytes, and decodes. Numbers are one symbol each: the properties do not
depend on their width, and sizes in bytes are in `RecoveryPages`.

## Runs

A run plays one *part* or *scenario* at a time, chosen in its initial state. Parts
of a run share no state, so nothing is lost by not interleaving them; components
that do interact are composed (`GrottoSystem`, `RelaySession`). Sizes are those of
a two-worker run.

| Run | Instance | Distinct states | What it shows |
| --- | --- | ---: | --- |
| `relay_log` | `MCRelay`: log, packages, pages | 206,171 | stored results, logs, Welcomes and ledgers agree and nothing is taken back; no package is handed out twice, no hourly rate exceeded; an encoded page of events fits the payload cap |
| `race` | `MCGrotto`: race, adds | 460,705 | two members send at once, or add users at once: each text is logged once, both histories follow the log, and the loser's pending commit is discarded and rebuilt |
| `trust` | `MCGrotto`: trust, form, again | 283,036 | a commit that adds an unverified member blocks and resumes; a room is formed from nothing under failures; two members add the same user, who enters the roster once; refinement of `OrderedRooms` |
| `settle` | `MCGrottoLive`: unblock, invite | 119,751 | liveness: all commands carried out, all logs applied, and a blocked commit or Welcome taken up after the contact is imported |
| `sessions` | `MCSession` | 287,137 | one session per identity, permits conserved, no lost notice, no enrolled client refused |
| `sessions_live` | `MCTransport`: sessions, link | 124,014 | liveness: every request is answered or its connection ends, and a frame under way ends; messages arrive whole, in order and once, and the end is reported for what it was |
| `handshake` | `MCConnect`: handshake, wire, store | 685,993 | sessions are authentic, each refusal has its cause when it is sent, one token is spent per registration; what is decoded is what was encoded; the group cache is never ahead of the database, no ratchet generation is used twice; refinement of `AtomicStore` |
| `startup` | `MCStartup`: database, files | 301,557 | verified contacts are pinned and programs run on stored keys; relays that start together serve one identity, and all that was trusted is pinned, alone at its address |
| `drain` | `MCSession` | violated | the relay exits with admitted commands that never ran |
| `reconnect` | `MCSession` | violated | a client stops after a transient failure |
| `rebuild` | `MCGrottoLive`: rebuild | violated | an intent that lost its race can be neither built nor dropped |
| `welcome_pages` | `MCPages` | violated | a page of Welcomes exceeds the payload cap |

**Bounds and why they are enough.**

* *log*: two users, two rooms, two of the three message ids, parents 0 to 2 with
  `MaxSequence` 2, and a sender ledger of 3 that two appends with Welcomes exceed.
  This has stale, current and future parents, an id used by two senders and in two
  rooms, and every rejection.
* *packages*: three ids, one recipient, pool of two, `PairRate` 1, `TotalRate` 2. The
  pool and the sender's ledger run dry before `TotalRate` alone decides, so that
  limit is reached only together with `PairRate` (the theorem has no such bound).
* *pages*: the largest acceptable event, one too large, the largest without Welcome,
  the smallest, and one of which a hundred fill a page; a page starts after a position
  of 1, 3 or 9 bytes, the least and the most that a response can spend on it and the
  most after which the invitations still follow.
* Client scenarios: one room, three users (four in `race`, where two are added) and
  six identifiers per user, which no behaviour of the scripts exhausts before its
  commands are done. A scenario first executes its `setup` without failures and then
  the `free` commands with every interleaving of the two active clients and crashes
  anywhere. `deferrable` names the request kinds that may be refused temporarily;
  refusing receipts as well multiplies the states and is done in *form* only.
  *unblock* has one crash and *invite* two; the safety scenarios have no bound on
  crashes.
* *sessions*: two users, three connections, two permits, a queue of two; three
  connections are needed for a stale session, a refused one and another user's. With
  fairness, two connections, two permits and a queue of one: a reader may take the last
  permit of the budget and wait for its connection's own, which the previous request
  still has, while the other connection waits for the budget. No token expires in this
  run: a client that has sent a request needs none any more.
* *link*: three frames of one and two bytes, one of which holds bytes that could be
  read as part of a length, and a channel of one.
* *handshake*: two programs of one identity, one that claims its user with another key
  and a token of its own, one of an old version without token; two connections.
* *wire*: lists up to one beyond the limit of two.
* *store*: two rooms, one of them created here, and a cache of one, so that every
  second access evicts; two generations and one commit.
* *database*: two programs, one own identity, two cards of the same contact that
  differ, and two cards of the client's own user, its own or one with other keys,
  depending on the keys drawn. *files*: two relays, two clients, three addresses and room for two pins.

Message ids, the users and connections of `sessions`, and the processes, identities and
addresses of *files* are interchangeable (`SYMMETRY`); the runs with fairness use no symmetry.

**Fairness.** `settle` and `rebuild` assume that the client's loop and its
30 s timer run, that typed commands are read although the timer competes with them,
that the relay serves requests and notices broken connections, and that temporary
refusals do not last for ever (STORAGE.md: quota needs the operator). Crashes are
bounded by the scenario. The sessions of `sessions_live` assume that the database thread
and the session tasks run,
that each wait of the relay for its client has its deadline (handshake, frame and
write timeouts), and strong fairness where tokio gives turns: semaphores are first
come, first served, and `select!` picks ready branches at random. It does not use
the client's own 30 s timeout, and none for a session that waits for a permit or
for the database. The part *link* assumes that the reader task and the session run and that
the frame deadline fires; nothing of the writer or the transport.

`CHECK_DEADLOCK FALSE` is set where the modelled system may stop: programs that
have used up the identities to draw, an ended connection, a decoded message.

### Disagreements with the text

* `drain`: `run` returns when the sessions have ended and does not join the
  database thread; `worker.rs` says that admitted work is drained. What clients
  were told is not affected: an unanswered request is retried.
* `reconnect`: a client that dials again while the relay still holds its broken
  session is answered `AuthenticationFailed`, which `retryable` does not cover,
  and exits; SMOKE_TEST.md says that clients reconnect automatically after
  transient network failures.
* `rebuild`: two members add the same user. The loser's commit is to be rebuilt
  after synchronizing, but the user is a member by then: building fails, the error
  ends the program, and the intent is there again at every start and at every
  drive. `delivery.rs` says "synchronizing before rebuilding".
* `welcome_pages`: the loop counts rows that were encoded with cursor 0 and fills
  the cursors in afterwards, up to nine bytes more per row. With 64 invitations
  of 12 KiB and cursors of three bytes the response is larger than the cap;
  encoding fails, the session ends, and the client asks for the same page again.
  STORAGE.md says that pages fit the 768 KiB cap. Events are not affected
  (`EventPagesFit`): they are stored with their sequence number.

## Proofs

Each theorem holds for every value of the constants under the named assumption of
its module. `PROJECT.json` relates a theorem to the run that checks the same formula
on an instance; `SubscribersInvited`, `AcceptedIsRegistered`, `PageAdvances`,
`ExportedIsOwn`, `AcceptedIsPinned`, `NothingReplaced` and `OnePinPerAddress` are
proved and left out of the runs.

**`RelayDeliveryProofs`, `RelayPackageProofs`** (all users, rooms,
ids, requests, costs and limits; `ProtocolAssumption`, `LimitsAssumption`,
`RequestsAssumption`):

* `TypeCorrect`: `Spec => []TypeOK`. It includes that no ledger exceeds its limit,
  which follows from the check in `admit` before each charge.
* `OutcomeSettled`: `Spec => []OneOutcome`. `OneOutcome` speaks only of reported
  results and is not inductive; the strengthening is `ToldStored`, every reported
  result is the stored one, which holds because results are stored in the
  transaction that reports them and rows are never overwritten.
* `LogCorrect`: `Spec => [](AcceptedIffLogged /\ EventIdsUnique /\ WelcomeWithEvent
  /\ SubscribersInvited)`. The four are inductive together with `TypeOK` (`LogInv`).
  The argument reduces a step to its effect on the log: nothing, a room opened, or
  one accepted event. For the accepted event the new row, its place, its Welcome
  and the new subscriber are treated one by one, and everything older is kept.
  `EventsAreUnique`, `WelcomesHaveEvents` and `SubscribersAreInvited` name its parts.
* `NothingTakenBack`: `Spec => HistoryKept`, from `TypeOK` and the same three effects.
* `PackagesAreSingleUse`: `PackageAllocatedOnce` is inductive with
  `PackagesPublished`, that a package in the pool or handed out was accepted from
  its owner under its own id (`PackageInv`); a step publishes one package, hands
  one out, or leaves pool and grants alone.
* `RatesAreLimited`: the recent grants to a recipient, and those of a pair, change
  by at most one element, added only below the limit, or shrink as the hour passes.
* `LedgersMatch`: `Spec => []LedgerMatchesRequests`. A ledger is a sum over stored
  requests, and the prover has no induction to reason about a fold; the property
  says "the cardinality of the set of charged bytes", one element per byte and
  request, and a new request adds a set disjoint from the others. `LedgerInv` adds
  that finitely many requests are stored, each with a cost.

**`RelaySessionProofs`** (all clients, connections, limits; `SessionAssumption`). The
invariant `SInv` adds to the three properties: the records have their shape
(`Shape`); a connection's stage, its lease and its job go together (`Slots`); a
session that was told of an append has yet to notify (`Marked`); jobs in the queue
belong to the slots that wait for them, or to none (`Queue`); a refusal under way
is for an identity with a reason (`Refusals`). `PInv` adds for the permits that a
lease follows the position of its session (`Fine`) and that only a session that
waits for it has a command in the queue (`Delivers`): each action then moves one
permit between two of the four places. That part needs finitely many connections.
Theorems: `SessionsAreSingle`, `NoticesAreNotLost`, `EnrolledAreNotRefused`,
`PermitsAreConserved`.

**`HandshakeProofs`** (all programs, connections, users, keys, tokens;
`HandshakeAssumption`). `HInv` says of each connection which pairs of positions of
the two ends are possible, what the messages on the way and the database job may
say given the stored identities (`Linked`), that the registry is exact (`Registry`),
and that tokens are accounted for. Identities are never removed, so an answer of the
database stays true. `RefusedForCause` is an action property: a program that stopped
may have been refused for a session that is gone by now, so the cause is stated of
the step that sends the error, and for a missing token of the step in which the
database looks for it. That the client stops only with an error it was sent follows
from `Linked`, which rules out a message out of turn and a wrong signature; that a
refused program's user has a session on another connection follows from `Registry`.
Theorems: `SessionsCorrect`, `RefusalsCorrect`, `EnrollmentCorrect`,
`AcceptedAreRegistered`.

**`TrustProofs`**, start-up (`StartupAssumption`). `StartInv` adds to the properties what
each step of a program may rely on while it has the lock (`Stage`): the identity is
stored, its keys are the stored ones, the own contact is pinned, the card under way
has no pin yet. Theorems: `ContactsKeepTrust`, `CardsAreOwn`, `AcceptedArePinned`,
`ProgramsRunOnStoredKeys`, `NothingIsReplaced`.

**`TrustProofs`**, files (`TrustAssumption`). `RelayInv`: `create_new` leaves one maker of
the files, a key is there only with its certificate, and each process knows of the
files what its position says. `PinInv`: every line is a pin, and the holder of the
lock has seen the file as it is; that the pin of a trusted relay is alone at its
address follows from the two parts `TrustHasPin` and `OnePinPerAddress`. Theorems: `OneIdentity`, `PinsKeepTrust`,
`PinsAreUnique`.

**`StoreTablesProofs`, `ClientStoreProofs`** (all rooms, identifiers, cache limits, bounds on
epochs and generations; `TablesAssumption`, `StoreAssumption`). `Database` holds of
the committed tables: the rows have drawn identifiers; a group is there only for a room
entered; a room is asked for once and not after it was entered; at most one append waits
per room, and the group has an epoch left for a waiting commit; every generation that was
ever sent lies behind the group's ratchet and was used once. `OperationKeeps`
shows that a whole operation keeps it. `StoreInv` adds where an operation stands:
it has taken its steps in their order, `work` is `Applied(op, done, durable)` unless
SQLite gave the transaction up, and the cached group is the stored one or what
the library made of it. Theorems: `CacheFollows`, `GenerationsUnique`, and
`StoreRefines`, the refinement of `AtomicStore`: COMMIT is the one step that changes
`durable`, and what it writes is the whole operation applied to the tables that
the operation was allowed on.

**`TransportProofs`**, pages (records of every size; `PagesAssumption`). At most 155 bytes
come on top of an event's two bodies and 160 are left for them, so each acceptable event
fits an empty page; `PageInv` says that what the loop adds up is what the rows take.
Theorems: `EventPagesFit`, `PagesAdvance`.

**`TransportProofs`**, frames (all messages of 1 to `MAX_FRAME_SIZE` bytes, any number of
frames, any channel; `LinkAssumption`, where the frame limit is below 2^30 as in the code).
`LinkInv`: each byte in the stream or still to be sent is the one its frame has at
that place (`OnTheWay`); the buffer holds the first bytes of the frame after those
already handed over (`UnderWay`); taken messages, channel and the event about to
be pushed are successive frames, and an end is reported only at the boundary
of one (`HandedOver`). Where a frame ends in the stream is the cardinality of its
bytes and those before, for the same reason as with the ledgers. The length that the
reader computes is the one written (`BigEndianRoundTrip`). Theorem: `FramesInOrder`.

Only model-checked: the properties of `GrottoProps` and the refinement of `OrderedRooms`,
whose invariant spans the outbox, the engine, the request in flight and the log, and
whose model takes rows out of sequences with `SelectSeq`, of which the prover knows
nothing; `WireExchange`, whose encoder is recursive over data; all liveness, which
is out of reach of the prover.

## Not modelled

* Metrics and the entry points of the programs: nothing reads or follows from them.
* The configuration of mls-rs, rustls and SQLite, which are external; rustls's own
  check that key and certificate match (the model is weaker without it).
* Import of older client schemas; the client's local storage quota, which appears
  only as a refusal that may happen where it is asked.
* File modes, ownership, and directory entries that are not synchronized when a
  machine (not a process) stops.
* Argument parsing, terminal input and output, the text of cards and names.
* A panic of the database thread; the lengths of timeouts and delays.
* A dishonest relay or member.

## Plan

Done: the repository, the pages, the client engine and its store, start-up and
trust on both sides, handshake, sessions, framing and encoding, with proofs for
all of them but the client engine and the encoding. Next, in this order:

1. Compose: sessions with the repository's receipts of requests, so that the end
   of a session and the retry of its request meet in one model.
2. Prove: `PendingIsAttempt` and the safety part of `OrderedDelivery` for the
   clients, with the outbox as a function over positions.
3. Model: the client's local storage quota.
