---------------------------- MODULE ClientEngine ----------------------------
(***************************************************************************)
(* The client's delivery engine (grotto-client, delivery.rs) over its      *)
(* durable store and its MLS groups.  A step is one transaction of the     *)
(* store, or one answer taken from the connection, so that a crash can     *)
(* fall between any two transactions.  A step ends by sending the request  *)
(* the engine waits for next: a crash before the send is the same as a     *)
(* request that never arrives.                                             *)
(*                                                                         *)
(* MLS is external.  A group is the sequence of its epochs, each with the  *)
(* event that opened it and the member it added; a sealed payload can be   *)
(* opened by a group in exactly the epoch that sealed it.                  *)
(***************************************************************************)
EXTENDS Protocol, SequencesExt

CONSTANTS
  Starts,     \* how it may begin: what users will type (script) and whom they
              \* have verified (known), each a function of the user
  MaxIds,     \* bound on the identifiers one user draws
  MaxRounds   \* resolve-synchronize-build rounds of one drive (4)

VARIABLES
  db,      \* user -> the client's database
  eng,     \* user -> where the engine is; lost in a crash
  wire,    \* user -> the request in flight and its response, or None
  script,  \* user -> commands not typed yet
  sealed   \* what MLS sealed into the payload built under an identifier

clientVars == <<db, eng, wire, script, sealed>>

(***************************************************************************)
(* The engine between two steps.  It is resolving its outbox, waiting for  *)
(* a recovery page, working through one, or idle.                          *)
(***************************************************************************)
Idle == [pc |-> "idle", round |-> 0, queue |-> << >>, after |-> 0, index |-> {},
         page |-> << >>, build |-> {}]
Off == [Idle EXCEPT !.pc = "off"]
At(u, pc) == eng[u].pc = pc

\* The request sent on entering a state of the engine.
Asks(d, e) ==
  LET read(req) == [id |-> None, request |-> req, response |-> None]
      head == CHOOSE h \in e.index : TRUE
  IN  CASE e.pc = "resolve" -> [id |-> e.queue[1].id, request |-> e.queue[1].request,
                                response |-> None]
        [] e.pc = "welcomes" -> read([kind |-> "FetchWelcomes", after |-> d.welcome_cursor])
        [] e.pc = "index" -> read([kind |-> "SyncIndex"])
        [] e.pc = "events" -> read([kind |-> "FetchRoomEvents", room |-> head.room,
                                    after |-> d.cursors[head.room]])
        [] OTHER -> None

Step(u, d, e) ==
  /\ db' = [db EXCEPT ![u] = d]
  /\ eng' = [eng EXCEPT ![u] = e]
  /\ wire' = [wire EXCEPT ![u] = Asks(d, e)]

\* Start of a round: every outbox entry is sent again, in row order.
Resolve(d, round) ==
  [Idle EXCEPT !.pc = IF d.outbox = << >> THEN "welcomes" ELSE "resolve",
               !.round = round, !.queue = d.outbox]

Advance(e) ==
  [e EXCEPT !.pc = IF Len(e.queue) = 1 THEN "welcomes" ELSE "resolve",
            !.queue = Tail(@)]

(***************************************************************************)
(* Queries on the database d of a client.                                  *)
(***************************************************************************)
Verified(u) == db[u].contacts \cup {u}
roster(epochs) == {epochs[i].member : i \in DOMAIN epochs}
NewId(u) == <<u, db[u].drawn + 1>>
Draws(u) == db[u].drawn < MaxIds

Received(d, id) == \E row \in d.inbox : row.event.id = id

\* Mutant of unresolved: an accepted attempt counts until it is applied.
unresolvedUntilApplied(d, room) ==
  LET intent == d.intents[room]
  IN  intent # None /\ \E i \in DOMAIN d.outbox : d.outbox[i].id = intent.attempt

\* The room's attempt is journalled and its outcome not yet known.
unresolved(d, room) ==
  LET intent == d.intents[room]
  IN  /\ intent # None
      /\ \E i \in DOMAIN d.outbox : d.outbox[i].id = intent.attempt
      /\ ~Received(d, intent.attempt)

has_group(d, room) == d.groups[room] # None

\* Rooms whose intent build_attempts turns into a request.
Buildable(d) ==
  {r \in Rooms : /\ d.intents[r] # None
                 /\ d.intents[r].attempt = None
                 /\ has_group(d, r)
                 /\ ~\E row \in d.inbox : row.room = r /\ row.sequence > d.cursors[r]}

journal(d, id, req) == [d EXCEPT !.outbox = Append(@, [id |-> id, request |-> req])]
remove_outbox(d, id) ==
  LET others(entry) == entry.id # id IN [d EXCEPT !.outbox = SelectSeq(@, others)]

acknowledgement(u, what, which) ==
  [id |-> <<u, what, which>>, request |-> [kind |-> "Acknowledge", what |-> what, which |-> which]]
journal_acknowledgement(d, u, what, which) ==
  [d EXCEPT !.outbox = Append(@, acknowledgement(u, what, which))]

(***************************************************************************)
(* Connections.  A lost connection and a crash both leave the database as  *)
(* it is and forget everything else; a request in flight may still arrive. *)
(***************************************************************************)
Connect(u) ==
  /\ At(u, "off") /\ wire[u] = None
  /\ Step(u, db[u], Resolve(db[u], 1))
  /\ UNCHANGED <<script, sealed>>

Disconnect(u) ==
  /\ ~At(u, "off")
  /\ eng' = [eng EXCEPT ![u] = Off]
  /\ wire' = [wire EXCEPT ![u] = IF @ # None /\ @.response = None THEN @ ELSE None]
  /\ UNCHANGED <<db, script, sealed>>

\* The 30 s timer, or a DeliveryChanged notice, starts a drive.
Wake(u) ==
  /\ At(u, "idle")
  /\ Step(u, db[u], Resolve(db[u], 1))
  /\ UNCHANGED <<script, sealed>>

(***************************************************************************)
(* Engine::command.  A rejected command changes nothing; a drive follows   *)
(* either way.                                                             *)
(***************************************************************************)
Types(u, kind) ==
  /\ At(u, "idle") /\ script[u] # << >> /\ Head(script[u]).kind = kind
  /\ script' = [script EXCEPT ![u] = Tail(@)]
  /\ UNCHANGED sealed

Journals(u, req) ==
  LET d == journal([db[u] EXCEPT !.drawn = @ + 1], NewId(u), req)
  IN  Draws(u) /\ Step(u, d, Resolve(d, 1))

CommandCreateRoom(u) ==
  /\ Types(u, "CreateRoom")
  /\ Journals(u, [kind |-> "CreateRoom", valid |-> TRUE])

\* Mutant of CommandPublishKeyPackages: the private keys are stored on success only.
PublishWithoutKeys(u) ==
  /\ Types(u, "PublishKeyPackages")
  /\ Journals(u, [kind |-> "PublishKeyPackages", count |-> 1])

\* The private keys and the request are one transaction.
CommandPublishKeyPackages(u) ==
  LET fresh == {[owner |-> u, id |-> NewId(u), k |-> k] : k \in 1..Head(script[u]).count}
      d == journal([db[u] EXCEPT !.drawn = @ + 1, !.packages = @ \cup fresh], NewId(u),
                   [kind |-> "PublishKeyPackages", count |-> Head(script[u]).count])
  IN  /\ Types(u, "PublishKeyPackages")
      /\ Draws(u)
      /\ Step(u, d, Resolve(d, 1))

CommandSetFetchGrant(u) ==
  LET requester == Head(script[u]).requester
  IN  /\ Types(u, "SetFetchGrant")
      /\ IF requester \in Verified(u)
           THEN Journals(u, [kind |-> "SetFetchGrant", requester |-> requester,
                             allowed |-> Head(script[u]).allowed])
           ELSE Step(u, db[u], Resolve(db[u], 1))

\* The schema allows one intent per room.
intent(d, room, row) ==
  IF has_group(d, room) /\ d.intents[room] = None
    THEN [d EXCEPT !.intents[room] = row]
    ELSE d

CommandAddToRoom(u) ==
  LET cmd == Head(script[u])
      row == [target |-> cmd.target, text |-> None, package |-> None, attempt |-> None]
      d == IF cmd.target \in Verified(u) THEN intent(db[u], cmd.room, row) ELSE db[u]
  IN  Types(u, "AddToRoom") /\ Step(u, d, Resolve(d, 1))

CommandSendRoomMessage(u) ==
  LET cmd == Head(script[u])
      row == [target |-> None, text |-> cmd.text, package |-> None, attempt |-> None]
      d == intent(db[u], cmd.room, row)
  IN  Types(u, "SendRoomMessage") /\ Step(u, d, Resolve(d, 1))

CommandContactImport(u) ==
  LET d == [db[u] EXCEPT !.contacts = @ \cup {Head(script[u]).contact}]
  IN  Types(u, "ContactImport") /\ Step(u, d, Resolve(d, 1))

CommandSyncWelcomes(u) ==
  Types(u, "SyncWelcomes") /\ Step(u, db[u], Resolve(db[u], 1))

command(u) ==
  \/ CommandCreateRoom(u)
  \/ CommandPublishKeyPackages(u)
  \/ CommandSetFetchGrant(u)
  \/ CommandAddToRoom(u)
  \/ CommandSendRoomMessage(u)
  \/ CommandContactImport(u)
  \/ CommandSyncWelcomes(u)

(***************************************************************************)
(* Engine::complete, one action per arm.                                   *)
(***************************************************************************)
\* The response answers the entry the engine is resolving.
Answered(u, kind) ==
  /\ At(u, "resolve") /\ wire[u].response # None
  /\ wire[u].response.kind = kind
  /\ UNCHANGED <<script, sealed>>

Entry(u) == eng[u].queue[1]
Completed(u, d) == Step(u, remove_outbox(d, Entry(u).id), Advance(eng[u]))

NewGroup(u) == [epochs |-> <<[event |-> None, member |-> u]>>, pending |-> None]

CompleteCreateRoom(u) ==
  LET room == wire[u].response.room
  IN  /\ Answered(u, "RoomCreated")
      /\ Completed(u, [db[u] EXCEPT !.groups[room] = IF @ = None THEN NewGroup(u) ELSE @])

CompletePublish(u) == Answered(u, "KeyPackagesPublished") /\ Completed(u, db[u])
CompleteGrant(u) == Answered(u, "FetchGrantSet") /\ Completed(u, db[u])
CompleteAcknowledge(u) == Answered(u, "Acknowledged") /\ Completed(u, db[u])

AttemptRooms(d, id) == {r \in Rooms : d.intents[r] # None /\ d.intents[r].attempt = id}
WithIntents(d, rs, f(_)) ==
  [d EXCEPT !.intents = [r \in Rooms |-> IF r \in rs THEN f(@[r]) ELSE @[r]]]

\* The package is kept with the intent, to be used by every rebuild.
CompleteReserve(u) ==
  LET rs == AttemptRooms(db[u], Entry(u).id)
      reserved(row) == [row EXCEPT !.package = wire[u].response.package, !.attempt = None]
  IN  /\ Answered(u, "KeyPackage")
      /\ Completed(u, WithIntents(db[u], rs, reserved))

EventRow(room, sequence, event) ==
  [room |-> room, sequence |-> sequence, event |-> event, state |-> "received"]

\* Inserts unless the event is already there.
receive(d, room, sequence, event) ==
  IF \E row \in d.inbox : row.event.id = event.id \/ (row.room = room /\ row.sequence = sequence)
    THEN d
    ELSE [d EXCEPT !.inbox = @ \cup {EventRow(room, sequence, event)}]

EventOf(u, entry) ==
  [id |-> entry.id, sender |-> u, parent |-> entry.request.parent,
   body |-> entry.request.body, welcome |-> entry.request.welcome]

\* Mutant of CompleteAccepted: the outbox entry is removed on acceptance.
AcceptedRemoves(u) ==
  LET d == receive(db[u], Entry(u).request.room, wire[u].response.sequence,
                   EventOf(u, Entry(u)))
  IN  Answered(u, "AppendAccepted") /\ Completed(u, d)

\* Acceptance only records the event; synchronization applies it in order.
CompleteAccepted(u) ==
  LET d == receive(db[u], Entry(u).request.room, wire[u].response.sequence,
                   EventOf(u, Entry(u)))
  IN  /\ Answered(u, "AppendAccepted")
      /\ Step(u, d, Advance(eng[u]))

IsCommit(id) == sealed[id] # None /\ sealed[id].package # None
discard_pending(d, id, room) ==
  IF IsCommit(id) THEN [d EXCEPT !.groups[room].pending = None] ELSE d

\* Mutant of CompleteConflict: the pending commit is not discarded.
ConflictKeepsPending(u) ==
  LET id == Entry(u).id
      rebuilt(row) == [row EXCEPT !.attempt = None]
      d == [db[u] EXCEPT !.history = {m \in @ : m.id # id}]
  IN  /\ Answered(u, "HeadConflict")
      /\ Completed(u, WithIntents(d, AttemptRooms(d, id), rebuilt))

\* Mutant of CompleteConflict: the recorded plaintext stays.
ConflictKeepsHistory(u) ==
  LET id == Entry(u).id
      rebuilt(row) == [row EXCEPT !.attempt = None]
      d == discard_pending(db[u], id, Entry(u).request.room)
  IN  /\ Answered(u, "HeadConflict")
      /\ Completed(u, WithIntents(d, AttemptRooms(d, id), rebuilt))

\* A lost race: the attempt is withdrawn and the intent kept for a rebuild.
CompleteConflict(u) ==
  LET id == Entry(u).id
      rebuilt(row) == [row EXCEPT !.attempt = None]
      d == [discard_pending(db[u], id, Entry(u).request.room)
              EXCEPT !.history = {m \in @ : m.id # id}]
  IN  /\ Answered(u, "HeadConflict")
      /\ Completed(u, WithIntents(d, AttemptRooms(d, id), rebuilt))

\* A temporary rejection keeps the entry for an exact retry in a later round.
CompleteTemporary(u) ==
  /\ Answered(u, "Rejected") /\ IsTemporary(wire[u].response)
  /\ Step(u, db[u], Advance(eng[u]))

\* Any other rejection gives the intent up.
CompleteRejected(u) ==
  LET id == Entry(u).id
      d == IF Entry(u).request.kind = "AppendRoomOperation"
             THEN discard_pending(db[u], id, Entry(u).request.room)
             ELSE db[u]
      dropped(row) == None
  IN  /\ Answered(u, "Rejected") /\ ~IsTemporary(wire[u].response)
      /\ Completed(u, WithIntents(d, AttemptRooms(d, id), dropped))

complete(u) ==
  \/ CompleteCreateRoom(u)
  \/ CompletePublish(u)
  \/ CompleteGrant(u)
  \/ CompleteReserve(u)
  \/ CompleteAccepted(u)
  \/ CompleteConflict(u)
  \/ CompleteTemporary(u)
  \/ CompleteRejected(u)
  \/ CompleteAcknowledge(u)

(***************************************************************************)
(* Engine::synchronize and process_welcomes.                               *)
(***************************************************************************)
Page(u, pc) ==
  /\ At(u, pc) /\ wire[u].response # None
  /\ UNCHANGED <<script, sealed>>

\* Welcome rows still to be tried, after a cursor.
Untried(d, after) ==
  {w \in d.welcome_inbox : w.cursor > after /\ w.state \in {"received", "blocked"}}

TryWelcomes(d, e, after) ==
  IF Untried(d, after) = {}
    THEN [e EXCEPT !.pc = "index", !.after = 0]
    ELSE [e EXCEPT !.pc = "join", !.after = after]

\* The rows of a page and the cursor are one transaction.
SaveWelcomes(u) ==
  LET page == wire[u].response.welcomes
      d == [db[u] EXCEPT !.welcome_inbox = @ \cup page,
                         !.welcome_cursor = Max({@} \cup {w.cursor : w \in page})]
  IN  /\ Page(u, "welcomes")
      /\ Step(u, d, IF wire[u].response.more THEN eng[u] ELSE TryWelcomes(d, eng[u], 0))

\* Member verification, possession of the package's private key, and no group yet.
Joinable(u, w) ==
  LET content == sealed[w.event]
  IN  /\ w.inviter \in Verified(u)
      /\ ~has_group(db[u], w.room)
      /\ content.package \in db[u].packages
      /\ roster(content.base) \subseteq Verified(u)
      /\ w.inviter \in roster(content.base)

\* The group starts in the epoch the Welcome's commit opened, and the cursor at
\* its event.  MLS deletes the private key of the package when it stores the group.
join(u, w) ==
  LET epochs == Append(sealed[w.event].base, [event |-> w.event, member |-> u])
  IN  [db[u] EXCEPT !.groups[w.room] = [epochs |-> epochs, pending |-> None],
                    !.packages = @ \ {sealed[w.event].package},
                    !.cursors[w.room] = w.sequence]

WelcomeState(d, w, state) ==
  [d EXCEPT !.welcome_inbox = (@ \ {w}) \cup {[w EXCEPT !.state = state]}]

ProcessWelcome(u) ==
  \E w \in Untried(db[u], eng[u].after) :
    /\ At(u, "join")
    /\ \A v \in Untried(db[u], eng[u].after) : w.cursor <= v.cursor
    /\ LET d == IF Joinable(u, w)
                  THEN journal_acknowledgement(WelcomeState(join(u, w), w, "applied"),
                                               u, "welcome", w.cursor)
                  ELSE WelcomeState(db[u], w, "blocked")
       IN  Step(u, d, TryWelcomes(d, eng[u], w.cursor))
    /\ UNCHANGED <<script, sealed>>

\* After the last room, the intents without an attempt are built.
NextRoom(d, e, heads) ==
  IF heads # {}
    THEN [e EXCEPT !.pc = "events", !.index = heads, !.page = << >>]
    ELSE IF Buildable(d) = {}
      THEN Idle
      ELSE [Idle EXCEPT !.pc = "build", !.round = e.round, !.build = Buildable(d)]

\* Rooms with an unresolved attempt or without a group are skipped.
Behind(d, heads) ==
  {h \in heads : ~unresolved(d, h.room) /\ has_group(d, h.room)
                 /\ d.cursors[h.room] < h.sequence}

ReadIndex(u) ==
  /\ Page(u, "index")
  /\ Step(u, db[u], NextRoom(db[u], eng[u], Behind(db[u], wire[u].response.rooms)))

CurrentHead(u) == CHOOSE h \in eng[u].index : TRUE

\* The events of a page are stored one by one before the first is applied; a
\* crash in between keeps the first n of them.
ReceiveEvents(u) ==
  LET room == CurrentHead(u).room
      page == wire[u].response.events
      upTo[n \in 0..Len(page)] ==
        IF n = 0 THEN db[u] ELSE receive(upTo[n - 1], room, db[u].cursors[room] + n, page[n])
  IN  /\ Page(u, "events")
      /\ \/ Step(u, upTo[Len(page)], [eng[u] EXCEPT !.pc = "apply", !.page = page])
         \/ \E n \in 1..(Len(page) - 1) : Step(u, upTo[n], Off)

(***************************************************************************)
(* Engine::apply_event, one transaction per event.                         *)
(***************************************************************************)
Message(id, room, sequence, author, text) ==
  [id |-> id, room |-> room, sequence |-> sequence, author |-> author, text |-> text]

EventState(d, event, state) ==
  [d EXCEPT !.inbox = {IF row.event = event THEN [row EXCEPT !.state = state] ELSE row : row \in @}]

finish_event(d, u, room, event, state) ==
  journal_acknowledgement([EventState(d, event, state) EXCEPT !.cursors[room] = event.parent + 1],
                          u, "event", event.id)

\* The epoch that a commit opens.
NextEpoch(id) == [event |-> id, member |-> sealed[id].package.owner]
WithEpoch(d, room, id) ==
  [d EXCEPT !.groups[room] = [epochs |-> Append(@.epochs, NextEpoch(id)), pending |-> None]]

\* Where the engine goes after an event: the page, the room, the next room.
AfterEvent(u, d, page) ==
  LET head == CurrentHead(u)
  IN  IF page # << >>
        THEN [eng[u] EXCEPT !.page = page]
        ELSE IF d.cursors[head.room] < head.sequence
          THEN [eng[u] EXCEPT !.pc = "events", !.page = << >>]
          ELSE NextRoom(d, eng[u], eng[u].index \ {head})

\* The exact attempt behind an own event is still in the outbox.
OwnAttempt(u, event) ==
  \E i \in DOMAIN db[u].outbox :
    /\ db[u].outbox[i].id = event.id
    /\ EventOf(u, db[u].outbox[i]) = event

\* Mutant of AppliedOwn: the intent to send a text outlives its event.
AppliedKeepsIntent(u, room, id) ==
  LET d == IF IsCommit(id) THEN WithEpoch(db[u], room, id) ELSE db[u]
      kept(row) == IF row.text = None THEN None ELSE [row EXCEPT !.attempt = None]
  IN  remove_outbox(WithIntents(d, AttemptRooms(d, id), kept), id)

AppliedOwn(u, room, id) ==
  LET d == IF IsCommit(id) THEN WithEpoch(db[u], room, id) ELSE db[u]
      dropped(row) == None
  IN  remove_outbox(WithIntents(d, AttemptRooms(d, id), dropped), id)

ApplyOwn(u) ==
  LET room == CurrentHead(u).room
      event == eng[u].page[1]
      d == finish_event(AppliedOwn(u, room, event.id), u, room, event, "applied")
  IN  /\ At(u, "apply") /\ event.sender = u
      /\ OwnAttempt(u, event)
      /\ Step(u, d, AfterEvent(u, d, Tail(eng[u].page)))
      /\ UNCHANGED <<script, sealed>>

\* The verdict of MLS and of the identity checks on another member's event.
process_bound(u, room, event) ==
  LET content == sealed[event.body]
      epochs == db[u].groups[room].epochs
  IN  IF Len(content.base) > Len(epochs) THEN "blocked"
      ELSE IF \/ content.base # epochs
              \/ event.id # event.body \/ event.parent # content.parent
              \/ event.sender \notin roster(epochs)
        THEN "rejected"
      ELSE IF content.package # None /\ content.package.owner \notin Verified(u)
        THEN "blocked"
      ELSE "applied"

\* Mutant of Processed: a blocked commit changes the group all the same.
ProcessedBlocked(u, room, event, verdict) ==
  LET content == sealed[event.body]
  IN  IF verdict = "rejected" THEN db[u]
      ELSE IF content.package # None THEN WithEpoch(db[u], room, event.id)
      ELSE [db[u] EXCEPT !.history =
              @ \cup {Message(event.id, room, event.parent + 1, event.sender, content.text)}]

\* What an event does to the group and the history.
Processed(u, room, event, verdict) ==
  LET content == sealed[event.body]
  IN  IF verdict # "applied" THEN db[u]
      ELSE IF content.package # None THEN WithEpoch(db[u], room, event.id)
      ELSE [db[u] EXCEPT !.history =
              @ \cup {Message(event.id, room, event.parent + 1, event.sender, content.text)}]

\* A rejected event is passed over; a blocked one stops the room.
ApplyOther(u) ==
  LET room == CurrentHead(u).room
      event == eng[u].page[1]
      verdict == process_bound(u, room, event)
      processed == Processed(u, room, event, verdict)
      blocked == EventState(processed, event, "blocked")
      d == finish_event(processed, u, room, event, verdict)
  IN  /\ At(u, "apply") /\ event.sender # u
      /\ IF verdict = "blocked"
           THEN Step(u, blocked, NextRoom(blocked, eng[u], eng[u].index \ {CurrentHead(u)}))
           ELSE Step(u, d, AfterEvent(u, d, Tail(eng[u].page)))
      /\ UNCHANGED <<script, sealed>>

(***************************************************************************)
(* Engine::build_attempts, one transaction per intent.                     *)
(***************************************************************************)
\* The request, the attempt and the MLS state are stored together.
Builds(u, room, d, req) ==
  LET id == NewId(u)
      next == journal([d EXCEPT !.drawn = @ + 1, !.intents[room].attempt = id], id, req)
      rest == eng[u].build \ {room}
  IN  /\ Draws(u)
      /\ Step(u, next,
              IF rest # {} THEN [eng[u] EXCEPT !.build = rest]
              ELSE IF eng[u].round < MaxRounds THEN Resolve(next, eng[u].round + 1)
              ELSE Idle)
      /\ UNCHANGED script

BuildRoom(u) == CHOOSE r \in eng[u].build : TRUE

BuildReserve(u) ==
  LET row == db[u].intents[BuildRoom(u)]
  IN  /\ At(u, "build") /\ row.target # None /\ row.package = None
      /\ Builds(u, BuildRoom(u), db[u], [kind |-> "ReserveKeyPackage", recipient |-> row.target])
      /\ UNCHANGED sealed

Operation(u, room, welcome) ==
  [kind |-> "AppendRoomOperation", room |-> room, parent |-> db[u].cursors[room],
   body |-> NewId(u), welcome |-> welcome]

Seal(u, room, package, text) ==
  sealed' = [sealed EXCEPT ![NewId(u)] =
    [base |-> db[u].groups[room].epochs, parent |-> db[u].cursors[room],
     package |-> package, text |-> text]]

\* Mutant of BuildCommit: the commit is applied before it is accepted.
BuildCommitEager(u) ==
  LET room == BuildRoom(u)
      row == db[u].intents[room]
      epochs == db[u].groups[room].epochs
      next == [event |-> NewId(u), member |-> row.target]
  IN  /\ At(u, "build") /\ row.package # None
      /\ row.target \notin roster(epochs)
      /\ Builds(u, room, [db[u] EXCEPT !.groups[room].epochs = Append(@, next)],
                Operation(u, room, row.target))
      /\ Seal(u, room, row.package, None)

\* MLS adds a member once, and refuses to build while a commit is pending.
BuildCommit(u) ==
  LET room == BuildRoom(u)
      row == db[u].intents[room]
      group == db[u].groups[room]
  IN  /\ At(u, "build") /\ row.package # None
      /\ group.pending = None /\ row.target \notin roster(group.epochs)
      /\ Builds(u, room, [db[u] EXCEPT !.groups[room].pending = NewId(u)],
                Operation(u, room, row.target))
      /\ Seal(u, room, row.package, None)

\* mls-rs does not build a commit that adds a member again.  The error is not a
\* transport failure: the program ends, its intent stays in the database, and
\* whoever starts the program again meets it again.
Refuses(u) ==
  /\ At(u, "build") /\ db[u].intents[BuildRoom(u)].package # None
  /\ db[u].intents[BuildRoom(u)].target \in roster(db[u].groups[BuildRoom(u)].epochs)
BuildRefused(u) ==
  /\ Refuses(u)
  /\ eng' = [eng EXCEPT ![u] = Off]
  /\ UNCHANGED <<db, wire, script, sealed>>

\* The plaintext is recorded at the sequence the attempt aims at.
BuildApplication(u) ==
  LET room == BuildRoom(u)
      row == db[u].intents[room]
      sent == Message(NewId(u), room, db[u].cursors[room] + 1, u, row.text)
  IN  /\ At(u, "build") /\ row.target = None
      /\ db[u].groups[room].pending = None
      /\ Builds(u, room, [db[u] EXCEPT !.history = @ \cup {sent}], Operation(u, room, None))
      /\ Seal(u, room, None, row.text)

(***************************************************************************)
(* All steps of one client.                                                *)
(***************************************************************************)
drive(u) ==
  \/ complete(u)
  \/ SaveWelcomes(u)
  \/ ProcessWelcome(u)
  \/ ReadIndex(u)
  \/ ReceiveEvents(u)
  \/ ApplyOwn(u)
  \/ ApplyOther(u)
  \/ BuildReserve(u)
  \/ BuildCommit(u)
  \/ BuildRefused(u)
  \/ BuildApplication(u)

NewClient(verified) ==
  [outbox |-> << >>, intents |-> [r \in Rooms |-> None], inbox |-> {},
   cursors |-> [r \in Rooms |-> 0], groups |-> [r \in Rooms |-> None], history |-> {},
   welcome_inbox |-> {}, welcome_cursor |-> 0, packages |-> {}, contacts |-> verified,
   drawn |-> 0]

ClientInit ==
  /\ \E start \in Starts :
       script = start.script /\ db = [u \in Users |-> NewClient(start.known[u])]
  /\ eng = [u \in Users |-> Off]
  /\ wire = [u \in Users |-> None]
  /\ sealed = [i \in Ids |-> None]

=============================================================================
