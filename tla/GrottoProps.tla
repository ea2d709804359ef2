----------------------------- MODULE GrottoProps -----------------------------
(***************************************************************************)
(* Properties of the clients and the relay together.                       *)
(***************************************************************************)
EXTENDS GrottoSystem

Log(room) == delivery_events[room]
Commits(room, n) == {s \in 1..n : IsCommit(Log(room)[s].body)}

\* The epochs a room's log goes through up to its n-th event.
LogEpochs(room, n) ==
  LET opens(event) == IsCommit(event.body)
      commits == SelectSeq(SubSeq(Log(room), 1, n), opens)
  IN  <<[event |-> None, member |-> rooms[room]]>> \o
        [i \in DOMAIN commits |-> NextEpoch(commits[i].id)]

\* A client's MLS group is the one the relay's log defines up to the client's
\* cursor, whatever crashes, lost answers and lost races it went through, and
\* whether it created the room or joined it by a Welcome (apply_event,
\* process_welcomes).
GroupFollowsLog ==
  \A u \in Users, r \in Rooms :
    has_group(db[u], r) =>
      /\ db[u].cursors[r] <= HeadOf(r)
      /\ db[u].groups[r].epochs = LogEpochs(r, db[u].cursors[r])

\* No client passes over an event of another member: what one client sealed on
\* an accepted parent, every other can open (the Rejected arm of apply_event).
NoEventRejected ==
  \A u \in Users : \A row \in db[u].inbox : row.state # "rejected"

\* A pending commit is exactly an unresolved attempt to add a member, so that a
\* rebuild never finds a stale one (build_pending_add, discard_pending).
PendingIsAttempt ==
  \A u \in Users, r \in Rooms :
    has_group(db[u], r) =>
      LET pending == db[u].groups[r].pending
      IN  /\ pending # None => /\ db[u].intents[r] # None
                               /\ db[u].intents[r].attempt = pending
          /\ \A i \in DOMAIN db[u].outbox :
               (db[u].outbox[i].request.kind = "AppendRoomOperation"
                  /\ db[u].outbox[i].request.room = r /\ IsCommit(db[u].outbox[i].id))
                => pending = db[u].outbox[i].id

\* What a user asked for once is in a log at most once, although every attempt
\* may be retried after a lost answer and rebuilt after a lost race.
SentOnce ==
  \A r \in Rooms : \A s, t \in DOMAIN Log(r) :
    LET one == Log(r)[s]
        other == Log(r)[t]
    IN  (s # t /\ one.sender = other.sender) =>
          <<sealed[one.body].text, sealed[one.body].package>>
            # <<sealed[other.body].text, sealed[other.body].package>>

\* Where a client's view of a room starts: the event that added it, or 0.
Joined(u, r) ==
  LET adds == {s \in Commits(r, HeadOf(r)) : sealed[Log(r)[s].body].package.owner = u}
  IN  IF rooms[r] = u THEN 0 ELSE Min(adds)

Logged(r, s) ==
  Message(Log(r)[s].id, r, s, Log(r)[s].sender, sealed[Log(r)[s].body].text)

\* A client's history is the messages of the log from where it joined to its
\* cursor, each once and at its place, plus at most the text of the attempt it
\* has not yet resolved (record_plaintext, the HeadConflict arm of complete).
HistoryFollowsLog ==
  \A u \in Users, r \in Rooms :
    has_group(db[u], r) =>
      LET seen == (Joined(u, r) + 1)..db[u].cursors[r]
          texts == {Logged(r, s) : s \in seen \ Commits(r, HeadOf(r))}
          mine == {m \in db[u].history : m.room = r}
          attempted == {m \in mine : db[u].intents[r] # None /\ db[u].intents[r].attempt = m.id}
      IN  texts \subseteq mine /\ mine \subseteq texts \cup attempted

\* An invitation can be taken up: until it has joined, the recipient of a
\* Welcome holds the private key of the package it was made for.
WelcomeUsable ==
  \A c \in DOMAIN delivery_welcomes :
    LET row == delivery_welcomes[c]
    IN  \/ has_group(db[row.recipient], row.room)
        \/ sealed[row.event].package \in db[row.recipient].packages

\* The checks of what the engine reads and applies do not fail: its own events
\* still have their exact attempt, a reservation its intent, a build no stale
\* pending commit, a page starts at the cursor and is not empty, a head does not
\* regress, and an event stored earlier is the one the relay serves again.  (The
\* error of building an Add of a user who is a member by now is BuildRefused.)
NoProtocolError ==
  \A u \in Users :
    /\ At(u, "apply") =>
         LET event == eng[u].page[1]
             room == CurrentHead(u).room
         IN  /\ event.parent = db[u].cursors[room]
             /\ event.sender = u => OwnAttempt(u, event)
    /\ At(u, "build") => db[u].groups[BuildRoom(u)].pending = None
    /\ (wire[u] # None /\ wire[u].response # None) =>
         LET resp == wire[u].response
         IN  /\ resp.kind = "KeyPackage" => AttemptRooms(db[u], wire[u].id) # {}
             /\ resp.kind = "RoomEvents" => resp.events # << >>
             /\ resp.kind = "SyncIndex" =>
                  \A h \in resp.rooms : db[u].cursors[h.room] <= h.sequence
    /\ \A row \in db[u].inbox : /\ row.sequence <= HeadOf(row.room)
                                /\ Log(row.room)[row.sequence] = row.event

\* A user enters a room's roster at most once, although two members may add the
\* same user at the same time and each retries until its commit is accepted or
\* refused by MLS (build_attempts, the HeadConflict arm of complete).
AddedOnce ==
  \A r \in Rooms :
    LET epochs == LogEpochs(r, HeadOf(r))
    IN  \A i, j \in DOMAIN epochs : epochs[i].member = epochs[j].member => i = j

\* The relay never refuses for good an append of a client that holds the room's
\* group: the arm of complete for permanent rejections, which drops the intent
\* and would leave its text in the history, is not taken by members.
MemberNotRefused ==
  \A u \in Users :
    (wire[u] # None /\ wire[u].response # None
       /\ wire[u].request.kind = "AppendRoomOperation"
       /\ has_group(db[u], wire[u].request.room))
     => (wire[u].response.kind = "Rejected" => IsTemporary(wire[u].response))

Ordered == INSTANCE OrderedRooms WITH
  log <- [r \in Rooms |-> [s \in DOMAIN Log(r) |-> [id |-> Log(r)[s].id, sender |-> Log(r)[s].sender]]],
  seen <- [u \in Users |-> [r \in Rooms |-> IF has_group(db[u], r) THEN db[u].cursors[r] ELSE None]]

\* Clients and relay together implement totally ordered rooms: a member's event
\* enters a log only when its sender has applied the whole log, every event has
\* one place, and every member applies the log in order from where it joined.
OrderedDelivery == Ordered!Spec

=============================================================================
