------------------------------ MODULE MCGrotto ------------------------------
(***************************************************************************)
(* Small instances of GrottoSystem.  A run begins with one of its Cases:   *)
(* it first executes the commands of a setup one after the other, without  *)
(* failures, and then lets the active clients type their free commands at  *)
(* any time, with every interleaving and with a crash or lost connection   *)
(* at every step.                                                          *)
(***************************************************************************)
EXTENDS GrottoProps

CONSTANTS ann, bob, cat, dan, r1,
          Cases    \* names of scenarios

VARIABLE scenario  \* the one that is played

Create == [kind |-> "CreateRoom"]
Publish(n) == [kind |-> "PublishKeyPackages", count |-> n]
Grant(u) == [kind |-> "SetFetchGrant", requester |-> u, allowed |-> TRUE]
Add(u) == [kind |-> "AddToRoom", room |-> r1, target |-> u]
Send(n) == [kind |-> "SendRoomMessage", room |-> r1, text |-> n]
Import(u) == [kind |-> "ContactImport", contact |-> u]
Sync == [kind |-> "SyncWelcomes"]

MCIds == Users \X (1..MaxIds)
NoCost(req) == 0
Everyone == [u \in Users |-> Users]

\* What ann, bob and cat type.
Typed(a, b, c) ==
  [u \in Users |-> CASE u = ann -> a [] u = bob -> b [] u = cat -> c [] OTHER -> << >>]

\* The users whose clients run after the setup.
Active == {ann, bob}

\* ann creates the room and adds u, who joins.
Pair(u) == << <<ann, Create>>, <<u, Publish(1)>>, <<u, Grant(ann)>>, <<ann, Add(u)>>, <<u, Sync>> >>

\* Both members send.
Race ==
  [setup |-> Pair(bob), free |-> Typed(<<Send(1), Send(2)>>, <<Send(1)>>, << >>),
   known |-> Everyone, crashes |-> 0, deferrable |-> {"AppendRoomOperation"}]

\* The room is created and joined under failures.
Form ==
  [Race EXCEPT !.setup = << >>,
               !.free = Typed(<<Create, Add(bob)>>, <<Publish(1), Grant(ann), Send(1)>>, << >>),
               !.deferrable = {"CreateRoom", "ReserveKeyPackage", "AppendRoomOperation",
                               "Acknowledge"}]

\* ann adds cat while bob, who has not verified cat yet, sends.
Trust ==
  [Race EXCEPT !.setup = Pair(bob) \o << <<cat, Publish(1)>>, <<cat, Grant(ann)>> >>,
               !.free = Typed(<<Add(cat)>>, <<Send(1), Import(cat)>>, << >>),
               !.known = [u \in Users |-> IF u = ann THEN {bob, cat} ELSE {ann}]]

\* ann adds cat while bob adds dan.
Adds ==
  [Race EXCEPT !.setup = Pair(bob) \o << <<cat, Publish(1)>>, <<cat, Grant(ann)>>,
                                    <<dan, Publish(1)>>, <<dan, Grant(bob)>> >>,
               !.free = Typed(<<Add(cat)>>, <<Add(dan)>>, << >>)]

\* ann and bob both add cat, who has a package for each.
Again ==
  [Race EXCEPT !.setup = Pair(bob) \o << <<cat, Publish(2)>>, <<cat, Grant(ann)>>, <<cat, Grant(bob)>> >>,
               !.free = Typed(<<Add(cat)>>, <<Add(cat)>>, << >>)]

\* As Trust, with one crash and no refusals for want of room.
Unblock == [Trust EXCEPT !.crashes = 1, !.deferrable = {}]

\* ann adds bob, who has not verified the member cat yet, and sends; two crashes.
Invite ==
  [Unblock EXCEPT !.setup = Pair(cat) \o << <<bob, Publish(1)>>, <<bob, Grant(ann)>> >>,
                  !.free = Typed(<<Add(bob), Send(1)>>, <<Import(cat)>>, << >>),
                  !.crashes = 2]

\* As Again, with neither crashes nor refusals for want of room.
Rebuild == [Again EXCEPT !.deferrable = {}]

Scenarios ==
  [race |-> Race, form |-> Form, trust |-> Trust, adds |-> Adds, again |-> Again,
   unblock |-> Unblock, invite |-> Invite, rebuild |-> Rebuild]

SetupOf(s, u) ==
  LET own(step) == step[1] = u
      mine == SelectSeq(s.setup, own)
  IN  [i \in DOMAIN mine |-> mine[i][2]]
Start(s) ==
  [script |-> [u \in Users |-> SetupOf(s, u) \o s.free[u]], known |-> s.known]
MCStarts == {Start(Scenarios[c]) : c \in Cases}

Playing == Scenarios[scenario]
Untyped(u) == Len(script[u]) - Len(Playing.free[u])
Remaining == {i \in DOMAIN Playing.setup : \E u \in Users :
                /\ Playing.setup[i][1] = u
                /\ Cardinality({j \in i..Len(Playing.setup) : Playing.setup[j][1] = u}) <= Untyped(u)}
Quiet == \A u \in Users : At(u, "idle")
InSetup ==
  Playing.setup # << >> /\ (Remaining # {} \/ ~Quiet) /\ \A u \in Users : Untyped(u) >= 0

SetupNext ==
  \E u \in Users :
    \/ Connect(u) /\ UNCHANGED vars
    \/ /\ Quiet /\ Remaining # {} /\ u = Playing.setup[Min(Remaining)][1]
       /\ command(u) /\ UNCHANGED vars
    \/ drive(u) /\ UNCHANGED vars
    \/ Serve(u) /\ wire'[u].response.kind # "Rejected"

Overloads(u) ==
  wire'[u] # wire[u] /\ wire'[u] # None /\ wire'[u].response = Rejected("Overloaded")

FreeNext ==
  /\ SystemNext
  /\ \A u \in Users \ Active : UNCHANGED <<eng[u], wire[u]>>
  /\ \A u \in Users : Overloads(u) => wire[u].request.kind \in Playing.deferrable

MCInit ==
  /\ scenario \in Cases /\ SystemInit
  /\ script = Start(Playing).script /\ \A u \in Users : db[u].contacts = Playing.known[u]
MCNext == (IF InSetup THEN SetupNext ELSE FreeNext) /\ UNCHANGED scenario
MCSpec == MCInit /\ [][MCNext]_<<systemVars, scenario>>

=============================================================================
