----------------------------- MODULE TrustProofs ------------------------------
(***************************************************************************)
(* Trust on first use, for any number of programs, relays, keys, contacts  *)
(* and addresses.                                                          *)
(*                                                                         *)
(* ClientStartup: no step replaces an identity or a pin (NothingIsReplaced),*)
(* and everything that was shown, reported or accepted agrees with the     *)
(* database for ever (ContactsKeepTrust).                                  *)
(*                                                                         *)
(* RelayTrust: there is one identity until it is removed (OneIdentity), and*)
(* whatever the pin file admitted is pinned, once (PinsKeepTrust).         *)
(***************************************************************************)
EXTENDS ClientStartup, RelayTrust, TLAPS

(***************************************************************************)
(* The client's database.                                                  *)
(***************************************************************************)
\* What holds of a program at each of its steps, while it has the lock.
Importing == {"check", "admit", "insert"}
Ready == {"run", "export", "import"}
Stage(p) ==
  LET w == proc[p]
  IN  /\ w.at # "off" => holder = p /\ w.mode \in Modes
      /\ w.at \notin {"off", "identity"} => transport # None
      /\ w.at = "save" => w.keys \in Keys
      /\ w.at \in {"own"} \cup Importing \cup Ready => mls # None /\ w.keys = mls
      /\ w.at \in Importing /\ w.whose = "own" => w.card = OwnCard
      /\ w.at \in Importing /\ w.whose # "own" =>
           w.card \in Cards /\ contacts[transport.user] = OwnCard
      /\ w.at \in {"admit", "insert"} => contacts[w.card.user] = None
      /\ w.at \in Ready => contacts[transport.user] = OwnCard

StartInv ==
  /\ StartupTypeOK /\ \A p \in Procs : Stage(p)
  /\ VerifiedIsPinned /\ ExportedIsOwn /\ AcceptedIsPinned

\* The step of NothingReplaced.
Kept ==
  /\ \A u \in People : contacts[u] # None => contacts'[u] = contacts[u]
  /\ transport # None => transport' = transport
  /\ mls # None => mls' = mls

LEMMA InitStartInv == Init => StartInv
<1> SUFFICES ASSUME Init PROVE StartInv
  BY Zenon
<1>1. \A p \in Procs : proc[p] = Off
  BY Zenon DEF Init
<1>2. Off.at = "off" /\ Off \in Works
  BY Zenon DEF Off, Works, Places
<1>3. StartupTypeOK
  BY Zenon, <1>2 DEF Init, StartupTypeOK
<1>4. \A p \in Procs : Stage(p)
  BY Zenon, <1>1, <1>2 DEF Stage, Importing, Ready
<1> QED
  BY Zenon, <1>3, <1>4 DEF Init, StartInv, VerifiedIsPinned, ExportedIsOwn, AcceptedIsPinned

LEMMA PutsFields ==
  ASSUME StartupTypeOK, NEW p \in Procs, NEW w \in Works, Puts(p, w)
  PROVE  /\ proc'[p] = w /\ proc' \in [Procs -> Works]
         /\ \A q \in Procs : q # p => proc'[q] = proc[q]
BY Zenon DEF StartupTypeOK, Puts

LEMMA MovesFields ==
  ASSUME StartupTypeOK, NEW p \in Procs, NEW at \in Places, Moves(p, at)
  PROVE  /\ proc'[p].at = at /\ proc'[p].mode = proc[p].mode /\ proc'[p].keys = proc[p].keys
         /\ proc'[p].card = proc[p].card /\ proc'[p].whose = proc[p].whose
         /\ proc' \in [Procs -> Works]
         /\ \A q \in Procs : q # p => proc'[q] = proc[q]
<1> DEFINE w == [proc[p] EXCEPT !.at = at]
<1>1. proc[p] \in Works
  BY Zenon DEF StartupTypeOK
<1>2. w \in Works /\ w.at = at
  BY Zenon, <1>1 DEF Works
<1>3. w.mode = proc[p].mode /\ w.keys = proc[p].keys /\ w.card = proc[p].card /\ w.whose = proc[p].whose
  BY Zenon, <1>1 DEF Works
<1>4. Puts(p, w)
  BY Zenon DEF Moves
<1> HIDE DEF w
<1> QED
  BY Zenon, <1>2, <1>3, <1>4, PutsFields

LEMMA OthersOff ==
  ASSUME StartInv, NEW p \in Procs, proc[p].at # "off"
  PROVE  holder = p /\ \A q \in Procs : q # p => proc[q].at = "off"
BY Zenon DEF StartInv, Stage

\* A step of the program that has the lock.
LEMMA StepStartInv ==
  ASSUME StartInv, NEW p \in Procs,
         \A q \in Procs : q # p => proc[q].at = "off" /\ proc'[q] = proc[q],
         StartupTypeOK', Kept, Stage(p)',
         \A c \in verified' : c \in verified \/ contacts'[c.user] = c,
         \A c \in exported' : c \in exported \/ (transport' # None /\ c = OwnCard'),
         \A b \in accepted' : b \in accepted \/
           (contacts'[b.user] # None /\ contacts'[b.user].mls_key = b.mls_key)
  PROVE  StartInv'
<1> USE StartupAssumption
<1>1. \A q \in Procs : Stage(q)'
  BY Zenon DEF Stage, Importing, Ready
<1>2. StartupTypeOK
  BY Zenon DEF StartInv
<1>3. VerifiedIsPinned'
  <2> SUFFICES ASSUME NEW c \in verified PROVE contacts'[c.user] = c
    BY Zenon DEF VerifiedIsPinned
  <2>1. c \in Cards /\ contacts[c.user] = c
    BY Zenon, <1>2 DEF StartInv, VerifiedIsPinned, StartupTypeOK
  <2>2. c.user \in People /\ c # None
    BY Zenon, <2>1 DEF People, Card
  <2> QED
    BY Zenon, <2>1, <2>2 DEF Kept
<1>4. ExportedIsOwn'
  <2> SUFFICES ASSUME NEW c \in exported PROVE transport' # None /\ c = OwnCard'
    BY Zenon DEF ExportedIsOwn
  <2>1. transport # None /\ c = OwnCard /\ c \in Card
    BY Zenon, <1>2 DEF StartInv, ExportedIsOwn, StartupTypeOK
  <2>2. OwnCard.mls_key = mls /\ c.mls_key \in Keys
    BY Zenon, <2>1 DEF OwnCard, Card
  <2>3. mls # None
    BY Zenon, <2>1, <2>2
  <2> QED
    BY Zenon, <2>1, <2>3 DEF Kept, OwnCard
<1>5. AcceptedIsPinned'
  <2> SUFFICES ASSUME NEW b \in accepted
               PROVE  contacts'[b.user] # None /\ contacts'[b.user].mls_key = b.mls_key
    BY Zenon DEF AcceptedIsPinned
  <2>1. b.user \in People /\ contacts[b.user] # None /\ contacts[b.user].mls_key = b.mls_key
    BY Zenon, <1>2 DEF StartInv, AcceptedIsPinned, StartupTypeOK
  <2> QED
    BY Zenon, <2>1 DEF Kept
<1> QED
  BY Zenon, <1>1, <1>3, <1>4, <1>5 DEF StartInv

LEMMA EndsFields ==
  ASSUME StartupTypeOK, NEW p \in Procs, Ends(p)
  PROVE  /\ Stage(p)' /\ proc' \in [Procs -> Works] /\ holder' \in {None} \cup Procs
         /\ \A q \in Procs : q # p => proc'[q] = proc[q]
<1>1. Off.at = "off" /\ Off \in Works /\ Puts(p, Off)
  BY Zenon DEF Off, Works, Places, Ends
<1>2. /\ proc'[p] = Off /\ proc' \in [Procs -> Works]
      /\ \A q \in Procs : q # p => proc'[q] = proc[q]
  BY Zenon, <1>1, PutsFields
<1>3. holder' \in {None} \cup Procs
  BY Zenon DEF StartupTypeOK, Ends
<1> QED
  BY Zenon, <1>1, <1>2, <1>3 DEF Stage, Importing, Ready

LEMMA SameDatabase ==
  ASSUME StartupTypeOK, UNCHANGED database
  PROVE  Kept /\ transport' = transport /\ mls' = mls /\ contacts' = contacts
BY Zenon DEF database, Kept

LEMMA EndsStartInv ==
  ASSUME StartInv, NEW p \in Procs, proc[p].at # "off", Ends(p), UNCHANGED <<database, drawn, history>>
  PROVE  StartInv'
<1>1. StartupTypeOK /\ UNCHANGED database /\ UNCHANGED <<verified, exported, accepted>>
  BY Zenon DEF StartInv, history
<1>2. /\ Stage(p)' /\ proc' \in [Procs -> Works] /\ holder' \in {None} \cup Procs
      /\ \A q \in Procs : q # p => proc'[q] = proc[q]
  BY Zenon, <1>1, EndsFields
<1>3. StartupTypeOK'
  BY Zenon, <1>1, <1>2 DEF StartupTypeOK, database
<1> QED
  BY Zenon, <1>1, <1>2, <1>3, OthersOff, SameDatabase, StepStartInv

LEMMA OpenStartInv ==
  ASSUME StartInv, NEW p \in Procs, NEW mode \in Modes, Open(p, mode) PROVE StartInv'
<1> DEFINE w == [proc[p] EXCEPT !.at = "identity", !.mode = mode]
<1>1. StartupTypeOK /\ UNCHANGED database /\ UNCHANGED <<verified, exported, accepted, drawn>>
  BY Zenon DEF StartInv, Open, history
<1>2. proc[p] \in Works
  BY Zenon, <1>1 DEF StartupTypeOK
<1>3. w \in Works /\ w.at = "identity" /\ w.mode = mode
  BY Zenon, <1>2 DEF Works, Places
<1>4. Puts(p, w)
  BY Zenon DEF Open
<1> HIDE DEF w
<1>5. proc'[p] = w /\ proc' \in [Procs -> Works] /\ \A q \in Procs : q # p => proc'[q] = proc[q]
  BY Zenon, <1>1, <1>3, <1>4, PutsFields
<1>6. \A q \in Procs : proc[q].at = "off"
  BY Zenon, StartupAssumption DEF StartInv, Stage, Open
<1>7. holder' = p
  BY Zenon DEF Open
<1>8. StartupTypeOK'
  BY Zenon, <1>1, <1>5, <1>7 DEF StartupTypeOK, database
<1>9. Stage(p)'
  BY Zenon, <1>3, <1>5, <1>7 DEF Stage, Importing, Ready
<1> QED
  BY Zenon, <1>1, <1>5, <1>6, <1>8, <1>9, SameDatabase, StepStartInv

LEMMA IdentityStartInv ==
  ASSUME StartInv, NEW p \in Procs, Identity(p) PROVE StartInv'
<1>1. /\ StartupTypeOK /\ UNCHANGED <<mls, contacts, holder>> /\ UNCHANGED <<verified, exported, accepted>>
      /\ proc[p].at = "identity" /\ Moves(p, "mls") /\ "mls" \in Places
  BY Zenon DEF StartInv, Identity, history, Places
<1>2. /\ proc'[p].at = "mls" /\ proc'[p].mode = proc[p].mode
      /\ proc' \in [Procs -> Works]
      /\ \A q \in Procs : q # p => proc'[q] = proc[q]
  BY Zenon, <1>1, MovesFields
<1>3. /\ transport' \in [user : Selves, key : Keys] /\ drawn' \subseteq Keys
      /\ transport # None => transport' = transport
  BY <1>1, StartupAssumption DEF Identity, Draw, StartupTypeOK
<1>4. transport' # None
  BY Zenon, <1>3, StartupAssumption
<1>5. StartupTypeOK' /\ Kept
  BY Zenon, <1>1, <1>2, <1>3 DEF StartupTypeOK, Kept
<1>6. Stage(p)'
  BY Zenon, <1>1, <1>2, <1>4 DEF StartInv, Stage, Importing, Ready
<1> QED
  BY Zenon, <1>1, <1>2, <1>5, <1>6, OthersOff, StepStartInv

LEMMA MlsIdentityStartInv ==
  ASSUME StartInv, NEW p \in Procs, MlsIdentity(p) PROVE StartInv'
<1>1. /\ StartupTypeOK /\ UNCHANGED database /\ UNCHANGED <<verified, exported, accepted, holder>>
      /\ proc[p].at = "mls" /\ proc[p] \in Works
  BY Zenon DEF StartInv, MlsIdentity, history, StartupTypeOK
<1>2. ASSUME NEW at \in {"own", "save"}, NEW k \in Keys, at = "own" => mls = k, drawn' \subseteq Keys,
             Puts(p, [proc[p] EXCEPT !.at = at, !.keys = k])
      PROVE  StartInv'
  <2> DEFINE w == [proc[p] EXCEPT !.at = at, !.keys = k]
  <2>1. w \in Works /\ w.at = at /\ w.keys = k /\ w.mode = proc[p].mode
    BY Zenon, <1>1 DEF Works, Places
  <2>2. Puts(p, w)
    BY Zenon, <1>2
  <2> HIDE DEF w
  <2>3. proc'[p] = w /\ proc' \in [Procs -> Works] /\ \A q \in Procs : q # p => proc'[q] = proc[q]
    BY Zenon, <1>1, <2>1, <2>2, PutsFields
  <2>4. StartupTypeOK'
    BY Zenon, <1>1, <1>2, <2>3 DEF StartupTypeOK, database
  <2>5. mls' = mls /\ transport' = transport /\ (at = "own" => mls # None)
    BY Zenon, <1>1, <1>2, StartupAssumption DEF database
  <2>6. Stage(p)'
    BY Zenon, <1>1, <1>2, <2>1, <2>3, <2>5 DEF StartInv, Stage, Importing, Ready
  <2> QED
    BY Zenon, <1>1, <2>3, <2>4, <2>6, OthersOff, SameDatabase, StepStartInv
<1>3. CASE mls # None
  <2>1. mls \in Keys /\ drawn' \subseteq Keys /\ Puts(p, [proc[p] EXCEPT !.at = "own", !.keys = mls])
    BY Zenon, <1>1, <1>3 DEF MlsIdentity, StartupTypeOK
  <2> QED
    BY Zenon, <1>2, <2>1
<1>4. CASE mls = None
  <2>1. PICK k \in Keys : drawn' \subseteq Keys /\ Puts(p, [proc[p] EXCEPT !.at = "save", !.keys = k])
    BY Zenon, <1>1, <1>4 DEF MlsIdentity, StartupTypeOK, Draw
  <2> QED
    BY Zenon, <1>2, <2>1
<1> QED
  BY Zenon, <1>3, <1>4

LEMMA SaveMlsStartInv ==
  ASSUME StartInv, NEW p \in Procs, SaveMls(p) PROVE StartInv'
<1>1. /\ StartupTypeOK /\ UNCHANGED <<transport, contacts, drawn>>
      /\ UNCHANGED <<verified, exported, accepted>> /\ proc[p].at = "save" /\ "own" \in Places
      /\ proc[p].keys \in Keys
  BY Zenon DEF StartInv, SaveMls, history, Stage, Places
<1>2. CASE mls \in {None, proc[p].keys}
  <2>1. mls' = proc[p].keys /\ Moves(p, "own") /\ holder' = holder
    BY Zenon, <1>2 DEF SaveMls
  <2>2. /\ proc'[p].at = "own" /\ proc'[p].mode = proc[p].mode /\ proc'[p].keys = proc[p].keys
        /\ proc' \in [Procs -> Works] /\ \A q \in Procs : q # p => proc'[q] = proc[q]
    BY Zenon, <1>1, <2>1, MovesFields
  <2>3. StartupTypeOK' /\ Kept
    BY Zenon, <1>1, <1>2, <2>1, <2>2 DEF StartupTypeOK, Kept
  <2>4. Stage(p)'
    BY Zenon, <1>1, <2>1, <2>2, StartupAssumption DEF StartInv, Stage, Importing, Ready
  <2> QED
    BY Zenon, <1>1, <2>2, <2>3, <2>4, OthersOff, StepStartInv
<1>3. CASE mls \notin {None, proc[p].keys}
  BY Zenon, <1>1, <1>3, EndsStartInv DEF SaveMls, database, history
<1> QED
  BY Zenon, <1>2, <1>3

\* Once both keys are stored, the own card is a card.
LEMMA OwnCardFields ==
  ASSUME StartInv, NEW p \in Procs, proc[p].at \in {"own"} \cup Importing \cup Ready
  PROVE  /\ OwnCard \in Card /\ OwnCard # None /\ OwnCard.user = transport.user
         /\ transport # None /\ transport.user \in People
         /\ mls # None /\ proc[p].keys = mls /\ holder = p
<1>1. transport # None /\ mls # None /\ proc[p].keys = mls /\ holder = p
  BY Zenon DEF StartInv, Stage, Importing, Ready
<1>2. transport \in [user : Selves, key : Keys] /\ mls \in Keys
  BY Zenon, <1>1 DEF StartInv, StartupTypeOK
<1>3. OwnCard \in Card /\ OwnCard.user = transport.user /\ transport.user \in People
  BY Zenon, <1>2 DEF OwnCard, Card, People
<1> QED
  BY Zenon, <1>1, <1>3, StartupAssumption

LEMMA OwnStartInv ==
  ASSUME StartInv, NEW p \in Procs, Own(p) PROVE StartInv'
<1> DEFINE w == [proc[p] EXCEPT !.at = "check", !.card = OwnCard, !.whose = "own"]
<1>1. /\ StartupTypeOK /\ UNCHANGED database /\ UNCHANGED <<verified, exported, accepted, drawn, holder>>
      /\ proc[p].at = "own" /\ proc[p] \in Works /\ Puts(p, w)
  BY Zenon DEF StartInv, Own, history, StartupTypeOK
<1>2. OwnCard \in Card /\ transport # None /\ mls # None /\ proc[p].keys = mls
  BY Zenon, <1>1, OwnCardFields
<1>3. /\ w \in Works /\ w.at = "check" /\ w.card = OwnCard /\ w.whose = "own"
      /\ w.keys = proc[p].keys /\ w.mode = proc[p].mode
  BY Zenon, <1>1, <1>2 DEF Works, Places
<1> HIDE DEF w
<1>4. proc'[p] = w /\ proc' \in [Procs -> Works] /\ \A q \in Procs : q # p => proc'[q] = proc[q]
  BY Zenon, <1>1, <1>3, PutsFields
<1>5. StartupTypeOK'
  BY Zenon, <1>1, <1>4 DEF StartupTypeOK, database
<1>6. mls' = mls /\ transport' = transport /\ contacts' = contacts /\ OwnCard' = OwnCard
  BY Zenon, <1>1 DEF database, OwnCard
<1>7. Stage(p)'
  BY Zenon, <1>1, <1>2, <1>3, <1>4, <1>6 DEF StartInv, Stage, Importing, Ready
<1> QED
  BY Zenon, <1>1, <1>4, <1>5, <1>7, OthersOff, SameDatabase, StepStartInv

\* The end of an import whose card is pinned.
LEMMA ImportedStartInv ==
  ASSUME StartInv, NEW p \in Procs, proc[p].at \in Importing, Imported(p),
         UNCHANGED <<transport, mls, drawn, exported, accepted>>, Kept,
         contacts' \in [People -> {None} \cup Card], contacts'[proc[p].card.user] = proc[p].card
  PROVE  StartInv'
<1>1. StartupTypeOK /\ proc[p].at # "off" /\ OwnCard' = OwnCard
  BY Zenon DEF StartInv, Importing, OwnCard
<1>2. /\ OwnCard # None /\ OwnCard.user = transport.user /\ transport # None
      /\ transport.user \in People /\ mls # None /\ proc[p].keys = mls /\ holder = p
  BY Zenon, OwnCardFields
<1>3. proc[p].mode \in Modes
  BY Zenon, <1>1 DEF StartInv, Stage
<1>4. proc[p].mode.what \in Ready /\ Ready \subseteq Places /\ "run" \in Ready
  BY Zenon, <1>3 DEF Modes, Ready, Places
<1>5. ASSUME NEW at \in Ready, Moves(p, at), holder' = holder,
             contacts'[transport.user] = OwnCard,
             verified' \subseteq Cards,
             \A c \in verified' : c \in verified \/ contacts'[c.user] = c
      PROVE  StartInv'
  <2>1. /\ proc'[p].at = at /\ proc'[p].mode = proc[p].mode /\ proc'[p].keys = proc[p].keys
        /\ proc' \in [Procs -> Works] /\ \A q \in Procs : q # p => proc'[q] = proc[q]
    BY Zenon, <1>1, <1>4, <1>5, MovesFields
  <2>2. StartupTypeOK'
    BY Zenon, <1>1, <1>5, <2>1 DEF StartupTypeOK
  <2>3. Stage(p)'
    BY Zenon, <1>1, <1>2, <1>3, <1>5, <2>1 DEF Stage, Importing, Ready
  <2> QED
    BY Zenon, <1>1, <1>5, <2>1, <2>2, <2>3, OthersOff, StepStartInv
<1>6. CASE proc[p].whose = "own"
  <2>1. proc[p].card = OwnCard
    BY Zenon, <1>6 DEF StartInv, Stage
  <2>2. Moves(p, proc[p].mode.what) /\ holder' = holder /\ verified' = verified
    BY Zenon, <1>6 DEF Imported
  <2>3. contacts'[transport.user] = OwnCard /\ verified' \subseteq Cards
    BY Zenon, <1>1, <1>2, <2>1, <2>2 DEF StartupTypeOK
  <2> QED
    BY Zenon, <1>4, <1>5, <2>2, <2>3
<1>7. CASE proc[p].whose # "own"
  <2>1. proc[p].card \in Cards /\ contacts[transport.user] = OwnCard
    BY Zenon, <1>7 DEF StartInv, Stage
  <2>2. contacts'[transport.user] = OwnCard
    BY Zenon, <1>2, <2>1 DEF Kept
  <2>3. verified' = verified \cup {proc[p].card}
    BY Zenon, <1>7 DEF Imported
  <2>4. verified' \subseteq Cards /\ \A c \in verified' : c \in verified \/ contacts'[c.user] = c
    BY Zenon, <1>1, <2>1, <2>3 DEF StartupTypeOK
  <2>5. CASE Moves(p, "run") /\ holder' = holder
    BY Zenon, <1>4, <1>5, <2>2, <2>4, <2>5
  <2>6. CASE Ends(p)
    <3>1. /\ Stage(p)' /\ proc' \in [Procs -> Works] /\ holder' \in {None} \cup Procs
          /\ \A q \in Procs : q # p => proc'[q] = proc[q]
      BY Zenon, <1>1, <2>6, EndsFields
    <3>2. StartupTypeOK'
      BY Zenon, <1>1, <2>4, <3>1 DEF StartupTypeOK
    <3> QED
      BY Zenon, <1>1, <2>4, <3>1, <3>2, OthersOff, StepStartInv
  <2> QED
    BY Zenon, <1>7, <2>5, <2>6 DEF Imported
<1> QED
  BY Zenon, <1>6, <1>7

LEMMA RejectedStartInv ==
  ASSUME StartInv, NEW p \in Procs, proc[p].at \in Importing, Rejected(p),
         UNCHANGED <<database, drawn, history>>
  PROVE  StartInv'
<1>1. /\ StartupTypeOK /\ proc[p].at # "off" /\ UNCHANGED database
      /\ UNCHANGED <<verified, exported, accepted>> /\ OwnCard' = OwnCard
  BY Zenon DEF StartInv, Importing, OwnCard, database, history
<1>2. CASE Ends(p)
  BY Zenon, <1>1, <1>2, EndsStartInv
<1>3. CASE proc[p].whose # "own" /\ Moves(p, "run") /\ holder' = holder
  <2>1. "run" \in Places
    BY Zenon DEF Places
  <2>2. /\ proc'[p].at = "run" /\ proc'[p].mode = proc[p].mode /\ proc'[p].keys = proc[p].keys
        /\ proc' \in [Procs -> Works] /\ \A q \in Procs : q # p => proc'[q] = proc[q]
    BY Zenon, <1>1, <1>3, <2>1, MovesFields
  <2>3. StartupTypeOK' /\ transport' = transport /\ mls' = mls /\ contacts' = contacts
    BY Zenon, <1>1, <1>3, <2>2 DEF StartupTypeOK, database
  <2>4. /\ transport # None /\ mls # None /\ proc[p].keys = mls /\ holder = p
        /\ contacts[transport.user] = OwnCard /\ proc[p].mode \in Modes
    BY Zenon, <1>1, <1>3 DEF StartInv, Stage, Importing, Ready
  <2>5. Stage(p)'
    BY Zenon, <1>1, <1>3, <2>2, <2>3, <2>4 DEF Stage, Importing, Ready
  <2> QED
    BY Zenon, <1>1, <2>2, <2>3, <2>5, OthersOff, SameDatabase, StepStartInv
<1> QED
  BY Zenon, <1>2, <1>3 DEF Rejected

\* The stages of an import that is neither done nor rejected.
LEMMA ImportMovesStartInv ==
  ASSUME StartInv, NEW p \in Procs, proc[p].at \in Importing, NEW at \in {"admit", "insert"},
         Moves(p, at), UNCHANGED <<database, holder, drawn, history>>,
         contacts[proc[p].card.user] = None
  PROVE  StartInv'
<1>1. /\ StartupTypeOK /\ proc[p].at # "off" /\ UNCHANGED database /\ at \in Places
      /\ UNCHANGED <<verified, exported, accepted, holder>> /\ OwnCard' = OwnCard
  BY Zenon DEF StartInv, Importing, OwnCard, database, history, Places
<1>2. /\ proc'[p].at = at /\ proc'[p].mode = proc[p].mode /\ proc'[p].keys = proc[p].keys
      /\ proc'[p].card = proc[p].card /\ proc'[p].whose = proc[p].whose
      /\ proc' \in [Procs -> Works] /\ \A q \in Procs : q # p => proc'[q] = proc[q]
  BY Zenon, <1>1, MovesFields
<1>3. StartupTypeOK' /\ transport' = transport /\ mls' = mls /\ contacts' = contacts
  BY Zenon, <1>1, <1>2 DEF StartupTypeOK, database
<1>4. Stage(p)'
  BY Zenon, <1>1, <1>2, <1>3 DEF StartInv, Stage, Importing, Ready
<1> QED
  BY Zenon, <1>1, <1>2, <1>3, <1>4, OthersOff, SameDatabase, StepStartInv

LEMMA CardFields ==
  ASSUME StartInv, NEW p \in Procs, proc[p].at \in Importing
  PROVE  proc[p].card \in Card /\ proc[p].card # None
<1>1. CASE proc[p].whose = "own"
  BY Zenon, <1>1, OwnCardFields DEF StartInv, Stage
<1>2. CASE proc[p].whose # "own"
  BY Zenon, <1>2, StartupAssumption DEF StartInv, Stage, Card, People
<1> QED
  BY Zenon, <1>1, <1>2

LEMMA CheckStartInv ==
  ASSUME StartInv, NEW p \in Procs, Check(p) PROVE StartInv'
<1>1. /\ proc[p].at \in Importing /\ UNCHANGED <<database, drawn, exported, accepted>> /\ StartupTypeOK
  BY Zenon DEF Check, Importing, StartInv
<1>2. CASE contacts[proc[p].card.user] = None
  <2>1. Moves(p, "admit") /\ holder' = holder /\ verified' = verified
    BY Zenon, <1>1, <1>2, CardFields DEF Check
  <2>2. UNCHANGED <<database, holder, drawn, history>>
    BY Zenon, <1>1, <2>1 DEF history
  <2> QED
    BY Zenon, <1>1, <1>2, <2>1, <2>2, ImportMovesStartInv
<1>3. CASE contacts[proc[p].card.user] # None /\ contacts[proc[p].card.user] = proc[p].card
  <2>1. Imported(p)
    BY Zenon, <1>3 DEF Check
  <2>2. Kept /\ transport' = transport /\ mls' = mls /\ contacts' = contacts
    BY Zenon, <1>1, SameDatabase
  <2>3. contacts' \in [People -> {None} \cup Card]
    BY Zenon, <1>1, <2>2 DEF StartupTypeOK
  <2> QED
    BY Zenon, <1>1, <1>3, <2>1, <2>2, <2>3, ImportedStartInv
<1>4. CASE contacts[proc[p].card.user] # None /\ contacts[proc[p].card.user] # proc[p].card
  <2>1. Rejected(p) /\ verified' = verified
    BY Zenon, <1>4 DEF Check
  <2> QED
    BY Zenon, <1>1, <2>1, RejectedStartInv DEF history
<1> QED
  BY Zenon, <1>2, <1>3, <1>4

LEMMA AdmitStartInv ==
  ASSUME StartInv, NEW p \in Procs, Admit(p) PROVE StartInv'
<1>1. /\ proc[p].at = "admit" /\ proc[p].at \in Importing /\ UNCHANGED <<database, drawn, history>>
      /\ contacts[proc[p].card.user] = None
  BY Zenon DEF Admit, Importing, StartInv, Stage
<1>2. CASE Moves(p, "insert") /\ holder' = holder
  BY Zenon, <1>1, <1>2, ImportMovesStartInv
<1>3. CASE Rejected(p)
  BY Zenon, <1>1, <1>3, RejectedStartInv
<1> QED
  BY Zenon, <1>2, <1>3 DEF Admit

LEMMA InsertStartInv ==
  ASSUME StartInv, NEW p \in Procs, Insert(p) PROVE StartInv'
<1> DEFINE card == proc[p].card
<1>1. /\ proc[p].at = "insert" /\ proc[p].at \in Importing /\ Imported(p) /\ StartupTypeOK
      /\ UNCHANGED <<transport, mls, drawn, exported, accepted>>
      /\ contacts[card.user] = None
  BY Zenon DEF Insert, Importing, StartInv, Stage
<1>2. card \in Card
  BY Zenon, <1>1, CardFields
<1>3. card.user \in People
  BY Zenon, <1>2 DEF Card, People
<1>4. contacts' = [contacts EXCEPT ![card.user] = card]
  BY Zenon, <1>1 DEF Insert
<1> HIDE DEF card
<1>5. /\ contacts' \in [People -> {None} \cup Card] /\ contacts'[card.user] = card
      /\ \A u \in People : u # card.user => contacts'[u] = contacts[u]
  BY Zenon, <1>1, <1>2, <1>3, <1>4 DEF StartupTypeOK
<1>6. Kept
  BY Zenon, <1>1, <1>5 DEF Kept
<1> QED
  BY Zenon, <1>1, <1>5, <1>6, ImportedStartInv DEF card

LEMMA ImportStartInv ==
  ASSUME StartInv, NEW p \in Procs, NEW c \in Cards, Import(p, c) PROVE StartInv'
<1> DEFINE w == [proc[p] EXCEPT !.at = "check", !.card = c, !.whose = "other"]
<1>1. /\ proc[p].at \in Ready /\ proc[p].at # "off" /\ UNCHANGED <<database, drawn, history>>
      /\ StartupTypeOK /\ UNCHANGED <<verified, exported, accepted>> /\ UNCHANGED database
      /\ proc[p] \in Works /\ OwnCard' = OwnCard
  BY Zenon DEF Import, Ready, StartInv, StartupTypeOK, history, OwnCard, database
<1>2. CASE Ends(p)
  BY Zenon, <1>1, <1>2, EndsStartInv
<1>3. CASE Puts(p, w) /\ holder' = holder
  <2>1. c \in Card
    BY Zenon, StartupAssumption DEF Card, People
  <2>2. /\ w \in Works /\ w.at = "check" /\ w.card = c /\ w.whose = "other"
        /\ w.keys = proc[p].keys /\ w.mode = proc[p].mode
    BY Zenon, <1>1, <2>1 DEF Works, Places
  <2>3. Puts(p, w)
    BY Zenon, <1>3
  <2> HIDE DEF w
  <2>4. proc'[p] = w /\ proc' \in [Procs -> Works] /\ \A q \in Procs : q # p => proc'[q] = proc[q]
    BY Zenon, <1>1, <2>2, <2>3, PutsFields
  <2>5. StartupTypeOK' /\ transport' = transport /\ mls' = mls /\ contacts' = contacts
    BY Zenon, <1>1, <1>3, <2>4 DEF StartupTypeOK, database
  <2>6. /\ transport # None /\ mls # None /\ proc[p].keys = mls /\ holder = p
        /\ contacts[transport.user] = OwnCard /\ proc[p].mode \in Modes
    BY Zenon, <1>1 DEF StartInv, Stage, Importing, Ready
  <2>7. Stage(p)'
    BY Zenon, <1>1, <1>3, <2>2, <2>4, <2>5, <2>6 DEF Stage, Importing, Ready
  <2> QED
    BY Zenon, <1>1, <2>4, <2>5, <2>7, OthersOff, SameDatabase, StepStartInv
<1> QED
  BY Zenon, <1>2, <1>3 DEF Import

LEMMA ExportStartInv ==
  ASSUME StartInv, NEW p \in Procs, Export(p) PROVE StartInv'
<1>1. /\ proc[p].at \in Ready /\ proc[p].at # "off" /\ UNCHANGED <<database, drawn, verified, accepted>>
      /\ StartupTypeOK /\ UNCHANGED database /\ OwnCard' = OwnCard
      /\ exported' = exported \cup {OwnCard}
  BY Zenon DEF Export, Ready, StartInv, OwnCard, database
<1>2. OwnCard \in Card /\ transport # None
  BY Zenon, <1>1, OwnCardFields
<1>3. transport' = transport /\ exported' \subseteq Card
  BY Zenon, <1>1, <1>2 DEF database, StartupTypeOK
<1>4. \A c \in exported' : c \in exported \/ (transport' # None /\ c = OwnCard')
  BY Zenon, <1>1, <1>2, <1>3
<1>5. /\ Stage(p)' /\ proc' \in [Procs -> Works] /\ holder' \in {None} \cup Procs
      /\ \A q \in Procs : q # p => proc'[q] = proc[q]
  <2>1. CASE Ends(p)
    BY Zenon, <1>1, <2>1, EndsFields
  <2>2. CASE UNCHANGED <<proc, holder>>
    BY Zenon, <1>1, <2>2 DEF StartInv, StartupTypeOK, Stage, OwnCard, database
  <2> QED
    BY Zenon, <2>1, <2>2 DEF Export
<1>6. StartupTypeOK'
  BY Zenon, <1>1, <1>3, <1>5 DEF StartupTypeOK, database
<1> QED
  BY Zenon, <1>1, <1>4, <1>5, <1>6, OthersOff, SameDatabase, StepStartInv

LEMMA VerifyStartInv ==
  ASSUME StartInv, NEW p \in Procs, NEW user \in People, NEW key \in Keys, Verify(p, user, key)
  PROVE  StartInv'
<1> DEFINE b == [user |-> user, mls_key |-> key]
<1>1. /\ proc[p].at # "off" /\ UNCHANGED <<database, holder, proc, drawn, verified, exported>>
      /\ StartupTypeOK /\ UNCHANGED database /\ accepted' = accepted \cup {b}
      /\ contacts[user] # None /\ contacts[user].mls_key = key
  BY Zenon DEF Verify, StartInv
<1>2. b \in [user : People, mls_key : Keys] /\ b.user = user /\ b.mls_key = key
  BY Zenon
<1> HIDE DEF b
<1>3. contacts' = contacts /\ StartupTypeOK'
  BY Zenon, <1>1, <1>2 DEF StartupTypeOK, database
<1>4. \A a \in accepted' : a \in accepted \/
        (contacts'[a.user] # None /\ contacts'[a.user].mls_key = a.mls_key)
  BY Zenon, <1>1, <1>2, <1>3
<1>5. Stage(p)'
  BY Zenon, <1>1 DEF StartInv, Stage, OwnCard, database
<1> QED
  BY Zenon, <1>1, <1>3, <1>4, <1>5, OthersOff, SameDatabase, StepStartInv

LEMMA NextStartInv == StartInv /\ [Next]_vars => StartInv'
<1> SUFFICES ASSUME StartInv, [Next]_vars PROVE StartInv'
  BY Zenon
<1>1. CASE UNCHANGED vars
  BY Zenon, <1>1 DEF vars, database, history, StartInv, StartupTypeOK, Stage, OwnCard,
     VerifiedIsPinned, ExportedIsOwn, AcceptedIsPinned
<1>2. ASSUME NEW p \in Procs, Step(p) PROVE StartInv'
  <2>1. CASE Stop(p)
    BY Zenon, <2>1, EndsStartInv DEF Stop
  <2> QED
    BY Zenon, <1>2, <2>1, OpenStartInv, IdentityStartInv, MlsIdentityStartInv, SaveMlsStartInv,
       OwnStartInv, CheckStartInv, AdmitStartInv, InsertStartInv, ImportStartInv,
       ExportStartInv, VerifyStartInv DEF Step
<1> QED
  BY Zenon, <1>1, <1>2 DEF Next

LEMMA InvariantStart == Spec => []StartInv
BY InitStartInv, NextStartInv, PTL DEF Spec

\* Everything that a program reported, showed or accepted agrees with the database
\* in every later state: the file lock makes the steps of start-up and of an
\* import, which are transactions of their own, as good as one.
THEOREM ContactsKeepTrust ==
  Spec => [](VerifiedIsPinned /\ ExportedIsOwn /\ AcceptedIsPinned /\ RunsOnStoredKeys)
<1>1. StartInv => RunsOnStoredKeys
  BY Zenon DEF StartInv, Stage, RunsOnStoredKeys, Ready
<1>2. StartInv => VerifiedIsPinned /\ ExportedIsOwn /\ AcceptedIsPinned /\ RunsOnStoredKeys
  BY Zenon, <1>1 DEF StartInv
<1> QED
  BY <1>2, InvariantStart, PTL

\* No step of any program replaces a pin, the identity or the MLS keys.
THEOREM NothingIsReplaced == Spec => NothingReplaced
<1>1. ASSUME StartInv, [Next]_vars PROVE [Kept]_vars
  <2>1. StartupTypeOK
    BY Zenon, <1>1 DEF StartInv
  <2>2. ASSUME NEW p \in Procs, Insert(p) PROVE Kept
    <3>1. contacts[proc[p].card.user] = None
      BY Zenon, <1>1, <2>2 DEF StartInv, Stage, Insert
    <3> QED
      BY Zenon, <2>1, <2>2, <3>1 DEF StartupTypeOK, Insert, Kept
  <2>3. ASSUME NEW p \in Procs, Identity(p) \/ SaveMls(p) PROVE Kept
    BY Zenon, <2>3 DEF Identity, SaveMls, Kept
  <2>4. ASSUME NEW p \in Procs, Step(p), ~Insert(p), ~Identity(p), ~SaveMls(p)
        PROVE  UNCHANGED database
    BY Zenon, <2>4 DEF Step, Open, MlsIdentity, Own, Check, Admit, Import, Export, Verify, Stop
  <2> QED
    BY Zenon, <1>1, <2>1, <2>2, <2>3, <2>4, SameDatabase DEF Next
<1>2. [Kept]_vars => [/\ \A u \in People : contacts[u] # None => contacts'[u] = contacts[u]
                      /\ transport # None => transport' = transport
                      /\ mls # None => mls' = mls]_vars
  BY Zenon DEF Kept
<1> QED
  BY <1>1, <1>2, InvariantStart, PTL DEF Spec, NothingReplaced

\* The parts of ContactsKeepTrust one by one.  A card that a program showed is that of
\* the identity in the database.
THEOREM CardsAreOwn == Spec => []ExportedIsOwn
  BY ContactsKeepTrust, PTL

\* A member that a program accepted has the credential pinned for its user.
THEOREM AcceptedArePinned == Spec => []AcceptedIsPinned
  BY ContactsKeepTrust, PTL

\* A program that is ready works with the identity and MLS keys in the database.
THEOREM ProgramsRunOnStoredKeys == Spec => []RunsOnStoredKeys
  BY ContactsKeepTrust, PTL

(***************************************************************************)
(* The relays.                                                             *)
(***************************************************************************)
RelayPlaces == {"off", "look", "create cert", "write cert", "create key", "write key",
           "read", "read key", "serving"}
RelayRecords == [at : RelayPlaces, cert : {None, Torn} \cup Ids, key : {None} \cup Ids]

RelayTypes ==
  /\ files \in [cert : {None, Torn} \cup Ids, key : {None, Torn} \cup Ids]
  /\ relay \in [Relays -> RelayRecords]
  /\ served \subseteq [cert : Ids, key : Ids]

\* From the creation of the certificate to the end of the write of the key.
Maker(r) == relay[r].at \in {"write cert", "create key", "write key"}

\* What a relay knows of the files at each step.
Knows(r) ==
  /\ relay[r].at = "create cert" \/ Maker(r) => relay[r].cert \in Ids /\ relay[r].key = relay[r].cert
  /\ relay[r].at = "write cert" => files.cert = Torn /\ files.key = None
  /\ relay[r].at = "create key" => files.cert = relay[r].cert /\ files.key = None
  /\ relay[r].at = "write key" => files.cert = relay[r].cert /\ files.key = Torn
  /\ relay[r].at \in {"read", "read key"} => files.key # None
  /\ relay[r].at = "read key" => relay[r].cert \in {Torn, files.cert}
  /\ relay[r].at = "serving" => relay[r].cert \in Ids

\* create_new makes the relay that created the certificate the only maker, and a
\* key is never in the files without its certificate.
RelayInv ==
  /\ RelayTypes
  /\ \A r \in Relays : Knows(r)
  /\ \A r, s \in Relays : Maker(r) /\ Maker(s) => r = s
  /\ files.key # None => files.cert # None
  /\ files.key \in Ids => files.key = files.cert
  /\ ServedIsStored

LEMMA InitRelayInv == TrustInit => RelayInv
<1> SUFFICES ASSUME TrustInit PROVE RelayInv
  BY Zenon
<1>1. \A r \in Relays : relay[r] = Down
  BY Zenon DEF TrustInit
<1>2. Down.at = "off" /\ Down \in RelayRecords
  BY Zenon DEF Down, RelayRecords, RelayPlaces
<1>3. RelayTypes
  BY Zenon, <1>2 DEF TrustInit, RelayTypes
<1>4. \A r \in Relays : relay[r].at = "off"
  BY Zenon, <1>1, <1>2
<1> QED
  BY Zenon, <1>3, <1>4 DEF TrustInit, RelayInv, Knows, Maker, ServedIsStored

LEMMA RelayPutsFields ==
  ASSUME RelayTypes, NEW r \in Relays, NEW at \in RelayPlaces, NEW cert \in {None, Torn} \cup Ids,
         NEW key \in {None} \cup Ids, Becomes(r, at, cert, key)
  PROVE  /\ relay'[r].at = at /\ relay'[r].cert = cert /\ relay'[r].key = key
         /\ \A s \in Relays : s # r => relay'[s] = relay[s]
         /\ relay' \in [Relays -> RelayRecords]
<1> DEFINE new == [at |-> at, cert |-> cert, key |-> key]
<1>1. relay'[r] = new
  BY DEF Becomes, RelayTypes
<1>2. new.at = at /\ new.cert = cert /\ new.key = key /\ new \in RelayRecords
  BY DEF RelayRecords
<1>3. \A s \in Relays : s # r => relay'[s] = relay[s]
  BY DEF Becomes, RelayTypes
<1>4. relay' \in [Relays -> RelayRecords]
  BY <1>2 DEF Becomes, RelayTypes
<1> QED
  BY <1>1, <1>2, <1>3, <1>4

\* Steps that leave the files alone.
LEMMA LeavesFiles ==
  ASSUME RelayInv, NEW r \in Relays, NEW at \in RelayPlaces, NEW cert \in {None, Torn} \cup Ids,
         NEW key \in {None} \cup Ids, Becomes(r, at, cert, key),
         files' = files, served' \subseteq [cert : Ids, key : Ids], ServedIsStored',
         at \notin {"write cert", "create key", "write key"},
         at = "create cert" => cert \in Ids /\ key = cert,
         at \in {"read", "read key"} => files.key # None,
         at = "read key" => cert = files.cert,
         at = "serving" => cert \in Ids
  PROVE  RelayInv'
<1>1. RelayTypes
  BY Zenon DEF RelayInv
<1>2. /\ relay'[r].at = at /\ relay'[r].cert = cert /\ relay'[r].key = key
      /\ \A s \in Relays : s # r => relay'[s] = relay[s]
      /\ relay' \in [Relays -> RelayRecords]
  BY <1>1, RelayPutsFields
<1>3. RelayTypes'
  BY Zenon, <1>1, <1>2 DEF RelayTypes
<1>4. \A s \in Relays : s # r => Knows(s)'
  BY ZenonT(30), <1>2 DEF RelayInv, Knows, Maker
<1>5. Knows(r)'
  BY Zenon, <1>2 DEF Knows, Maker
<1>6. \A s, t \in Relays : Maker(s)' /\ Maker(t)' => s = t
  BY Zenon, <1>2 DEF RelayInv, Maker
<1> QED
  BY Zenon, <1>3, <1>4, <1>5, <1>6 DEF RelayInv

LEMMA LookCertRelayInv ==
  ASSUME NEW r \in Relays, RelayInv, LookCert(r) PROVE RelayInv'
<1>1. /\ files' = files /\ served' = served
      /\ "look" \in RelayPlaces /\ files.cert \in {None, Torn} \cup Ids
      /\ Becomes(r, "look", files.cert, None)
  BY Zenon DEF RelayInv, RelayTypes, LookCert, RelayPlaces
<1>2. served' \subseteq [cert : Ids, key : Ids] /\ ServedIsStored'
  BY Zenon, <1>1 DEF RelayInv, RelayTypes, ServedIsStored
<1> QED
  BY Zenon, <1>1, <1>2, LeavesFiles

LEMMA DownRelayInv ==
  ASSUME NEW r \in Relays, RelayInv, GoesDown(r), files' = files, served' = served
  PROVE  RelayInv'
<1>1. "off" \in RelayPlaces /\ Becomes(r, "off", None, None)
  BY Zenon DEF GoesDown, RelayPlaces
<1>2. served' \subseteq [cert : Ids, key : Ids] /\ ServedIsStored'
  BY Zenon DEF RelayInv, RelayTypes, ServedIsStored
<1> QED
  BY Zenon, <1>1, <1>2, LeavesFiles

LEMMA RelayFields ==
  ASSUME RelayTypes, NEW r \in Relays
  PROVE  relay[r].at \in RelayPlaces /\ relay[r].cert \in {None, Torn} \cup Ids /\ relay[r].key \in {None} \cup Ids
<1>1. relay[r] \in RelayRecords
  BY Zenon DEF RelayTypes
<1> QED
  BY Zenon, <1>1 DEF RelayRecords

LEMMA LookKeyRelayInv ==
  ASSUME NEW r \in Relays, RelayInv, LookKey(r) PROVE RelayInv'
<1>1. files' = files /\ served' = served /\ RelayTypes
  BY Zenon DEF RelayInv, LookKey
<1>2. served' \subseteq [cert : Ids, key : Ids] /\ ServedIsStored'
  BY Zenon, <1>1 DEF RelayInv, RelayTypes, ServedIsStored
<1>3. CASE GoesDown(r)
  BY Zenon, <1>1, <1>3, DownRelayInv
<1>4. CASE files.key # None /\ Goes(r, "read")
  <2>1. "read" \in RelayPlaces /\ Becomes(r, "read", relay[r].cert, relay[r].key)
    BY Zenon, <1>4 DEF Goes, RelayPlaces
  <2> QED
    BY Zenon, <1>1, <1>2, <1>4, <2>1, RelayFields, LeavesFiles
<1>5. ASSUME NEW i \in Ids, Becomes(r, "create cert", i, i) PROVE RelayInv'
  <2>1. "create cert" \in RelayPlaces
    BY Zenon DEF RelayPlaces
  <2> QED
    BY Zenon, <1>1, <1>2, <1>5, <2>1, LeavesFiles
<1> QED
  BY Zenon, <1>3, <1>4, <1>5 DEF LookKey

LEMMA ReadCertRelayInv ==
  ASSUME NEW r \in Relays, RelayInv, ReadCert(r) PROVE RelayInv'
<1>1. files' = files /\ served' = served /\ RelayTypes
  BY Zenon DEF RelayInv, ReadCert
<1>2. served' \subseteq [cert : Ids, key : Ids] /\ ServedIsStored'
  BY Zenon, <1>1 DEF RelayInv, RelayTypes, ServedIsStored
<1>3. /\ "read key" \in RelayPlaces /\ files.cert \in {None, Torn} \cup Ids /\ files.key # None
      /\ Becomes(r, "read key", files.cert, relay[r].key)
  BY Zenon, <1>1 DEF RelayInv, Knows, RelayTypes, ReadCert, RelayPlaces
<1> QED
  BY Zenon, <1>1, <1>2, <1>3, RelayFields, LeavesFiles

LEMMA ReadKeyRelayInv ==
  ASSUME NEW r \in Relays, RelayInv, ReadKey(r) PROVE RelayInv'
<1>1. files' = files /\ RelayTypes
  BY Zenon DEF RelayInv, ReadKey
<1>2. CASE Torn \in {relay[r].cert, files.key}
  BY Zenon, <1>1, <1>2, DownRelayInv DEF ReadKey
<1>3. CASE Torn \notin {relay[r].cert, files.key}
  <2>1. /\ files.key # None /\ relay[r].cert = files.cert
        /\ "serving" \in RelayPlaces /\ Becomes(r, "serving", relay[r].cert, files.key)
        /\ served' = served \cup {[cert |-> relay[r].cert, key |-> files.key]}
    BY Zenon, <1>3 DEF RelayInv, Knows, ReadKey, RelayPlaces
  <2>2. files.key \in Ids /\ files.cert = files.key
    BY Zenon, <1>1, <1>3, <2>1 DEF RelayInv, RelayTypes
  <2>3. [cert |-> relay[r].cert, key |-> files.key] = files
    BY Zenon, <1>1, <2>1 DEF RelayTypes
  <2>4. served' \subseteq [cert : Ids, key : Ids]
    BY Zenon, <1>1, <2>1, <2>2 DEF RelayTypes
  <2>5. ServedIsStored'
    BY Zenon, <1>1, <2>1, <2>2, <2>3 DEF RelayInv, ServedIsStored
  <2> QED
    BY Zenon, <1>1, <2>1, <2>2, <2>4, <2>5, LeavesFiles
<1> QED
  BY Zenon, <1>2, <1>3

\* Steps of the relay that makes the files.
LEMMA ChangesFiles ==
  ASSUME RelayInv, NEW r \in Relays, relay[r].at = "create cert" \/ Maker(r),
         NEW at \in {"write cert", "create key", "write key", "read"},
         Becomes(r, at, relay[r].cert, relay[r].key), served = {}, served' = served,
         files' \in [cert : {None, Torn} \cup Ids, key : {None, Torn} \cup Ids],
         \A s \in Relays : s # r => ~Maker(s),
         \A s \in Relays : relay[s].at \in {"read", "read key"} =>
                           files'.key # None /\ files'.cert = files.cert,
         at = "write cert" => files'.cert = Torn /\ files'.key = None,
         at = "create key" => files'.cert = relay[r].cert /\ files'.key = None,
         at = "write key" => files'.cert = relay[r].cert /\ files'.key = Torn,
         at = "read" => files'.key # None,
         files'.key # None => files'.cert # None,
         files'.key \in Ids => files'.key = files'.cert
  PROVE  RelayInv'
<1>1. RelayTypes /\ at \in RelayPlaces
  BY Zenon DEF RelayInv, RelayPlaces
<1>2. /\ relay'[r].at = at /\ relay'[r].cert = relay[r].cert /\ relay'[r].key = relay[r].key
      /\ \A s \in Relays : s # r => relay'[s] = relay[s]
      /\ relay' \in [Relays -> RelayRecords]
  BY <1>1, RelayFields, RelayPutsFields
<1>3. RelayTypes'
  BY Zenon, <1>1, <1>2 DEF RelayTypes
<1>4. \A s \in Relays : s # r => Knows(s)'
  BY ZenonT(30), <1>2 DEF RelayInv, Knows, Maker
<1>5. Knows(r)'
  BY Zenon, <1>2 DEF RelayInv, Knows, Maker
<1>6. \A s, t \in Relays : Maker(s)' /\ Maker(t)' => s = t
  BY Zenon, <1>2 DEF Maker
<1> QED
  BY Zenon, <1>3, <1>4, <1>5, <1>6 DEF RelayInv, ServedIsStored

LEMMA CreateRelayInv ==
  ASSUME NEW r \in Relays, NEW f \in {"cert", "key"}, RelayInv, Create(r, f) PROVE RelayInv'
<1> USE TrustAssumption
<1>1. served' = served /\ RelayTypes
  BY Zenon DEF RelayInv, Create
<1>2. CASE files[f] # None
  BY Zenon, <1>1, <1>2, DownRelayInv DEF Create
<1>3. CASE f = "cert" /\ files.cert = None
  <2>1. /\ relay[r].at = "create cert" /\ Becomes(r, "write cert", relay[r].cert, relay[r].key)
        /\ files' = [files EXCEPT !.cert = Torn]
    BY Zenon, <1>3 DEF Create, Creating, Writing, Goes
  <2>2. files.key = None
    BY Zenon, <1>3 DEF RelayInv
  <2>3. files'.cert = Torn /\ files'.key = None
        /\ files' \in [cert : {None, Torn} \cup Ids, key : {None, Torn} \cup Ids]
    BY Zenon, <1>1, <2>1, <2>2 DEF RelayTypes
  <2>4. /\ \A s \in Relays : ~Maker(s) /\ relay[s].at \notin {"read", "read key"}
    BY Zenon, <1>3, <2>2 DEF RelayInv, Knows, Maker
  <2>5. served = {}
    BY Zenon, <1>1, <1>3 DEF RelayInv, RelayTypes, ServedIsStored
  <2> QED
    BY Zenon, <1>1, <2>1, <2>3, <2>4, <2>5, ChangesFiles
<1>4. CASE f = "key" /\ files.key = None
  <2>1. /\ relay[r].at = "create key" /\ Becomes(r, "write key", relay[r].cert, relay[r].key)
        /\ files' = [files EXCEPT !.key = Torn]
    BY Zenon, <1>4 DEF Create, Creating, Writing, Goes
  <2>2. files.cert = relay[r].cert /\ relay[r].cert \in Ids /\ Maker(r)
    BY Zenon, <2>1 DEF RelayInv, Knows, Maker
  <2>3. files'.cert = relay[r].cert /\ files'.key = Torn
        /\ files' \in [cert : {None, Torn} \cup Ids, key : {None, Torn} \cup Ids]
    BY Zenon, <1>1, <2>1, <2>2 DEF RelayTypes
  <2>4. \A s \in Relays : s # r => ~Maker(s)
    BY Zenon, <2>2 DEF RelayInv
  <2>5. \A s \in Relays : relay[s].at \notin {"read", "read key"}
    BY Zenon, <1>4 DEF RelayInv, Knows
  <2>6. served = {}
    BY Zenon, <1>1, <1>4 DEF RelayInv, RelayTypes, ServedIsStored
  <2> QED
    BY Zenon, <1>1, <2>1, <2>2, <2>3, <2>4, <2>5, <2>6, ChangesFiles
<1> QED
  BY Zenon, <1>2, <1>3, <1>4

LEMMA WriteRelayInv ==
  ASSUME NEW r \in Relays, NEW f \in {"cert", "key"}, RelayInv, Write(r, f) PROVE RelayInv'
<1> USE TrustAssumption
<1>1. served' = served /\ RelayTypes
  BY Zenon DEF RelayInv, Write
<1>2. CASE GoesDown(r) /\ files' = files
  BY Zenon, <1>1, <1>2, DownRelayInv
<1>3. CASE f = "cert" /\ files' = [files EXCEPT !.cert = relay[r].cert] /\ Goes(r, "create key")
  <2>1. relay[r].at = "write cert" /\ Becomes(r, "create key", relay[r].cert, relay[r].key)
    BY Zenon, <1>3 DEF Write, Writing, Goes
  <2>2. files.cert = Torn /\ files.key = None /\ relay[r].cert \in Ids /\ Maker(r)
    BY Zenon, <2>1 DEF RelayInv, Knows, Maker
  <2>3. files'.cert = relay[r].cert /\ files'.key = None
        /\ files' \in [cert : {None, Torn} \cup Ids, key : {None, Torn} \cup Ids]
    BY Zenon, <1>1, <1>3, <2>2 DEF RelayTypes
  <2>4. \A s \in Relays : s # r => ~Maker(s)
    BY Zenon, <2>2 DEF RelayInv
  <2>5. \A s \in Relays : relay[s].at \notin {"read", "read key"}
    BY Zenon, <2>2 DEF RelayInv, Knows
  <2>6. served = {}
    BY Zenon, <1>1, <2>2 DEF RelayInv, RelayTypes, ServedIsStored
  <2> QED
    BY Zenon, <1>1, <2>1, <2>2, <2>3, <2>4, <2>5, <2>6, ChangesFiles
<1>4. CASE f = "key" /\ files' = [files EXCEPT !.key = relay[r].key] /\ Goes(r, "read")
  <2>1. relay[r].at = "write key" /\ Becomes(r, "read", relay[r].cert, relay[r].key)
    BY Zenon, <1>4 DEF Write, Writing, Goes
  <2>2. /\ files.cert = relay[r].cert /\ files.key = Torn
        /\ relay[r].cert \in Ids /\ relay[r].key = relay[r].cert /\ Maker(r)
    BY Zenon, <2>1 DEF RelayInv, Knows, Maker
  <2>3. files'.cert = files.cert /\ files'.key = files.cert
        /\ files' \in [cert : {None, Torn} \cup Ids, key : {None, Torn} \cup Ids]
    BY Zenon, <1>1, <1>4, <2>2 DEF RelayTypes
  <2>4. \A s \in Relays : s # r => ~Maker(s)
    BY Zenon, <2>2 DEF RelayInv
  <2>5. served = {}
    BY Zenon, <1>1, <2>2 DEF RelayInv, RelayTypes, ServedIsStored
  <2> QED
    BY Zenon, <1>1, <2>1, <2>2, <2>3, <2>4, <2>5, ChangesFiles
<1> QED
  BY Zenon, <1>2, <1>3, <1>4 DEF Write

LEMMA ResetRelayInv == RelayInv /\ Reset => RelayInv'
<1> SUFFICES ASSUME RelayInv, Reset PROVE RelayInv'
  BY Zenon
<1>1. files' = [cert |-> None, key |-> None] /\ served' = {} /\ relay' = relay
  BY Zenon DEF Reset
<1>2. \A r \in Relays : relay'[r].at = "off"
  BY Zenon, <1>1 DEF Reset
<1>3. files'.key = None /\ RelayTypes'
  BY Zenon, <1>1 DEF RelayInv, RelayTypes
<1> QED
  BY Zenon, <1>1, <1>2, <1>3, TrustAssumption DEF RelayInv, Knows, Maker, ServedIsStored

LEMMA ClientRelayInv == RelayInv /\ UNCHANGED relayVars => RelayInv'
BY ZenonT(30) DEF RelayInv, RelayTypes, Knows, Maker, ServedIsStored, relayVars

LEMMA NextRelayInv == RelayInv /\ [TrustNext]_trustVars => RelayInv'
<1> SUFFICES ASSUME RelayInv, [TrustNext]_trustVars PROVE RelayInv'
  BY Zenon
<1>1. ASSUME NEW r \in Relays, RelayStep(r) PROVE RelayInv'
  <2>1. CASE RelayStops(r)
    BY Zenon, <2>1, DownRelayInv DEF RelayStops
  <2> QED
    BY Zenon, <1>1, <2>1, LookCertRelayInv, LookKeyRelayInv, CreateRelayInv, WriteRelayInv,
       ReadCertRelayInv, ReadKeyRelayInv DEF RelayStep
<1>2. ASSUME NEW c \in Clients, ClientStep(c) PROVE UNCHANGED relayVars
  BY Zenon, <1>2 DEF ClientStep, Connect, OpenLocked, Match, BeginLine, Sync, ClientStops
<1>3. CASE Reset
  BY Zenon, <1>3, ResetRelayInv
<1>4. CASE Delete \/ UNCHANGED trustVars
  BY Zenon, <1>4, ClientRelayInv DEF Delete, trustVars
<1> QED
  BY Zenon, <1>1, <1>2, <1>3, <1>4, ClientRelayInv DEF TrustNext

\* The relay's files hold one identity until an operator removes them: relays that
\* start together, that stop between the certificate and the key, or that find
\* half of an identity, never serve another one.
THEOREM OneIdentity == TrustSpec => []ServedIsStored
<1>1. RelayInv => ServedIsStored
  BY Zenon DEF RelayInv
<1> QED
  BY <1>1, InitRelayInv, NextRelayInv, PTL DEF TrustSpec

(***************************************************************************)
(* The clients and their pin file.                                         *)
(***************************************************************************)
Stages == {"off", "open", "match", "append", "sync", "connected"}
ClientRecords == [at : Stages, addr : Addresses \cup {None}, id : Ids \cup {None}]

PinTypes ==
  /\ client \in [Clients -> ClientRecords] /\ pin_holder \in Clients \cup {None}
  /\ lines \in Seq(Pins) /\ trusted \subseteq Pins

\* What a client knows of the pin file while it is at it.
Holds(c) ==
  /\ client[c].at \in {"open", "match", "append", "sync"} =>
       client[c].addr \in Addresses /\ client[c].id \in Ids
  /\ client[c].at \in {"match", "append", "sync"} => pin_holder = c
  /\ client[c].at \in {"append", "sync"} => Recorded(client[c].addr) = {}
  /\ client[c].at = "append" => tail = "none"
  /\ client[c].at = "sync" => tail = "part"

\* Every admitted connection has a line.
TrustHasPin == \A t \in trusted : \E k \in DOMAIN lines : lines[k] = t

\* Every line is a pin: a write that was cut short is not followed by another.
PinInv ==
  /\ PinTypes /\ \A c \in Clients : Holds(c)
  /\ OnePinPerAddress /\ TrustHasPin

LEMMA BadIsNoPin == Bad \notin Pins
  BY Zenon, TrustAssumption DEF Bad, Pins

LEMMA InitPinInv == TrustInit => PinInv
<1> SUFFICES ASSUME TrustInit PROVE PinInv
  BY Zenon
<1>1. \A c \in Clients : client[c] = Away
  BY Zenon DEF TrustInit
<1>2. Away.at = "off" /\ Away \in ClientRecords
  BY Zenon DEF Away, ClientRecords, Stages
<1>3. PinTypes
  BY SMTT(30), <1>2 DEF TrustInit, PinTypes
<1>4. \A c \in Clients : client[c].at = "off"
  BY Zenon, <1>1, <1>2
<1> QED
  BY <1>3, <1>4 DEF TrustInit, PinInv, Holds, OnePinPerAddress, TrustHasPin

LEMMA SetsFields ==
  ASSUME PinTypes, NEW c \in Clients, NEW at \in Stages, NEW addr \in Addresses \cup {None},
         NEW id \in Ids \cup {None}, Sets(c, at, addr, id)
  PROVE  /\ client'[c].at = at /\ client'[c].addr = addr /\ client'[c].id = id
         /\ \A d \in Clients : d # c => client'[d] = client[d]
         /\ client' \in [Clients -> ClientRecords]
<1> DEFINE new == [at |-> at, addr |-> addr, id |-> id]
<1>1. client'[c] = new
  BY Zenon DEF Sets, PinTypes
<1>2. new.at = at /\ new.addr = addr /\ new.id = id /\ new \in ClientRecords
  BY Zenon DEF ClientRecords
<1>3. \A d \in Clients : d # c => client'[d] = client[d]
  BY Zenon DEF Sets, PinTypes
<1>4. client' \in [Clients -> ClientRecords]
  BY Zenon, <1>2 DEF Sets, PinTypes
<1> QED
  BY Zenon, <1>1, <1>2, <1>3, <1>4

LEMMA ClientFields ==
  ASSUME PinTypes, NEW c \in Clients
  PROVE  client[c].at \in Stages /\ client[c].addr \in Addresses \cup {None} /\ client[c].id \in Ids \cup {None}
<1>1. client[c] \in ClientRecords
  BY Zenon DEF PinTypes
<1> QED
  BY Zenon, <1>1 DEF ClientRecords

\* Steps that leave the file alone: the lock is free or the client has it, and the
\* client goes where it knows what Holds says.
LEMMA LeavesPins ==
  ASSUME PinInv, NEW c \in Clients, NEW at \in Stages, NEW addr \in Addresses \cup {None},
         NEW id \in Ids \cup {None}, Sets(c, at, addr, id),
         lines' = lines, tail' = tail, trusted' \subseteq Pins, TrustHasPin',
         pin_holder' \in Clients \cup {None}, pin_holder' = pin_holder \/ pin_holder \in {None, c},
         at \in {"open", "match", "append", "sync"} => addr \in Addresses /\ id \in Ids,
         at \in {"match", "append"} => pin_holder' = c,
         at = "append" => Recorded(addr) = {} /\ tail = "none",
         at # "sync"
  PROVE  PinInv'
<1>1. PinTypes
  BY Zenon DEF PinInv
<1>2. /\ client'[c].at = at /\ client'[c].addr = addr /\ client'[c].id = id
      /\ \A d \in Clients : d # c => client'[d] = client[d]
      /\ client' \in [Clients -> ClientRecords]
  BY Zenon, <1>1, SetsFields
<1>3. PinTypes'
  BY Zenon, <1>1, <1>2 DEF PinTypes
<1>4. \A d \in Clients : d # c => Holds(d)'
  BY SMTT(30), <1>2, TrustAssumption DEF PinInv, Holds, Recorded
<1>5. Holds(c)'
  BY Zenon, <1>2 DEF Holds, Recorded
<1> QED
  BY Zenon, <1>3, <1>4, <1>5 DEF PinInv, OnePinPerAddress

LEMMA LeavesPinInv ==
  ASSUME NEW c \in Clients, PinInv, Leaves(c), lines' = lines, tail' = tail, trusted' = trusted
  PROVE  PinInv'
<1>1. /\ "off" \in Stages /\ Sets(c, "off", None, None)
      /\ pin_holder' \in Clients \cup {None} /\ (pin_holder' = pin_holder \/ pin_holder \in {None, c})
  BY Zenon DEF PinInv, PinTypes, Leaves, Stages
<1>2. trusted' \subseteq Pins /\ TrustHasPin'
  BY Zenon DEF PinInv, PinTypes, TrustHasPin
<1> QED
  BY Zenon, <1>1, <1>2, LeavesPins

LEMMA ConnectPinInv ==
  ASSUME NEW c \in Clients, NEW addr \in Addresses, NEW explicit \in Ids \cup {None},
         RelayInv, PinInv, Connect(c, addr, explicit)
  PROVE  PinInv'
<1>1. lines' = lines /\ tail' = tail /\ pin_holder' = pin_holder /\ trusted' = trusted /\ PinTypes
  BY Zenon DEF Connect, PinInv
<1>2. trusted' \subseteq Pins /\ TrustHasPin' /\ pin_holder' \in Clients \cup {None}
  BY Zenon, <1>1 DEF PinInv, PinTypes, TrustHasPin
<1>3. "open" \in Stages /\ "connected" \in Stages
  BY Zenon DEF Stages
<1>4. PICK r \in Relays :
        /\ relay[r].at = "serving"
        /\ \/ Sets(c, "open", addr, relay[r].cert)
           \/ Sets(c, "connected", client[c].addr, client[c].id)
  BY Zenon DEF Connect, Turns
<1>5. relay[r].cert \in Ids
  BY Zenon, <1>4 DEF RelayInv, Knows
<1>6. CASE Sets(c, "open", addr, relay[r].cert)
  BY Zenon, <1>1, <1>2, <1>3, <1>5, <1>6, LeavesPins
<1>7. CASE Sets(c, "connected", client[c].addr, client[c].id)
  BY Zenon, <1>1, <1>2, <1>3, <1>7, ClientFields, LeavesPins
<1> QED
  BY Zenon, <1>4, <1>6, <1>7

LEMMA OpenPinInv ==
  ASSUME NEW c \in Clients, PinInv, OpenLocked(c) PROVE PinInv'
<1>1. lines' = lines /\ tail' = tail /\ trusted' = trusted /\ PinTypes
  BY Zenon DEF OpenLocked, PinInv
<1>2. CASE Leaves(c)
  BY Zenon, <1>1, <1>2, LeavesPinInv
<1>3. CASE pin_holder = None /\ pin_holder' = c /\ Turns(c, "match")
  <2>1. trusted' \subseteq Pins /\ TrustHasPin'
    BY Zenon, <1>1 DEF PinInv, PinTypes, TrustHasPin
  <2>2. /\ "match" \in Stages /\ Sets(c, "match", client[c].addr, client[c].id)
        /\ client[c].addr \in Addresses /\ client[c].id \in Ids
    BY Zenon, <1>3 DEF Turns, Stages, OpenLocked, PinInv, Holds
  <2> QED
    BY Zenon, <1>1, <1>3, <2>1, <2>2, LeavesPins
<1> QED
  BY Zenon, <1>2, <1>3 DEF OpenLocked

LEMMA MatchPinInv ==
  ASSUME NEW c \in Clients, PinInv, Match(c) PROVE PinInv'
<1> DEFINE pin == [addr |-> client[c].addr, id |-> client[c].id]
           at == Recorded(client[c].addr)
           first == CHOOSE k \in at : \A j \in at : k <= j
<1>1. /\ lines' = lines /\ tail' = tail /\ PinTypes /\ client[c].at = "match"
      /\ client[c].addr \in Addresses /\ client[c].id \in Ids /\ pin_holder = c
  BY Zenon DEF Match, PinInv, Holds
<1>2. /\ "off" \in Stages /\ "connected" \in Stages /\ "append" \in Stages
      /\ pin \in Pins /\ pin.addr = client[c].addr
  BY Zenon, <1>1 DEF Stages, Pins
<1>3. trusted \subseteq Pins /\ (trusted' = trusted => TrustHasPin')
  BY Zenon, <1>1 DEF PinInv, PinTypes, TrustHasPin
<1>4. CASE Leaves(c) /\ trusted' = trusted
  BY Zenon, <1>1, <1>4, LeavesPinInv
<1>5. CASE Sets(c, "off", None, None) /\ pin_holder' = None /\ trusted' = trusted
  BY Zenon, <1>1, <1>2, <1>3, <1>5, LeavesPins
<1>6. CASE /\ at # {} /\ lines[first] = pin /\ pin_holder' = None
           /\ trusted' = trusted \cup {pin} /\ Turns(c, "connected")
  <2>1. PICK k \in DOMAIN lines : lines[k].addr = client[c].addr
    BY Zenon, <1>6 DEF Recorded
  <2>2. k \in at /\ k \in Nat /\ \A j \in at : lines[j] \in Pins /\ lines[k] \in Pins
    BY <1>1, <2>1 DEF PinTypes, Recorded
  <2>3. Bad \notin Pins
    BY Zenon, BadIsNoPin
  <2>4. \A j \in at : j = k
    BY Zenon, <2>1, <2>2, <2>3 DEF PinInv, OnePinPerAddress, Recorded
  <2>5. \A j \in at : k <= j
    BY <2>2, <2>4
  <2>6. first \in at
    BY Zenon, <2>2, <2>5
  <2>7. first \in DOMAIN lines
    BY Zenon, <2>6 DEF Recorded
  <2>8. TrustHasPin'
    BY Zenon, <1>1, <1>6, <2>7 DEF PinInv, TrustHasPin
  <2>9. trusted' \subseteq Pins /\ Sets(c, "connected", client[c].addr, client[c].id)
    BY Zenon, <1>2, <1>3, <1>6 DEF Turns
  <2> QED
    BY Zenon, <1>1, <1>2, <1>6, <2>8, <2>9, ClientFields, LeavesPins
<1>7. CASE /\ ~Incomplete /\ at = {} /\ Turns(c, "append")
           /\ pin_holder' = pin_holder /\ trusted' = trusted
  <2>1. tail = "none" /\ Sets(c, "append", client[c].addr, client[c].id)
    BY Zenon, <1>7 DEF Incomplete, Turns
  <2> QED
    BY Zenon, <1>1, <1>2, <1>3, <1>7, <2>1, LeavesPins
<1> QED
  BY Zenon, <1>2, <1>4, <1>5, <1>6, <1>7 DEF Match

LEMMA OthersAway ==
  ASSUME PinInv, NEW c \in Clients, pin_holder = c
  PROVE  \A d \in Clients : d # c => client[d].at \notin {"match", "append", "sync"}
BY Zenon DEF PinInv, Holds

LEMMA BeginPinInv ==
  ASSUME NEW c \in Clients, PinInv, BeginLine(c) PROVE PinInv'
<1>1. /\ lines' = lines /\ trusted' = trusted /\ pin_holder' = pin_holder /\ PinTypes
      /\ client[c].at = "append" /\ pin_holder = c /\ tail = "none"
      /\ client[c].addr \in Addresses /\ client[c].id \in Ids
      /\ Recorded(client[c].addr) = {}
  BY Zenon DEF BeginLine, PinInv, Holds
<1>2. tail' = "part" /\ "sync" \in Stages /\ Sets(c, "sync", client[c].addr, client[c].id)
  BY Zenon, <1>1 DEF BeginLine, Turns, Stages
<1>3. /\ client'[c].at = "sync" /\ client'[c].addr = client[c].addr /\ client'[c].id = client[c].id
      /\ \A d \in Clients : d # c => client'[d] = client[d]
      /\ client' \in [Clients -> ClientRecords]
  BY Zenon, <1>1, <1>2, ClientFields, SetsFields
<1>4. PinTypes'
  BY Zenon, <1>1, <1>3 DEF PinTypes
<1>5. Holds(c)'
  BY Zenon, <1>1, <1>2, <1>3 DEF Holds, Recorded
<1>6. \A d \in Clients : d # c => Holds(d)'
  BY Zenon, <1>1, <1>3, OthersAway DEF PinInv, Holds
<1> QED
  BY Zenon, <1>1, <1>4, <1>5, <1>6 DEF PinInv, OnePinPerAddress, TrustHasPin

LEMMA SyncPinInv ==
  ASSUME NEW c \in Clients, PinInv, Sync(c) PROVE PinInv'
<1> DEFINE pin == [addr |-> client[c].addr, id |-> client[c].id]
<1>1. /\ PinTypes /\ client[c].at = "sync" /\ pin_holder = c /\ tail = "part"
      /\ client[c].addr \in Addresses /\ client[c].id \in Ids
      /\ Recorded(client[c].addr) = {}
  BY Zenon DEF Sync, PinInv, Holds
<1>2. CASE Leaves(c) /\ UNCHANGED <<lines, tail, trusted>>
  BY Zenon, <1>2, LeavesPinInv
<1>3. CASE /\ lines' = Append(lines, IF tail = "joined" THEN Bad ELSE pin)
           /\ tail' = "none" /\ trusted' = trusted \cup {pin}
           /\ pin_holder' = None /\ Turns(c, "connected")
  <2>1. /\ lines' = Append(lines, pin) /\ "connected" \in Stages
        /\ Sets(c, "connected", client[c].addr, client[c].id)
    BY Zenon, <1>1, <1>3 DEF Turns, Stages
  <2>2. /\ client'[c].at = "connected"
        /\ \A d \in Clients : d # c => client'[d] = client[d]
        /\ client' \in [Clients -> ClientRecords]
    BY Zenon, <1>1, <2>1, ClientFields, SetsFields
  <2>3. pin \in Pins /\ pin.addr = client[c].addr
    BY Zenon, <1>1 DEF Pins
  <2> HIDE DEF pin
  <2>4. lines \in Seq(Pins) /\ lines' \in Seq(Pins) /\ Len(lines) \in Nat /\ Len(lines') = Len(lines) + 1
    BY <1>1, <2>1, <2>3 DEF PinTypes
  <2>5. \A k \in DOMAIN lines : k \in DOMAIN lines' /\ lines'[k] = lines[k]
    BY <2>1, <2>3, <2>4
  <2>6. \A k \in DOMAIN lines' : k \in DOMAIN lines \/ k = Len(lines) + 1
    BY <2>4
  <2>7. Len(lines) + 1 \in DOMAIN lines' /\ lines'[Len(lines) + 1] = pin
    BY SMTT(30), <2>1, <2>3, <2>4
  <2>8. PinTypes'
    BY Zenon, <1>1, <1>3, <2>2, <2>3, <2>4 DEF PinTypes
  <2>9. Holds(c)'
    BY Zenon, <2>2 DEF Holds
  <2>10. \A d \in Clients : d # c => Holds(d)'
    BY Zenon, <1>1, <2>2, OthersAway DEF PinInv, Holds
  <2>11. \A k \in DOMAIN lines : lines[k].addr # pin.addr
    BY Zenon, <1>1, <2>3 DEF Recorded
  <2>12. OnePinPerAddress'
    BY Zenon, <2>5, <2>6, <2>7, <2>11 DEF PinInv, OnePinPerAddress
  <2>13. TrustHasPin'
    BY Zenon, <1>3, <2>5, <2>7 DEF PinInv, TrustHasPin
  <2> QED
    BY Zenon, <2>8, <2>9, <2>10, <2>12, <2>13 DEF PinInv
<1> QED
  BY Zenon, <1>2, <1>3 DEF Sync

LEMMA DeletePinInv == PinInv /\ Delete => PinInv'
<1> SUFFICES ASSUME PinInv, Delete PROVE PinInv'
  BY Zenon
<1>1. \A c \in Clients : client[c].at \notin {"match", "append", "sync"}
  BY Zenon, TrustAssumption DEF PinInv, Holds, Delete
<1>2. lines' = <<>> /\ trusted' = {} /\ client' = client /\ pin_holder' = pin_holder
  BY Zenon DEF Delete
<1>3. PinTypes'
  BY SMTT(30), <1>2 DEF PinInv, PinTypes
<1> QED
  BY SMTT(30), <1>1, <1>2, <1>3 DEF PinInv, Holds, OnePinPerAddress, TrustHasPin

LEMMA RelayPinInv == PinInv /\ UNCHANGED clientVars => PinInv'
BY DEF PinInv, PinTypes, Holds, Recorded, OnePinPerAddress, TrustHasPin, clientVars

LEMMA NextPinInv == RelayInv /\ PinInv /\ [TrustNext]_trustVars => PinInv'
<1> SUFFICES ASSUME RelayInv, PinInv, [TrustNext]_trustVars PROVE PinInv'
  BY Zenon
<1>1. ASSUME NEW c \in Clients, ClientStep(c) PROVE PinInv'
  <2>1. CASE ClientStops(c)
    BY Zenon, <2>1, LeavesPinInv DEF ClientStops
  <2> QED
    BY Zenon, <1>1, <2>1, ConnectPinInv, OpenPinInv, MatchPinInv, BeginPinInv, SyncPinInv DEF ClientStep
<1>2. ASSUME NEW r \in Relays, RelayStep(r) PROVE UNCHANGED clientVars
  BY Zenon, <1>2 DEF RelayStep, LookCert, LookKey, Create, Write, ReadCert, ReadKey, RelayStops
<1>3. CASE Delete
  BY Zenon, <1>3, DeletePinInv
<1>4. CASE Reset \/ UNCHANGED trustVars
  BY Zenon, <1>4, RelayPinInv DEF Reset, trustVars
<1> QED
  BY Zenon, <1>1, <1>2, <1>3, <1>4, RelayPinInv DEF TrustNext

\* The pin file of any number of clients: whatever it admitted since it was last
\* deleted is recorded in it, and no address has two records, so that a relay
\* with another fingerprint is refused at that address from then on.
THEOREM PinsKeepTrust == TrustSpec => [](OnePinPerAddress /\ TrustIsPinned)
<1>1. PinInv => OnePinPerAddress /\ TrustIsPinned
  BY BadIsNoPin DEF PinInv, PinTypes, OnePinPerAddress, TrustHasPin, TrustIsPinned
<1>2. TrustInit => RelayInv /\ PinInv
  BY Zenon, InitRelayInv, InitPinInv
<1>3. RelayInv /\ PinInv /\ [TrustNext]_trustVars => (RelayInv /\ PinInv)'
  BY Zenon, NextRelayInv, NextPinInv
<1> QED
  BY <1>1, <1>2, <1>3, PTL DEF TrustSpec

\* The part of PinsKeepTrust about the file itself: clients that pin at the same time
\* never leave two records for an address.
THEOREM PinsAreUnique == TrustSpec => []OnePinPerAddress
  BY PinsKeepTrust, PTL

===============================================================================
