---------------------------- MODULE ClientStartup ----------------------------
(***************************************************************************)
(* run_inner up to the connect loop, and contacts.  Programs on the same   *)
(* client database: the running client and the offline commands, started   *)
(* at any time and stopped at any point.  Statements and transactions are  *)
(* atomic; what lies between them is not.                                  *)
(***************************************************************************)
EXTENDS Options

CONSTANTS
  Procs,     \* programs that may be started on the database
  Selves,    \* user ids that UserId::new may draw
  Keys,      \* keys that may be drawn, for the transport and for MLS
  Cards      \* well signed contact cards that may be imported, of anyone

VARIABLES
  transport, \* table transport_identity
  mls,       \* table mls_identity
  contacts,  \* table verified_contacts
  holder,    \* the program that holds the file lock
  proc,      \* program -> where it is
  drawn,     \* keys drawn so far
  verified,  \* history: cards reported as "Contact verified"
  exported,  \* history: own cards shown
  accepted   \* history: [user, mls_key] that the identity provider accepted

database == <<transport, mls, contacts>>
history == <<verified, exported, accepted>>
vars == <<database, holder, proc, drawn, history>>

People == Selves \cup {c.user : c \in Cards}
Card == [user : People, transport_key : Keys, mls_key : Keys]

ASSUME StartupAssumption ==
  /\ Cards \subseteq Card
  /\ None \notin Procs \cup Keys \cup Card \cup [user : Selves, key : Keys]

Modes == [what : {"run", "export"}, card : {None}] \cup [what : {"import"}, card : Cards]

\* at: the next step; mode: the arguments; keys: the MLS keys in memory; card:
\* the card being imported, and whose it is.
Off == [at |-> "off", mode |-> None, keys |-> None, card |-> None, whose |-> "other"]

Init ==
  /\ transport = None /\ mls = None /\ contacts = [u \in People |-> None]
  /\ holder = None /\ proc = [p \in Procs |-> Off] /\ drawn = {}
  /\ verified = {} /\ exported = {} /\ accepted = {}

Puts(p, work) == proc' = [proc EXCEPT ![p] = work]
Moves(p, at) == Puts(p, [proc[p] EXCEPT !.at = at])

\* The program ends, with or without an error: the lock goes with it.
Ends(p) ==
  /\ Puts(p, Off)
  /\ holder' = IF holder = p THEN None ELSE holder

Draw(x) == x \notin drawn /\ drawn' = drawn \cup {x}

(***************************************************************************)
(* Start-up.                                                               *)
(***************************************************************************)
\* open_locked takes the lock or the program ends ("already in use").
Open(p, mode) ==
  /\ proc[p].at = "off" /\ holder = None
  /\ holder' = p
  /\ Puts(p, [proc[p] EXCEPT !.at = "identity", !.mode = mode])
  /\ UNCHANGED <<database, drawn, history>>

\* ClientStore::identity, one transaction.
Identity(p) ==
  /\ proc[p].at = "identity" /\ Moves(p, "mls")
  /\ IF transport # None THEN UNCHANGED <<transport, drawn>>
     ELSE \E u \in Selves, k \in Keys :
            /\ Draw(k)
            /\ transport' = [user |-> u, key |-> k]
  /\ UNCHANGED <<mls, contacts, holder, history>>

\* load_mls_identity, and generate_key_material when there is none.
MlsIdentity(p) ==
  /\ proc[p].at = "mls"
  /\ IF mls # None
     THEN Puts(p, [proc[p] EXCEPT !.at = "own", !.keys = mls]) /\ UNCHANGED drawn
     ELSE \E k \in Keys :
            Draw(k) /\ Puts(p, [proc[p] EXCEPT !.at = "save", !.keys = k])
  /\ UNCHANGED <<database, holder, history>>

\* save_mls_identity: other keys are never replaced.
SaveMls(p) ==
  /\ proc[p].at = "save"
  /\ IF mls \in {None, proc[p].keys}
     THEN mls' = proc[p].keys /\ Moves(p, "own") /\ UNCHANGED holder
     ELSE Ends(p) /\ UNCHANGED mls
  /\ UNCHANGED <<transport, contacts, drawn, history>>

\* ContactCard::own, from what is stored.
OwnCard == [user |-> transport.user, transport_key |-> transport.key, mls_key |-> mls]
Own(p) ==
  /\ proc[p].at = "own"
  /\ Puts(p, [proc[p] EXCEPT !.at = "check", !.card = OwnCard, !.whose = "own"])
  /\ UNCHANGED <<database, holder, drawn, history>>

(***************************************************************************)
(* ContactCard::import: read the pin, admit, insert.                       *)
(***************************************************************************)
\* The card is in.  The own card is followed by the command of the program, an
\* imported one by the report.
Imported(p) ==
  LET mode == proc[p].mode
  IN  IF proc[p].whose = "own"
      THEN Moves(p, mode.what) /\ UNCHANGED <<holder, verified>>
      ELSE /\ verified' = verified \cup {proc[p].card}
           /\ IF mode.what = "import" THEN Ends(p)
              ELSE Moves(p, "run") /\ UNCHANGED holder

\* Mutant of Rejected: a failed import is only logged.
RejectedGoesOn(p) == Moves(p, proc[p].mode.what) /\ UNCHANGED holder

\* An error ends an offline command; the running client rejects the command.
Rejected(p) ==
  IF proc[p].whose = "own" \/ proc[p].mode.what # "run" THEN Ends(p)
  ELSE Moves(p, "run") /\ UNCHANGED holder

\* Mutant of Check: a user who has a pin counts as known, whatever the keys.
CheckUser(p) ==
  /\ proc[p].at = "check"
  /\ IF contacts[proc[p].card.user] = None
     THEN Moves(p, "admit") /\ UNCHANGED <<holder, verified>>
     ELSE Imported(p)
  /\ UNCHANGED <<database, drawn, exported, accepted>>

Check(p) ==
  /\ proc[p].at = "check"
  /\ LET pin == contacts[proc[p].card.user]
     IN  CASE pin = None -> Moves(p, "admit") /\ UNCHANGED <<holder, verified>>
           [] pin = proc[p].card -> Imported(p)
           [] OTHER -> Rejected(p) /\ UNCHANGED verified
  /\ UNCHANGED <<database, drawn, exported, accepted>>

\* admit_new_data: enough of the storage budget is left, or not.
Admit(p) ==
  /\ proc[p].at = "admit"
  /\ \/ Moves(p, "insert") /\ UNCHANGED holder
     \/ Rejected(p)
  /\ UNCHANGED <<database, drawn, history>>

\* ON CONFLICT DO NOTHING.
Insert(p) ==
  /\ proc[p].at = "insert"
  /\ contacts' = [contacts EXCEPT ![proc[p].card.user] = IF @ = None THEN proc[p].card ELSE @]
  /\ Imported(p)
  /\ UNCHANGED <<transport, mls, drawn, exported, accepted>>

(***************************************************************************)
(* The commands of the program.                                            *)
(***************************************************************************)
\* --contact-import and /contact import: the card is parsed and its fingerprint
\* compared; another fingerprint is an error.
Import(p, card) ==
  /\ \/ proc[p].at = "import" /\ card = proc[p].mode.card
     \/ proc[p].at = "run"
  /\ \/ /\ Puts(p, [proc[p] EXCEPT !.at = "check", !.card = card, !.whose = "other"])
        /\ UNCHANGED holder
     \/ proc[p].at = "import" /\ Ends(p)
  /\ UNCHANGED <<database, drawn, history>>

\* --contact-export and /contact export.
Export(p) ==
  /\ proc[p].at \in {"export", "run"}
  /\ exported' = exported \cup {OwnCard}
  /\ IF proc[p].at = "export" THEN Ends(p) ELSE UNCHANGED <<proc, holder>>
  /\ UNCHANGED <<database, drawn, verified, accepted>>

\* VerifiedIdentityProvider::verify accepts a member of a group.
Verify(p, user, key) ==
  /\ proc[p].at = "run" /\ contacts[user] # None /\ contacts[user].mls_key = key
  /\ accepted' = accepted \cup {[user |-> user, mls_key |-> key]}
  /\ UNCHANGED <<database, holder, proc, drawn, verified, exported>>

\* The program is stopped, anywhere.
Stop(p) ==
  /\ proc[p].at # "off" /\ Ends(p)
  /\ UNCHANGED <<database, drawn, history>>

Step(p) ==
  \/ \E mode \in Modes : Open(p, mode)
  \/ Identity(p) \/ MlsIdentity(p) \/ SaveMls(p) \/ Own(p)
  \/ Check(p) \/ Admit(p) \/ Insert(p)
  \/ \E card \in Cards : Import(p, card)
  \/ Export(p)
  \/ \E user \in People, key \in Keys : Verify(p, user, key)
  \/ Stop(p)

Next == \E p \in Procs : Step(p)

Spec == Init /\ [][Next]_vars

(***************************************************************************)
(* Properties.                                                             *)
(***************************************************************************)
Places == {"off", "identity", "mls", "save", "own", "check", "admit", "insert",
           "run", "export", "import"}

Works == [at : Places, mode : {None} \cup Modes, keys : {None} \cup Keys,
          card : {None} \cup Card, whose : {"own", "other"}]

\* The variables have their types; a card is never made without both keys.
StartupTypeOK ==
  /\ transport \in {None} \cup [user : Selves, key : Keys] /\ mls \in {None} \cup Keys
  /\ contacts \in [People -> {None} \cup Card]
  /\ holder \in {None} \cup Procs
  /\ proc \in [Procs -> Works]
  /\ drawn \subseteq Keys
  /\ verified \subseteq Cards /\ exported \subseteq Card
  /\ accepted \subseteq [user : People, mls_key : Keys]

\* "Changed keys never overwrite a pin" (STORAGE.md), nor do they seem to: a card
\* reported as verified is the one that is pinned, although import reads the pin
\* and inserts in two steps and the insertion ignores a conflict.
VerifiedIsPinned == \A c \in verified : contacts[c.user] = c

\* What was shown to others stays true: every own card that was ever exported is
\* made of the identity and the keys in the database, whenever a first start was
\* interrupted.
ExportedIsOwn == \A c \in exported : transport # None /\ c = OwnCard

\* A binding that was accepted in some group is the pinned one for ever, so that
\* two groups never know a user by two keys.
AcceptedIsPinned ==
  \A b \in accepted : contacts[b.user] # None /\ contacts[b.user].mls_key = b.mls_key

\* The keys that a program works with are the stored ones, and its own card is
\* pinned to them, from the end of start-up on: its own messages are accepted.
RunsOnStoredKeys ==
  \A p \in Procs : proc[p].at \in {"run", "export", "import"} =>
    /\ proc[p].keys = mls /\ transport # None
    /\ contacts[transport.user] = OwnCard

\* No step changes a pin, an identity or stored keys.
NothingReplaced ==
  [][/\ \A u \in People : contacts[u] # None => contacts'[u] = contacts[u]
     /\ transport # None => transport' = transport
     /\ mls # None => mls' = mls]_vars

=============================================================================
