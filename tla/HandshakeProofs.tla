--------------------------- MODULE HandshakeProofs ---------------------------
(***************************************************************************)
(* Handshake for any number of programs, connections, users and tokens:    *)
(* sessions are authentic and one per user, an accepted client is          *)
(* registered, tokens are accounted for (SessionsCorrect), and a program   *)
(* is refused for a cause only (RefusalsCorrect).                          *)
(***************************************************************************)
EXTENDS Handshake, TLAPS

(***************************************************************************)
(* The inductive invariant: what holds of a connection at each pair of     *)
(* steps of its two ends, given the stored identities and tokens.          *)
(***************************************************************************)
Fields == {"program", "client", "relay", "said", "challenge", "job", "up", "down"}

Ends(r) ==
  /\ DOMAIN r = Fields
  /\ r.client \in Waits /\ r.relay \in Serves
  /\ r.client # "gone" \/ r.relay # "gone" => r.program \in Programs
  /\ r.relay \in {"ClientAuthenticationResponse", "Registration", "in"} =>
       r.said = Identify(r.program)
  /\ r.job = "queued" => \E p \in Programs : r.said = Identify(p)
  /\ r.relay \notin {"ClientHello", "gone"} => Speaks[r.program] = RelayVersion
  /\ r.client \in {"ServerAuthenticationChallenge", "ServerIdentifyAccepted", "in"} =>
       Speaks[r.program] = RelayVersion

\* The client is never ahead of the relay, nor more than a message behind.
InStep(r) ==
  /\ r.relay = "ClientHello" => r.client \in {"ServerHello", "gone"}
  /\ r.relay = "ClientIdentify" =>
       r.client \in {"ServerHello", "ServerAuthenticationChallenge", "gone"}
  /\ r.relay = "ClientAuthenticationResponse" =>
       r.client \in {"ServerAuthenticationChallenge", "ServerIdentifyAccepted", "gone"}
  /\ r.relay = "Registration" => r.client \in {"ServerIdentifyAccepted", "gone"}
  /\ r.relay = "in" => r.client \in {"ServerIdentifyAccepted", "in", "gone"}

UpRight(r) ==
  r.up.kind # "none" =>
    /\ r.relay = "ClientHello" => r.up.kind = "ClientHello" /\ r.up.body = Speaks[r.program]
    /\ r.relay = "ClientIdentify" =>
         /\ r.up.kind = "ClientIdentify" /\ r.up.body = Identify(r.program)
         /\ r.client \in {"ServerAuthenticationChallenge", "gone"}
    /\ r.relay = "ClientAuthenticationResponse" =>
         /\ r.up.kind = "ClientAuthenticationResponse"
         /\ r.up.body = Sign(Key[r.program], authentication_transcript(RelayVersion,
                                               User[r.program], Key[r.program], r.challenge))
         /\ r.client \in {"ServerIdentifyAccepted", "gone"}

DownRight(r, ids) ==
  r.down.kind \notin {"none", "ProtocolError"} =>
    /\ r.client = "ServerHello" =>
         /\ r.down.kind = "ServerHello" /\ r.down.body = Speaks[r.program]
         /\ r.relay \in {"ClientIdentify", "gone"} /\ Speaks[r.program] = RelayVersion
    /\ r.client = "ServerAuthenticationChallenge" =>
         /\ r.down.kind = "ServerAuthenticationChallenge"
         /\ r.relay # "gone" => r.relay = "ClientAuthenticationResponse"
                                /\ r.down.body = r.challenge
    /\ r.client = "ServerIdentifyAccepted" =>
         /\ r.down.kind = "ServerIdentifyAccepted" /\ r.down.body = User[r.program]
         /\ r.relay \in {"in", "gone"} /\ ids[User[r.program]] = Key[r.program]

\* What the answer of the database says is still so.
JobRight(r, ids) ==
  /\ r.relay = "in" => ids[r.said.user] = r.said.key
  /\ r.client = "in" => ids[User[r.program]] = Key[r.program] /\ r.relay \in {"in", "gone"}
  /\ r.relay = "Registration" =>
       /\ r.job \in {"New", "Existing"} => ids[r.said.user] = r.said.key
       /\ r.job = "IdentityKeyConflict" => ids[r.said.user] \notin {None, r.said.key}

Linked(r, ids) ==
  /\ Ends(r) /\ InStep(r) /\ UpRight(r) /\ DownRight(r, ids)
  /\ JobRight(r, ids)

StoredTypes ==
  /\ identities \in [Users -> Keys \cup {None}]
  /\ tokens \in [Tokens -> {"issued", "consumed", "expired"}]

\* One session per registered user.
Registry ==
  /\ \A j, k \in Conns :
       conn[j].relay = "in" /\ conn[k].relay = "in" /\ conn[j].said.user = conn[k].said.user
         => j = k
  /\ active_identities = {conn[k].said.user : k \in {j \in Conns : conn[j].relay = "in"}}

HInv ==
  /\ StoredTypes
  /\ DOMAIN state = Programs /\ DOMAIN conn = Conns
  /\ \A k \in Conns : Linked(conn[k], identities)
  /\ Registry
  /\ TokensAccounted

(***************************************************************************)
(* Messages and records.                                                   *)
(***************************************************************************)
LEMMA Spoken ==
  /\ \A kind, body : Message(kind, body).kind = kind /\ Message(kind, body).body = body
  /\ Silence.kind = "none"
  BY Zenon DEF Message, Silence

LEMMA UnusedFields ==
  /\ DOMAIN Unused = Fields
  /\ Unused.program = None /\ Unused.client = "gone" /\ Unused.relay = "gone"
  /\ Unused.said = None /\ Unused.challenge = None /\ Unused.job = "none"
  /\ Unused.up = Silence /\ Unused.down = Silence
  BY Zenon DEF Unused, Fields

LEMMA Introduced ==
  ASSUME NEW p \in Programs
  PROVE  /\ Identify(p).user = User[p] /\ Identify(p).key = Key[p]
         /\ Identify(p).enrollment = Token[p]
         /\ User[p] \in Users /\ Key[p] \in Keys /\ Key[p] # None
         /\ Token[p] \in Tokens \cup {None}
  BY HandshakeAssumption DEF HandshakeAssumption, Identify

LEMMA UnusedLinked == ASSUME NEW ids PROVE Linked(Unused, ids)
<1>1. Ends(Unused)
  BY Zenon, UnusedFields DEF Ends, Waits, Serves
<1>2. Unused.up.kind = "none" /\ Unused.down.kind = "none"
  BY Zenon, UnusedFields, Spoken
<1> QED
  BY Zenon, <1>1, <1>2, UnusedFields DEF Linked, InStep, UpRight, DownRight, JobRight

\* Forgetting a connection both ends have left keeps what holds of it.
LEMMA TidyLinked ==
  ASSUME NEW r, NEW ids, Linked(r, ids)
  PROVE  /\ Linked(Tidy(r), ids)
         /\ Tidy(r).relay = r.relay
         /\ r.relay # "gone" => Tidy(r).said = r.said
<1>1. CASE ~(r.client = "gone" /\ r.relay = "gone")
  BY Zenon, <1>1 DEF Tidy
<1>2. CASE r.client = "gone" /\ r.relay = "gone"
  <2> DEFINE u == [Unused EXCEPT !.job = IF r.job = "queued" THEN "queued" ELSE "none",
                                 !.said = IF r.job = "queued" THEN r.said ELSE None]
  <2>1. Tidy(r) = u
    BY Zenon, <1>2 DEF Tidy
  <2>2. /\ DOMAIN u = Fields /\ u.program = None /\ u.client = "gone" /\ u.relay = "gone"
        /\ u.up = Silence /\ u.down = Silence
        /\ u.job = (IF r.job = "queued" THEN "queued" ELSE "none")
        /\ u.said = (IF r.job = "queued" THEN r.said ELSE None)
    BY Zenon DEF Unused, Fields
  <2>3. r.job = "queued" => \E p \in Programs : r.said = Identify(p)
    BY Zenon DEF Linked, Ends
  <2> HIDE DEF u
  <2>4. Ends(u)
    BY Zenon, <2>2, <2>3 DEF Ends, Waits, Serves
  <2>5. u.up.kind = "none" /\ u.down.kind = "none"
    BY Zenon, <2>2, Spoken
  <2>6. Linked(u, ids)
    BY Zenon, <2>2, <2>4, <2>5 DEF Linked, InStep, UpRight, DownRight, JobRight
  <2> QED
    BY Zenon, <1>2, <2>1, <2>2, <2>6
<1> QED
  BY Zenon, <1>1, <1>2

(***************************************************************************)
(* Registered keys stay.                                                   *)
(***************************************************************************)
Grows(ids, ids2) == \A u \in Users : ids[u] # None => ids2[u] = ids[u]

LEMMA LinkedStays ==
  ASSUME NEW r, NEW ids, NEW ids2,
         Grows(ids, ids2), Linked(r, ids)
  PROVE  Linked(r, ids2)
<1>1. Ends(r) /\ InStep(r) /\ UpRight(r)
  BY Zenon DEF Linked
<1>2. CASE r.client = "gone" /\ r.relay = "gone"
  BY Zenon, <1>1, <1>2 DEF Linked, DownRight, JobRight
<1>3. CASE r.client # "gone" \/ r.relay # "gone"
  <2> DEFINE p == r.program
  <2>1. p \in Programs
    BY Zenon, <1>1, <1>3 DEF Ends
  <2>2. /\ Identify(p).user = User[p] /\ Identify(p).key = Key[p]
        /\ User[p] \in Users /\ Key[p] # None
    BY Zenon, <2>1, Introduced
  <2>3. ids[User[p]] # None => ids2[User[p]] = ids[User[p]]
    BY Zenon, <2>2 DEF Grows
  <2>4. DownRight(r, ids2)
    BY Zenon, <2>2, <2>3 DEF Linked, DownRight
  <2>7. r.relay \in {"Registration", "in"} => r.said = Identify(p)
    BY Zenon, <1>1 DEF Ends
  <2>8. JobRight(r, ids)
    BY Zenon DEF Linked
  <2> HIDE DEF p
  <2>9. r.relay = "in" => ids2[r.said.user] = r.said.key
    BY Zenon, <2>2, <2>3, <2>7, <2>8 DEF JobRight
  <2>10. r.relay = "Registration" =>
           /\ r.job \in {"New", "Existing"} => ids2[r.said.user] = r.said.key
           /\ r.job = "IdentityKeyConflict" => ids2[r.said.user] \notin {None, r.said.key}
    BY Zenon, <2>2, <2>3, <2>7, <2>8 DEF JobRight
  <2>12. r.client = "in" => ids2[User[p]] = Key[p] /\ r.relay \in {"in", "gone"}
    BY Zenon, <2>2, <2>3, <2>8 DEF JobRight, p
  <2>13. JobRight(r, ids2)
    BY Zenon, <2>9, <2>10, <2>12 DEF JobRight, p
  <2> QED
    BY Zenon, <1>1, <2>4, <2>13 DEF Linked
<1> QED
  BY Zenon, <1>2, <1>3

(***************************************************************************)
(* A step of one connection.                                               *)
(***************************************************************************)
LEMMA OneConnection ==
  ASSUME HInv, NEW k \in Conns, NEW r, Becomes(k, r), Linked(r, identities'),
         Grows(identities, identities')
  PROVE  /\ DOMAIN conn' = Conns
         /\ \A j \in Conns : Linked(conn'[j], identities')
         /\ conn'[k].relay = r.relay
         /\ r.relay # "gone" => conn'[k].said = r.said
         /\ \A j \in Conns : j # k => conn'[j] = conn[j]
<1>1. /\ DOMAIN conn' = Conns /\ conn'[k] = Tidy(r)
      /\ \A j \in Conns : j # k => conn'[j] = conn[j]
  BY Zenon DEF HInv, Becomes
<1>2. /\ Linked(Tidy(r), identities') /\ Tidy(r).relay = r.relay
      /\ r.relay # "gone" => Tidy(r).said = r.said
  BY Zenon, TidyLinked
<1>3. \A j \in Conns : j # k => Linked(conn[j], identities')
  BY Zenon, LinkedStays DEF HInv
<1> QED
  BY Zenon, <1>1, <1>2, <1>3

LEMMA StepKeeps ==
  ASSUME HInv, NEW k \in Conns, NEW r, Becomes(k, r), Linked(r, identities'),
         Grows(identities, identities'), StoredTypes', TokensAccounted',
         DOMAIN state' = Programs,
         active_identities' = active_identities,
         r.relay = "in" <=> conn[k].relay = "in",
         r.relay = "in" => r.said = conn[k].said
  PROVE  HInv'
<1>1. /\ DOMAIN conn' = Conns
      /\ \A j \in Conns : Linked(conn'[j], identities')
      /\ conn'[k].relay = r.relay
      /\ r.relay # "gone" => conn'[k].said = r.said
      /\ \A j \in Conns : j # k => conn'[j] = conn[j]
  BY Zenon, OneConnection
<1>2. \A j \in Conns : conn'[j].relay = "in" <=> conn[j].relay = "in"
  BY Zenon, <1>1
<1>3. \A j \in Conns : conn[j].relay = "in" => conn'[j].said = conn[j].said
  BY Zenon, <1>1
<1>4. Registry
  BY Zenon DEF HInv
<1>5. {conn'[j].said.user : j \in {i \in Conns : conn'[i].relay = "in"}}
        = {conn[j].said.user : j \in {i \in Conns : conn[i].relay = "in"}}
  BY Zenon, <1>2, <1>3
<1>6. Registry'
  BY <1>2, <1>3, <1>4, <1>5 DEF Registry
<1> QED
  BY Zenon, <1>1, <1>6 DEF HInv

\* A step that leaves what is stored and the sessions alone.
LEMMA QuietStep ==
  ASSUME HInv, NEW k \in Conns, NEW r, Becomes(k, r), Linked(r, identities),
         UNCHANGED stored, UNCHANGED active_identities,
         DOMAIN state' = Programs,
         r.relay = "in" <=> conn[k].relay = "in",
         r.relay = "in" => r.said = conn[k].said
  PROVE  HInv'
<1>1. identities' = identities /\ tokens' = tokens
  BY Zenon DEF stored
<1>2. Grows(identities, identities')
  BY Zenon, <1>1 DEF Grows
<1>3. StoredTypes'
  BY Zenon, <1>1 DEF HInv, StoredTypes
<1>4. TokensAccounted'
  BY Zenon, <1>1 DEF HInv, TokensAccounted
<1>5. Linked(r, identities')
  BY Zenon, <1>1
<1> QED
  BY Zenon, <1>2, <1>3, <1>4, <1>5, StepKeeps

(***************************************************************************)
(* The steps of the client.                                                *)
(***************************************************************************)
LEMMA AnswerFields ==
  ASSUME NEW r, DOMAIN r = Fields, NEW waits, NEW up
  PROVE  LET s == [r EXCEPT !.client = waits, !.down = Silence, !.up = up]
         IN  /\ DOMAIN s = Fields /\ s.program = r.program /\ s.client = waits
             /\ s.relay = r.relay /\ s.said = r.said /\ s.challenge = r.challenge
             /\ s.job = r.job /\ s.up = up /\ s.down = Silence
  BY Zenon DEF Fields

LEMMA LeaveFields ==
  ASSUME NEW r, DOMAIN r = Fields
  PROVE  LET s == [r EXCEPT !.client = "gone", !.down = Silence]
         IN  /\ DOMAIN s = Fields /\ s.program = r.program /\ s.client = "gone"
             /\ s.relay = r.relay /\ s.said = r.said /\ s.challenge = r.challenge
             /\ s.job = r.job /\ s.up = r.up /\ s.down = Silence
  BY Zenon DEF Fields

LEMMA StateSet ==
  ASSUME HInv, NEW p \in Programs, NEW s, state' = [state EXCEPT ![p] = s]
  PROVE  DOMAIN state' = Programs
  BY Zenon DEF HInv

\* An answer keeps the invariant when the record it makes is linked.
LEMMA AnswerKeeps ==
  ASSUME HInv, NEW k \in Conns, NEW waits, NEW up, Answer(k, waits, up),
         conn[k].program \in Programs,
         Linked([conn[k] EXCEPT !.client = waits, !.down = Silence, !.up = up],
                identities)
  PROVE  HInv'
<1> DEFINE r == [conn[k] EXCEPT !.client = waits, !.down = Silence, !.up = up]
<1>1. Becomes(k, r) /\ UNCHANGED stored /\ UNCHANGED active_identities
  BY Zenon DEF Answer, stored
<1>2. DOMAIN conn[k] = Fields
  BY Zenon DEF HInv, Linked, Ends
<1>3. r.relay = conn[k].relay /\ r.said = conn[k].said
  BY <1>2, AnswerFields
<1>4. DOMAIN state' = Programs
  <2>1. CASE waits = "in"
    <3>1. state' = [state EXCEPT ![conn[k].program] = "online"]
      BY Zenon, <2>1 DEF Answer
    <3> QED
      BY Zenon, <3>1, StateSet
  <2>2. CASE waits # "in"
    BY Zenon, <2>2 DEF Answer, HInv
  <2> QED
    BY Zenon, <2>1, <2>2
<1>5. Linked(r, identities)
  BY Zenon
<1> HIDE DEF r
<1> QED
  BY Zenon, <1>1, <1>3, <1>4, <1>5, QuietStep

LEMMA LeaveLinked ==
  ASSUME NEW r, NEW ids, Linked(r, ids)
  PROVE  LET s == [r EXCEPT !.client = "gone", !.down = Silence]
         IN  Linked(s, ids) /\ s.relay = r.relay /\ s.said = r.said
<1> DEFINE s == [r EXCEPT !.client = "gone", !.down = Silence]
<1>1. DOMAIN r = Fields
  BY Zenon DEF Linked, Ends
<1>2. /\ DOMAIN s = Fields /\ s.program = r.program /\ s.client = "gone"
      /\ s.relay = r.relay /\ s.said = r.said /\ s.challenge = r.challenge
      /\ s.job = r.job /\ s.up = r.up /\ s.down = Silence
  BY Zenon, <1>1, LeaveFields
<1> HIDE DEF s
<1>3. s.down.kind = "none"
  BY Zenon, <1>2, Spoken
<1>4. Ends(s)
  BY Zenon, <1>2 DEF Linked, Ends, Waits
<1>5. InStep(s) /\ UpRight(s)
  BY Zenon, <1>2 DEF Linked, InStep, UpRight
<1>6. DownRight(s, ids)
  BY Zenon, <1>2, <1>3 DEF DownRight
<1>7. JobRight(s, ids)
  BY Zenon, <1>2 DEF Linked, JobRight
<1>8. Linked(s, ids)
  BY Zenon, <1>4, <1>5, <1>6, <1>7 DEF Linked
<1> QED
  BY Zenon, <1>2, <1>8 DEF s

\* The program leaves the connection, to try again or to stop.
LEMMA LeaveKeeps ==
  ASSUME HInv, NEW k \in Conns, NEW s, conn[k].program \in Programs,
         Becomes(k, [conn[k] EXCEPT !.client = "gone", !.down = Silence]),
         state' = [state EXCEPT ![conn[k].program] = s],
         UNCHANGED <<active_identities, stored>>
  PROVE  HInv'
<1> DEFINE r == [conn[k] EXCEPT !.client = "gone", !.down = Silence]
<1>1. Linked(conn[k], identities)
  BY Zenon DEF HInv
<1>2. Linked(r, identities) /\ r.relay = conn[k].relay /\ r.said = conn[k].said
  BY Zenon, <1>1, LeaveLinked
<1>3. DOMAIN state' = Programs
  BY Zenon, StateSet
<1>4. Becomes(k, r)
  BY Zenon
<1> HIDE DEF r
<1> QED
  BY Zenon, <1>2, <1>3, <1>4, QuietStep

LEMMA ClientLeavesKeeps == ASSUME HInv, NEW k \in Conns, ClientLeaves(k) PROVE HInv'
<1>1. conn[k].program \in Programs
  BY Zenon DEF ClientLeaves, HInv, Linked, Ends
<1> QED
  BY Zenon, <1>1, LeaveKeeps DEF ClientLeaves

LEMMA ReceiveErrorKeeps == ASSUME HInv, NEW k \in Conns, ReceiveError(k) PROVE HInv'
<1>1. /\ conn[k].client \notin {"in", "gone"} /\ conn[k].down.kind = "ProtocolError"
      /\ Stop(k, conn[k].down.body)
  BY Zenon DEF ReceiveError
<1>2. Linked(conn[k], identities)
  BY Zenon DEF HInv
<1>3. conn[k].program \in Programs
  BY Zenon, <1>1, <1>2 DEF Linked, Ends
<1> QED
  BY Zenon, <1>1, <1>3, LeaveKeeps DEF Stop

LEMMA ReceiveHelloKeeps == ASSUME HInv, NEW k \in Conns, ReceiveHello(k) PROVE HInv'
<1> DEFINE c == conn[k]
           p == c.program
           up == Message("ClientIdentify", Identify(p))
           r == [c EXCEPT !.client = "ServerAuthenticationChallenge", !.down = Silence, !.up = up]
<1>1. c.client = "ServerHello" /\ c.down.kind \notin {"none", "ProtocolError"}
  BY Zenon DEF ReceiveHello, Hears
<1>2. Linked(c, identities)
  BY Zenon DEF HInv
<1>3. /\ c.down.kind = "ServerHello" /\ c.down.body = Speaks[p]
      /\ c.relay \in {"ClientIdentify", "gone"} /\ Speaks[p] = RelayVersion /\ p \in Programs
  BY Zenon, <1>1, <1>2 DEF Linked, DownRight, Ends
<1>4. Answer(k, "ServerAuthenticationChallenge", up)
  BY Zenon, <1>1, <1>3 DEF ReceiveHello, Expected
<1>5. /\ DOMAIN r = Fields /\ r.program = p /\ r.client = "ServerAuthenticationChallenge"
      /\ r.relay = c.relay /\ r.said = c.said /\ r.challenge = c.challenge
      /\ r.job = c.job /\ r.up = up /\ r.down = Silence
  BY <1>2, AnswerFields DEF Linked, Ends
<1>6. up.kind = "ClientIdentify" /\ up.body = Identify(p)
  BY Zenon, Spoken
<1> HIDE DEF r, up
<1>7. r.down.kind = "none"
  BY Zenon, <1>5, Spoken
<1>8. Ends(r)
  BY Zenon, <1>2, <1>3, <1>5 DEF Linked, Ends, Waits
<1>9. InStep(r) /\ UpRight(r)
  BY Zenon, <1>3, <1>5, <1>6 DEF InStep, UpRight
<1>10. DownRight(r, identities)
  BY Zenon, <1>7 DEF DownRight
<1>11. JobRight(r, identities)
  BY Zenon, <1>3, <1>5 DEF JobRight
<1>12. Linked(r, identities)
  BY Zenon, <1>8, <1>9, <1>10, <1>11 DEF Linked
<1> QED
  BY Zenon, <1>3, <1>4, <1>12, AnswerKeeps DEF r

LEMMA ReceiveChallengeKeeps == ASSUME HInv, NEW k \in Conns, ReceiveChallenge(k) PROVE HInv'
<1> DEFINE c == conn[k]
           p == c.program
           up == Message("ClientAuthenticationResponse",
                   Sign(Key[p], authentication_transcript(Speaks[p], User[p], Key[p], c.down.body)))
           r == [c EXCEPT !.client = "ServerIdentifyAccepted", !.down = Silence, !.up = up]
<1>1. c.client = "ServerAuthenticationChallenge" /\ c.down.kind \notin {"none", "ProtocolError"}
  BY Zenon DEF ReceiveChallenge, Respond, Hears
<1>2. Linked(c, identities)
  BY Zenon DEF HInv
<1>3. /\ c.down.kind = "ServerAuthenticationChallenge"
      /\ c.relay # "gone" => c.relay = "ClientAuthenticationResponse" /\ c.down.body = c.challenge
      /\ Speaks[p] = RelayVersion /\ p \in Programs
  BY Zenon, <1>1, <1>2 DEF Linked, DownRight, Ends
<1>4. Answer(k, "ServerIdentifyAccepted", up)
  BY Zenon, <1>1, <1>3 DEF ReceiveChallenge, Respond, Expected
<1>5. /\ DOMAIN r = Fields /\ r.program = p /\ r.client = "ServerIdentifyAccepted"
      /\ r.relay = c.relay /\ r.said = c.said /\ r.challenge = c.challenge
      /\ r.job = c.job /\ r.up = up /\ r.down = Silence
  BY SMTT(30), <1>2, AnswerFields DEF Linked, Ends
<1>6. /\ up.kind = "ClientAuthenticationResponse"
      /\ up.body = Sign(Key[p],
                     authentication_transcript(Speaks[p], User[p], Key[p], c.down.body))
  BY Zenon, Spoken
<1> HIDE DEF r, up
<1>7. r.down.kind = "none"
  BY Zenon, <1>5, Spoken
<1>8. Ends(r)
  BY Zenon, <1>2, <1>3, <1>5 DEF Linked, Ends, Waits
<1>9. InStep(r) /\ UpRight(r)
  BY Zenon, <1>3, <1>5, <1>6 DEF InStep, UpRight
<1>10. DownRight(r, identities)
  BY Zenon, <1>7 DEF DownRight
<1>11. JobRight(r, identities)
  BY Zenon, <1>3, <1>5 DEF JobRight
<1>12. Linked(r, identities)
  BY Zenon, <1>8, <1>9, <1>10, <1>11 DEF Linked
<1> QED
  BY Zenon, <1>3, <1>4, <1>12, AnswerKeeps DEF r

LEMMA ReceiveAcceptedKeeps == ASSUME HInv, NEW k \in Conns, ReceiveAccepted(k) PROVE HInv'
<1> DEFINE c == conn[k]
           p == c.program
           r == [c EXCEPT !.client = "in", !.down = Silence, !.up = Silence]
<1>1. c.client = "ServerIdentifyAccepted" /\ c.down.kind \notin {"none", "ProtocolError"}
  BY Zenon DEF ReceiveAccepted, Hears
<1>2. Linked(c, identities)
  BY Zenon DEF HInv
<1>3. /\ c.down.kind = "ServerIdentifyAccepted" /\ c.down.body = User[p]
      /\ c.relay \in {"in", "gone"} /\ identities[User[p]] = Key[p]
      /\ Speaks[p] = RelayVersion /\ p \in Programs
  BY Zenon, <1>1, <1>2 DEF Linked, DownRight, Ends
<1>4. Answer(k, "in", Silence)
  BY Zenon, <1>1, <1>3 DEF ReceiveAccepted, Expected
<1>5. /\ DOMAIN r = Fields /\ r.program = p /\ r.client = "in"
      /\ r.relay = c.relay /\ r.said = c.said /\ r.challenge = c.challenge
      /\ r.job = c.job /\ r.up = Silence /\ r.down = Silence
  BY <1>2, AnswerFields DEF Linked, Ends
<1> HIDE DEF r
<1>6. r.down.kind = "none" /\ r.up.kind = "none"
  BY Zenon, <1>5, Spoken
<1>7. Ends(r)
  BY Zenon, <1>2, <1>3, <1>5 DEF Linked, Ends, Waits
<1>8. InStep(r) /\ UpRight(r)
  BY Zenon, <1>3, <1>5, <1>6 DEF InStep, UpRight
<1>9. DownRight(r, identities)
  BY Zenon, <1>6 DEF DownRight
<1>10. JobRight(r, identities)
  BY Zenon, <1>2, <1>3, <1>5 DEF Linked, JobRight
<1>11. Linked(r, identities)
  BY Zenon, <1>7, <1>8, <1>9, <1>10 DEF Linked
<1> QED
  BY Zenon, <1>3, <1>4, <1>11, AnswerKeeps DEF r

LEMMA DialKeeps == ASSUME HInv, NEW p \in Programs, NEW k \in Conns, Dial(p, k) PROVE HInv'
<1> DEFINE up == Message("ClientHello", Speaks[p])
           r == [Unused EXCEPT !.program = p, !.client = "ServerHello", !.relay = "ClientHello",
                               !.up = up]
<1>1. /\ conn[k] = Unused /\ Becomes(k, r) /\ state' = [state EXCEPT ![p] = "connecting"]
      /\ UNCHANGED stored /\ UNCHANGED active_identities
  BY Zenon DEF Dial
<1>2. up.kind = "ClientHello" /\ up.body = Speaks[p]
  BY Zenon, Spoken
<1> HIDE DEF up
<1>3. /\ DOMAIN r = Fields /\ r.program = p /\ r.client = "ServerHello"
      /\ r.relay = "ClientHello" /\ r.job = "none" /\ r.up = up /\ r.down = Silence
  BY Zenon DEF Unused, Fields
<1> HIDE DEF r
<1>4. r.down.kind = "none"
  BY Zenon, <1>3, Spoken
<1>5. Ends(r)
  BY Zenon, <1>3 DEF Ends, Waits, Serves
<1>6. InStep(r) /\ UpRight(r)
  BY Zenon, <1>2, <1>3 DEF InStep, UpRight
<1>7. DownRight(r, identities)
  BY Zenon, <1>4 DEF DownRight
<1>8. JobRight(r, identities)
  BY Zenon, <1>3 DEF JobRight
<1>9. Linked(r, identities)
  BY Zenon, <1>5, <1>6, <1>7, <1>8 DEF Linked
<1>10. DOMAIN state' = Programs
  BY Zenon, <1>1, StateSet
<1>11. r.relay # "in" /\ conn[k].relay # "in"
  BY Zenon, <1>1, <1>3, UnusedFields
<1> QED
  BY Zenon, <1>1, <1>9, <1>10, <1>11, QuietStep

LEMMA ReopenKeeps == ASSUME HInv, NEW p \in Programs, Reopen(p) PROVE HInv'
<1>1. DOMAIN state' = Programs
  BY Zenon, StateSet DEF Reopen
<1>2. UNCHANGED <<conn, active_identities, identities, tokens>>
  BY Zenon DEF Reopen, stored
<1> QED
  BY Zenon, <1>1, <1>2 DEF HInv, StoredTypes, Registry, TokensAccounted

(***************************************************************************)
(* The steps of the relay.                                                 *)
(***************************************************************************)
LEMMA ReplyFields ==
  ASSUME NEW r, DOMAIN r = Fields, NEW down
  PROVE  LET s == [r EXCEPT !.up = Silence, !.down = down]
         IN  /\ DOMAIN s = Fields /\ s.program = r.program /\ s.client = r.client
             /\ s.relay = r.relay /\ s.said = r.said /\ s.challenge = r.challenge
             /\ s.job = r.job /\ s.up = Silence /\ s.down = down
  BY Zenon DEF Fields

LEMMA RelayFields ==
  ASSUME NEW r, DOMAIN r = Fields, NEW at
  PROVE  LET s == [r EXCEPT !.relay = at]
         IN  /\ DOMAIN s = Fields /\ s.program = r.program /\ s.client = r.client
             /\ s.relay = at /\ s.said = r.said /\ s.challenge = r.challenge
             /\ s.job = r.job /\ s.up = r.up /\ s.down = r.down
  BY Zenon DEF Fields

\* What the client has to read after a reply.
Answered(client, kind, body) == IF client = "gone" THEN Silence ELSE Message(kind, body)

LEMMA AnsweredKind ==
  ASSUME NEW client, NEW kind, NEW body
  PROVE  /\ client = "gone" => Answered(client, kind, body).kind = "none"
         /\ client # "gone" => /\ Answered(client, kind, body).kind = kind
                               /\ Answered(client, kind, body).body = body
  BY Zenon, Spoken DEF Answered

LEMMA ReplyKeeps ==
  ASSUME HInv, NEW k \in Conns, NEW r, DOMAIN r = Fields, NEW kind, NEW body,
         Reply(k, r, kind, body), UNCHANGED active_identities,
         r.relay # "in", conn[k].relay # "in",
         Linked([r EXCEPT !.up = Silence, !.down = Answered(r.client, kind, body)],
                identities)
  PROVE  HInv'
<1> DEFINE s == [r EXCEPT !.up = Silence, !.down = Answered(r.client, kind, body)]
<1>1. Becomes(k, s) /\ UNCHANGED stored /\ state' = state
  BY Zenon DEF Reply, Answered
<1>2. s.relay = r.relay
  BY ReplyFields
<1>3. DOMAIN state' = Programs
  BY Zenon, <1>1 DEF HInv
<1>4. Linked(s, identities)
  BY Zenon
<1> HIDE DEF s
<1> QED
  BY Zenon, <1>1, <1>2, <1>3, <1>4, QuietStep

\* The relay tells the client why and leaves.
LEMMA ErrorKeeps ==
  ASSUME HInv, NEW k \in Conns, NEW e, send_protocol_error(k, e),
         conn[k].relay \notin {"in", "gone"}
  PROVE  HInv'
<1> DEFINE c == conn[k]
           r == [c EXCEPT !.relay = "gone"]
           down == Answered(r.client, "ProtocolError", e)
           s == [r EXCEPT !.up = Silence, !.down = down]
<1>1. Linked(c, identities)
  BY Zenon DEF HInv
<1>2. /\ DOMAIN r = Fields /\ r.program = c.program /\ r.client = c.client
      /\ r.relay = "gone" /\ r.said = c.said /\ r.job = c.job
  BY <1>1, RelayFields DEF Linked, Ends
<1>3. Reply(k, r, "ProtocolError", e) /\ UNCHANGED active_identities
  BY Zenon DEF send_protocol_error
<1> HIDE DEF r
<1>4. /\ DOMAIN s = Fields /\ s.program = r.program /\ s.client = r.client
      /\ s.relay = r.relay /\ s.said = r.said /\ s.job = r.job
      /\ s.up = Silence /\ s.down = down
  BY <1>2, ReplyFields
<1>5. /\ r.client = "gone" => down.kind = "none"
      /\ r.client # "gone" => down.kind = "ProtocolError" /\ down.body = e
  BY AnsweredKind
<1> HIDE DEF s, down
<1>6. s.up.kind = "none"
  BY Zenon, <1>4, Spoken
<1>7. Ends(s)
  BY Zenon, <1>1, <1>2, <1>4 DEF Linked, Ends, Serves
<1>8. InStep(s) /\ UpRight(s)
  BY Zenon, <1>2, <1>4, <1>6 DEF InStep, UpRight
<1>9. DownRight(s, identities)
  BY Zenon, <1>4, <1>5 DEF DownRight
<1>11. JobRight(s, identities)
  BY Zenon, <1>1, <1>2, <1>4 DEF Linked, JobRight
<1>12. Linked(s, identities)
  BY Zenon, <1>7, <1>8, <1>9, <1>11 DEF Linked
<1> QED
  BY Zenon, <1>2, <1>3, <1>12, ReplyKeeps DEF s, down

LEMMA ReadHelloKeeps == ASSUME HInv, NEW k \in Conns, ReadHello(k) PROVE HInv'
<1> DEFINE c == conn[k]
           r == [c EXCEPT !.relay = "ClientIdentify"]
           down == Answered(r.client, "ServerHello", RelayVersion)
           s == [r EXCEPT !.up = Silence, !.down = down]
<1>1. Linked(c, identities)
  BY Zenon DEF HInv
<1>2. c.relay = "ClientHello" /\ c.up.kind # "none"
  BY Zenon DEF ReadHello, read_handshake_frame
<1>3. /\ c.up.kind = "ClientHello" /\ c.up.body = Speaks[c.program]
      /\ c.client \in {"ServerHello", "gone"} /\ c.program \in Programs
  BY Zenon, <1>1, <1>2 DEF Linked, UpRight, InStep, Ends
<1>4. CASE Speaks[c.program] # RelayVersion
  <2>1. send_protocol_error(k, "UnsupportedVersion")
    BY Zenon, <1>3, <1>4 DEF ReadHello
  <2> QED
    BY Zenon, <1>2, <2>1, ErrorKeeps
<1>5. CASE Speaks[c.program] = RelayVersion
  <2>1. Reply(k, r, "ServerHello", RelayVersion) /\ UNCHANGED active_identities
    BY Zenon, <1>3, <1>5 DEF ReadHello
  <2>2. /\ DOMAIN r = Fields /\ r.program = c.program /\ r.client = c.client
        /\ r.relay = "ClientIdentify" /\ r.said = c.said /\ r.job = c.job
    BY <1>1, RelayFields DEF Linked, Ends
  <2> HIDE DEF r
  <2>3. /\ DOMAIN s = Fields /\ s.program = r.program /\ s.client = r.client
        /\ s.relay = r.relay /\ s.said = r.said /\ s.job = r.job
        /\ s.up = Silence /\ s.down = down
    BY <2>2, ReplyFields
  <2>4. /\ r.client = "gone" => down.kind = "none"
        /\ r.client # "gone" => down.kind = "ServerHello" /\ down.body = RelayVersion
    BY Zenon, AnsweredKind
  <2> HIDE DEF s, down
  <2>5. s.up.kind = "none"
    BY Zenon, <2>3, Spoken
  <2>6. Ends(s)
    BY Zenon, <1>1, <1>3, <1>5, <2>2, <2>3 DEF Linked, Ends, Serves
  <2>7. InStep(s) /\ UpRight(s)
    BY Zenon, <1>3, <2>2, <2>3, <2>5 DEF InStep, UpRight
  <2>8. DownRight(s, identities)
    BY Zenon, <1>3, <1>5, <2>2, <2>3, <2>4 DEF DownRight
  <2>9. JobRight(s, identities)
    BY Zenon, <1>3, <2>2, <2>3 DEF JobRight
  <2>10. Linked(s, identities)
    BY Zenon, <2>6, <2>7, <2>8, <2>9 DEF Linked
  <2> QED
    BY Zenon, <1>2, <2>1, <2>2, <2>10, ReplyKeeps DEF s, down
<1> QED
  BY Zenon, <1>4, <1>5

LEMMA ReadIdentifyKeeps == ASSUME HInv, NEW k \in Conns, ReadIdentify(k) PROVE HInv'
<1> DEFINE c == conn[k]
<1>1. Linked(c, identities)
  BY Zenon DEF HInv
<1>2. c.relay = "ClientIdentify" /\ c.up.kind # "none"
  BY Zenon DEF ReadIdentify, read_handshake_frame
<1>3. /\ c.up.kind = "ClientIdentify" /\ c.up.body = Identify(c.program)
      /\ c.client \in {"ServerAuthenticationChallenge", "gone"} /\ c.program \in Programs
      /\ Speaks[c.program] = RelayVersion
  BY Zenon, <1>1, <1>2 DEF Linked, UpRight, Ends
<1>4. PICK x \in Challenges :
        /\ Reply(k, [c EXCEPT !.relay = "ClientAuthenticationResponse",
                              !.said = c.up.body, !.challenge = x],
                 "ServerAuthenticationChallenge", x)
        /\ UNCHANGED active_identities
  BY Zenon, <1>3 DEF ReadIdentify
<1> DEFINE said == c.up.body
           r == [c EXCEPT !.relay = "ClientAuthenticationResponse",
                          !.said = said, !.challenge = x]
           down == Answered(r.client, "ServerAuthenticationChallenge", x)
           s == [r EXCEPT !.up = Silence, !.down = down]
<1>5. DOMAIN c = Fields
  BY Zenon, <1>1 DEF Linked, Ends
<1>6. /\ DOMAIN r = Fields /\ r.program = c.program /\ r.client = c.client
      /\ r.relay = "ClientAuthenticationResponse" /\ r.said = said /\ r.job = c.job
      /\ r.challenge = x
  <2> HIDE DEF c, said
  <2> QED
    BY Zenon, <1>5 DEF Fields
<1>7. Reply(k, r, "ServerAuthenticationChallenge", x)
  BY Zenon, <1>4
<1> HIDE DEF r
<1>8. /\ DOMAIN s = Fields /\ s.program = r.program /\ s.client = r.client
      /\ s.relay = r.relay /\ s.said = r.said /\ s.job = r.job /\ s.challenge = r.challenge
      /\ s.up = Silence /\ s.down = down
  BY <1>6, ReplyFields
<1>9. /\ r.client = "gone" => down.kind = "none"
      /\ r.client # "gone" => down.kind = "ServerAuthenticationChallenge" /\ down.body = x
  BY Zenon, AnsweredKind
<1> HIDE DEF s, down
<1>10. s.up.kind = "none"
  BY Zenon, <1>8, Spoken
<1>11. Ends(s)
  BY Zenon, <1>3, <1>6, <1>8 DEF Ends, Serves, Waits
<1>12. InStep(s) /\ UpRight(s)
  BY Zenon, <1>3, <1>6, <1>8, <1>10 DEF InStep, UpRight
<1>13. DownRight(s, identities)
  BY Zenon, <1>3, <1>6, <1>8, <1>9 DEF DownRight
<1>14. JobRight(s, identities)
  BY Zenon, <1>3, <1>6, <1>8 DEF JobRight
<1>15. Linked(s, identities)
  BY Zenon, <1>11, <1>12, <1>13, <1>14 DEF Linked
<1> QED
  BY Zenon, <1>2, <1>4, <1>6, <1>7, <1>15, ReplyKeeps DEF s, down

LEMMA ReadResponseKeeps == ASSUME HInv, NEW k \in Conns, ReadResponse(k) PROVE HInv'
<1> DEFINE c == conn[k]
           p == c.program
           s == [c EXCEPT !.relay = "Registration", !.job = "queued", !.up = Silence]
<1>1. Linked(c, identities)
  BY Zenon DEF HInv
<1>2. c.relay = "ClientAuthenticationResponse" /\ c.up.kind # "none"
  BY Zenon DEF ReadResponse, read_handshake_frame
<1>3. /\ c.up.kind = "ClientAuthenticationResponse"
      /\ c.up.body = Sign(Key[p], authentication_transcript(RelayVersion, User[p], Key[p],
                                                            c.challenge))
      /\ c.client \in {"ServerIdentifyAccepted", "gone"} /\ p \in Programs
      /\ Speaks[p] = RelayVersion /\ c.said = Identify(p) /\ DOMAIN c = Fields
  BY Zenon, <1>1, <1>2 DEF Linked, UpRight, Ends
<1>4. verify_authentication_signature(c.said, c.challenge, c.up.body)
  BY Zenon, <1>3, Introduced DEF verify_authentication_signature
<1>5. Becomes(k, s) /\ UNCHANGED <<state, active_identities, stored>>
  BY Zenon, <1>3, <1>4 DEF ReadResponse
<1>6. /\ DOMAIN s = Fields /\ s.program = p /\ s.client = c.client
      /\ s.relay = "Registration" /\ s.said = c.said /\ s.job = "queued"
      /\ s.up = Silence /\ s.down = c.down
  <2> HIDE DEF c
  <2> QED
    BY Zenon, <1>3 DEF Fields, p
<1> HIDE DEF s
<1>7. s.up.kind = "none"
  BY Zenon, <1>6, Spoken
<1>8. Ends(s)
  BY Zenon, <1>3, <1>6 DEF Ends, Serves, Waits
<1>9. InStep(s) /\ UpRight(s)
  BY Zenon, <1>3, <1>6, <1>7 DEF InStep, UpRight
<1>10. DownRight(s, identities)
  BY Zenon, <1>1, <1>2, <1>3, <1>6 DEF Linked, DownRight
<1>11. JobRight(s, identities)
  BY Zenon, <1>3, <1>6 DEF JobRight
<1>12. Linked(s, identities)
  BY Zenon, <1>8, <1>9, <1>10, <1>11 DEF Linked
<1>13. DOMAIN state' = Programs
  BY Zenon, <1>5 DEF HInv
<1> QED
  BY Zenon, <1>2, <1>5, <1>6, <1>12, <1>13, QuietStep

\* A key is registered for a user that had none, with the token issued for both.
LEMMA EnrolledStored ==
  ASSUME HInv, NEW p \in Programs, identities[User[p]] = None, Good(Identify(p)),
         identities' = [identities EXCEPT ![User[p]] = Key[p]],
         tokens' = [tokens EXCEPT ![Token[p]] = "consumed"]
  PROVE  /\ StoredTypes' /\ TokensAccounted'
         /\ Grows(identities, identities')
<1> DEFINE u == User[p]
           t == Token[p]
<1>1. /\ u \in Users /\ Key[p] \in Keys /\ Key[p] # None
      /\ t \in Tokens /\ tokens[t] = "issued" /\ IssuedTo[t] = <<u, Key[p]>>
  BY Zenon, Introduced DEF Good
<1>2. StoredTypes /\ TokensAccounted
  BY Zenon DEF HInv
<1>3. StoredTypes'
  BY Zenon, <1>1, <1>2 DEF StoredTypes
<1>4. /\ identities'[u] = Key[p] /\ \A v \in Users : v # u => identities'[v] = identities[v]
      /\ tokens'[t] = "consumed" /\ \A x \in Tokens : x # t => tokens'[x] = tokens[x]
  BY Zenon, <1>1, <1>2 DEF StoredTypes
<1>5. Grows(identities, identities')
  BY Zenon, <1>1, <1>4 DEF Grows
<1>6. \A x \in Tokens : IssuedTo[x][1] \in Users
  BY Zenon, HandshakeAssumption DEF HandshakeAssumption
<1>7. IssuedTo[t][1] = u /\ IssuedTo[t][2] = Key[p]
  BY <1>1
<1>8. \A x \in Tokens : tokens[x] = "consumed" => IssuedTo[x][1] # u
  <2> SUFFICES ASSUME NEW x \in Tokens, tokens[x] = "consumed", IssuedTo[x][1] = u PROVE FALSE
    BY Zenon
  <2>1. identities[u] = IssuedTo[x][2]
    BY Zenon, <1>2 DEF TokensAccounted
  <2>2. IssuedTo[x][2] \in Keys
    BY Zenon, HandshakeAssumption DEF HandshakeAssumption
  <2> QED
    BY Zenon, <2>1, <2>2, HandshakeAssumption DEF HandshakeAssumption
<1>9. \A x \in Tokens : tokens'[x] = "consumed" => identities'[IssuedTo[x][1]] = IssuedTo[x][2]
  BY Zenon, <1>2, <1>4, <1>6, <1>7, <1>8 DEF TokensAccounted
<1>10. \A v \in Users : identities'[v] # None =>
         \E x \in Tokens : tokens'[x] = "consumed" /\ IssuedTo[x] = <<v, identities'[v]>>
  <2> SUFFICES ASSUME NEW v \in Users, identities'[v] # None
               PROVE  \E x \in Tokens : tokens'[x] = "consumed"
                                        /\ IssuedTo[x] = <<v, identities'[v]>>
    BY Zenon
  <2>1. CASE v = u
    BY Zenon, <1>1, <1>4, <2>1
  <2>2. CASE v # u
    <3>1. PICK x \in Tokens : tokens[x] = "consumed" /\ IssuedTo[x] = <<v, identities[v]>>
      BY Zenon, <1>2, <1>4, <2>2 DEF TokensAccounted
    <3> QED
      BY Zenon, <1>1, <1>4, <2>2, <3>1
  <2> QED
    BY Zenon, <2>1, <2>2
<1>11. \A x, y \in Tokens : tokens'[x] = "consumed" /\ tokens'[y] = "consumed"
         /\ IssuedTo[x][1] = IssuedTo[y][1] => x = y
  BY <1>2, <1>4, <1>7, <1>8 DEF TokensAccounted
<1>12. TokensAccounted'
  BY Zenon, <1>9, <1>10, <1>11 DEF TokensAccounted
<1> QED
  BY Zenon, <1>3, <1>5, <1>12

\* The answers of the database, and what each says.
LEMMA Answers ==
  ASSUME HInv, NEW p \in Programs
  PROVE  LET a == Registration(Identify(p)) IN
         /\ a \in {"New", "Existing", "IdentityKeyConflict", "EnrollmentRequired"}
         /\ a = "New" => identities[User[p]] = None /\ Good(Identify(p))
         /\ a = "Existing" => identities[User[p]] = Key[p]
         /\ a = "IdentityKeyConflict" => identities[User[p]] \notin {None, Key[p]}
         /\ a = "EnrollmentRequired" => identities[User[p]] = None /\ ~Good(Identify(p))
<1>1. Identify(p).user = User[p] /\ Identify(p).key = Key[p]
  BY Zenon, Introduced
<1> HIDE DEF Good
<1> QED
  BY Zenon, <1>1 DEF Registration

LEMMA RegisterKeeps == ASSUME HInv, NEW k \in Conns, register_enrolled_identity(k) PROVE HInv'
<1> DEFINE c == conn[k]
           a == Registration(c.said)
           r == [c EXCEPT !.job = a]
<1>1. Linked(c, identities) /\ c.job = "queued"
  BY Zenon DEF HInv, register_enrolled_identity
<1>2. PICK p \in Programs : c.said = Identify(p)
  BY Zenon, <1>1 DEF Linked, Ends
<1>3. /\ Identify(p).user = User[p] /\ Identify(p).key = Key[p]
      /\ Identify(p).enrollment = Token[p] /\ User[p] \in Users
  BY Zenon, Introduced
<1>4. /\ a \in {"New", "Existing", "IdentityKeyConflict", "EnrollmentRequired"}
      /\ a = "New" => identities[User[p]] = None /\ Good(Identify(p))
      /\ a = "Existing" => identities[User[p]] = Key[p]
      /\ a = "IdentityKeyConflict" => identities[User[p]] \notin {None, Key[p]}
  BY Zenon, <1>2, Answers
<1>5. Becomes(k, r) /\ UNCHANGED <<state, active_identities>>
  BY Zenon DEF register_enrolled_identity
<1>6. /\ a = "New" => /\ identities' = [identities EXCEPT ![User[p]] = Key[p]]
                      /\ tokens' = [tokens EXCEPT ![Token[p]] = "consumed"]
      /\ a # "New" => identities' = identities /\ tokens' = tokens
  BY Zenon, <1>2, <1>3 DEF register_enrolled_identity, stored
<1> HIDE DEF a
<1>7. /\ StoredTypes' /\ TokensAccounted'
      /\ Grows(identities, identities')
  <2>1. CASE a = "New"
    BY Zenon, <1>4, <1>6, <2>1, EnrolledStored
  <2>2. CASE a # "New"
    BY Zenon, <1>6, <2>2 DEF HInv, StoredTypes, TokensAccounted, Grows
  <2> QED
    BY Zenon, <2>1, <2>2
<1>8. Linked(c, identities')
  BY Zenon, <1>1, <1>7, LinkedStays
<1>9. /\ DOMAIN r = Fields /\ r.program = c.program /\ r.client = c.client
      /\ r.relay = c.relay /\ r.said = c.said /\ r.challenge = c.challenge
      /\ r.job = a /\ r.up = c.up /\ r.down = c.down
  <2>1. DOMAIN c = Fields
    BY Zenon, <1>1 DEF Linked, Ends
  <2> HIDE DEF c
  <2> QED
    BY Zenon, <2>1 DEF Fields
<1> HIDE DEF r
<1>10. Ends(r)
  BY Zenon, <1>4, <1>8, <1>9 DEF Linked, Ends
<1>11. InStep(r) /\ UpRight(r)
  <2>1. InStep(r)
    BY Zenon, <1>8, <1>9 DEF Linked, InStep
  <2>2. UpRight(r)
    BY Zenon, <1>8, <1>9 DEF Linked, UpRight
  <2> QED
    BY Zenon, <2>1, <2>2
<1>12. DownRight(r, identities')
  BY Zenon, <1>8, <1>9 DEF Linked, DownRight
<1>13. /\ a \in {"New", "Existing"} => identities'[User[p]] = Key[p]
       /\ a = "IdentityKeyConflict" => identities'[User[p]] \notin {None, Key[p]}
  BY Zenon, <1>3, <1>4, <1>6 DEF HInv, StoredTypes
<1>15. JobRight(r, identities')
  BY Zenon, <1>2, <1>3, <1>8, <1>9, <1>13 DEF Linked, JobRight
<1>16. Linked(r, identities')
  BY Zenon, <1>10, <1>11, <1>12, <1>15 DEF Linked
<1>17. DOMAIN state' = Programs
  BY Zenon, <1>5 DEF HInv
<1> QED
  BY Zenon, <1>5, <1>7, <1>9, <1>16, <1>17, StepKeeps

LEMMA RefusedKeeps == ASSUME HInv, NEW k \in Conns, RegistrationRefused(k) PROVE HInv'
<1>1. conn[k].relay = "Registration" /\ \E e : send_protocol_error(k, e)
  BY Zenon DEF RegistrationRefused
<1> QED
  BY Zenon, <1>1, ErrorKeeps

LEMMA AcceptKeeps == ASSUME HInv, NEW k \in Conns, Accept(k) PROVE HInv'
<1> DEFINE c == conn[k]
           p == c.program
           r == [c EXCEPT !.relay = "in"]
           down == Answered(r.client, "ServerIdentifyAccepted", User[p])
           s == [r EXCEPT !.up = Silence, !.down = down]
<1>1. /\ c.relay = "Registration" /\ c.job \in {"New", "Existing"}
      /\ Linked(c, identities)
  BY Zenon DEF Accept, HInv
<1>2. /\ p \in Programs /\ c.said = Identify(p) /\ DOMAIN c = Fields
      /\ Speaks[p] = RelayVersion /\ c.client \in {"ServerIdentifyAccepted", "gone"}
  BY Zenon, <1>1 DEF Linked, Ends, InStep
<1>3. Identify(p).user = User[p] /\ Identify(p).key = Key[p]
  BY Zenon, <1>2, Introduced
<1>4. identities[User[p]] = Key[p]
  BY Zenon, <1>1, <1>2, <1>3 DEF Linked, JobRight
<1>5. CASE Taken(User[p])
  <2>1. send_protocol_error(k, "AuthenticationFailed")
    BY Zenon, <1>2, <1>3, <1>5 DEF Accept
  <2> QED
    BY Zenon, <1>1, <2>1, ErrorKeeps
<1>6. CASE ~Taken(User[p])
  <2>1. /\ Reply(k, r, "ServerIdentifyAccepted", User[p])
        /\ active_identities' = active_identities \cup {User[p]}
    BY Zenon, <1>2, <1>3, <1>6 DEF Accept
  <2>2. /\ DOMAIN r = Fields /\ r.program = p /\ r.client = c.client
        /\ r.relay = "in" /\ r.said = c.said /\ r.job = c.job
    BY <1>2, RelayFields
  <2>3. Becomes(k, s) /\ state' = state /\ identities' = identities /\ tokens' = tokens
    BY Zenon, <2>1 DEF Reply, Answered, stored
  <2> HIDE DEF r
  <2>4. /\ DOMAIN s = Fields /\ s.program = r.program /\ s.client = r.client
        /\ s.relay = r.relay /\ s.said = r.said /\ s.job = r.job
        /\ s.up = Silence /\ s.down = down
    BY <2>2, ReplyFields
  <2>5. /\ r.client = "gone" => down.kind = "none"
        /\ r.client # "gone" => down.kind = "ServerIdentifyAccepted" /\ down.body = User[p]
    BY SMTT(30), AnsweredKind
  <2> HIDE DEF s, down
  <2>6. s.up.kind = "none"
    BY Zenon, <2>4, Spoken
  <2>7. Ends(s)
    <3>1. Ends(c)
      BY Zenon, <1>1 DEF Linked
    <3> HIDE DEF c
    <3>2. s.client = c.client /\ s.relay = "in" /\ s.program = p /\ s.said = c.said /\ s.job = c.job
      BY Zenon, <2>2, <2>4
    <3> QED
      BY Zenon, <1>2, <2>2, <2>4, <3>1, <3>2 DEF Ends, Serves
  <2>8. InStep(s) /\ UpRight(s)
    BY Zenon, <1>2, <2>2, <2>4, <2>6 DEF InStep, UpRight
  <2>9. DownRight(s, identities)
    BY Zenon, <1>2, <1>4, <2>2, <2>4, <2>5 DEF DownRight
  <2>10. JobRight(s, identities)
    BY Zenon, <1>2, <1>3, <1>4, <2>2, <2>4 DEF JobRight
  <2>11. Linked(s, identities') /\ Grows(identities, identities')
    BY Zenon, <2>3, <2>7, <2>8, <2>9, <2>10 DEF Linked, Grows
  <2>12. /\ DOMAIN conn' = Conns
         /\ \A j \in Conns : Linked(conn'[j], identities')
         /\ conn'[k].relay = "in" /\ conn'[k].said.user = User[p]
         /\ \A j \in Conns : j # k => conn'[j] = conn[j]
    BY ZenonT(30), <1>2, <1>3, <2>2, <2>3, <2>4, <2>11, OneConnection
  <2>13. Registry
    BY Zenon DEF HInv
  <2>14. \A j \in Conns : conn[j].relay = "in" => conn[j].said.user # User[p]
    BY Zenon, <1>6, <2>13 DEF Taken, Registry
  <2>15. {conn'[j].said.user : j \in {i \in Conns : conn'[i].relay = "in"}}
           = {conn[j].said.user : j \in {i \in Conns : conn[i].relay = "in"}} \cup {User[p]}
    BY SMTT(30), <1>1, <2>12
  <2>16. Registry'
    BY SMTT(30), <2>1, <2>12, <2>13, <2>14, <2>15 DEF Registry
  <2> QED
    BY Zenon, <2>3, <2>12, <2>16 DEF HInv, StoredTypes, TokensAccounted
<1> QED
  BY Zenon, <1>5, <1>6

\* The relay's end of a connection goes, with or without its queued command.
LEMMA GoneLinked ==
  ASSUME NEW r, NEW ids, Linked(r, ids), NEW s, DOMAIN s = Fields,
         s.program = r.program, s.client = r.client, s.relay = "gone", s.said = r.said,
         s.job \in {r.job, "none"}, s.up = Silence, s.down = r.down
  PROVE  Linked(s, ids)
<1>1. s.up.kind = "none"
  BY Zenon, Spoken
<1>2. Ends(s)
  BY Zenon DEF Linked, Ends, Serves
<1>3. InStep(s) /\ UpRight(s)
  BY Zenon, <1>1 DEF InStep, UpRight
<1>4. DownRight(s, ids)
  BY Zenon DEF Linked, Ends, DownRight
<1>5. JobRight(s, ids)
  BY Zenon DEF Linked, JobRight
<1> QED
  BY Zenon, <1>2, <1>3, <1>4, <1>5 DEF Linked

LEMMA RelayLeavesKeeps == ASSUME HInv, NEW k \in Conns, RelayLeaves(k) PROVE HInv'
<1> DEFINE c == conn[k]
           r == [c EXCEPT !.relay = "gone", !.up = Silence]
<1>1. Linked(c, identities)
  BY Zenon DEF HInv
<1>2. /\ Becomes(k, r) /\ state' = state /\ identities' = identities /\ tokens' = tokens
      /\ active_identities' = Released(k)
  BY Zenon DEF RelayLeaves, stored
<1>3. DOMAIN c = Fields
  BY Zenon, <1>1 DEF Linked, Ends
<1>4. /\ DOMAIN r = Fields /\ r.program = c.program /\ r.client = c.client /\ r.relay = "gone"
      /\ r.said = c.said /\ r.job = c.job /\ r.up = Silence /\ r.down = c.down
  <2> HIDE DEF c
  <2> QED
    BY Zenon, <1>3 DEF Fields
<1> HIDE DEF r
<1>5. Linked(r, identities') /\ Grows(identities, identities')
  BY Zenon, <1>1, <1>2, <1>4, GoneLinked DEF Grows
<1>6. /\ DOMAIN conn' = Conns
      /\ \A j \in Conns : Linked(conn'[j], identities')
      /\ conn'[k].relay = "gone"
      /\ \A j \in Conns : j # k => conn'[j] = conn[j]
  BY Zenon, <1>2, <1>4, <1>5, OneConnection
<1>7. Registry
  BY Zenon DEF HInv
<1>8. Registry'
  <2>1. CASE c.relay = "in"
    <3>1. active_identities' = active_identities \ {c.said.user}
      BY Zenon, <1>2, <2>1 DEF Released
    <3>2. {conn'[j].said.user : j \in {i \in Conns : conn'[i].relay = "in"}}
            = {conn[j].said.user : j \in {i \in Conns : conn[i].relay = "in"}} \ {c.said.user}
      BY SMTT(30), <1>6, <1>7, <2>1 DEF Registry
    <3> QED
      BY Zenon, <1>6, <1>7, <3>1, <3>2 DEF Registry
  <2>2. CASE c.relay # "in"
    <3>1. active_identities' = active_identities
      BY Zenon, <1>2, <2>2 DEF Released
    <3>2. {conn'[j].said.user : j \in {i \in Conns : conn'[i].relay = "in"}}
            = {conn[j].said.user : j \in {i \in Conns : conn[i].relay = "in"}}
      BY <1>6, <2>2
    <3> QED
      BY Zenon, <1>6, <1>7, <3>1, <3>2 DEF Registry
  <2> QED
    BY Zenon, <2>1, <2>2
<1> QED
  BY Zenon, <1>2, <1>6, <1>8 DEF HInv, StoredTypes, TokensAccounted

LEMMA RestartKeeps == ASSUME HInv, Restart PROVE HInv'
<1> DEFINE r(k) == [conn[k] EXCEPT !.relay = "gone", !.up = Silence, !.job = "none"]
<1>1. /\ conn' = [k \in Conns |-> Tidy(r(k))] /\ active_identities' = {}
      /\ state' = state /\ identities' = identities /\ tokens' = tokens
  BY Zenon DEF Restart, stored
<1>2. ASSUME NEW k \in Conns
      PROVE  Linked(conn'[k], identities') /\ conn'[k].relay = "gone"
  <2> DEFINE c == conn[k]
             s == [c EXCEPT !.relay = "gone", !.up = Silence, !.job = "none"]
  <2>1. Linked(c, identities)
    BY Zenon DEF HInv
  <2>2. DOMAIN c = Fields
    BY Zenon, <2>1 DEF Linked, Ends
  <2>3. conn'[k] = Tidy(s)
    BY Zenon, <1>1
  <2>4. /\ DOMAIN s = Fields /\ s.program = c.program /\ s.client = c.client
        /\ s.relay = "gone" /\ s.said = c.said /\ s.job = "none"
        /\ s.up = Silence /\ s.down = c.down
    <3> HIDE DEF c
    <3> QED
      BY Zenon, <2>2 DEF Fields
  <2> HIDE DEF s, r
  <2>5. Linked(s, identities)
    BY Zenon, <2>1, <2>4, GoneLinked
  <2>6. Linked(Tidy(s), identities) /\ Tidy(s).relay = "gone"
    BY Zenon, <2>4, <2>5, TidyLinked
  <2> QED
    BY Zenon, <1>1, <2>3, <2>6
<1>3. DOMAIN conn' = Conns
  BY Zenon, <1>1
<1> HIDE DEF r
<1>4. Registry'
  BY Zenon, <1>1, <1>2 DEF Registry
<1> QED
  BY Zenon, <1>1, <1>2, <1>3, <1>4 DEF HInv, StoredTypes, TokensAccounted

LEMMA ExpireKeeps == ASSUME HInv, NEW t \in Tokens, Expire(t) PROVE HInv'
<1>1. /\ tokens[t] = "issued" /\ tokens' = [tokens EXCEPT ![t] = "expired"]
      /\ UNCHANGED <<state, conn, active_identities, identities>>
  BY Zenon DEF Expire
<1>2. StoredTypes /\ TokensAccounted
  BY Zenon DEF HInv
<1>3. tokens'[t] = "expired" /\ \A x \in Tokens : x # t => tokens'[x] = tokens[x]
  BY Zenon, <1>1, <1>2 DEF StoredTypes
<1>4. StoredTypes'
  BY Zenon, <1>1, <1>2 DEF StoredTypes
<1>5. Grows(identities, identities')
  BY Zenon, <1>1, <1>3 DEF Grows
<1>6. \A x \in Tokens : tokens'[x] = "consumed" <=> tokens[x] = "consumed"
  BY Zenon, <1>1, <1>3
<1>7. TokensAccounted'
  BY Zenon, <1>1, <1>2, <1>6 DEF TokensAccounted
<1>8. \A k \in Conns : Linked(conn'[k], identities')
  BY Zenon, <1>1, <1>5, LinkedStays DEF HInv
<1>10. Registry'
  BY Zenon, <1>1 DEF HInv, Registry
<1> QED
  BY Zenon, <1>1, <1>4, <1>7, <1>8, <1>10 DEF HInv

LEMMA InitHInv == Init => HInv
<1> SUFFICES ASSUME Init PROVE HInv
  BY Zenon
<1>1. \A k \in Conns : conn[k] = Unused
  BY Zenon DEF Init
<1>2. \A k \in Conns : Linked(conn[k], identities) /\ conn[k].relay = "gone"
  BY Zenon, <1>1, UnusedLinked, UnusedFields
<1>3. StoredTypes /\ DOMAIN state = Programs /\ DOMAIN conn = Conns
  BY Zenon DEF Init, StoredTypes
<1>5. Registry
  BY Zenon, <1>2 DEF Init, Registry
<1>6. TokensAccounted
  BY Zenon DEF Init, TokensAccounted
<1> QED
  BY Zenon, <1>2, <1>3, <1>5, <1>6 DEF HInv

LEMMA NextHInv == HInv /\ [Next]_vars => HInv'
<1> SUFFICES ASSUME HInv, [Next]_vars PROVE HInv'
  BY Zenon
<1>1. CASE UNCHANGED vars
  BY ZenonT(30), <1>1 DEF vars, stored, HInv, StoredTypes, Registry, TokensAccounted
<1>2. CASE Next
  BY Zenon, <1>2, DialKeeps, ReceiveHelloKeeps, ReceiveChallengeKeeps, ReceiveAcceptedKeeps,
     ReceiveErrorKeeps, ClientLeavesKeeps, ReopenKeeps, ReadHelloKeeps, ReadIdentifyKeeps,
     ReadResponseKeeps, RegisterKeeps, RefusedKeeps, AcceptKeeps, RelayLeavesKeeps,
     RestartKeeps, ExpireKeeps DEF Next
<1> QED
  BY Zenon, <1>1, <1>2

LEMMA HInvariant == Spec => []HInv
  BY InitHInv, NextHInv, PTL DEF Spec

LEMMA Implied ==
  HInv => SessionsAuthentic /\ AcceptedIsRegistered /\ TokensAccounted
<1> SUFFICES ASSUME HInv
             PROVE  SessionsAuthentic /\ AcceptedIsRegistered /\ TokensAccounted
  BY Zenon
<1>1. \A k \in Conns : conn[k].relay = "in" =>
        /\ conn[k].said.user = User[conn[k].program]
        /\ identities[conn[k].said.user] = Key[conn[k].program]
  <2> SUFFICES ASSUME NEW k \in Conns, conn[k].relay = "in"
               PROVE  /\ conn[k].said.user = User[conn[k].program]
                      /\ identities[conn[k].said.user] = Key[conn[k].program]
    BY Zenon
  <2>1. /\ conn[k].program \in Programs /\ conn[k].said = Identify(conn[k].program)
        /\ identities[conn[k].said.user] = conn[k].said.key
    BY Zenon DEF HInv, Linked, Ends, JobRight
  <2> QED
    BY Zenon, <2>1, Introduced
<1>2. SessionsAuthentic
  BY Zenon, <1>1 DEF HInv, Registry, SessionsAuthentic
<1>3. AcceptedIsRegistered
  BY Zenon DEF HInv, Linked, Ends, JobRight, AcceptedIsRegistered
<1> QED
  BY Zenon, <1>2, <1>3 DEF HInv

(***************************************************************************)
(* Why an error is sent, and why a program stops.                          *)
(***************************************************************************)
Sent(k) ==
  conn[k].down.kind # "ProtocolError" /\ conn'[k].down.kind = "ProtocolError"
    => Because(k, conn'[k].down.body)

Asked(k) ==
  conn[k].relay = "Registration" /\ conn[k].job = "queued" /\ conn'[k].job = "EnrollmentRequired"
    => Unenrolled(conn[k].program)

Halts(p) ==
  state'[p] \in Running \cup {state[p]}
    \/ \E k \in Conns : /\ conn[k].program = p /\ conn[k].down.kind = "ProtocolError"
                        /\ conn[k].down.body = state'[p]

Refusals == (\A k \in Conns : Sent(k) /\ Asked(k)) /\ (\A p \in Programs : Halts(p))

LEMMA TidyWords ==
  ASSUME NEW r
  PROVE  /\ Tidy(r).down.kind = "ProtocolError" => Tidy(r).down = r.down
         /\ Tidy(r).job = "EnrollmentRequired" => r.job = "EnrollmentRequired"
<1>1. CASE ~(r.client = "gone" /\ r.relay = "gone")
  BY Zenon, <1>1 DEF Tidy
<1>2. CASE r.client = "gone" /\ r.relay = "gone"
  <2> DEFINE u == [Unused EXCEPT !.job = IF r.job = "queued" THEN "queued" ELSE "none",
                                 !.said = IF r.job = "queued" THEN r.said ELSE None]
  <2>1. Tidy(r) = u
    BY Zenon, <1>2 DEF Tidy
  <2>2. u.down = Silence /\ u.job = (IF r.job = "queued" THEN "queued" ELSE "none")
    BY Zenon DEF Unused
  <2> HIDE DEF u
  <2>3. u.down.kind # "ProtocolError"
    BY Zenon, <2>2, Spoken
  <2> QED
    BY Zenon, <2>1, <2>2, <2>3
<1> QED
  BY Zenon, <1>1, <1>2

\* One connection says what its new record says.
LEMMA Says ==
  ASSUME HInv, NEW k \in Conns, NEW r, Becomes(k, r),
         r.down.kind = "ProtocolError" => r.down = conn[k].down \/ Because(k, r.down.body),
         conn[k].relay = "Registration" /\ conn[k].job = "queued"
           /\ r.job = "EnrollmentRequired" => Unenrolled(conn[k].program)
  PROVE  \A j \in Conns : Sent(j) /\ Asked(j)
<1>1. conn'[k] = Tidy(r) /\ \A j \in Conns : j # k => conn'[j] = conn[j]
  BY Zenon DEF HInv, Becomes
<1>2. /\ Tidy(r).down.kind = "ProtocolError" => Tidy(r).down = r.down
      /\ Tidy(r).job = "EnrollmentRequired" => r.job = "EnrollmentRequired"
  BY Zenon, TidyWords
<1>3. Sent(k) /\ Asked(k)
  BY Zenon, <1>1, <1>2 DEF Sent, Asked
<1>4. \A j \in Conns : j # k => Sent(j) /\ Asked(j)
  BY Zenon, <1>1 DEF Sent, Asked
<1> QED
  BY Zenon, <1>3, <1>4

LEMMA Silent ==
  ASSUME HInv, NEW k \in Conns, NEW r, Becomes(k, r),
         r.down.kind # "ProtocolError" \/ r.down = conn[k].down,
         r.job = conn[k].job \/ r.job # "EnrollmentRequired"
  PROVE  \A j \in Conns : Sent(j) /\ Asked(j)
  BY Zenon, Says

LEMMA Continues == ASSUME state' = state PROVE \A p \in Programs : Halts(p)
  BY Zenon DEF Halts

LEMMA Sets ==
  ASSUME HInv, NEW p \in Programs, NEW s, state' = [state EXCEPT ![p] = s],
         \/ s \in Running
         \/ \E k \in Conns : /\ conn[k].program = p /\ conn[k].down.kind = "ProtocolError"
                             /\ conn[k].down.body = s
  PROVE  \A q \in Programs : Halts(q)
<1>1. state'[p] = s /\ \A q \in Programs : q # p => state'[q] = state[q]
  BY Zenon DEF HInv
<1>2. Halts(p)
  BY Zenon, <1>1 DEF Halts
<1>3. \A q \in Programs : q # p => Halts(q)
  BY Zenon, <1>1 DEF Halts
<1> QED
  BY Zenon, <1>2, <1>3

LEMMA AnswerRefusals ==
  ASSUME HInv, NEW k \in Conns, NEW waits, NEW up, Answer(k, waits, up),
         conn[k].program \in Programs
  PROVE  Refusals
<1> DEFINE r == [conn[k] EXCEPT !.client = waits, !.down = Silence, !.up = up]
<1>1. Becomes(k, r) /\ DOMAIN conn[k] = Fields
  BY Zenon DEF Answer, HInv, Linked, Ends
<1>2. r.down = Silence /\ r.job = conn[k].job
  BY <1>1, AnswerFields
<1> HIDE DEF r
<1>3. \A j \in Conns : Sent(j) /\ Asked(j)
  BY Zenon, <1>1, <1>2, Spoken, Silent
<1>4. CASE waits = "in"
  <2>1. state' = [state EXCEPT ![conn[k].program] = "online"]
    BY Zenon, <1>4 DEF Answer
  <2>2. \A p \in Programs : Halts(p)
    BY Zenon, <2>1, Sets DEF Running
  <2> QED
    BY Zenon, <1>3, <2>2 DEF Refusals
<1>5. CASE waits # "in"
  BY Zenon, <1>3, <1>5, Continues DEF Answer, Refusals
<1> QED
  BY Zenon, <1>4, <1>5

LEMMA LeaveRefusals ==
  ASSUME HInv, NEW k \in Conns, NEW s, conn[k].program \in Programs,
         Becomes(k, [conn[k] EXCEPT !.client = "gone", !.down = Silence]),
         state' = [state EXCEPT ![conn[k].program] = s],
         s \in Running \/ (conn[k].down.kind = "ProtocolError" /\ conn[k].down.body = s)
  PROVE  Refusals
<1> DEFINE r == [conn[k] EXCEPT !.client = "gone", !.down = Silence]
<1>1. Becomes(k, r) /\ DOMAIN conn[k] = Fields
  BY Zenon DEF HInv, Linked, Ends
<1>2. r.down = Silence /\ r.job = conn[k].job
  BY <1>1, LeaveFields
<1> HIDE DEF r
<1>3. \A j \in Conns : Sent(j) /\ Asked(j)
  BY Zenon, <1>1, <1>2, Spoken, Silent
<1>4. \A p \in Programs : Halts(p)
  BY Zenon, Sets
<1> QED
  BY Zenon, <1>3, <1>4 DEF Refusals

LEMMA ClientRefusals ==
  ASSUME HInv, NEW k \in Conns,
         \/ ReceiveHello(k) \/ ReceiveChallenge(k) \/ ReceiveAccepted(k)
         \/ ReceiveError(k) \/ ClientLeaves(k)
  PROVE  Refusals
<1> DEFINE c == conn[k]
           p == c.program
<1>1. Linked(c, identities)
  BY Zenon DEF HInv
<1>2. c.client # "gone" => p \in Programs
  BY Zenon, <1>1 DEF Linked, Ends
<1>3. CASE ReceiveHello(k)
  <2>1. c.client = "ServerHello" /\ c.down.kind = "ServerHello" /\ c.down.body = Speaks[p]
    BY Zenon, <1>1, <1>3 DEF ReceiveHello, Hears, Linked, DownRight
  <2>2. \E waits, up : Answer(k, waits, up)
    BY Zenon, <1>3, <2>1 DEF ReceiveHello, Expected
  <2> QED
    BY Zenon, <1>2, <2>1, <2>2, AnswerRefusals
<1>4. CASE ReceiveChallenge(k)
  <2>1. c.client = "ServerAuthenticationChallenge" /\ c.down.kind = "ServerAuthenticationChallenge"
    BY Zenon, <1>1, <1>4 DEF ReceiveChallenge, Respond, Hears, Linked, DownRight
  <2>2. \E waits, up : Answer(k, waits, up)
    BY Zenon, <1>4, <2>1 DEF ReceiveChallenge, Respond, Expected
  <2> QED
    BY Zenon, <1>2, <2>1, <2>2, AnswerRefusals
<1>5. CASE ReceiveAccepted(k)
  <2>1. /\ c.client = "ServerIdentifyAccepted" /\ c.down.kind = "ServerIdentifyAccepted"
        /\ c.down.body = User[p]
    BY Zenon, <1>1, <1>5 DEF ReceiveAccepted, Hears, Linked, DownRight
  <2>2. \E waits, up : Answer(k, waits, up)
    BY Zenon, <1>5, <2>1 DEF ReceiveAccepted, Expected
  <2> QED
    BY Zenon, <1>2, <2>1, <2>2, AnswerRefusals
<1>6. CASE ReceiveError(k)
  BY Zenon, <1>2, <1>6, LeaveRefusals DEF ReceiveError, Stop
<1>7. CASE ClientLeaves(k)
  <2>1. /\ Becomes(k, [conn[k] EXCEPT !.client = "gone", !.down = Silence])
        /\ state' = [state EXCEPT ![p] = "offline"] /\ p \in Programs
    BY Zenon, <1>2, <1>7 DEF ClientLeaves
  <2>2. "offline" \in Running
    BY Zenon DEF Running
  <2> QED
    BY Zenon, <2>1, <2>2, LeaveRefusals
<1> QED
  BY Zenon, <1>3, <1>4, <1>5, <1>6, <1>7

LEMMA DialRefusals == ASSUME HInv, NEW p \in Programs, NEW k \in Conns, Dial(p, k) PROVE Refusals
<1> DEFINE r == [Unused EXCEPT !.program = p, !.client = "ServerHello", !.relay = "ClientHello",
                               !.up = Message("ClientHello", Speaks[p])]
<1>1. Becomes(k, r) /\ state' = [state EXCEPT ![p] = "connecting"]
  BY Zenon DEF Dial
<1>2. r.down = Silence /\ r.job = "none"
  BY Zenon DEF Unused
<1> HIDE DEF r
<1>3. \A j \in Conns : Sent(j) /\ Asked(j)
  BY Zenon, <1>1, <1>2, Spoken, Silent
<1>4. \A q \in Programs : Halts(q)
  BY Zenon, <1>1, Sets DEF Running
<1> QED
  BY Zenon, <1>3, <1>4 DEF Refusals

LEMMA ReplyRefusals ==
  ASSUME HInv, NEW k \in Conns, NEW r, DOMAIN r = Fields, NEW kind, NEW body,
         Reply(k, r, kind, body), r.job = conn[k].job,
         kind = "ProtocolError" => Because(k, body)
  PROVE  Refusals
<1> DEFINE down == Answered(r.client, kind, body)
           s == [r EXCEPT !.up = Silence, !.down = down]
<1>1. Becomes(k, s) /\ state' = state
  BY Zenon DEF Reply, Answered
<1>2. s.job = r.job /\ s.down = down
  BY ReplyFields
<1>3. /\ r.client = "gone" => down.kind = "none"
      /\ r.client # "gone" => down.kind = kind /\ down.body = body
  BY SMTT(30), AnsweredKind
<1> HIDE DEF s, down
<1>4. s.down.kind = "ProtocolError" => Because(k, s.down.body)
  BY Zenon, <1>2, <1>3
<1>5. \A j \in Conns : Sent(j) /\ Asked(j)
  BY Zenon, <1>1, <1>2, <1>4, Says
<1> QED
  BY Zenon, <1>1, <1>5, Continues DEF Refusals

LEMMA ErrorRefusals ==
  ASSUME HInv, NEW k \in Conns, NEW e, send_protocol_error(k, e), Because(k, e)
  PROVE  Refusals
<1> DEFINE r == [conn[k] EXCEPT !.relay = "gone"]
<1>1. DOMAIN conn[k] = Fields /\ Reply(k, r, "ProtocolError", e)
  BY Zenon DEF send_protocol_error, HInv, Linked, Ends
<1>2. DOMAIN r = Fields /\ r.job = conn[k].job
  BY <1>1, RelayFields
<1> HIDE DEF r
<1> QED
  BY Zenon, <1>1, <1>2, ReplyRefusals

LEMMA ReadHelloRefusals == ASSUME HInv, NEW k \in Conns, ReadHello(k) PROVE Refusals
<1> DEFINE c == conn[k]
           r == [c EXCEPT !.relay = "ClientIdentify"]
<1>1. /\ c.up.kind = "ClientHello" /\ c.up.body = Speaks[c.program] /\ DOMAIN c = Fields
  BY Zenon DEF ReadHello, read_handshake_frame, HInv, Linked, UpRight, Ends
<1>2. CASE Speaks[c.program] # RelayVersion
  <2>1. send_protocol_error(k, "UnsupportedVersion") /\ Because(k, "UnsupportedVersion")
    BY Zenon, <1>1, <1>2 DEF ReadHello, Because
  <2> QED
    BY Zenon, <2>1, ErrorRefusals
<1>3. CASE Speaks[c.program] = RelayVersion
  <2>1. Reply(k, r, "ServerHello", RelayVersion)
    BY Zenon, <1>1, <1>3 DEF ReadHello
  <2>2. DOMAIN r = Fields /\ r.job = c.job
    BY <1>1, RelayFields
  <2> HIDE DEF r
  <2> QED
    BY Zenon, <2>1, <2>2, ReplyRefusals
<1> QED
  BY Zenon, <1>2, <1>3

LEMMA ReadIdentifyRefusals == ASSUME HInv, NEW k \in Conns, ReadIdentify(k) PROVE Refusals
<1> DEFINE c == conn[k]
           r(x) == [c EXCEPT !.relay = "ClientAuthenticationResponse",
                             !.said = c.up.body, !.challenge = x]
<1>1. c.up.kind = "ClientIdentify" /\ DOMAIN c = Fields
  BY Zenon DEF ReadIdentify, read_handshake_frame, HInv, Linked, UpRight, Ends
<1>2. PICK x \in Challenges : Reply(k, r(x), "ServerAuthenticationChallenge", x)
  BY Zenon, <1>1 DEF ReadIdentify
<1>3. DOMAIN r(x) = Fields /\ r(x).job = c.job
  <2> DEFINE said == c.up.body
  <2>1. r(x) = [c EXCEPT !.relay = "ClientAuthenticationResponse", !.said = said, !.challenge = x]
    BY Zenon
  <2> HIDE DEF c, said, r
  <2> QED
    BY Zenon, <1>1, <2>1 DEF Fields
<1> HIDE DEF r
<1> QED
  BY Zenon, <1>2, <1>3, ReplyRefusals

\* The signature on the way is the right one, so none is refused.
LEMMA ReadResponseRefusals == ASSUME HInv, NEW k \in Conns, ReadResponse(k) PROVE Refusals
<1> DEFINE c == conn[k]
           p == c.program
           s == [c EXCEPT !.relay = "Registration", !.job = "queued", !.up = Silence]
<1>1. Linked(c, identities) /\ c.relay = "ClientAuthenticationResponse" /\ c.up.kind # "none"
  BY Zenon DEF HInv, ReadResponse, read_handshake_frame
<1>2. /\ c.up.kind = "ClientAuthenticationResponse"
      /\ c.up.body = Sign(Key[p], authentication_transcript(RelayVersion, User[p], Key[p],
                                                            c.challenge))
      /\ p \in Programs /\ c.said = Identify(p) /\ DOMAIN c = Fields
  BY Zenon, <1>1 DEF Linked, UpRight, Ends
<1>3. verify_authentication_signature(c.said, c.challenge, c.up.body)
  BY Zenon, <1>2, Introduced DEF verify_authentication_signature
<1>4. Becomes(k, s) /\ state' = state
  BY Zenon, <1>2, <1>3 DEF ReadResponse
<1>5. s.job = "queued" /\ s.down = c.down
  <2> HIDE DEF c
  <2> QED
    BY Zenon, <1>2 DEF Fields
<1> HIDE DEF s
<1>6. \A j \in Conns : Sent(j) /\ Asked(j)
  BY Zenon, <1>4, <1>5, Silent
<1> QED
  BY Zenon, <1>4, <1>6, Continues DEF Refusals

LEMMA RegisterRefusals ==
  ASSUME HInv, NEW k \in Conns, register_enrolled_identity(k) PROVE Refusals
<1> DEFINE c == conn[k]
           a == Registration(c.said)
           r == [c EXCEPT !.job = a]
<1>1. Becomes(k, r) /\ state' = state /\ Linked(c, identities)
  BY Zenon DEF register_enrolled_identity, HInv
<1>2. c.relay = "Registration" => c.program \in Programs /\ c.said = Identify(c.program)
  BY Zenon, <1>1 DEF Linked, Ends
<1>3. c.relay = "Registration" /\ a = "EnrollmentRequired" => Unenrolled(c.program)
  BY Zenon, <1>2, Answers DEF Unenrolled
<1>4. r.job = a /\ r.down = c.down
  <2>1. DOMAIN c = Fields
    BY Zenon, <1>1 DEF Linked, Ends
  <2> HIDE DEF a, c
  <2> QED
    BY Zenon, <2>1 DEF Fields
<1> HIDE DEF r, a
<1>5. \A j \in Conns : Sent(j) /\ Asked(j)
  BY Zenon, <1>1, <1>3, <1>4, Says
<1> QED
  BY Zenon, <1>1, <1>5, Continues DEF Refusals

LEMMA RefusedRefusals == ASSUME HInv, NEW k \in Conns, RegistrationRefused(k) PROVE Refusals
<1> DEFINE c == conn[k]
           p == c.program
<1>1. /\ c.relay = "Registration" /\ c.job \in {"IdentityKeyConflict", "EnrollmentRequired"}
      /\ Linked(c, identities)
  BY Zenon DEF RegistrationRefused, HInv
<1>2. p \in Programs /\ c.said = Identify(p) /\ JobRight(c, identities)
  BY Zenon, <1>1 DEF Linked, Ends
<1>3. Identify(p).user = User[p] /\ Identify(p).key = Key[p]
  BY Zenon, <1>2, Introduced
<1>4. CASE c.job = "IdentityKeyConflict"
  <2>1. send_protocol_error(k, "IdentityKeyConflict")
    BY Zenon, <1>4 DEF RegistrationRefused
  <2>2. Because(k, "IdentityKeyConflict")
    BY Zenon, <1>1, <1>2, <1>3, <1>4 DEF JobRight, Because
  <2> QED
    BY Zenon, <2>1, <2>2, ErrorRefusals
<1>5. CASE c.job = "EnrollmentRequired"
  <2>1. send_protocol_error(k, "AuthenticationFailed") /\ Because(k, "AuthenticationFailed")
    BY Zenon, <1>1, <1>5 DEF RegistrationRefused, Because
  <2> QED
    BY Zenon, <2>1, ErrorRefusals
<1> QED
  BY Zenon, <1>1, <1>4, <1>5

\* The registry of active identities is exact, so a taken user has a session.
LEMMA AcceptRefusals == ASSUME HInv, NEW k \in Conns, Accept(k) PROVE Refusals
<1> DEFINE c == conn[k]
           u == c.said.user
           r == [c EXCEPT !.relay = "in"]
<1>1. c.relay = "Registration" /\ Linked(c, identities)
  BY Zenon DEF Accept, HInv
<1>2. DOMAIN c = Fields /\ u = User[c.program]
  BY Zenon, <1>1, Introduced DEF Linked, Ends
<1>3. CASE Taken(u)
  <2>1. send_protocol_error(k, "AuthenticationFailed")
    BY Zenon, <1>3 DEF Accept
  <2>2. \E j \in Conns : conn[j].relay = "in" /\ conn[j].said.user = u
    BY Zenon, <1>3 DEF Taken, HInv, Registry
  <2>3. Because(k, "AuthenticationFailed")
    BY Zenon, <1>1, <1>2, <2>2 DEF Because
  <2> QED
    BY Zenon, <2>1, <2>3, ErrorRefusals
<1>4. CASE ~Taken(u)
  <2>1. Reply(k, r, "ServerIdentifyAccepted", u)
    BY Zenon, <1>4 DEF Accept
  <2>2. DOMAIN r = Fields /\ r.job = c.job
    BY <1>2, RelayFields
  <2> HIDE DEF r
  <2> QED
    BY Zenon, <2>1, <2>2, ReplyRefusals
<1> QED
  BY Zenon, <1>3, <1>4

LEMMA RelayLeavesRefusals == ASSUME HInv, NEW k \in Conns, RelayLeaves(k) PROVE Refusals
<1> DEFINE c == conn[k]
           r == [c EXCEPT !.relay = "gone", !.up = Silence]
<1>1. Becomes(k, r) /\ state' = state /\ DOMAIN c = Fields
  BY Zenon DEF RelayLeaves, HInv, Linked, Ends
<1>2. r.job = c.job /\ r.down = c.down
  <2> HIDE DEF c
  <2> QED
    BY Zenon, <1>1 DEF Fields
<1> HIDE DEF r
<1>3. \A j \in Conns : Sent(j) /\ Asked(j)
  BY Zenon, <1>1, <1>2, Silent
<1> QED
  BY Zenon, <1>1, <1>3, Continues DEF Refusals

LEMMA RestartRefusals == ASSUME HInv, Restart PROVE Refusals
<1>1. ASSUME NEW k \in Conns PROVE Sent(k) /\ Asked(k)
  <2> DEFINE c == conn[k]
             s == [c EXCEPT !.relay = "gone", !.up = Silence, !.job = "none"]
  <2>1. conn'[k] = Tidy(s) /\ DOMAIN c = Fields
    BY Zenon DEF Restart, HInv, Linked, Ends
  <2>2. s.job = "none" /\ s.down = c.down
    <3> HIDE DEF c
    <3> QED
      BY Zenon, <2>1 DEF Fields
  <2> HIDE DEF s
  <2>3. /\ Tidy(s).down.kind = "ProtocolError" => Tidy(s).down = s.down
        /\ Tidy(s).job = "EnrollmentRequired" => s.job = "EnrollmentRequired"
    BY Zenon, TidyWords
  <2> QED
    BY Zenon, <2>1, <2>2, <2>3 DEF Sent, Asked
<1> QED
  BY Zenon, <1>1, Continues DEF Restart, Refusals

LEMMA NextRefusals == HInv /\ Next => Refusals
<1> SUFFICES ASSUME HInv, Next PROVE Refusals
  BY Zenon
<1>1. ASSUME NEW p \in Programs, Reopen(p) PROVE Refusals
  <2>1. conn' = conn /\ \A q \in Programs : Halts(q)
    BY Zenon, <1>1, Sets DEF Reopen, Running
  <2> QED
    BY Zenon, <2>1 DEF Refusals, Sent, Asked
<1>2. ASSUME NEW t \in Tokens, Expire(t) PROVE Refusals
  <2>1. conn' = conn /\ \A q \in Programs : Halts(q)
    BY Zenon, <1>2, Continues DEF Expire
  <2> QED
    BY Zenon, <2>1 DEF Refusals, Sent, Asked
<1> QED
  BY Zenon, <1>1, <1>2, DialRefusals, ClientRefusals, ReadHelloRefusals, ReadIdentifyRefusals,
     ReadResponseRefusals, RegisterRefusals, RefusedRefusals, AcceptRefusals,
     RelayLeavesRefusals, RestartRefusals DEF Next

\* Every session the relay serves is the one session of the user its program is, under
\* the key registered for that user, and every accepted client speaks the relay's
\* version and is registered with its own key: authenticate and hub.register, whatever
\* the programs, their number and their interleaving.
THEOREM SessionsCorrect == Spec => [](SessionsAuthentic /\ AcceptedIsRegistered)
  BY HInvariant, Implied, PTL

\* The relay refuses a program only for a cause that is there when it answers: the
\* versions differ, the user has another key, another connection has the user's session,
\* or the database found neither a registered key nor a token of use.  connect ends the
\* program with the error it was sent: no interleaving of handshakes, departures,
\* restarts and expiring tokens makes the ends lose step or a right signature fail.
THEOREM RefusalsCorrect == Spec => RefusedForCause
<1>1. HInv /\ [Next]_vars => [Refusals]_vars
  BY Zenon, NextRefusals
<1>2. Refusals =>
        /\ \A k \in Conns :
             conn[k].down.kind # "ProtocolError" /\ conn'[k].down.kind = "ProtocolError"
               => Because(k, conn'[k].down.body)
        /\ \A k \in Conns :
             conn[k].relay = "Registration" /\ conn[k].job = "queued"
               /\ conn'[k].job = "EnrollmentRequired"
               => Unenrolled(conn[k].program)
        /\ \A p \in Programs : state'[p] \in Running \cup {state[p]}
             \/ \E k \in Conns : /\ conn[k].program = p /\ conn[k].down.kind = "ProtocolError"
                                 /\ conn[k].down.body = state'[p]
  BY Zenon DEF Refusals, Sent, Asked, Halts
<1> QED
  BY <1>1, <1>2, HInvariant, PTL DEF Spec, RefusedForCause

\* register_enrolled_identity consumes exactly one token for a registered user, the one
\* issued for the key that is registered.
THEOREM EnrollmentCorrect == Spec => []TokensAccounted
  BY HInvariant, Implied, PTL

\* The client's side of SessionsCorrect: connect returns only to a client whose version
\* is the relay's and whose user is registered under its own key.
THEOREM AcceptedAreRegistered == Spec => []AcceptedIsRegistered
  BY SessionsCorrect, PTL

=============================================================================
