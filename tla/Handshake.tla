------------------------------ MODULE Handshake ------------------------------
(***************************************************************************)
(* What is said when a client connects: connect on the client's side,      *)
(* authenticate on the relay's, message by message.  Programs that run the *)
(* same identity, or claim the same user with another key, or speak        *)
(* another protocol version, dial one relay at the same time.              *)
(*                                                                         *)
(* The two ends take turns, so a direction holds at most one message.  An  *)
(* end that leaves (deadline, end of the stream, network failure) may      *)
(* leave its last message to the other.  Limits on connections, memory and *)
(* the database queue are in RelaySession; here a refusal for want of them *)
(* is one of the ways the relay leaves.                                    *)
(***************************************************************************)
EXTENDS Options, Naturals

CONSTANTS
  Programs,      \* client programs, each with its data directory and environment
  Users, Keys, Tokens, Versions, Challenges, Conns,
  User,          \* program -> user id of its identity
  Key,           \* program -> public key of its identity
  Token,         \* program -> GROTTO_ENROLLMENT_TOKEN, or None
  Speaks,        \* program -> its PROTOCOL_VERSION
  RelayVersion,  \* the relay's PROTOCOL_VERSION
  IssuedTo       \* token -> the user and key the operator issued it for

VARIABLES
  state,              \* program -> "offline", "connecting", "online" or why it stopped
  conn,               \* connection -> both ends and what is on the way
  active_identities,  \* users with a session
  identities,         \* user -> registered key, or None
  tokens              \* token -> "issued", "consumed" or "expired"

stored == <<identities, tokens>>
vars == <<state, conn, active_identities, stored>>

HandshakeAssumption ==
  /\ User \in [Programs -> Users] /\ Key \in [Programs -> Keys]
  /\ Token \in [Programs -> Tokens \cup {None}] /\ Speaks \in [Programs -> Versions]
  /\ IssuedTo \in [Tokens -> Users \X Keys] /\ RelayVersion \in Versions
  /\ None \notin Programs \cup Users \cup Keys \cup Tokens \cup Challenges
ASSUME HandshakeAssumption

Message(kind, body) == [kind |-> kind, body |-> body]
Silence == Message("none", None)

\* client, relay: the message that end waits for, "in" once it is past the
\* handshake, "gone" without a socket; said: the ClientIdentify the relay read;
\* job: the registration it asked of the database; up, down: messages on the way.
Unused == [program |-> None, client |-> "gone", relay |-> "gone", said |-> None,
           challenge |-> None, job |-> "none", up |-> Silence, down |-> Silence]

Identify(p) == [user |-> User[p], key |-> Key[p], enrollment |-> Token[p]]

\* An Ed25519 signature names its key and the transcript that was signed.
authentication_transcript(version, user, key, challenge) == <<version, user, key, challenge>>
Sign(key, transcript) == [by |-> key, transcript |-> transcript]

\* A connection both ends have left is forgotten, but for a command still queued.
Tidy(r) ==
  IF r.client = "gone" /\ r.relay = "gone"
    THEN [Unused EXCEPT !.job = IF r.job = "queued" THEN "queued" ELSE "none",
                        !.said = IF r.job = "queued" THEN r.said ELSE None]
    ELSE r

Becomes(k, r) == conn' = [conn EXCEPT ![k] = Tidy(r)]

(***************************************************************************)
(* The client.                                                             *)
(***************************************************************************)
Dial(p, k) ==
  /\ state[p] = "offline" /\ conn[k] = Unused
  /\ Becomes(k, [Unused EXCEPT !.program = p, !.client = "ServerHello", !.relay = "ClientHello",
                               !.up = Message("ClientHello", Speaks[p])])
  /\ state' = [state EXCEPT ![p] = "connecting"]
  /\ UNCHANGED <<active_identities, stored>>

\* The client reads a message and sends its answer, then waits for the next.
Answer(k, waits, up) ==
  /\ Becomes(k, [conn[k] EXCEPT !.client = waits, !.down = Silence, !.up = up])
  /\ state' = IF waits = "in" THEN [state EXCEPT ![conn[k].program] = "online"] ELSE state
  /\ UNCHANGED <<active_identities, stored>>

\* An error that is not retryable ends the program.
Stop(k, why) ==
  /\ Becomes(k, [conn[k] EXCEPT !.client = "gone", !.down = Silence])
  /\ state' = [state EXCEPT ![conn[k].program] = why]
  /\ UNCHANGED <<active_identities, stored>>

\* A message other than the one it waits for is an error it does not retry.
Hears(k, kind) == conn[k].client = kind /\ conn[k].down.kind \notin {"none", "ProtocolError"}
Expected(k) == conn[k].down.kind = conn[k].client

ReceiveHello(k) ==
  LET p == conn[k].program
  IN  /\ Hears(k, "ServerHello")
      /\ IF Expected(k) /\ conn[k].down.body = Speaks[p]
           THEN Answer(k, "ServerAuthenticationChallenge", Message("ClientIdentify", Identify(p)))
           ELSE Stop(k, "unexpected")

\* The client signs for version v.
Respond(k, v) ==
  LET p == conn[k].program
  IN  /\ Hears(k, "ServerAuthenticationChallenge")
      /\ IF Expected(k)
           THEN Answer(k, "ServerIdentifyAccepted", Message("ClientAuthenticationResponse",
                  Sign(Key[p], authentication_transcript(v, User[p], Key[p], conn[k].down.body))))
           ELSE Stop(k, "unexpected")

\* Mutant of ReceiveChallenge: the version is left out of what is signed.
ReceiveChallengeUnversioned(k) == Respond(k, None)

ReceiveChallenge(k) == Respond(k, Speaks[conn[k].program])

ReceiveAccepted(k) ==
  /\ Hears(k, "ServerIdentifyAccepted")
  /\ IF Expected(k) /\ conn[k].down.body = User[conn[k].program]
       THEN Answer(k, "in", Silence)
       ELSE Stop(k, "unexpected")

ReceiveError(k) ==
  /\ conn[k].client \notin {"in", "gone"} /\ conn[k].down.kind = "ProtocolError"
  /\ Stop(k, conn[k].down.body)

\* The deadline of connect, the end of the stream, a failed read or write: the
\* program tries again.
ClientLeaves(k) ==
  /\ conn[k].client # "gone"
  /\ Becomes(k, [conn[k] EXCEPT !.client = "gone", !.down = Silence])
  /\ state' = [state EXCEPT ![conn[k].program] = "offline"]
  /\ UNCHANGED <<active_identities, stored>>

\* The person at the terminal starts a program that stopped.
Reopen(p) ==
  /\ state[p] \notin {"offline", "connecting", "online"}
  /\ state' = [state EXCEPT ![p] = "offline"]
  /\ UNCHANGED <<conn, active_identities, stored>>

(***************************************************************************)
(* The relay.  Every error it sends is followed by the end of the session  *)
(* task.                                                                   *)
(***************************************************************************)
Reply(k, r, kind, body) ==
  /\ Becomes(k, [r EXCEPT !.up = Silence,
                          !.down = IF r.client = "gone" THEN Silence ELSE Message(kind, body)])
  /\ UNCHANGED <<state, stored>>

send_protocol_error(k, error) ==
  /\ Reply(k, [conn[k] EXCEPT !.relay = "gone"], "ProtocolError", error)
  /\ UNCHANGED active_identities

read_handshake_frame(k, expected) == conn[k].relay = expected /\ conn[k].up.kind # "none"

ReadHello(k) ==
  /\ read_handshake_frame(k, "ClientHello")
  /\ IF conn[k].up.kind # "ClientHello" THEN send_protocol_error(k, "UnexpectedMessage")
     ELSE IF conn[k].up.body # RelayVersion THEN send_protocol_error(k, "UnsupportedVersion")
     ELSE /\ Reply(k, [conn[k] EXCEPT !.relay = "ClientIdentify"], "ServerHello", RelayVersion)
          /\ UNCHANGED active_identities

\* A key made from a seed is a valid point, so InvalidPublicKey does not arise.  The
\* challenge is 32 random bytes: no other that is still of use is the same.
ReadIdentify(k) ==
  /\ read_handshake_frame(k, "ClientIdentify")
  /\ IF conn[k].up.kind # "ClientIdentify" THEN send_protocol_error(k, "UnexpectedMessage")
     ELSE \E challenge \in Challenges \ {conn[j].challenge : j \in Conns} :
            /\ Reply(k, [conn[k] EXCEPT !.relay = "ClientAuthenticationResponse",
                                        !.said = conn[k].up.body, !.challenge = challenge],
                     "ServerAuthenticationChallenge", challenge)
            /\ UNCHANGED active_identities

verify_authentication_signature(said, challenge, signature) ==
  signature = Sign(said.key,
                   authentication_transcript(RelayVersion, said.user, said.key, challenge))

\* A good signature sends the registration to the database.
ReadResponse(k) ==
  /\ read_handshake_frame(k, "ClientAuthenticationResponse")
  /\ IF conn[k].up.kind # "ClientAuthenticationResponse"
       THEN send_protocol_error(k, "UnexpectedMessage")
     ELSE IF ~verify_authentication_signature(conn[k].said, conn[k].challenge, conn[k].up.body)
       THEN send_protocol_error(k, "AuthenticationFailed")
     ELSE /\ Becomes(k, [conn[k] EXCEPT !.relay = "Registration", !.job = "queued",
                                        !.up = Silence])
          /\ UNCHANGED <<state, active_identities, stored>>

\* The token must be for this user and key, unused and in time.
Good(said) ==
  /\ said.enrollment # None
  /\ tokens[said.enrollment] = "issued"
  /\ IssuedTo[said.enrollment] = <<said.user, said.key>>

\* Mutant of Registration: the token is looked at before the registered key.
RegistrationByToken(said) ==
  IF Good(said) THEN "New"
  ELSE IF identities[said.user] = said.key THEN "Existing"
  ELSE IF identities[said.user] # None THEN "IdentityKeyConflict"
  ELSE "EnrollmentRequired"

Registration(said) ==
  IF identities[said.user] = said.key THEN "Existing"
  ELSE IF identities[said.user] # None THEN "IdentityKeyConflict"
  ELSE IF Good(said) THEN "New"
  ELSE "EnrollmentRequired"

\* The database thread runs the command, whether or not the session still waits.
register_enrolled_identity(k) ==
  LET said == conn[k].said
      result == Registration(said)
  IN  /\ conn[k].job = "queued"
      /\ Becomes(k, [conn[k] EXCEPT !.job = result])
      /\ IF result = "New"
           THEN /\ identities' = [identities EXCEPT ![said.user] = said.key]
                /\ tokens' = [tokens EXCEPT ![said.enrollment] = "consumed"]
           ELSE UNCHANGED stored
      /\ UNCHANGED <<state, active_identities>>

\* A failure other than a conflict or a missing token ends the session without a
\* word, see RelayLeaves.
RegistrationRefused(k) ==
  /\ conn[k].relay = "Registration"
  /\ conn[k].job \in {"IdentityKeyConflict", "EnrollmentRequired"}
  /\ send_protocol_error(k, IF conn[k].job = "EnrollmentRequired" THEN "AuthenticationFailed"
                                                                  ELSE "IdentityKeyConflict")

\* Mutant of Taken: the registry of sessions is not asked.
TakenNever(user) == FALSE

Taken(user) == user \in active_identities

\* One session per identity.
Accept(k) ==
  LET user == conn[k].said.user
  IN  /\ conn[k].relay = "Registration" /\ conn[k].job \in {"New", "Existing"}
      /\ IF Taken(user) THEN send_protocol_error(k, "AuthenticationFailed")
         ELSE /\ active_identities' = active_identities \cup {user}
              /\ Reply(k, [conn[k] EXCEPT !.relay = "in"], "ServerIdentifyAccepted", user)

\* The drop of ConnectionRegistration.
Released(k) == IF conn[k].relay = "in" THEN active_identities \ {conn[k].said.user}
                                       ELSE active_identities

\* The handshake deadline, the end of the stream, a failed read, write or command,
\* or the end of the session.
RelayLeaves(k) ==
  /\ conn[k].relay # "gone"
  /\ active_identities' = Released(k)
  /\ Becomes(k, [conn[k] EXCEPT !.relay = "gone", !.up = Silence])
  /\ UNCHANGED <<state, stored>>

\* The relay's process ends and starts again: sessions and queued commands are
\* gone, what is stored stays.
Restart ==
  /\ conn' = [k \in Conns |-> Tidy([conn[k] EXCEPT !.relay = "gone", !.up = Silence,
                                                   !.job = "none"])]
  /\ active_identities' = {}
  /\ UNCHANGED <<state, stored>>

Expire(t) ==
  /\ tokens[t] = "issued"
  /\ tokens' = [tokens EXCEPT ![t] = "expired"]
  /\ UNCHANGED <<state, conn, active_identities, identities>>

Init ==
  /\ state = [p \in Programs |-> "offline"]
  /\ conn = [k \in Conns |-> Unused]
  /\ active_identities = {}
  /\ identities = [u \in Users |-> None]
  /\ tokens = [t \in Tokens |-> "issued"]

Next ==
  \/ \E p \in Programs, k \in Conns : Dial(p, k)
  \/ \E k \in Conns : ReceiveHello(k)
  \/ \E k \in Conns : ReceiveChallenge(k)
  \/ \E k \in Conns : ReceiveAccepted(k)
  \/ \E k \in Conns : ReceiveError(k)
  \/ \E k \in Conns : ClientLeaves(k)
  \/ \E p \in Programs : Reopen(p)
  \/ \E k \in Conns : ReadHello(k)
  \/ \E k \in Conns : ReadIdentify(k)
  \/ \E k \in Conns : ReadResponse(k)
  \/ \E k \in Conns : register_enrolled_identity(k)
  \/ \E k \in Conns : RegistrationRefused(k)
  \/ \E k \in Conns : Accept(k)
  \/ \E k \in Conns : RelayLeaves(k)
  \/ Restart
  \/ \E t \in Tokens : Expire(t)

Spec == Init /\ [][Next]_vars

(***************************************************************************)
(* Properties.                                                             *)
(***************************************************************************)
Waits == {"ServerHello", "ServerAuthenticationChallenge", "ServerIdentifyAccepted", "in", "gone"}
Serves == {"ClientHello", "ClientIdentify", "ClientAuthenticationResponse", "Registration",
           "in", "gone"}

\* A session belongs to the program at the other end of its connection: the relay
\* serves it as the user it is, under the key registered for that user, and no two
\* sessions are one user's.  The registry of active identities names exactly the
\* users that have a session.
SessionsAuthentic ==
  /\ \A k \in Conns : conn[k].relay = "in" =>
       /\ conn[k].said.user = User[conn[k].program]
       /\ identities[conn[k].said.user] = Key[conn[k].program]
  /\ \A j, k \in Conns :
       conn[j].relay = "in" /\ conn[k].relay = "in" /\ conn[j].said.user = conn[k].said.user
         => j = k
  /\ active_identities = {conn[k].said.user : k \in {j \in Conns : conn[j].relay = "in"}}

\* A client that has been accepted speaks the relay's version and is registered
\* with its own key, even when the session it was accepted to has ended since.
AcceptedIsRegistered ==
  \A k \in Conns : conn[k].client = "in" =>
    /\ Speaks[conn[k].program] = RelayVersion
    /\ identities[User[conn[k].program]] = Key[conn[k].program]
    /\ conn[k].relay \in {"in", "gone"}

Running == {"offline", "connecting", "online"}

\* What lets the relay send error e on connection k now.
Because(k, e) ==
  LET p == conn[k].program
  IN  \/ e = "UnsupportedVersion" /\ Speaks[p] # RelayVersion
      \/ e = "IdentityKeyConflict" /\ identities[User[p]] \notin {None, Key[p]}
      \/ /\ e = "AuthenticationFailed"
         /\ \/ \E j \in Conns \ {k} : conn[j].relay = "in" /\ conn[j].said.user = User[p]
            \/ conn[k].relay = "Registration" /\ conn[k].job = "EnrollmentRequired"

\* A user without a registered key, and without a token that would register its own.
Unenrolled(p) == identities[User[p]] = None /\ ~Good(Identify(p))

\* A program is refused for a cause that is there when the relay answers.  The relay
\* sends an error of version when the versions differ, one of key when the user is
\* registered with another key, and AuthenticationFailed only when another connection
\* has the user's session or the database asked for a token (a right signature never
\* fails).  The database asks for one only of a user that is not registered yet and
\* whose token is of no use.  The program stops with the error it was sent: no
\* interleaving makes the two ends lose step.
RefusedForCause ==
  [][ /\ \A k \in Conns :
           conn[k].down.kind # "ProtocolError" /\ conn'[k].down.kind = "ProtocolError"
             => Because(k, conn'[k].down.body)
      /\ \A k \in Conns :
           conn[k].relay = "Registration" /\ conn[k].job = "queued"
             /\ conn'[k].job = "EnrollmentRequired"
             => Unenrolled(conn[k].program)
      /\ \A p \in Programs : state'[p] \in Running \cup {state[p]}
           \/ \E k \in Conns : /\ conn[k].program = p /\ conn[k].down.kind = "ProtocolError"
                               /\ conn[k].down.body = state'[p] ]_vars

\* A consumed token accounts for the registered key of its user: a user is
\* registered with the key of the one token that was consumed for it.
TokensAccounted ==
  /\ \A t \in Tokens : tokens[t] = "consumed" => identities[IssuedTo[t][1]] = IssuedTo[t][2]
  /\ \A u \in Users : identities[u] # None =>
       \E t \in Tokens : tokens[t] = "consumed" /\ IssuedTo[t] = <<u, identities[u]>>
  /\ \A s, t \in Tokens :
       tokens[s] = "consumed" /\ tokens[t] = "consumed" /\ IssuedTo[s][1] = IssuedTo[t][1] => s = t
=============================================================================
