----------------------------- MODULE RelayTrust -----------------------------
(***************************************************************************)
(* How a client knows its relay: the TLS identity that relay processes     *)
(* keep in two files (tls of grotto-relay), and the fingerprints that      *)
(* client processes keep in one file of pins (tls of grotto-client).       *)
(* Processes that share the files run at the same time and stop at any     *)
(* point; a file that is being written is torn until the write ends.       *)
(***************************************************************************)
EXTENDS Options, Naturals, Sequences

CONSTANTS
  Relays,     \* relay processes on the same certificate and key files
  Clients,    \* client processes on the same pin file
  Ids,        \* identities that generate_self_signed may draw
  Addresses,  \* relay addresses
  MaxPins     \* pins that fit the 64 KiB budget of the pin file

Torn == "torn"

ASSUME TrustAssumption ==
  MaxPins \in Nat /\ None \notin Ids \cup Clients /\ Torn \notin Ids \cup {None}

VARIABLES
  files,      \* cert and key: None, Torn, or of an identity
  relay,      \* relay process -> where it is
  made,      \* identities generated so far
  served,     \* history: the pairs of certificate and key served since the last reset
  lines,      \* complete lines of the pin file
  tail,       \* what follows the last newline of it
  pin_holder,     \* the client that holds the lock of the pin file
  client,     \* client process -> where it is
  trusted     \* history: pins that admitted a connection since the file was deleted

relayVars == <<files, relay, made, served>>
clientVars == <<lines, tail, pin_holder, client, trusted>>
trustVars == <<relayVars, clientVars>>

Bad == [addr |-> None, id |-> None]  \* a line that is not an address and a fingerprint
Pins == [addr : Addresses, id : Ids]

Down == [at |-> "off", cert |-> None, key |-> None]
Away == [at |-> "off", addr |-> None, id |-> None]

TrustInit ==
  /\ files = [cert |-> None, key |-> None] /\ relay = [r \in Relays |-> Down]
  /\ made = {} /\ served = {}
  /\ lines = <<>> /\ tail = "none" /\ pin_holder = None
  /\ client = [c \in Clients |-> Away] /\ trusted = {}

(***************************************************************************)
(* load_or_generate_at.  relay[r].cert: what was found, then what was      *)
(* made, then what was read.                                              *)
(***************************************************************************)
Becomes(r, at, cert, key) ==
  relay' = [relay EXCEPT ![r] = [at |-> at, cert |-> cert, key |-> key]]
Goes(r, at) == Becomes(r, at, relay[r].cert, relay[r].key)
GoesDown(r) == Becomes(r, "off", None, None)

Creating(f) == IF f = "cert" THEN "create cert" ELSE "create key"
Writing(f) == IF f = "cert" THEN "write cert" ELSE "write key"

LookCert(r) ==
  /\ relay[r].at = "off"
  /\ Becomes(r, "look", files.cert, None)
  /\ UNCHANGED <<files, made, served, clientVars>>

\* "incomplete TLS identity", or both are to be made, or both are to be read.
LookKey(r) ==
  /\ relay[r].at = "look"
  /\ IF (relay[r].cert = None) # (files.key = None)
     THEN GoesDown(r) /\ UNCHANGED made
     ELSE IF files.key # None
     THEN Goes(r, "read") /\ UNCHANGED made
     ELSE \E i \in Ids \ made :
            /\ made' = made \cup {i}
            /\ Becomes(r, "create cert", i, i)
  /\ UNCHANGED <<files, served, clientVars>>

\* Mutant of Create: an existing file is truncated.
CreateTruncates(r, f) ==
  /\ relay[r].at = Creating(f)
  /\ files' = [files EXCEPT ![f] = Torn] /\ Goes(r, Writing(f))
  /\ UNCHANGED <<made, served, clientVars>>

\* write_with_mode: create_new refuses a file that exists.
Create(r, f) ==
  /\ relay[r].at = Creating(f)
  /\ IF files[f] = None
     THEN files' = [files EXCEPT ![f] = Torn] /\ Goes(r, Writing(f))
     ELSE GoesDown(r) /\ UNCHANGED files
  /\ UNCHANGED <<made, served, clientVars>>

\* write_all and sync_all; or one of them fails and what was written stays.
Write(r, f) ==
  /\ relay[r].at = Writing(f)
  /\ \/ /\ files' = [files EXCEPT ![f] = relay[r][f]]
        /\ Goes(r, IF f = "cert" THEN "create key" ELSE "read")
     \/ GoesDown(r) /\ UNCHANGED files
  /\ UNCHANGED <<made, served, clientVars>>

ReadCert(r) ==
  /\ relay[r].at = "read"
  /\ Becomes(r, "read key", files.cert, relay[r].key)
  /\ UNCHANGED <<files, made, served, clientVars>>

\* read_private and load_from_pem: a torn file holds no certificate or key.
ReadKey(r) ==
  /\ relay[r].at = "read key"
  /\ IF Torn \in {relay[r].cert, files.key}
     THEN GoesDown(r) /\ UNCHANGED served
     ELSE /\ Becomes(r, "serving", relay[r].cert, files.key)
          /\ served' = served \cup {[cert |-> relay[r].cert, key |-> files.key]}
  /\ UNCHANGED <<files, made, clientVars>>

RelayStops(r) ==
  /\ relay[r].at # "off" /\ GoesDown(r)
  /\ UNCHANGED <<files, made, served, clientVars>>

\* The operator removes both files, with no relay running.
Reset ==
  /\ files # [cert |-> None, key |-> None] /\ \A r \in Relays : relay[r].at = "off"
  /\ files' = [cert |-> None, key |-> None] /\ served' = {}
  /\ UNCHANGED <<relay, made, clientVars>>

(***************************************************************************)
(* connect and ensure_pinned.                                              *)
(***************************************************************************)
Sets(c, at, addr, id) ==
  client' = [client EXCEPT ![c] = [at |-> at, addr |-> addr, id |-> id]]
Turns(c, at) == Sets(c, at, client[c].addr, client[c].id)
Leaves(c) ==
  /\ Sets(c, "off", None, None)
  /\ pin_holder' = IF pin_holder = c THEN None ELSE pin_holder

\* The TLS handshake with a relay; a fingerprint from the environment decides
\* alone, otherwise the pin file does.
Connect(c, addr, explicit) ==
  /\ client[c].at = "off"
  /\ \E r \in Relays :
       /\ relay[r].at = "serving"
       /\ IF explicit = None
          THEN Sets(c, "open", addr, relay[r].cert)
          ELSE explicit = relay[r].cert /\ Turns(c, "connected")
  /\ UNCHANGED <<lines, tail, pin_holder, trusted, relayVars>>

\* open_locked: the lock is had at once or the connection attempt fails.
OpenLocked(c) ==
  /\ client[c].at = "open"
  /\ IF pin_holder = None THEN pin_holder' = c /\ Turns(c, "match") ELSE Leaves(c)
  /\ UNCHANGED <<lines, tail, trusted, relayVars>>

\* Mutant of Incomplete: the last line may lack its newline.
IncompleteIgnored == Len(lines) > MaxPins

\* A record without its newline, a malformed one, or a file past its budget.
Incomplete == Len(lines) > MaxPins \/ tail # "none" \/ \E k \in DOMAIN lines : lines[k] = Bad

\* The new line would not fit.
Full == Len(lines) >= MaxPins

Recorded(addr) == {k \in DOMAIN lines : lines[k].addr = addr}

\* The first pin of the address decides; without one, one is added.
Match(c) ==
  LET pin == [addr |-> client[c].addr, id |-> client[c].id]
      at  == Recorded(pin.addr)
  IN  /\ client[c].at = "match"
      /\ \/ /\ Incomplete \/ (at = {} /\ Full)
            /\ Leaves(c) /\ UNCHANGED trusted
         \/ /\ ~Incomplete /\ at # {}
            /\ pin_holder' = None
            /\ LET first == CHOOSE k \in at : \A j \in at : k <= j
               IN  IF lines[first] = pin
                   THEN trusted' = trusted \cup {pin} /\ Turns(c, "connected")
                   ELSE Sets(c, "off", None, None) /\ UNCHANGED trusted
         \/ /\ ~Incomplete /\ at = {} /\ ~Full
            /\ Turns(c, "append") /\ UNCHANGED <<pin_holder, trusted>>
      /\ UNCHANGED <<lines, tail, relayVars>>

\* write_all begins: a part of the line is in the file.
BeginLine(c) ==
  /\ client[c].at = "append" /\ Turns(c, "sync")
  /\ tail' = IF tail = "none" THEN "part" ELSE "joined"
  /\ UNCHANGED <<lines, pin_holder, trusted, relayVars>>

\* write_all and sync_all end, or fail.
Sync(c) ==
  /\ client[c].at = "sync"
  /\ \/ LET pin == [addr |-> client[c].addr, id |-> client[c].id]
        IN  /\ lines' = Append(lines, IF tail = "joined" THEN Bad ELSE pin)
            /\ tail' = "none" /\ trusted' = trusted \cup {pin}
            /\ pin_holder' = None /\ Turns(c, "connected")
     \/ Leaves(c) /\ UNCHANGED <<lines, tail, trusted>>
  /\ UNCHANGED relayVars

ClientStops(c) ==
  /\ client[c].at # "off" /\ Leaves(c)
  /\ UNCHANGED <<lines, tail, trusted, relayVars>>

\* "Verify out of band, then delete" the file, with no client at it.
Delete ==
  /\ pin_holder = None /\ (lines # <<>> \/ tail # "none")
  /\ lines' = <<>> /\ tail' = "none" /\ trusted' = {}
  /\ UNCHANGED <<pin_holder, client, relayVars>>

RelayStep(r) ==
  \/ LookCert(r) \/ LookKey(r) \/ ReadCert(r) \/ ReadKey(r) \/ RelayStops(r)
  \/ \E f \in {"cert", "key"} : Create(r, f) \/ Write(r, f)

ClientStep(c) ==
  \/ \E addr \in Addresses, explicit \in Ids \cup {None} : Connect(c, addr, explicit)
  \/ OpenLocked(c) \/ Match(c) \/ BeginLine(c) \/ Sync(c) \/ ClientStops(c)

TrustNext ==
  \/ \E r \in Relays : RelayStep(r)
  \/ \E c \in Clients : ClientStep(c)
  \/ Reset \/ Delete

TrustSpec == TrustInit /\ [][TrustNext]_trustVars

(***************************************************************************)
(* Properties.                                                             *)
(***************************************************************************)
\* "An incomplete TLS identity is rejected rather than replaced" (SMOKE_TEST.md):
\* until an operator removes it there is one identity, whatever relays started
\* together or stopped between the certificate and the key; each one that ever
\* served had a certificate and a key that belong together, and they are the
\* ones in the files.
ServedIsStored == \A s \in served : s.cert = s.key /\ s = files

\* A client that found no pin and one that adds it at the same time never record
\* two fingerprints for an address.
OnePinPerAddress ==
  \A j, k \in DOMAIN lines :
    lines[j] # Bad /\ lines[k] # Bad /\ lines[j].addr = lines[k].addr => j = k

\* "subsequent changes fail closed" (STORAGE.md): every connection that the pin
\* file ever admitted has its pin in the file, and no other line is for its
\* address, so that the next one to another relay is refused, also after a write
\* that was cut short and when two clients find no pin at the same time.
TrustIsPinned ==
  \A t \in trusted : \E k \in DOMAIN lines :
    /\ lines[k] = t
    /\ \A j \in DOMAIN lines : lines[j] # Bad /\ lines[j].addr = t.addr => j = k

=============================================================================
