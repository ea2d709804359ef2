---------------------------- MODULE GrottoSystem ----------------------------
(***************************************************************************)
(* Clients and relay together.  Each client has at most one request in     *)
(* flight; the relay serves it in one transaction.  A request the relay    *)
(* has admitted runs even if its client is gone, and an answer to a client *)
(* that is gone is lost.  The relay admits one session per user, so a      *)
(* client reconnects only when its last request has been served or lost.   *)
(* Restarting the relay loses the requests in flight and nothing else.     *)
(*                                                                         *)
(* The hourly package rates are set out of reach here, so AllocationExpires*)
(* is left out; RelayDelivery checks them on their own.                    *)
(***************************************************************************)
EXTENDS RelayDelivery, ClientEngine

systemVars == <<vars, clientVars>>

InFlight(u, kinds) ==
  wire[u] # None /\ wire[u].response = None /\ wire[u].request.kind \in kinds

Respond(u, resp) ==
  /\ wire' = [wire EXCEPT ![u] = IF At(u, "off") THEN None ELSE [@ EXCEPT !.response = resp]]
  /\ UNCHANGED <<db, eng, script, sealed>>

Durable == {"CreateRoom", "PublishKeyPackages", "SetFetchGrant", "ReserveKeyPackage",
            "AppendRoomOperation"}

ServeDurable(u) ==
  /\ InFlight(u, Durable)
  /\ \E resp \in Answers(u, wire[u].id, wire[u].request) :
       deliver(u, wire[u].id, wire[u].request, resp) /\ Respond(u, resp)

ServeAcknowledge(u) ==
  /\ InFlight(u, {"Acknowledge"})
  /\ \/ /\ wire[u].request.what = "event"
        /\ AcknowledgeEvent(u, wire[u].request.which)
     \/ /\ wire[u].request.what = "welcome"
        /\ AcknowledgeWelcome(u, wire[u].request.which)
  /\ Respond(u, [kind |-> "Acknowledged"])

WelcomeDelivery(c) ==
  LET row == delivery_welcomes[c]
  IN  [cursor |-> c, room |-> row.room, sequence |-> row.sequence, event |-> row.event,
       inviter |-> row.inviter, state |-> "received"]

ServeWelcomes(u) ==
  /\ InFlight(u, {"FetchWelcomes"})
  /\ \E page \in FetchWelcomes(u, wire[u].request.after) :
       Respond(u, [kind |-> "Welcomes", welcomes |-> {WelcomeDelivery(c) : c \in page},
                   more |-> \E c \in DOMAIN delivery_welcomes :
                              /\ delivery_welcomes[c].recipient = u
                              /\ \A p \in page : c > p
                              /\ page # {}])
  /\ UNCHANGED vars

ServeIndex(u) ==
  /\ InFlight(u, {"SyncIndex"})
  /\ Respond(u, [kind |-> "SyncIndex", rooms |-> SyncIndex(u)])
  /\ UNCHANGED vars

ServeEvents(u) ==
  /\ InFlight(u, {"FetchRoomEvents"})
  /\ \E page \in FetchRoomEvents(wire[u].request.room, wire[u].request.after) :
       Respond(u, [kind |-> "RoomEvents", events |-> page])
  /\ UNCHANGED vars

\* The rate limit, the bounded queue or a storage failure turns the request away
\* before the repository answers.  A read so treated is sent again unchanged.
Overload(u) ==
  /\ InFlight(u, Durable \cup {"Acknowledge"}) /\ ~At(u, "off")
  /\ Respond(u, Rejected("Overloaded"))
  /\ UNCHANGED vars

Serve(u) ==
  \/ ServeDurable(u)
  \/ ServeAcknowledge(u)
  \/ ServeWelcomes(u)
  \/ ServeIndex(u)
  \/ ServeEvents(u)

\* The request of a client that is gone never reached the database.
Lose(u) ==
  /\ At(u, "off") /\ wire[u] # None
  /\ wire' = [wire EXCEPT ![u] = None]
  /\ UNCHANGED <<vars, db, eng, script, sealed>>

Client(u) == (Wake(u) \/ command(u) \/ drive(u)) /\ UNCHANGED vars

SystemInit == Init /\ ClientInit

SystemNext ==
  \E u \in Users :
    \/ Client(u)
    \/ Connect(u) /\ UNCHANGED vars
    \/ Disconnect(u) /\ UNCHANGED vars
    \/ Serve(u)
    \/ Overload(u)
    \/ Lose(u)

SystemSpec == SystemInit /\ [][SystemNext]_systemVars

=============================================================================
