------------------------------ MODULE MCStartup ------------------------------
(***************************************************************************)
(* What is kept between runs of the programs, on small instances.  Two     *)
(* parts that share no state: client programs start on one database and    *)
(* import contact cards ("database"), relays and clients keep identity and *)
(* pins in files ("files").                                                *)
(***************************************************************************)
EXTENDS ClientStartup, RelayTrust, TLC

CONSTANTS me, bob, k1, k2, k3, k4

VARIABLE part

\* Two cards of another user, and two of the client's own: that of its identity when
\* these are the keys it draws, and one that has other keys.
MCCards == {[user |-> bob, transport_key |-> k3, mls_key |-> k3],
            [user |-> bob, transport_key |-> k4, mls_key |-> k4],
            [user |-> me, transport_key |-> k1, mls_key |-> k2],
            [user |-> me, transport_key |-> k3, mls_key |-> k3]}

MCInit == Init /\ TrustInit /\ part \in {"database", "files"}
MCNext ==
  /\ UNCHANGED part
  /\ \/ part = "database" /\ Next /\ UNCHANGED trustVars
     \/ part = "files" /\ TrustNext /\ UNCHANGED vars
MCSpec == MCInit /\ [][MCNext]_<<vars, trustVars, part>>

\* Processes, identities and addresses are interchangeable.
MCSymmetry ==
  Permutations(Relays) \cup Permutations(Clients)
  \cup Permutations(Ids) \cup Permutations(Addresses)

=============================================================================
