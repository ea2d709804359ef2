------------------------------ MODULE MCConnect ------------------------------
(***************************************************************************)
(* Three parts on small instances that share no state: clients and relay   *)
(* go through the handshake ("handshake"), one message is encoded and      *)
(* decoded ("wire"), and the client runs operations on its groups          *)
(* ("store").                                                              *)
(***************************************************************************)
EXTENDS Handshake, WireExchange, ClientStoreProps, TLC

CONSTANTS p1, p2, p3, p4, ann, bob, ka, kb, kc, t1, t2

VARIABLE part

\* Two programs with ann's identity, one that claims ann with another key and a
\* token for it, and an old one of bob's without a token.
MCUser == [p \in Programs |-> IF p = p4 THEN bob ELSE ann]
MCKey == [p \in Programs |-> CASE p = p3 -> kb [] p = p4 -> kc [] OTHER -> ka]
MCToken == [p \in Programs |-> CASE p = p3 -> t2 [] p = p4 -> None [] OTHER -> t1]
MCSpeaks == [p \in Programs |-> IF p = p4 THEN 1 ELSE 2]
MCIssuedTo == [t \in Tokens |-> IF t = t1 THEN <<ann, ka>> ELSE <<ann, kb>>]

MCInit == Init /\ WireInit /\ StoreInit /\ part \in {"handshake", "wire", "store"}
MCNext ==
  /\ UNCHANGED part
  /\ \/ part = "handshake" /\ Next /\ UNCHANGED <<wireVars, storeVars>>
     \/ part = "wire" /\ WireNext /\ UNCHANGED <<vars, storeVars>>
     \/ part = "store" /\ StoreNext /\ UNCHANGED <<vars, wireVars>>
MCSpec == MCInit /\ [][MCNext]_<<vars, wireVars, storeVars, part>>

\* Identifiers are random: nothing depends on which one is drawn.
IdSymmetry == Permutations(Ids)

=============================================================================
