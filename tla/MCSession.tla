------------------------------ MODULE MCSession ------------------------------
(***************************************************************************)
(* Small instances of RelaySession.                                        *)
(***************************************************************************)
EXTENDS RelaySessionProps, TLC

Alike == Permutations(Users) \cup Permutations(Conns)

=============================================================================
