------------------------------- MODULE Options -------------------------------
(***************************************************************************)
(* The absent value: None of an Option, a missing row, an empty slot.      *)
(***************************************************************************)
CONSTANT None

=============================================================================
