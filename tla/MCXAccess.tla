------------------------------- MODULE MCXAccess -------------------------------
(* Sends are alike. *)
EXTENDS XAccess, TLC

MCSymmetry == Permutations(Sends)
=============================================================================
