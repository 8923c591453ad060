------------------------------ MODULE MCSession ------------------------------
(***************************************************************************)
(* Instances of Session for TLC: all sessions, and all validators, are     *)
(* alike.                                                                  *)
(***************************************************************************)
EXTENDS Session, TLC

Symmetry == Permutations(Sessions) \cup Permutations(Validators)
=============================================================================
