----------------------------- MODULE MCRelease -----------------------------
(***************************************************************************)
(* Instances of Release for TLC: two operations one after the other (three *)
(* for the restored backend) by an operator whose shells may outlive the   *)
(* connection; overlapping operators are left to the proofs.               *)
(***************************************************************************)
EXTENDS Release, TLC

Symmetry == Permutations(Tracks)
=============================================================================
