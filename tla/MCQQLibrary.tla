----------------------------- MODULE MCQQLibrary -----------------------------
(***************************************************************************)
(* Instances of QQLibrary for TLC.                                         *)
(***************************************************************************)
EXTENDS QQLibrary, TLC

Symmetry == Permutations(Readers) \cup Permutations(Cookies) \cup Permutations(Flights)
=============================================================================
