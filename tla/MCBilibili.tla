----------------------------- MODULE MCBilibili -----------------------------
(***************************************************************************)
(* Instances of Bilibili for TLC.                                          *)
(***************************************************************************)
EXTENDS Bilibili, TLC

Symmetry == Permutations(Videos) \cup Permutations(Requests) \cup Permutations(Logins)
=============================================================================
