------------------------------ MODULE MCQQLogin ------------------------------
(***************************************************************************)
(* Instances of QQLogin for TLC.                                           *)
(***************************************************************************)
EXTENDS QQLogin, TLC

Symmetry == Permutations(Accounts) \cup Permutations(Logins)
=============================================================================
