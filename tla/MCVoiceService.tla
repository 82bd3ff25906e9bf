--------------------------- MODULE MCVoiceService ---------------------------
(***************************************************************************)
(* Instances of VoiceService for TLC.                                      *)
(***************************************************************************)
EXTENDS VoiceService, TLC

Symmetry == Permutations(Calls) \cup Permutations(Sources)
=============================================================================
