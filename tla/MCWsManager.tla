---------------------------- MODULE MCWsManager ----------------------------
(***************************************************************************)
(* Instances of WsManager for TLC.                                         *)
(***************************************************************************)
EXTENDS WsManager, TLC
=============================================================================
