---------------------------- MODULE MCClientNetwork ----------------------------
(***************************************************************************)
(* An instance of ClientNetwork for TLC.                                   *)
(***************************************************************************)
EXTENDS ClientNetwork

================================================================================
