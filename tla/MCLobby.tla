------------------------------- MODULE MCLobby -------------------------------
(***************************************************************************)
(* Instance of LobbyStrands for TLC.  Players are interchangeable: nothing *)
(* compares or orders them.                                                *)
(***************************************************************************)
EXTENDS LobbyStrands, TLC

PlayerSymmetry == Permutations(Player)

=============================================================================
