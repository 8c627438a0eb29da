---------------------------- MODULE MCConnections ----------------------------
(***************************************************************************)
(* Instance of Connections for TLC.  Players are interchangeable.          *)
(***************************************************************************)
EXTENDS Connections, TLC

PlayerSymmetry == Permutations(Player)

=============================================================================
