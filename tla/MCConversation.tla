---------------------------- MODULE MCConversation ----------------------------
(***************************************************************************)
(* Instance of Conversation for TLC.  Clients are interchangeable: nothing *)
(* compares or orders them.                                                *)
(***************************************************************************)
EXTENDS Conversation, TLC

PlayerSymmetry == Permutations(Player)

=============================================================================
