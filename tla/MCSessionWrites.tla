--------------------------- MODULE MCSessionWrites ---------------------------
(***************************************************************************)
(* Instances of SessionWrites for TLC.                                     *)
(***************************************************************************)
EXTENDS SessionWrites, TLC

SessionSymmetry == Permutations(Session)

==============================================================================
