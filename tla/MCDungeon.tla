------------------------------ MODULE MCDungeon ------------------------------
(***************************************************************************)
(* An instance of Dungeon for TLC, with coordinates of three bits and a    *)
(* map as wide as they reach.  Barriers leave five cells free: one at the  *)
(* lower end of x, where sums that wrapped around would lead from the four *)
(* others at the upper end.                                                *)
(***************************************************************************)
EXTENDS Dungeon

MCMinX == MinDimension

FreeCells == {<<-4, 1>>, <<2, 1>>, <<2, 2>>, <<3, 1>>, <<3, 2>>}
MCBarriers == MapCells \ FreeCells

==============================================================================
