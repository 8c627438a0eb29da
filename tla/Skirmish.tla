------------------------------- MODULE Skirmish -------------------------------
(***************************************************************************)
(* What a game promises its players, with no tick, no command queue and no *)
(* generator: fighters of two sides enter a field, one at a time walks to  *)
(* a neighbouring cell that is free or strikes the nearest living opponent *)
(* within reach, the fallen do nothing and are done nothing to, and the    *)
(* game is over once no player stands.                                     *)
(***************************************************************************)
EXTENDS Integers

CONSTANTS Player, Monster, Field, Nowhere, Radius, FullHealth(_), Strength(_)

VARIABLES
  position,  \* the cell a fighter holds; the fallen hold theirs
  health,
  alive,
  over

vars == <<position, health, alive, over>>

Fighter == Player \cup Monster
OnField == {e \in Fighter : position[e] # Nowhere}
Standing == {e \in OnField : alive[e]}
OpponentsOf(e) == IF e \in Player THEN Monster ELSE Player

Gap(a, b) == IF a >= b THEN a - b ELSE b - a
Distance(c, d) == Gap(c[1], d[1]) + Gap(c[2], d[2])
Between(e, f) == Distance(position[e], position[f])

IsFree(c) == \A e \in OnField : position[e] # c

Init ==
  /\ position = [e \in Fighter |-> Nowhere]
  /\ health = [e \in Fighter |-> FullHealth(e)]
  /\ alive = [e \in Fighter |-> TRUE]
  /\ over = FALSE

Enter(e, c) ==
  /\ e \notin OnField /\ IsFree(c)
  /\ position' = [position EXCEPT ![e] = c]
  /\ UNCHANGED <<health, alive, over>>

Walk(e, c) ==
  /\ e \in Standing /\ IsFree(c)
  /\ Distance(position[e], c) = 1
  /\ position' = [position EXCEPT ![e] = c]
  /\ UNCHANGED <<health, alive, over>>

Strike(e, f) ==
  /\ e \in Standing /\ f \in Standing \cap OpponentsOf(e)
  /\ Between(e, f) <= Radius
  /\ \A g \in Standing \cap OpponentsOf(e) : Between(e, f) <= Between(e, g)
  /\ health' = [health EXCEPT ![f] = IF @ < Strength(e) THEN 0 ELSE @ - Strength(e)]
  /\ alive' = [alive EXCEPT ![f] = health'[f] # 0]
  /\ UNCHANGED <<position, over>>

Finish ==
  /\ Standing \cap Player = {}
  /\ over' = TRUE
  /\ UNCHANGED <<position, health, alive>>

Next ==
  /\ ~over
  /\ \/ \E e \in Fighter, c \in Field : Enter(e, c) \/ Walk(e, c)
     \/ \E e, f \in Fighter : Strike(e, f)
     \/ Finish

Spec == Init /\ [][Next]_vars

===============================================================================
