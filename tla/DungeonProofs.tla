----------------------------- MODULE DungeonProofs -----------------------------
(***************************************************************************)
(* What holds of a dungeon for every number of players and monsters, every *)
(* map, every strength and every number of commands: the invariant, and    *)
(* that the dungeon plays the fair game of Skirmish.                       *)
(***************************************************************************)
EXTENDS Dungeon, FiniteSetTheorems, TLAPS

--------------------------------------------------------------------------------
(* The arithmetic of Position, for every width: sums and differences are those *)
(* of the integers, cut off at the ends, and no result on the way overflows    *)

USE DimensionAssumption DEF Dimension, MinDimension, MaxDistance, UnsignedSize

\* What the tests call saturation.
Clamp(n, min, max) == IF n > max THEN max ELSE IF n < min THEN min ELSE n

GapOf(a, b) == IF a >= b THEN a - b ELSE b - a

\* add is the sum cut off at the ends, for signed and unsigned types.
THEOREM AddSaturates ==
  ASSUME NEW min \in Int, NEW max \in Int, NEW a \in min..max, NEW b \in min..max
  PROVE  Add(a, b, min, max) = Clamp(a + b, min, max)
BY DEF Add, Clamp

\* What add computes on the way stays within the type.
THEOREM AddDoesNotOverflow ==
  ASSUME NEW min \in Int, NEW max \in Int, min <= 0, max >= 0, NEW a \in min..max, NEW b \in min..max
  PROVE  /\ b > 0 => max - b \in min..max
         /\ b < 0 => min - b \in min..max
         /\ Add(a, b, min, max) \in min..max
BY DEF Add

\* sub is the difference cut off at the ends, and its own sums stay within.
THEOREM SubSaturates ==
  ASSUME NEW a \in Dimension, NEW b \in Dimension
  PROVE  /\ SubDimension(a, b) = Clamp(a - b, MinDimension, MaxDimension)
         /\ b > 0 => MinDimension + b \in Dimension
         /\ b < 0 => MaxDimension + b \in Dimension
BY DEF SubDimension, Clamp

\* delta is the exact distance of two coordinates, although it is computed
\* modulo 2^64, and an unsigned number holds it.
THEOREM DeltaIsExact ==
  ASSUME NEW a \in Dimension, NEW b \in Dimension
  PROVE  Delta(a, b) = GapOf(a, b) /\ Delta(a, b) \in 0..MaxDistance
BY DEF Delta, Unsigned, GapOf

\* manhattanDistance is the distance of the integers, cut off at the end.
THEOREM DistanceSaturates ==
  ASSUME NEW c \in Dimension \X Dimension, NEW d \in Dimension \X Dimension
  PROVE  ManhattanDistance(c, d) = Clamp(GapOf(c[1], d[1]) + GapOf(c[2], d[2]), 0, MaxDistance)
<1>1. /\ Delta(d[1], c[1]) = GapOf(c[1], d[1]) /\ Delta(d[1], c[1]) \in 0..MaxDistance
      /\ Delta(d[2], c[2]) = GapOf(c[2], d[2]) /\ Delta(d[2], c[2]) \in 0..MaxDistance
  BY DeltaIsExact DEF GapOf
<1>2. /\ 0 \in Int /\ MaxDistance \in Int
      /\ GapOf(c[1], d[1]) \in 0..MaxDistance /\ GapOf(c[2], d[2]) \in 0..MaxDistance
  BY <1>1
<1>3. Add(GapOf(c[1], d[1]), GapOf(c[2], d[2]), 0, MaxDistance)
        = Clamp(GapOf(c[1], d[1]) + GapOf(c[2], d[2]), 0, MaxDistance)
  BY <1>2 DEF Add, Clamp
<1> QED
  BY <1>1, <1>3 DEF ManhattanDistance, AddDistance

\* A sum with an offset is the next cell, except that at the end of the
\* coordinates it is the same cell.
THEOREM OffsetLeadsNextOrNowhere ==
  ASSUME NEW c \in Dimension \X Dimension, NEW dir \in Direction,
         Plus(c, OffsetFromDirection(dir)) # c
  PROVE  LET d == Plus(c, OffsetFromDirection(dir)) IN
         d \in Dimension \X Dimension /\ GapOf(c[1], d[1]) + GapOf(c[2], d[2]) = 1
BY DEF Plus, OffsetFromDirection, Direction, AddDimension, Add, GapOf

HIDE DimensionAssumption DEF Dimension, MinDimension, MaxDistance, UnsignedSize

--------------------------------------------------------------------------------

USE DEF Entity, entities, progress, vars

--------------------------------------------------------------------------------
(* Facts about the operators *)

\* The cells of the map are positions.
LEMMA FieldIsOfCells == Field \subseteq Dimension \X Dimension
BY MapAssumption, DimensionAssumption DEF Field, MapCells, Dimension, MinDimension

\* Everybody's strength and full health are natural numbers.
LEMMA RulesAreNaturals ==
  ASSUME NEW e \in Entity
  PROVE  FullHealth(e) \in Nat /\ Strength(e) \in Nat
BY RulesAssumption DEF FullHealth, Strength

--------------------------------------------------------------------------------
(* The invariant: what each kind of change of the entities preserves *)

EntitiesOK ==
  /\ position \in [Entity -> Field \cup {Nowhere}]
  /\ health \in [Entity -> Nat]
  /\ alive \in [Entity -> BOOLEAN]

\* To move somebody to an available cell keeps everybody apart.
LEMMA MoveKeepsApart ==
  ASSUME EntitiesOK, OneEntityPerCell,
         NEW e \in Entity, NEW c, IsAvailable(c), MoveEntity(e, c)
  PROVE  EntitiesOK' /\ OneEntityPerCell'
BY DEF EntitiesOK, OneEntityPerCell, Spawned, IsAvailable, MoveEntity

\* A blow moves nobody and keeps the types.
LEMMA DamageKeepsApart ==
  ASSUME EntitiesOK, OneEntityPerCell,
         NEW e \in Entity, NEW hp \in Nat, Damage(e, hp)
  PROVE  EntitiesOK' /\ OneEntityPerCell'
BY DEF EntitiesOK, OneEntityPerCell, Spawned, Damage

LEMMA SameEntitiesKeepApart ==
  ASSUME EntitiesOK, OneEntityPerCell, UNCHANGED entities
  PROVE  EntitiesOK' /\ OneEntityPerCell'
BY DEF EntitiesOK, OneEntityPerCell, Spawned

\* Commands neither come nor go.
LEMMA SameCommandsStayInOrder ==
  ASSUME CommandsRunInOrder, UNCHANGED <<commands, pending, given, obeyed>>
  PROVE  CommandsRunInOrder'
BY DEF CommandsRunInOrder, Waiting

LEMMA InitInductive == Init => Inductive
<1> SUFFICES ASSUME Init PROVE Inductive
  OBVIOUS
<1>1. TypeOK
  BY RulesAreNaturals DEF Init, TypeOK
<1>2. OneEntityPerCell /\ TriedOnce /\ TickRunsAll
  BY DEF Init, OneEntityPerCell, Spawned, TriedOnce, TickRunsAll
<1>3. CommandsRunInOrder
  BY DEF Init, CommandsRunInOrder, Waiting
<1> QED
  BY <1>1, <1>2, <1>3 DEF Inductive

LEMMA SpawnInductive ==
  ASSUME Inductive, NEW e \in Entity, Spawn(e)
  PROVE  Inductive'
<1>1. EntitiesOK' /\ OneEntityPerCell'
  BY MoveKeepsApart, SameEntitiesKeepApart DEF Inductive, TypeOK, EntitiesOK, Spawn
<1>2. CommandsRunInOrder'
  BY SameCommandsStayInOrder DEF Inductive, Spawn
<1>3. TriedOnce' /\ TickRunsAll'
  BY DEF Inductive, TypeOK, TriedOnce, TickRunsAll, Spawn, MoveEntity
<1> QED
  BY <1>1, <1>2, <1>3 DEF Inductive, TypeOK, EntitiesOK, Spawn

LEMMA QueueCommandInductive ==
  ASSUME Inductive, NEW p \in Player, NEW order \in Direction \cup {"Attack"}, QueueCommand(p, order)
  PROVE  Inductive'
<1> DEFINE cmd == [player |-> p, order |-> order, number |-> given + 1]
           w == Waiting
<1>1. cmd \in Command /\ cmd.number = given + 1
  BY DEF Inductive, TypeOK, Command
<1>2. commands' \in Seq(Command) /\ Waiting' = Append(w, cmd)
  BY <1>1 DEF Inductive, TypeOK, QueueCommand, Waiting
<1>3. w \in Seq(Command) /\ given = obeyed + Len(w) /\ \A i \in 1..Len(w) : w[i].number = obeyed + i
  BY DEF Inductive, TypeOK, Waiting, CommandsRunInOrder
<1>4. given' = given + 1 /\ obeyed' = obeyed /\ given \in Nat /\ obeyed \in Nat
  BY DEF Inductive, TypeOK, QueueCommand
<1>5. CommandsRunInOrder'
  <2> HIDE DEF cmd, w
  <2>1. Len(Append(w, cmd)) = Len(w) + 1
    BY <1>1, <1>3
  <2>2. ASSUME NEW i \in 1..Len(w) + 1
        PROVE  Append(w, cmd)[i].number = obeyed + i
    <3>1. CASE i = Len(w) + 1
      BY <1>1, <1>3, <1>4, <3>1
    <3>2. CASE i # Len(w) + 1
      <4>1. i \in 1..Len(w)
        BY <1>3, <3>2
      <4>2. Append(w, cmd)[i] = w[i]
        BY <1>1, <1>3, <4>1
      <4> QED
        BY <1>3, <4>1, <4>2
    <3> QED
      BY <3>1, <3>2
  <2> QED
    BY <1>2, <1>3, <1>4, <2>1, <2>2 DEF CommandsRunInOrder
<1>6. EntitiesOK' /\ OneEntityPerCell' /\ TriedOnce' /\ TickRunsAll'
  BY SameEntitiesKeepApart DEF Inductive, TypeOK, EntitiesOK, QueueCommand, TriedOnce, TickRunsAll
<1> QED
  BY <1>2, <1>5, <1>6 DEF Inductive, TypeOK, EntitiesOK, QueueCommand

LEMMA PopAllInductive ==
  ASSUME Inductive, PopAll
  PROVE  Inductive'
<1>1. Waiting' = Waiting
  BY DEF Inductive, TypeOK, TickRunsAll, PopAll, Waiting
<1>2. CommandsRunInOrder'
  BY <1>1 DEF Inductive, PopAll, CommandsRunInOrder
<1>3. EntitiesOK' /\ OneEntityPerCell' /\ TriedOnce' /\ TickRunsAll'
  BY SameEntitiesKeepApart DEF Inductive, TypeOK, EntitiesOK, PopAll, TriedOnce, TickRunsAll
<1> QED
  BY <1>2, <1>3 DEF Inductive, TypeOK, EntitiesOK, PopAll

\* A move of somebody alive spawns nobody.
LEMMA MoveSpawnsNobody ==
  ASSUME EntitiesOK, TriedOnce, NEW e \in Alive, NEW c, MoveEntity(e, c), toSpawn' = toSpawn
  PROVE  TriedOnce'
BY DEF EntitiesOK, TriedOnce, Alive, Spawned, MoveEntity

LEMMA RunCommandInductive ==
  ASSUME Inductive, RunCommand
  PROVE  Inductive'
<1> DEFINE p == Head(pending).player
           order == Head(pending).order
<1>1. EntitiesOK /\ OneEntityPerCell /\ TriedOnce /\ toSpawn' = toSpawn
  BY DEF Inductive, TypeOK, EntitiesOK, RunCommand
<1>2. Head(pending) \in Command /\ pending' \in Seq(Command) /\ Head(pending) = Waiting[1]
      /\ Waiting' = Tail(Waiting) /\ Waiting \in Seq(Command) /\ Waiting # <<>>
  BY DEF Inductive, TypeOK, RunCommand, Waiting
<1>3. p \in Player /\ order \in Direction \cup {"Attack"} /\ Head(pending).number \in Nat
  BY <1>2 DEF Command
<1>4. EntitiesOK' /\ OneEntityPerCell' /\ TriedOnce'
  <2>1. CASE order = "Attack"
    <3>1. CASE UNCHANGED entities
      BY <1>1, <3>1, SameEntitiesKeepApart DEF TriedOnce
    <3>2. ASSUME NEW m \in ClosestTargets(p, Monster), Damage(m, Strength(p))
          PROVE  EntitiesOK' /\ OneEntityPerCell' /\ TriedOnce'
      BY <1>1, <1>3, <3>2, DamageKeepsApart, RulesAreNaturals DEF ClosestTargets, TriedOnce, Damage
    <3> QED
      BY <2>1, <3>1, <3>2 DEF RunCommand, RunAttack
  <2>2. CASE order # "Attack"
    <3>1. CASE UNCHANGED entities
      BY <1>1, <3>1, SameEntitiesKeepApart DEF TriedOnce
    <3>2. ASSUME NEW c, p \in Alive, IsAvailable(c), MoveEntity(p, c)
          PROVE  EntitiesOK' /\ OneEntityPerCell' /\ TriedOnce'
      BY <1>1, <1>3, <3>2, MoveKeepsApart, MoveSpawnsNobody
    <3> QED
      BY <2>2, <3>1, <3>2 DEF RunCommand, RunMove
  <2> QED
    BY <2>1, <2>2
<1>5. CommandsRunInOrder'
  <2> DEFINE w == Waiting
  <2>1. w \in Seq(Command) /\ w # <<>> /\ Waiting' = Tail(w) /\ obeyed' = w[1].number /\ given' = given
    BY <1>2 DEF RunCommand
  <2>2. given = obeyed + Len(w) /\ (\A i \in 1..Len(w) : w[i].number = obeyed + i) /\ obeyed \in Nat
    BY DEF Inductive, TypeOK, CommandsRunInOrder
  <2> HIDE DEF w
  <2>3. obeyed' = obeyed + 1 /\ Len(Tail(w)) = Len(w) - 1 /\ Len(w) \in Nat \ {0}
    BY <2>1, <2>2
  <2>4. ASSUME NEW i \in 1..Len(w) - 1
        PROVE  Tail(w)[i].number = obeyed + 1 + i
    <3>1. Tail(w)[i] = w[i + 1] /\ i + 1 \in 1..Len(w)
      BY <2>1, <2>3
    <3> QED
      BY <2>2, <3>1
  <2> QED
    BY <2>1, <2>2, <2>3, <2>4 DEF CommandsRunInOrder
<1>6. TickRunsAll'
  BY DEF RunCommand, TickRunsAll
<1> QED
  BY <1>2, <1>3, <1>4, <1>5, <1>6 DEF Inductive, TypeOK, EntitiesOK, RunCommand

LEMMA DrawCountsInductive ==
  ASSUME Inductive, DrawCounts
  PROVE  Inductive'
<1>1. Cardinality(Spawned \cap Monster) \in Nat
  BY SidesAssumption, FS_Subset, FS_CardinalityType
<1>2. moves' \in Nat /\ attacks' \in Nat
  BY <1>1 DEF Inductive, TypeOK, DrawCounts
<1>3. EntitiesOK' /\ OneEntityPerCell' /\ TriedOnce' /\ TickRunsAll'
  BY SameEntitiesKeepApart DEF Inductive, TypeOK, EntitiesOK, DrawCounts, TriedOnce, TickRunsAll
<1>4. CommandsRunInOrder'
  BY SameCommandsStayInOrder DEF Inductive, DrawCounts
<1> QED
  BY <1>2, <1>3, <1>4 DEF Inductive, TypeOK, EntitiesOK, DrawCounts

LEMMA MonsterMovesInductive ==
  ASSUME Inductive, NEW m \in Monster, NEW dir \in Direction, MonsterMoves(m, dir)
  PROVE  Inductive'
<1> DEFINE c == Neighbour(position[m], dir)
<1>1. EntitiesOK /\ OneEntityPerCell /\ TriedOnce /\ toSpawn' = toSpawn
  BY DEF Inductive, TypeOK, EntitiesOK, MonsterMoves
<1>2. EntitiesOK' /\ OneEntityPerCell' /\ TriedOnce'
  <2>1. CASE UNCHANGED entities
    BY <1>1, <2>1, SameEntitiesKeepApart DEF TriedOnce
  <2>2. CASE m \in Alive /\ IsAvailable(c) /\ MoveEntity(m, c)
    BY <1>1, <2>2, MoveKeepsApart, MoveSpawnsNobody
  <2> QED
    BY <2>1, <2>2 DEF MonsterMoves
<1>3. CommandsRunInOrder'
  BY SameCommandsStayInOrder DEF Inductive, MonsterMoves
<1>4. TickRunsAll' /\ moves' \in Nat
  BY DEF Inductive, TypeOK, TickRunsAll, MonsterMoves
<1> QED
  BY <1>2, <1>3, <1>4 DEF Inductive, TypeOK, EntitiesOK, MonsterMoves

LEMMA MonsterAttacksInductive ==
  ASSUME Inductive, NEW m \in Monster, MonsterAttacks(m)
  PROVE  Inductive'
<1>1. EntitiesOK /\ OneEntityPerCell /\ TriedOnce /\ toSpawn' = toSpawn
  BY DEF Inductive, TypeOK, EntitiesOK, MonsterAttacks
<1>2. EntitiesOK' /\ OneEntityPerCell' /\ TriedOnce'
  <2>1. CASE UNCHANGED entities
    BY <1>1, <2>1, SameEntitiesKeepApart DEF TriedOnce
  <2>2. ASSUME NEW p \in ClosestTargets(m, Player), Damage(p, Strength(m))
        PROVE  EntitiesOK' /\ OneEntityPerCell' /\ TriedOnce'
    BY <1>1, <2>2, DamageKeepsApart, RulesAreNaturals DEF ClosestTargets, TriedOnce, Damage
  <2> QED
    BY <2>1, <2>2 DEF MonsterAttacks
<1>3. CommandsRunInOrder'
  BY SameCommandsStayInOrder DEF Inductive, MonsterAttacks
<1>4. TickRunsAll' /\ attacks' \in Nat
  BY DEF Inductive, TypeOK, TickRunsAll, MonsterAttacks
<1> QED
  BY <1>2, <1>3, <1>4 DEF Inductive, TypeOK, EntitiesOK, MonsterAttacks

LEMMA JudgeInductive ==
  ASSUME Inductive, Judge
  PROVE  Inductive'
<1>1. EntitiesOK' /\ OneEntityPerCell' /\ TriedOnce' /\ TickRunsAll'
  BY SameEntitiesKeepApart DEF Inductive, TypeOK, EntitiesOK, Judge, TriedOnce, TickRunsAll
<1>2. CommandsRunInOrder'
  BY SameCommandsStayInOrder DEF Inductive, Judge
<1> QED
  BY <1>1, <1>2 DEF Inductive, TypeOK, EntitiesOK, Judge

LEMMA NextInductive ==
  ASSUME Inductive, [Next]_vars
  PROVE  Inductive'
<1>1. ASSUME NEW p \in Player, NEW order \in Direction \cup {"Attack"}, QueueCommand(p, order)
      PROVE  Inductive'
  BY <1>1, QueueCommandInductive
<1>2. CASE PopAll
  BY <1>2, PopAllInductive
<1>3. ASSUME NEW e \in Entity, Spawn(e)
      PROVE  Inductive'
  BY <1>3, SpawnInductive
<1>4. CASE RunCommand
  BY <1>4, RunCommandInductive
<1>5. CASE DrawCounts
  BY <1>5, DrawCountsInductive
<1>6. ASSUME NEW m \in Monster, MonsterAttacks(m)
      PROVE  Inductive'
  BY <1>6, MonsterAttacksInductive
<1>7. ASSUME NEW m \in Monster, NEW dir \in Direction, MonsterMoves(m, dir)
      PROVE  Inductive'
  BY <1>7, MonsterMovesInductive
<1>8. CASE Judge
  BY <1>8, JudgeInductive
<1>9. CASE UNCHANGED vars
  BY <1>9 DEF Inductive, TypeOK, OneEntityPerCell, Spawned, CommandsRunInOrder, Waiting, TriedOnce, TickRunsAll
<1> QED
  BY <1>1, <1>2, <1>3, <1>4, <1>5, <1>6, <1>7, <1>8, <1>9 DEF Next, Continue

THEOREM InductiveHolds == Spec => []Inductive
BY InitInductive, NextInductive, PTL DEF Spec

\* Nothing but the map's free cells is ever stood on, and every variable keeps
\* its type.
THEOREM TypesHold == Spec => []TypeOK
BY InductiveHolds, PTL DEF Inductive

\* No two entities share a cell, dead or alive, on any map.
THEOREM EntitiesStayApart == Spec => []OneEntityPerCell
BY InductiveHolds, PTL DEF Inductive

\* However many commands are given, each is run once and in turn.
THEOREM CommandsStayInOrder == Spec => []CommandsRunInOrder
BY InductiveHolds, PTL DEF Inductive

--------------------------------------------------------------------------------
(* The refinement *)

\* The two modules speak of the same creatures.
LEMMA SameCreatures ==
  /\ Game!Fighter = Entity
  /\ Game!OnField = Spawned
  /\ Game!Standing = Alive
BY DEF Game!Fighter, Game!OnField, Game!Standing, Spawned, Alive

LEMMA SameGap ==
  ASSUME NEW c, NEW d
  PROVE  Game!Distance(c, d) = GapOf(c[1], d[1]) + GapOf(c[2], d[2])
BY DEF Game!Distance, Game!Gap, GapOf

\* A saturated distance is told from the game's only beyond every radius.
LEMMA SameDistance ==
  ASSUME Inductive, NEW e \in Spawned, NEW f \in Spawned
  PROVE  /\ Game!Between(e, f) \in Int /\ Distance(e, f) \in Int
         /\ Distance(e, f) <= Game!Between(e, f)
         /\ Distance(e, f) <= Radius => Distance(e, f) = Game!Between(e, f)
<1> DEFINE c == position[e]
           d == position[f]
<1>1. c \in Dimension \X Dimension /\ d \in Dimension \X Dimension
  BY FieldIsOfCells DEF Inductive, TypeOK, Spawned
<1>2. GapOf(c[1], d[1]) + GapOf(c[2], d[2]) \in Nat
  BY <1>1, DimensionAssumption DEF GapOf, Dimension, MinDimension
<1>3. Distance(e, f) = Clamp(GapOf(c[1], d[1]) + GapOf(c[2], d[2]), 0, MaxDistance)
  BY <1>1, DistanceSaturates DEF Distance
<1>4. Game!Between(e, f) = GapOf(c[1], d[1]) + GapOf(c[2], d[2])
  BY SameGap DEF Game!Between
<1> QED
  BY <1>2, <1>3, <1>4, RadiusAssumption, DimensionAssumption DEF Clamp, MaxDistance

\* A move to a neighbouring available cell is a walk.
LEMMA MoveIsWalk ==
  ASSUME Inductive, tick # "over", tick' # "over",
         NEW e \in Alive, NEW dir \in Direction,
         IsAvailable(Neighbour(position[e], dir)), MoveEntity(e, Neighbour(position[e], dir))
  PROVE  Game!Next
<1> DEFINE c == Neighbour(position[e], dir)
<1>1. e \in Entity /\ position[e] \in Field /\ c \in Field
  BY DEF Inductive, TypeOK, Alive, Spawned, IsAvailable
<1>2. Game!Distance(position[e], c) = 1
  <2>1. c # position[e]
    BY DEF IsAvailable, Alive
  <2> QED
    BY <1>1, <2>1, FieldIsOfCells, OffsetLeadsNextOrNowhere, SameGap DEF Neighbour
<1>3. Game!Walk(e, c)
  BY <1>2, SameCreatures DEF Game!Walk, Game!IsFree, IsAvailable, MoveEntity
<1> QED
  BY <1>1, <1>3, SameCreatures DEF Game!Next

\* A blow on one of the closest targets is a strike.
LEMMA DamageIsStrike ==
  ASSUME Inductive, tick # "over", tick' # "over",
         NEW e \in Alive, NEW f \in ClosestTargets(e, Game!OpponentsOf(e)), Damage(f, Strength(e))
  PROVE  Game!Next
<1>1. e \in Entity /\ f \in Entity /\ f \in Alive /\ f \in Game!OpponentsOf(e)
  BY DEF Alive, Spawned, ClosestTargets
<1>2. alive[f] = TRUE
  BY <1>1 DEF Inductive, TypeOK, Alive
<1>3. /\ Game!Between(e, f) <= Radius
      /\ \A g \in Alive \cap Game!OpponentsOf(e) : Game!Between(e, f) <= Game!Between(e, g)
  <2>1. e \in Spawned /\ \A g \in Alive : g \in Spawned
    BY DEF Alive
  <2>2. Distance(e, f) <= Radius /\ \A g \in Alive \cap Game!OpponentsOf(e) : Distance(e, f) <= Distance(e, g)
    BY DEF ClosestTargets
  <2>3. Game!Between(e, f) = Distance(e, f)
    BY <1>1, <2>1, <2>2, SameDistance
  <2> QED
    <3> SUFFICES ASSUME NEW g \in Alive \cap Game!OpponentsOf(e)
                 PROVE  Game!Between(e, f) <= Game!Between(e, g)
      BY <2>2, <2>3
    <3>1. /\ Distance(e, f) <= Distance(e, g) /\ Distance(e, g) <= Game!Between(e, g)
          /\ Distance(e, f) \in Int /\ Distance(e, g) \in Int /\ Game!Between(e, g) \in Int
      BY <1>1, <2>1, <2>2, SameDistance
    <3> QED
      BY <2>3, <3>1
<1>4. /\ health' = [health EXCEPT ![f] = IF @ < Strength(e) THEN 0 ELSE @ - Strength(e)]
      /\ alive' = [alive EXCEPT ![f] = health'[f] # 0]
  BY <1>1, <1>2 DEF Damage
<1>5. Game!Strike(e, f)
  BY <1>1, <1>3, <1>4, SameCreatures DEF Game!Strike, Damage
<1> QED
  BY <1>1, <1>5, SameCreatures DEF Game!Next

LEMMA InitRefines == Init => Game!Init
BY DEF Init, Game!Init, Game!Fighter

\* Every step of the dungeon is a step of the game or changes nothing of it.
LEMMA NextRefines ==
  ASSUME Inductive, [Next]_vars
  PROVE  [Game!Next]_(Game!vars)
<1>1. ASSUME NEW p \in Player, NEW order \in Direction \cup {"Attack"}, QueueCommand(p, order)
      PROVE  UNCHANGED Game!vars
  BY <1>1 DEF QueueCommand, Game!vars
<1>2. CASE PopAll
  BY <1>2 DEF PopAll, Game!vars
<1>3. ASSUME NEW e \in Entity, Spawn(e)
      PROVE  [Game!Next]_(Game!vars)
  <2>1. tick # "over" /\ tick' # "over"
    BY <1>3 DEF Spawn
  <2>2. ASSUME NEW c \in MapCells, IsAvailable(c), MoveEntity(e, c)
        PROVE  Game!Enter(e, c) /\ c \in Field
    BY <1>3, <2>1, <2>2, SameCreatures
       DEF Inductive, TriedOnce, Spawn, Spawned, IsAvailable, MoveEntity, Game!Enter, Game!IsFree
  <2>3. CASE UNCHANGED entities
    BY <2>1, <2>3 DEF Game!vars
  <2> QED
    BY <1>3, <2>1, <2>2, <2>3, SameCreatures DEF Spawn, Game!Next
<1>4. CASE RunCommand
  <2> DEFINE p == Head(pending).player
             order == Head(pending).order
  <2>1. tick # "over" /\ tick' # "over" /\ p \in Player /\ order \in Direction \cup {"Attack"}
    <3>1. Head(pending) \in Command
      BY <1>4 DEF Inductive, TypeOK, RunCommand
    <3> QED
      BY <1>4, <3>1 DEF RunCommand, Command
  <2>2. CASE UNCHANGED entities
    BY <2>1, <2>2 DEF Game!vars
  <2>3. ASSUME p \in Alive, order \in Direction,
               IsAvailable(Neighbour(position[p], order)), MoveEntity(p, Neighbour(position[p], order))
        PROVE  Game!Next
    BY <2>1, <2>3, MoveIsWalk
  <2>4. ASSUME p \in Alive, NEW m \in ClosestTargets(p, Monster), Damage(m, Strength(p))
        PROVE  Game!Next
    BY <2>1, <2>4, DamageIsStrike DEF Game!OpponentsOf
  <2> QED
    BY <1>4, <2>1, <2>2, <2>3, <2>4 DEF RunCommand, RunMove, RunAttack
<1>5. CASE DrawCounts
  BY <1>5 DEF DrawCounts, Game!vars
<1>6. ASSUME NEW m \in Monster, MonsterAttacks(m)
      PROVE  [Game!Next]_(Game!vars)
  <2>1. tick # "over" /\ tick' # "over" /\ Game!OpponentsOf(m) = Player
    BY <1>6, SidesAssumption DEF MonsterAttacks, Game!OpponentsOf
  <2>2. CASE UNCHANGED entities
    BY <2>1, <2>2 DEF Game!vars
  <2>3. ASSUME m \in Alive, NEW p \in ClosestTargets(m, Player), Damage(p, Strength(m))
        PROVE  Game!Next
    BY <2>1, <2>3, DamageIsStrike
  <2> QED
    BY <1>6, <2>2, <2>3 DEF MonsterAttacks
<1>7. ASSUME NEW m \in Monster, NEW dir \in Direction, MonsterMoves(m, dir)
      PROVE  [Game!Next]_(Game!vars)
  <2>1. tick # "over" /\ tick' # "over"
    BY <1>7 DEF MonsterMoves
  <2>2. CASE UNCHANGED entities
    BY <2>1, <2>2 DEF Game!vars
  <2> QED
    BY <1>7, <2>1, <2>2, MoveIsWalk DEF MonsterMoves
<1>8. CASE Judge
  <2>1. CASE Alive \cap Player = {}
    BY <1>8, <2>1, SameCreatures DEF Judge, Game!Next, Game!Finish
  <2>2. CASE Alive \cap Player # {}
    BY <1>8, <2>2 DEF Judge, Game!vars
  <2> QED
    BY <2>1, <2>2
<1>9. CASE UNCHANGED vars
  BY <1>9 DEF Game!vars
<1> QED
  BY <1>1, <1>2, <1>3, <1>4, <1>5, <1>6, <1>7, <1>8, <1>9 DEF Next, Continue

\* Behind its ticks, its queue and its generators every dungeon plays the fair
\* game of Skirmish.
THEOREM PlaysTheGame == Spec => ImplementsSkirmish
BY InitRefines, InductiveHolds, NextRefines, PTL DEF Spec, ImplementsSkirmish, Game!Spec

================================================================================
