-------------------------------- MODULE Dungeon --------------------------------
(***************************************************************************)
(* One dungeon (server/domain/dungeon/dungeon.cpp) with its entities, map, *)
(* spawner, command queue and monster controller.                          *)
(*                                                                         *)
(* GameManager makes it, queues commands in it and ticks it, all on its    *)
(* one strand.  A tick is a sequence of steps here, one per command and    *)
(* one per turn of a monster, because the generators choose anew at each.  *)
(* Cells are Positions, which saturate at the ends of their coordinates.   *)
(***************************************************************************)
EXTENDS Positions, Sequences, FiniteSets

CONSTANTS
  Player,          \* the players the dungeon was made for
  Monster,         \* the monster ids the constructor gives out
  MonstersPerPlayer,
  MinX, MinY, MaxX, MaxY,   \* the corners of the map
  Barriers,        \* cells nobody can stand on
  PlayerHealth, MonsterHealth, PlayerAttack, MonsterAttack,
  Radius,          \* default_radius_attack, the same for everybody
  MaxCommands      \* bound: how many commands a behaviour may queue

ASSUME SidesAssumption ==
  /\ IsFiniteSet(Player) /\ IsFiniteSet(Monster) /\ Player \cap Monster = {}
  /\ MonstersPerPlayer \in Nat
  /\ Cardinality(Monster) = MonstersPerPlayer * Cardinality(Player)

ASSUME MapAssumption == {MinX, MinY, MaxX, MaxY} \subseteq Dimension

ASSUME RulesAssumption ==
  /\ PlayerHealth \in Nat /\ MonsterHealth \in Nat /\ PlayerAttack \in Nat /\ MonsterAttack \in Nat
  /\ MaxCommands \in Nat

\* A radius is a uint32, a distance a uint64.
ASSUME RadiusAssumption == Radius \in 0..(MaxDistance - 1)

Entity == Player \cup Monster
MapCells == (MinX..MaxX) \X (MinY..MaxY)
Field == MapCells \ Barriers
Nowhere == <<>>

FullHealth(e) == IF e \in Player THEN PlayerHealth ELSE MonsterHealth
Strength(e) == IF e \in Player THEN PlayerAttack ELSE MonsterAttack

Command == [player : Player, order : Direction \cup {"Attack"}, number : Nat]

VARIABLES
  position,   \* position_ of each entity, Nowhere for those not spawned
  health,     \* data_.health
  alive,      \* state_ = Alive
  commands,   \* command_queue_
  toSpawn,    \* the entities the constructor has still to try
  tick,       \* where processTick stands: idle between ticks, over after the last
  pending,    \* the commands popAll has handed to the running tick
  moves,      \* turns left in moveRandomMonsters
  attacks,    \* turns left in performRandomAttacks
  (* history variables *)
  given,      \* the number of the last command queued
  obeyed      \* the number of the last command run

entities == <<position, health, alive>>
progress == <<tick, pending, moves, attacks>>
vars == <<entities, commands, toSpawn, progress, given, obeyed>>

TypeOK ==
  /\ position \in [Entity -> Field \cup {Nowhere}]
  /\ health \in [Entity -> Nat]
  /\ alive \in [Entity -> BOOLEAN]
  /\ commands \in Seq(Command)
  /\ toSpawn \subseteq Entity
  /\ tick \in {"spawn", "idle", "commands", "monsters", "judge", "over"}
  /\ pending \in Seq(Command)
  /\ moves \in Nat /\ attacks \in Nat
  /\ given \in Nat /\ obeyed \in Nat

Init ==
  /\ position = [e \in Entity |-> Nowhere]
  /\ health = [e \in Entity |-> FullHealth(e)]
  /\ alive = [e \in Entity |-> TRUE]
  /\ commands = <<>>
  /\ toSpawn = Entity
  /\ tick = "spawn"
  /\ pending = <<>>
  /\ moves = 0 /\ attacks = 0
  /\ given = 0 /\ obeyed = 0

--------------------------------------------------------------------------------
(* EntityManager, CollisionChecker *)

Spawned == {e \in Entity : position[e] # Nowhere}
Alive == {e \in Spawned : alive[e]}

Neighbour(c, dir) == Plus(c, OffsetFromDirection(dir))

Distance(e, f) == ManhattanDistance(position[e], position[f])

\* The dead keep their cell: nothing ever removes them.
IsAvailable(c) == c \in Field /\ \A e \in Spawned : position[e] # c

\* findClosestTarget.  Of several equally close the first in the order of a
\* hash map is taken: any of them.
ClosestTargets(e, side) ==
  {f \in side \cap Alive :
     /\ Distance(e, f) <= Radius
     /\ \A g \in side \cap Alive : Distance(e, f) <= Distance(e, g)}

\* Entity::damage
Damage(f, hp) ==
  /\ health' = [health EXCEPT ![f] = IF @ < hp THEN 0 ELSE @ - hp]
  /\ alive' = [alive EXCEPT ![f] = @ /\ health'[f] # 0]
  /\ UNCHANGED position

MoveEntity(e, c) == position' = [position EXCEPT ![e] = c] /\ UNCHANGED <<health, alive>>

--------------------------------------------------------------------------------
(* The constructor: the players first, then the monsters *)

\* spawnEntity.  It gives up after kMaxSpawnAttempts unlucky draws, with room
\* left or without, and the game goes on without the entity.
Spawn(e) ==
  /\ tick = "spawn" /\ e \in toSpawn
  /\ e \in Monster => toSpawn \subseteq Monster
  /\ toSpawn' = toSpawn \ {e}
  /\ tick' = IF toSpawn = {e} THEN "idle" ELSE "spawn"
  /\ \/ \E c \in MapCells : IsAvailable(c) /\ MoveEntity(e, c)
     \/ UNCHANGED entities
  /\ UNCHANGED <<commands, pending, moves, attacks, given, obeyed>>

--------------------------------------------------------------------------------
(* GameManager queues a command or begins a tick *)

\* addMovePlayerCommand, addPlayerAttackCommand: for any player of the game,
\* spawned or not, dead or alive.
QueueCommand(p, order) ==
  /\ tick = "idle"
  /\ given < MaxCommands     \* bound
  /\ commands' = Append(commands, [player |-> p, order |-> order, number |-> given + 1])
  /\ given' = given + 1
  /\ UNCHANGED <<entities, toSpawn, progress, obeyed>>

\* Slip: popAll copies the queue and forgets to clear it.
PopAllKeeping ==
  /\ tick = "idle"
  /\ tick' = "commands" /\ pending' = commands
  /\ UNCHANGED <<entities, commands, toSpawn, moves, attacks, given, obeyed>>

\* processTick begins with popAll.
PopAll ==
  /\ tick = "idle"
  /\ tick' = "commands" /\ pending' = commands
  /\ commands' = <<>>
  /\ UNCHANGED <<entities, toSpawn, moves, attacks, given, obeyed>>

--------------------------------------------------------------------------------
(* processTick *)

RunMove(p, dir) ==
  LET c == Neighbour(position[p], dir) IN
  IF p \in Alive /\ IsAvailable(c) THEN MoveEntity(p, c) ELSE UNCHANGED entities

RunAttack(p) ==
  \/ p \in Alive /\ \E m \in ClosestTargets(p, Monster) : Damage(m, Strength(p))
  \/ (p \in Alive => ClosestTargets(p, Monster) = {}) /\ UNCHANGED entities

RunCommand ==
  /\ tick = "commands" /\ pending # <<>>
  /\ LET order == Head(pending).order IN
     IF order = "Attack" THEN RunAttack(Head(pending).player) ELSE RunMove(Head(pending).player, order)
  /\ pending' = Tail(pending)
  /\ obeyed' = Head(pending).number
  /\ UNCHANGED <<commands, toSpawn, tick, moves, attacks, given>>

\* How many monsters move and how many attack: each from 0 to one less than
\* there are, the dead counted.
DrawCounts ==
  /\ tick = "commands" /\ pending = <<>>
  /\ LET n == Cardinality(Spawned \cap Monster) IN
     \/ n > 0 /\ tick' = "monsters" /\ moves' \in 0..(n - 1) /\ attacks' \in 0..(n - 1)
     \/ n = 0 /\ tick' = "judge" /\ UNCHANGED <<moves, attacks>>
  /\ UNCHANGED <<entities, commands, toSpawn, pending, given, obeyed>>

\* Slip: a turn is counted only when the monster moves.
MonsterMovesUncounted(m, dir) ==
  /\ tick = "monsters" /\ moves > 0
  /\ m \in Spawned
  /\ LET c == Neighbour(position[m], dir) IN
     IF m \in Alive /\ IsAvailable(c)
       THEN MoveEntity(m, c) /\ moves' = moves - 1
       ELSE UNCHANGED <<entities, moves>>
  /\ UNCHANGED <<commands, toSpawn, tick, pending, attacks, given, obeyed>>

\* A turn of moveRandomMonsters: any monster, possibly the same one again; a
\* dead one wastes the turn, and so does a cell that is not available.
MonsterMoves(m, dir) ==
  /\ tick = "monsters" /\ moves > 0
  /\ m \in Spawned
  /\ LET c == Neighbour(position[m], dir) IN
     IF m \in Alive /\ IsAvailable(c) THEN MoveEntity(m, c) ELSE UNCHANGED entities
  /\ moves' = moves - 1
  /\ UNCHANGED <<commands, toSpawn, tick, pending, attacks, given, obeyed>>

\* Slip: nobody asks whether the monster is alive.
DeadMonsterAttacks(m) ==
  /\ tick = "monsters" /\ moves = 0 /\ attacks > 0
  /\ m \in Spawned
  /\ \/ \E p \in ClosestTargets(m, Player) : Damage(p, Strength(m))
     \/ ClosestTargets(m, Player) = {} /\ UNCHANGED entities
  /\ attacks' = attacks - 1
  /\ UNCHANGED <<commands, toSpawn, tick, pending, moves, given, obeyed>>

\* A turn of performRandomAttacks.
MonsterAttacks(m) ==
  /\ tick = "monsters" /\ moves = 0 /\ attacks > 0
  /\ m \in Spawned
  /\ \/ m \in Alive /\ \E p \in ClosestTargets(m, Player) : Damage(p, Strength(m))
     \/ (m \in Alive => ClosestTargets(m, Player) = {}) /\ UNCHANGED entities
  /\ attacks' = attacks - 1
  /\ UNCHANGED <<commands, toSpawn, tick, pending, moves, given, obeyed>>

\* isGameOver: the game ends without a snapshot, and GameManager removes it.
Judge ==
  /\ \/ tick = "judge"
     \/ tick = "monsters" /\ moves = 0 /\ attacks = 0
  /\ tick' = IF Alive \cap Player = {} THEN "over" ELSE "idle"
  /\ UNCHANGED <<entities, commands, toSpawn, pending, moves, attacks, given, obeyed>>

--------------------------------------------------------------------------------
Continue ==
  \/ \E e \in Entity : Spawn(e)
  \/ RunCommand
  \/ DrawCounts
  \/ \E m \in Monster : MonsterAttacks(m) \/ \E dir \in Direction : MonsterMoves(m, dir)
  \/ Judge

Next ==
  \/ \E p \in Player, order \in Direction \cup {"Attack"} : QueueCommand(p, order)
  \/ PopAll
  \/ Continue

Spec == Init /\ [][Next]_vars

\* A tick that has begun runs to its end; the loop ticks again.
FairSpec == Spec /\ WF_vars(Continue) /\ WF_vars(PopAll)

--------------------------------------------------------------------------------
\* No two entities ever share a cell, the dead included, and nobody stands on a
\* barrier or off the map, in whatever order commands and monsters move them.
OneEntityPerCell ==
  \A e, f \in Spawned : e # f => position[e] # position[f]

\* Every command given is run once and in the order given: those not run yet are
\* the successors of the last one run, first in the running tick, then queued.
Waiting == pending \o commands

CommandsRunInOrder ==
  /\ given = obeyed + Len(Waiting)
  /\ \A i \in 1..Len(Waiting) : Waiting[i].number = obeyed + i

\* Who has still to be tried has no place yet.
TriedOnce == \A e \in toSpawn : position[e] = Nowhere

\* A tick does not pass on before the commands it popped are run.
TickRunsAll == tick # "commands" => pending = <<>>

\* What every step preserves.
Inductive ==
  /\ TypeOK
  /\ OneEntityPerCell
  /\ CommandsRunInOrder
  /\ TriedOnce
  /\ TickRunsAll

\* Behind ticks, queues and generators the dungeon plays a fair game: only the
\* living act, one cell or one blow on the nearest living opponent in reach at a
\* time, the dead change no more, and the game is over only when no player stands.
Game == INSTANCE Skirmish WITH over <- tick = "over"

ImplementsSkirmish == Game!Spec

\* A queued command is run and the tick that runs it comes to its end, where the
\* players are shown its outcome, unless the game ends first.
CommandsAreObeyed ==
  \A n \in 1..MaxCommands : given >= n ~> (obeyed >= n /\ tick = "idle") \/ tick = "over"

================================================================================
