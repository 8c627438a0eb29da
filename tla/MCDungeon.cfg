\* Two players and two monsters on five free cells: everybody is in everybody's
\* way.  No symmetry, because one of the properties is a liveness one.
CONSTANTS
  Player = {p1, p2}
  Monster = {m1, m2}
  MonstersPerPlayer = 1
  MaxDimension = 3
  MinX <- MCMinX
  MinY = 1
  MaxX = 3
  MaxY = 2
  Barriers <- MCBarriers
  PlayerHealth = 1
  MonsterHealth = 2
  PlayerAttack = 1
  MonsterAttack = 1
  Radius = 1
  MaxCommands = 2
SPECIFICATION FairSpec
INVARIANTS
  CommandsRunInOrder
PROPERTIES
  ImplementsSkirmish
  CommandsAreObeyed
\* A game that is over stays over.
CHECK_DEADLOCK FALSE
