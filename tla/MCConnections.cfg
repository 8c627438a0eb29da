\* Three connections for two players: one lost, one that takes its place and
\* one that interferes.
CONSTANTS
  Player = {p1, p2}
  NoPlayer = NoPlayer
  MaxSessions = 3
SPECIFICATION Spec
SYMMETRY PlayerSymmetry
INVARIANTS
  BoundAreRegistered
  MapsInverseUnlessContested
  OneReconnectPerDrop
PROPERTIES
  SessionKeepsPlayer
  AnswerReachesAsker
  ClaimsAreToldTruly
\* After the last connection is gone nothing more can happen.
CHECK_DEADLOCK FALSE
