CONSTANTS
  Player = {p1, p2}
  NoPlayer = NoPlayer
  MaxSessions = 3
SPECIFICATION Spec
INVARIANTS
  LostSessionsLeave
CHECK_DEADLOCK FALSE
