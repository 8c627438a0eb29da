\* A broadcast to two sessions.
CONSTANTS
  Session = {s1, s2}
  Parts = 2
  MaxSends = 1
  MaxUpdates = 1
SPECIFICATION Spec
SYMMETRY SessionSymmetry
INVARIANT
  UpdatesCarryTheField
\* Nobody is obliged to send anything.
CHECK_DEADLOCK FALSE
