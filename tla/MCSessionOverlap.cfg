\* Two messages suffice.
CONSTANTS
  Session = {s1}
  Parts = 2
  MaxSends = 2
  MaxUpdates = 0
SPECIFICATION Spec
INVARIANT
  FramesUnbroken
\* Nobody is obliged to send anything.
CHECK_DEADLOCK FALSE
