\* One session and up to three messages in frames of two parts.
CONSTANTS
  Session = {s1}
  Parts = 2
  MaxSends = 3
  MaxUpdates = 1
SPECIFICATION FairSpec
INVARIANTS
  ClosedIsClean
  NothingForgotten
PROPERTY
  AcceptedIsWritten
\* Nobody is obliged to send anything.
CHECK_DEADLOCK FALSE
