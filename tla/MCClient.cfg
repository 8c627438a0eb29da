\* Two attempts to connect and three messages, one more than can be queued and written.
CONSTANTS
  MaxQueueSize = 1
  MaxConnects = 2
  MaxSends = 3
SPECIFICATION FairSpec
INVARIANTS
  TypeOK
  OneWriteAtATime
  WrittenInOrder
  BeliefIsTrue
PROPERTIES
  AttemptsEnd
  QueueDrains
\* Nobody is obliged to connect.
CHECK_DEADLOCK FALSE
