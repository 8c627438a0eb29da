\* Two types, so that one identifier is beyond the vector or over an empty
\* pointer; two threads, one of which may publish in a callback.
CONSTANTS
  EventType = {created, left}
  Publisher = {w1, w2}
  MaxConnections = 3
  MaxDepth = 2
SPECIFICATION Spec
SYMMETRY Symmetry
INVARIANTS
  HoldersMatch
  SubscribersAreCalled
\* Nobody is obliged to publish, and the bus may go.
CHECK_DEADLOCK FALSE
