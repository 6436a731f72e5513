SPECIFICATION Spec
CONSTANTS
  Handles = {w1, w2}
  Streams = {s1, s2}
  MaxConnections = 4
  MaxPipes = 3
SYMMETRY Alike
INVARIANTS
  NothingIsStuck
  RunningIsKnown
\* a stream that is not known ends the process
CHECK_DEADLOCK FALSE
