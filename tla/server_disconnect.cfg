SPECIFICATION Spec
CONSTANTS
  Pipes = {0}
  Fragments = 2
  MaxConnections = 1
  MaxSetups = 1
  MaxPictures = 1
  MaxInstances = 2
INVARIANT StartedOnRequest
CHECK_DEADLOCK FALSE
