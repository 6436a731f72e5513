SPECIFICATION Spec
CONSTANTS
  Pipes = {0}
  Fragments = 2
  MaxConnections = 1
  MaxSetups = 1
  MaxPictures = 2
  MaxInstances = 2
INVARIANT NalusStayTogether
CHECK_DEADLOCK FALSE
