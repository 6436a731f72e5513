SPECIFICATION FairSpec
CONSTANTS
  Pipes <- MCPipes
  Fragments = 2
  MaxConnections = 2
  MaxSetups = 2
  MaxPictures = 1
  MaxInstances = 1
INVARIANTS
  TypeOK
  NoLostWakeup
  FirstClientIsGreeted
PROPERTIES
  OneClientAtATime
  PictureStaysWhole
  AcceptsAfterReset
  FirstSetupIsServed
\* an uncaught exception ends the process, and the bounds end the rest
CHECK_DEADLOCK FALSE
