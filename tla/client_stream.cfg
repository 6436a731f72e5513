SPECIFICATION FairSpec
CONSTANTS
  Pipes <- MCPipes
  NumLocalPipes = 2
  MaxFrames = 3
INVARIANTS
  KeepsItsPlace
  InOrder
  NonzeroPipeKept
  AtMostOneSetup
PROPERTIES
  SafeAfterStartup
  ImplementsChannel
  GreetingAnswered
\* an uncaught exception ends the process
CHECK_DEADLOCK FALSE
