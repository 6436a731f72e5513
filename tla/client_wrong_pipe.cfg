SPECIFICATION Spec
CONSTANTS
  Pipes <- MCPipes
  NumLocalPipes = 2
  MaxFrames = 2
INVARIANT DataIsFedIntoCorrectPipe
CHECK_DEADLOCK FALSE
