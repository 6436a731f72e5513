SPECIFICATION Spec
CONSTANTS
  Pipes = {0}
  NumLocalPipes = 1
  MaxFrames = 1
INVARIANT PaintOnEveryFrame
CHECK_DEADLOCK FALSE
