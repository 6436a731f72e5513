SPECIFICATION FairSpec
CONSTANTS
  Lists <- MCLists
  MaxPictures = 3
  MaxStarts = 2
  MaxStops = 2
  MaxHeld = 2
INVARIANTS
  ReadyBeforeData
  SafeUntilStopped
  OnlyTheCallInFlight
  OneCaptureThread
PROPERTIES
  StopEndsCapture
  ImplementsChannel
\* the process may end, and the bounds end the rest
CHECK_DEADLOCK FALSE
