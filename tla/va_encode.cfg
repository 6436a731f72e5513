SPECIFICATION Spec
CONSTANTS
  SurfaceNum = 3
  SurfaceIds = {v1, v2, v3, v4}
  NoSurface = NoSurface
  NumRefFrames = 3
  IdrPeriod = 4
  IPeriod = 3
  MaxFrameNum = 4
  Announced = 2
  MaxInputs = 7
  MaxStarts = 2
SYMMETRY Symmetry
INVARIANTS
  PredictsFromPrevious
  ReferencesAreIntact
  ListsSinceIdr
  NumbersFollow
\* the process may end, and the bounds end the rest
CHECK_DEADLOCK FALSE
