SPECIFICATION Spec
CONSTANTS
  Stepping = 2
  IntValues = 256
  Headers <- MCHeaders
  Pictures <- MCPictures
  Boxes <- MCBoxes
  Pointers <- MCPointers
  Keyboards <- MCKeyboards
  Cursors <- MCCursors
  Padding = {0, 3}
  Tolerance = 4
  MaxEvents = 3
INVARIANTS
  HeaderReadsBack
  PictureComesBack
  BoxStaysInFrame
  NothingSticks
  CursorIsCurrent
\* headers end, pictures are converted once
CHECK_DEADLOCK FALSE
