SPECIFICATION Spec
CONSTANTS
  Pipes <- MCPipes
  Sections <- MCSections
  Others <- MCOthers
  MaxRecv = 18
INVARIANTS
  UnitsParseAlike
  ReceivedAsSent
  TogetherIsMerged
  SettingsReachFactory
\* everything sent is received in the end
CHECK_DEADLOCK FALSE
