SPECIFICATION Spec
CONSTANTS
  ReconnectInterval = 2
  DisconnectWait = 1
  MaxBreaks = 3
INVARIANTS ClosedBeforeFree
CHECK_DEADLOCK FALSE
