SPECIFICATION FairSpec
CONSTANTS
  ReconnectInterval = 2
  DisconnectWait = 1
  MaxBreaks = 3
INVARIANTS TypeOK RetryUnlessRaced OrderlyExit
PROPERTIES ConnectedAgain
CHECK_DEADLOCK FALSE
