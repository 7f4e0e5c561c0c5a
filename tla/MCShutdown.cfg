SPECIFICATION Spec
CONSTANTS
  Slave <- LastOne
  ReadCount = 2
  TagCount = 3
  Local <- CpuTag
  MaxLinks = 2
  MaxRuns = 2
CHECK_DEADLOCK FALSE
INVARIANTS TypeOK StatusTold OfflineAfterExit ExitTopics AllSubscribed
PROPERTIES ExitNearsEnd ExitEnds
