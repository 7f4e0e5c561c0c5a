SPECIFICATION Spec
CONSTANTS
  Slave <- Slaves
  NumReadTags = 3
  TagSlave <- ThreeOfOne
  Address <- GapAddress
  Group <- TwoInGroup
  CycleId <- OwnCycle
  HasTopic <- AllTags
  NoreadAction <- NullAll
  NoreadIgnore <- IgnoreNone
  NumCycles = 2
  Ident <- Cycles24
  Interval <- EachSecond
  PendingCount = {0, 1}
  MaxRetries = 1
  MaxClock = 4
  MaxDrops = 0
INVARIANTS NoreadTaken
