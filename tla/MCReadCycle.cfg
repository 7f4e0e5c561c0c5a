SPECIFICATION Spec
CONSTANTS
  Slave <- Slaves
  NumReadTags = 3
  TagSlave <- ThreeOfOne
  Address <- GapAddress
  Group <- TwoInGroup
  CycleId <- OwnCycle
  HasTopic <- AllTags
  NoreadAction <- NullValueNone
  NoreadIgnore <- IgnoreSome
  NumCycles = 2
  Ident <- Cycles24
  Interval <- EachSecond
  PendingCount = {0, 1}
  MaxRetries = 0
  MaxClock = 4
  MaxDrops = 1
INVARIANTS TypeOK OneReadPerGroup StaleBound
PROPERTIES FreshPublished FeedsTopics
