SPECIFICATION FairSpec
CONSTANTS
  Slave <- Slaves
  NumReadTags = 5
  TagSlave <- FiveSlaves
  Address <- FiveAddresses
  Group <- FiveGroups
  CycleId <- FiveCycles
  HasTopic <- AllTags
  NoreadAction <- FiveNulls
  NoreadIgnore <- FiveNulls
  NumCycles = 2
  Ident <- Cycles24
  Interval <- EachSecond
  PendingCount = {0, 1}
  MaxRetries = 1
  MaxClock = 3
  MaxDrops = 1
PROPERTIES DueTagsVisited
