SPECIFICATION FairSpec
CONSTANTS
  Slave <- Slaves
  MaxDrops = 0
  NumTags = 2
  SlaveOf <- WriteSlaves
  IgnoreRetained <- FirstTag
  ValidAddress <- FirstTag
  MaxAttempts = 1
  MaxMessages = 2
  NumReadTags = 2
  TagSlave <- BothSlave
  Address <- TwoSingles
  Group <- Zeros
  CycleId <- OneCycle
  HasTopic <- AllTags
  NoreadAction <- Zeros
  NoreadIgnore <- Zeros
  NumCycles = 2
  Ident <- Cycles24
  Interval <- EachSecond
  MaxRetries = 0
  MaxClock = 2
INVARIANTS TypeOK CountExact
PROPERTIES WritesRefine ReadsRefine GivesWay CutForWrites ProcessEnds WritesResolved ReadsResume
