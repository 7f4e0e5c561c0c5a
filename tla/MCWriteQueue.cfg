SPECIFICATION FairSpec
CONSTANTS
  Slave <- Slaves
  NumTags = 3
  SlaveOf <- MissingEnd
  IgnoreRetained <- SecondTag
  ValidAddress <- FirstTag
  MaxAttempts = 2
  MaxMessages = 2
  MaxDrops = 1
INVARIANTS TypeOK CounterCoversPending FreshCommandHonoured 
PROPERTIES NeverOlder DeliversSafely Delivers
