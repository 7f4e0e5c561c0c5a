SPECIFICATION Spec
CONSTANTS
  Slave <- Slaves
  NumTags = 1
  SlaveOf <- OneTag
  IgnoreRetained <- FirstTag
  ValidAddress <- FirstTag
  MaxAttempts = 3
  MaxMessages = 2
  MaxDrops = 0
INVARIANTS LastCommandHonoured
