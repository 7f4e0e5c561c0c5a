SPECIFICATION Spec
CONSTANTS
  Topics <- SomeTopics
  Configs <- TrafficConfigs
  MaxTagNum = 3
  Garbage <- Heap
  Payloads <- TrafficPayloads
  MaxMessages = 2
  MaxClock = 3
CHECK_DEADLOCK FALSE
INVARIANTS TypeOK NeighboursToldApart CompleteNeverCrashes ReadTagsFit CyclesReadWhatTheyShould CommandReachesItsEntry RequestMeansCommand CpuFresh
