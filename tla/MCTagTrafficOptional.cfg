SPECIFICATION Spec
CONSTANTS
  Topics <- SomeTopics
  Configs <- Untagged
  MaxTagNum = 3
  Garbage <- Heap
  Payloads <- TrafficPayloads
  MaxMessages = 1
  MaxClock = 2
CHECK_DEADLOCK FALSE
INVARIANT MqttTagsOptional
