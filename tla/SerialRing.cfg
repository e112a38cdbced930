SPECIFICATION FairSerialSpec
CONSTANTS
  Capacity = 4
  Bytes = {"x", "y"}
  FifoSize = 3
  Threshold = 2
INVARIANTS LineAnswered
PROPERTIES ImplementsLossyQueue InputHandled
