SPECIFICATION FairSpec
CONSTANTS
  Words <- MCWords
  Value <- MCValue
  Default = 2
  MaxLine = 3
  MaxId = 2
  MaxLag = 2
INVARIANTS JobsConsistent EverySecondCounts
PROPERTIES NoJobLost JobsFinish
