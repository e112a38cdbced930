SPECIFICATION Spec
CONSTANTS
  TotalPages = 7
  MaxOrder = 3
  PageSize = 2
  MemoryMaps <- MCMaps
  Limits = {8}
  MaxOwned = 3
INVARIANTS FramesTiled ListsSound FindsEveryRun OwnedSound
PROPERTIES ImplementsPageFrames
