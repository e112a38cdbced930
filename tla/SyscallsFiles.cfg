SPECIFICATION SysSpec
CONSTANTS
  Paths <- MCPaths
  Chunks <- MCChunks
  Seed = {"d"}
  MaxDepth = 1
  MaxLen = 2
  FlagSets <- MCFlagSets
  FdNums = {1, 3}
  Sizes = {1}
  MaxFds = 4
PROPERTIES FdStable OnlyTruncShortens WritesStayInRange
VIEW Files
