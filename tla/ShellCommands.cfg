SPECIFICATION Spec
CONSTANTS
  Paths <- MCPaths
  Chunks <- MCChunks
  Seed = {"bin", "home"}
  MaxDepth = 3
  MaxLen = 3
  ProgramId <- MCProgramId
  Word = 8
  Lines <- MCLines
  NameOrder <- MCNameOrder
VIEW Tree
INVARIANTS
  TreeWellFormed
  LoadInImage
PROPERTIES
  CallsAreLocal
  RenameMoves
  RedirectionReadsFirst
  ProgramsRunAsNamed
