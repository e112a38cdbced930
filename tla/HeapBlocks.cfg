SPECIFICATION Spec
CONSTANTS
  Null = Null
  ListHead = ListHead
  Header = 3
  BackPtr = 1
  ChunkSize = 16
  Chunks <- MCChunks
  Layouts <- MCLayouts
  MaxLive = 4
INVARIANTS RingSound BlocksDisjoint UserMemoryInBlock FreeListSound OneChunkSuffices
PROPERTIES MemoryConserved
