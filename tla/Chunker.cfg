SPECIFICATION Spec
CONSTANTS
  Files <- MCFiles
  Nodes <- MCNodes
  Wrappers <- MCWrappers
  MaxLine = 40
  MaxChunkTokens = 6
  MinChunkTokens = 2
  MaxChunkDepth = 1
  MaxASTDepth = 2
INVARIANTS
  ChunksFit  StatementCallsStored
CHECK_DEADLOCK FALSE
