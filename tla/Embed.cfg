SPECIFICATION FairSpec
CONSTANTS
  Files = {f1, f2}
  NoFile = NoFile
  MaxId = 4
  ChunkCounts <- MCChunkCounts
  PageSize = 3
  BatchSize = 2
  QuickRetries = 2
  Worlds <- MCWorlds
INVARIANTS
  FlaggedHasVector
  RunCovers
  IndexEmbedHonest
PROPERTIES
  BornWithoutVector
  RunTerminates
