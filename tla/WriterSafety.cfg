SPECIFICATION Spec
CONSTANTS
  Indexers = {i1}
  Workers = {w1, w2}
  Watchers = {x1}
  ParentOf <- MCParentOf
  Cap = 2
  MaxFiles = 2
  TimersExpire = TRUE
  StoreFails = TRUE
SYMMETRY MCSymmetry
INVARIANTS
  WriterSound
  JobsConserved
  SyncBarrier
PROPERTIES
  CleanDrain
  ImplementsWriteQueue
