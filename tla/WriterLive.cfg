SPECIFICATION FairSpec
CONSTANTS
  Indexers = {i1}
  Workers = {w1, w2}
  Watchers = {x1}
  ParentOf <- MCParentOf
  Cap = 6
  MaxFiles = 2
  TimersExpire = FALSE
  StoreFails = FALSE
PROPERTIES
  ShutdownCompletes
  SyncAnswered
