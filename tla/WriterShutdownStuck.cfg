SPECIFICATION FairSpec
CONSTANTS
  Indexers = {i1}
  Workers = {w1, w2}
  Watchers = {}
  ParentOf <- MCParentOf
  Cap = 1
  MaxFiles = 3
  TimersExpire = FALSE
  StoreFails = FALSE
PROPERTIES
  ShutdownCompletes
CHECK_DEADLOCK FALSE
