SPECIFICATION RecorderFairSpec
CONSTANTS
  ToolCalls = {c1, c2, c3, c4}
  Cap = 2
  BatchSize = 2
  c1 = c1 c2 = c2 c3 = c3 c4 = c4
INVARIANTS
  RecordsConserved
PROPERTIES
  RecordsSettle
CHECK_DEADLOCK FALSE
