SPECIFICATION Spec
CONSTANTS
  Calls = {1, 2}
  Queries <- MCQueries
  Files <- MCFiles
  TestFiles <- MCTestFiles
  Layout <- MCLayout
  Tree <- MCTree
  FileTokens <- MCFileTokens
  FallbackBudget = 4
  LongestLine = 5
  ContextResults = 2
  OverfetchCap = 3
  FtsCap = 4
  SessionSize = 2
  CacheSize = 1
INVARIANTS
  AnswersSound AnswersWhole SessionFollowsQueries ContextHonest
CHECK_DEADLOCK FALSE
