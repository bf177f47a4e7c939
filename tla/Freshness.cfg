SPECIFICATION FairSpec
CONSTANTS
  Files = {f1, f2}
  f1 = f1
  NoFile = NoFile
  Dirs <- MCDirs
  OldDirs <- MCOldDirs
  DirOf <- MCDirOf
  Above <- MCAbove
  Texts <- MCTexts
  Gone = "gone"
  Bulk = 1
  EventCap = 1
  MaxEdits = 2
  MaxRestarts = 1
  World = {"overlap", "gap", "newdir", "delete", "drop", "error", "crash"}
INVARIANTS
  QuietIsFresh
  RowConsistent
PROPERTIES
  ChangeArrives
