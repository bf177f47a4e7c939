SPECIFICATION FairSpec
CONSTANTS
  Procs = {p1, p2, p3, p4}
  NoProc = NoProc
  World = {"crash", "exit", "marker", "server"}
INVARIANTS
  OneDatabase
  LeaderReachable
PROPERTIES
  WaitEnds
