SPECIFICATION Spec
CONSTANTS
  Projects = {p1, p2}
  Server = Server
  Savers = {s1, s2}
  NoVector = NoVector
  Setups <- MCSetups
  MaxId = 4
  MaxEpoch = 1
  BatchLimit = 2
  Faults = {"request", "unavailable", "crash", "purgeStops"}
SYMMETRY Symmetry
INVARIANTS
  OwnVector
  FlagsAreDurable
  DiskIsWhole
PROPERTIES
  Contract
