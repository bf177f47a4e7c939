SPECIFICATION Spec
CONSTANTS
  Files = {a1, a2, ap, b1}
  Names = {m, n, o}
  Contents = {cm, dn}
  ProjectOf <- MCProjectOf
  Language <- MCLanguage
  Tests = {a2, ap}
  Parsed <- MCParsed
  Defs <- MCDefs
  Uses <- MCUses
  Setups <- MCSetups
  MaxOps = 3
  MaxAlgo = 2
  None = None
  Shared = Shared
  a1 = a1
  a2 = a2
  ap = ap
  b1 = b1
  A = A
  B = B
  m = m
  n = n
  o = o
  cm = cm
  dn = dn
SYMMETRY Renamings
INVARIANTS
  GraphIsResolved LookupsRight FtsExact VersionHonest LogReplays
PROPERTIES
  ImplementsSymbolGraph
CHECK_DEADLOCK FALSE
