SPECIFICATION FairSpec
CONSTANTS
  Pagers = {p}
  Batchers = {b}
  Threshold <- MCThreshold
  BaseCooldown <- MCBaseCooldown
  BackoffMax <- MCBackoffMax
  MaxCycles <- MCMaxCycles
  PermanentErrors = TRUE
INVARIANTS
  OneProbe
PROPERTIES
  EscalationEarned
  CooldownEnds
