SPECIFICATION Spec
CONSTANTS
  Artifact = {x, y}
  None = None
  Caller = {c, d}
  MaxVersion = 2
  MaxCalls = 4
  QueryExpansion = TRUE
SYMMETRY RuntimeSymmetry
INVARIANTS CacheStateTold FilledSinceRefresh StatusConsistent MirrorKeepsUp ReadsAdvance
CHECK_DEADLOCK FALSE
