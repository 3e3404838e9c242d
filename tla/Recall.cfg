SPECIFICATION Spec
CONSTANTS
  Key = {j, k}
  Config = {f, g}
  Caller = {c, d, e}
  None = None
  MaxManagers = 3
  AgentDiaries = TRUE
SYMMETRY RecallSymmetry
INVARIANTS ProcessesOwned
CHECK_DEADLOCK FALSE
