SPECIFICATION Spec
CONSTANTS
  Daemon = {d1, d2}
  Record = {1, 2}
  Invalid = {}
  Legacy = {2}
  Fault = {"crash", "timeout", "refresh", "database"}
SYMMETRY DaemonSymmetry
INVARIANTS NoRecordLost IngestedIsStored CompletedRunRefreshed
PROPERTY ImplementsContract
