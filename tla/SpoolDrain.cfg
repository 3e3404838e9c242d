SPECIFICATION FairSpec
CONSTANTS
  Daemon = {d1, d2}
  Record = {1, 2}
  Invalid = {}
  Legacy = {}
  Fault = {"refresh"}
INVARIANTS FailedNeedsError StoredIsRecorded
PROPERTY PendingDrained
