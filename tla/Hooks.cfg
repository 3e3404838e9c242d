SPECIFICATION FairSpec
CONSTANTS
  Record = {1, 2}
  Invalid = {}
  Processor = {p, q}
  Daemon = {d}
  Nobody = Nobody
INVARIANTS NothingLost ProcessedTrue
PROPERTIES ImplementsLock LockReturned
CHECK_DEADLOCK FALSE
