SPECIFICATION FairSpec
CONSTANTS
  Daemon = {d1}
  Record = {1, 2}
  Invalid = {1}
  Legacy = {1}
  Fault = {}
PROPERTY InvalidIsolated
