SPECIFICATION FairSpec
CONSTANTS
  Daemon = {d1, d2}
  Source = {1}
  File = {1, 2}
  Owner <- OneSource
  Chunk = {1, 2}
  Contents <- Growing
  None = None
  MaxEdits = 1
  Command = {"run-scheduled"}
  Fault = {}
INVARIANT JobPromotesOnce
PROPERTIES CaughtUp PromotedRefreshed
