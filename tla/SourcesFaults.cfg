SPECIFICATION Spec
CONSTANTS
  Daemon = {d1}
  Source = {1, 2}
  File = {1, 2}
  Owner <- TwoSources
  Chunk = {1, 2}
  Contents <- Growing
  None = None
  MaxEdits = 1
  Command = {"run", "reindex", "run-scheduled"}
  Fault = {"crash", "spool", "scan", "promote", "timeout", "refresh", "database"}
INVARIANTS RecordedIsStored CompletedJobRefreshed FailedJobAudited
