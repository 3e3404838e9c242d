SPECIFICATION FairSpec
CONSTANTS
  Daemon = {d1}
  Source = {1}
  File = {1}
  Owner <- OneSource
  Chunk = {1}
  Contents <- Single
  None = None
  MaxEdits = 0
  Command = {"run-scheduled"}
  Fault = {"refresh"}
PROPERTY PipelineRefreshed
