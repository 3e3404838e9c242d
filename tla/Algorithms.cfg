SPECIFICATION AlgorithmsSpec
CONSTANTS
  Hit <- Hits
  MaxHits = 3
  DiaryInput <- Diaries
  Options <- RecallOptions
  LineInput <- Lines
  MaxLines = 5
  PathInput <- Paths
  SourceInput <- Sources
  Name = {"s1", "s2"}
  MaxWords = 4
  Process = {p1, p2}
  Entry = {"e1", "e2"}
  Agent = {"ag1", "ag2"}
  Author <- Authors
  Note = {"n"}
  Limit = 2
  MaxWrites = 3
  Server = {q1, q2}
  Message <- Messages
  MaxFrames = 2
  MaxChunkLines = 3
  MaxChunkChars = 8
  Schedule <- Schedules
  First = {0}
  Period = 15
  Late = 0
  Today <- ADay
INVARIANTS
  NothingBetterLeftOut OrderIndependent SelectionFits KnowledgeFirst
  ChunksSound NameDeterminesArtifact
  FrontsAgree AnsweredIsKept DiaryShared FramesRead
PROPERTIES DueTimeAndAgain
CHECK_DEADLOCK FALSE
