SPECIFICATION FairSpec
CONSTANTS
  Caller = {a, b}
  Nobody = Nobody
  Versions = 2
  MaxCalls = 2
  ExitHandled = TRUE
  FramesChecked = TRUE
INVARIANTS WaitingIsPending AwaitedLoopRuns OneProcessUntilFailure
PROPERTIES AnswerIsOwn CallReturns
