SPECIFICATION MCSpec
CONSTANTS
  Windows <- TwoWindows
  Initially <- BothOpen
  None = None
  Processes = {"first", "second", "third"}
  NoProcess = NoProcess
INVARIANT OpenWindowKnowsItIsDirty
CHECK_DEADLOCK FALSE
