SPECIFICATION MCSpec
CONSTANTS
  Windows <- ThreeWindows
  Initially <- OuterOpen
  None = None
  Processes = {"first", "second", "third"}
  NoProcess = NoProcess
INVARIANTS
  ExitIsUnanimous
  NoQuitIsReplayed
PROPERTIES
  ExitEndsUnlessClosing
  QuitReachesEveryone
CHECK_DEADLOCK FALSE
