SPECIFICATION MCSpec
CONSTANTS
  MaxSequence = 2
  MaxPages = 2
  None = None
  Ids = {1, 2, 3, 4}
  Capacity = 2
  MaxActive = 2
  OnWindows = TRUE
INVARIANTS
  JobsStayWithinLimits
  BrowsersAreOwned
  LoadedIsShown
PROPERTIES
  SubWindowCatchesUp
  JobsEnd
CHECK_DEADLOCK FALSE
