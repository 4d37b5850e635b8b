SPECIFICATION MCSpec
CONSTANTS
  Windows = {"w1", "w2"}
  Processes = {"p1", "p2"}
  Owner <- MCOwner
  Viewer = "p1"
  StaleAfter = 1
  Limit = 2
  MaxRequest = 3
  None = None
  Unknown = Unknown
  Sections = {1, 2}
  Paths = {"here", "there"}
  Requests = {1, 2}
  MaxRevision = 2
INVARIANTS
  LivingWindowsAreListed
  RequestsAreDelivered
  PreviewIsOfOneRevision
CHECK_DEADLOCK FALSE
