SPECIFICATION FairSpec
CONSTANTS
  MaxKeys = 3
  MaxForeign = 2
  MaxQueues = 8
  MaxRevision = 6
  NoBatch = NoBatch
  NoText = NoText
  Rejected = Rejected
INVARIANTS
  ScreenIsKnownTextPlusUnsent
  AcksMatch
  ConvergesUnlessRefused
PROPERTIES
  DeliversOnceInOrder
  FlushReturns
CHECK_DEADLOCK FALSE
