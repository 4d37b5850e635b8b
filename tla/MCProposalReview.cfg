CONSTANTS
  w1 = w1
  w2 = w2
  p1 = p1
  p2 = p2
  fileA = fileA
  fileB = fileB
  Reviewers = {w1, w2}
  Proposals = {p1, p2}
  Paths = {fileA, fileB}
  SavePaths = {fileA, fileB}
  ForeignPaths = {fileA, fileB}
  MaxRevision = 5
  StillRevisions = 5
  MovingRevisions = 3
  MaxVersion = 2
  None = None
  NoText = NoText
  NoBatch = NoBatch
  Rejected = Rejected
SYMMETRY Symmetry
SPECIFICATION MCSpec
CHECK_DEADLOCK FALSE
INVARIANTS AcceptedAsReviewed StagedAsReviewed
