SPECIFICATION Spec
CONSTANTS
  None = None
  MaxRevision = 3
  Documents <- MCDocuments
  Replacements <- MCReplacements
CONSTRAINT MCEdited
INVARIANTS
  PlainPatchIsFullRendering
  EveryLineIsOnItsPage
CHECK_DEADLOCK FALSE
