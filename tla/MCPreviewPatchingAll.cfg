SPECIFICATION Spec
CONSTANTS
  None = None
  MaxRevision = 2
  Documents <- MCDocumentsAll
  Replacements <- MCReplacements
INVARIANTS
  PatchIsFullRendering
CHECK_DEADLOCK FALSE
