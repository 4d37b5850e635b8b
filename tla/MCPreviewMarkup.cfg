SPECIFICATION MCSpec
CONSTANTS
  None = None
  Absent = Absent
  Ids <- MCIds
  Tags <- MCTags
  Rules <- MCRules
  MaxEvents = 6
  Kinds <- MCKinds
  MaxDepth = 4
  MaxScopes = 2
INVARIANTS
  TidyTagsNest
  ReferencesKeepTheirTarget
CONSTRAINT MCPlain
CHECK_DEADLOCK FALSE
