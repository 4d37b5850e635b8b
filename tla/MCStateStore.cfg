SPECIFICATION MCSpec
CONSTANTS
  v1 = v1
  v2 = v2
  v3 = v3
  Values = {v1, v2, v3}
  Nothing = Nothing
  Missing = Missing
  Corrupt = Corrupt
  Newer = Newer
  MaxRevision = 6
  Windows = {"w1", "w2"}
  Clients = {"c1", "c2"}
  Roots = {"r1", "r2"}
  MaxServer = 2
  MaxSet = 2
  None = None
SYMMETRY Symmetry
INVARIANTS
  LoadsWhatWasSaved
  AnswersNameServers
  SettingTakesEffect
PROPERTIES
  LaterVersionIsUntouched
  LegacyIsKept
