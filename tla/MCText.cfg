SPECIFICATION MCSpec
CONSTANTS
  Letters = {x}
  CR = CR
  LF = LF
  MaxFile = 5
  a = a
  w = w
  cr = cr
  Chars = {a, w, cr}
  WideChars = {w}
  CarriageReturn = cr
  Inserts <- MCInserts
  MaxLength = 3
  Documents <- MCDocuments
  Grids <- MCGrids
  Rejected = Rejected
  NoIndex = NoIndex
  None = None
  Comments <- MCComments
  Leaves = {"text", "image", "table"}
  MaxBlocks = 2
  MaxScopes = 2
  MaxComments = 3
INVARIANTS
  ReverseOrderIsSimultaneous
  ValidationsAgree
  ImpactCoversChange
  WrittenReadsBack
  FormattedReadsBack
  MergedCellsTile
  SettingsAreLexical
  PageIsAsAsked
  OffersAreHonoured
