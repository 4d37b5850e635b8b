SPECIFICATION Spec
CONSTANTS
  c1 = c1
  c2 = c2
  Clients = {c1, c2}
  Texts <- MCTexts
  Payloads <- MCPayloads
  Applied <- MCApplied
  LengthOf <- MCLengthOf
  Rejected = Rejected
  NoText = NoText
  NoBatch = NoBatch
  NoReply = NoReply
  MaxRevision = 4
SYMMETRY MCSymmetry
INVARIANTS
  BatchesExtendWhatTheySaw
  BatchesOnceInOrder
  AcksTellTheTruth
