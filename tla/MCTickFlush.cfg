SPECIFICATION FairSpec
CONSTANTS
  Sessions = {s1, s2}
  MayExpire = {s2}
  Parts = 2
  Events = 2
  Batch = Batch
  None = None
  MaxChanges = 2
  MaxFaults = 1
INVARIANTS
  SavedUnlessFault
  BatchWritesCurrent
PROPERTIES
  RoundEnds
  ExpiryEnds
