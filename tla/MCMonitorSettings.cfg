SPECIFICATION FairSpec
CONSTANTS
  None = None
  Keys = {k1, k2}
  Clients = {c1, c2}
  Sizes = {1, 2}
  MaxEntries = 1
  MaxBytes = 1
  MaxPuts = 2
INVARIANTS
  QuotaHolds
  DecidedOnCurrent
  ConflictIsReal
  VersionNamesEdit
PROPERTIES
  RequestAnswered
