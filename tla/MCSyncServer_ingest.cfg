SPECIFICATION FairIngest
CONSTANTS
  None = None
  Conns = {c1, c2}
  Devices = {d1}
  Providers = {p1}
  Users = {u1}
  Owner <- MCOwner
  MaxTs = 2
  MaxBatch = 1
  MaxWrites = 1
  Faults = TRUE
INVARIANTS
  CursorCovered
  AckDurable
PROPERTIES
  CursorMonotone
  BatchAnswered
  DeactivationStopsWrites
