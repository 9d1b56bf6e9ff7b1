SPECIFICATION ResetSpec
CONSTANTS
  None = None
  Conns = {c1}
  Devices = {d1}
  Providers = {p1, p2}
  Users = {u1}
  Owner <- MCOwner
  MaxTs = 1
  MaxBatch = 2
  MaxWrites = 1
  Faults = FALSE
INVARIANTS
  ResetResyncsAll
