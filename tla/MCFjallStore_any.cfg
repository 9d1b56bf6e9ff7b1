SPECIFICATION Spec
CONSTANTS
  None = None
  Devices = {d1, d2}
  Providers = {p1}
  Msgs = {m1}
  Users = {u1, u2}
  Vals = {v1}
  Sessions = {}
  MaxTs = 2
  Ts <- MCTs
  MaxBatch = 1
  Retention = 0
  Chunk = 1
  Workers = {w1, w2}
SYMMETRY Symmetry
INVARIANTS
  EveryRowIndexed
  PointerNamesRow
