SPECIFICATION TimelySpec
CONSTANTS
  None = None
  Devices = {d1}
  Providers = {p1}
  Msgs = {m1, m2}
  Users = {u1, u2}
  Vals = {v1}
  Sessions = {s1}
  MaxTs = 2
  Ts <- MCTs
  MaxBatch = 2
  Retention = 0
  Chunk = 1
  Workers = {w1, w2}
SYMMETRY Symmetry
PROPERTIES
  ImplementsEventStore
INVARIANTS
  OneRowPerKey
  IndexMirrorsEvents
  SessionsFollowRows
  NewestStored
