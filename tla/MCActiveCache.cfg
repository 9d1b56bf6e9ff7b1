SPECIFICATION FairSpec
CONSTANTS
  None = None
  Users = {u1}
  Checks = {c1, c2}
  Admins = {a1, a2}
  MaxGen = 3
INVARIANTS
  NoStaleEntry
PROPERTIES
  StaleHeals
