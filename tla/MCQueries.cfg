SPECIFICATION Spec
CONSTANTS
  None = None
  u1 = u1
  u2 = u2
  t1 = t1
  Users <- MCUsers
  Teams <- MCTeams
  Cases <- MCCases
  WindowRows <- MCWindowRows
  Prices <- MCPrices
  Ms = 3
  DaySecs = 2
  WeekDays = 2
  Now = 6
  MaxBuckets = 3
  MaxEvents = 4
  MaxEntries = 3
  MaxSum = 7
CHECK_DEADLOCK FALSE
INVARIANT ParserMatchesGrammar
INVARIANT ScopeHolds
INVARIANT Conserved
INVARIANT BucketsBounded
