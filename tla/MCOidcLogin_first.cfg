SPECIFICATION Spec
CONSTANTS
  None = None
  root = root
  x = x
  r = r
  t1 = t1
  i1 = i1
  i2 = i2
  v = v
  s1 = s1
  p1 = p1
  p2 = p2
  f1 = f1
  f2 = f2
  Names <- MCNames
  Builtin = root
  Applicants <- MCApplicants
  Teams <- MCTeams
  Issuers <- MCIssuers
  Subjects <- MCSubjects
  Linked <- MCLinked
  States <- MCStates
  Slots <- MCSlots
  Flows <- MCFlows
  MaxRequests = 3
SYMMETRY Symmetry
CHECK_DEADLOCK FALSE
INVARIANT FirstLoginCreates
