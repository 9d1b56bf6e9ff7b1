SPECIFICATION Spec
CONSTANTS
  None = None
  u1 = u1
  c1 = c1
  p1 = p1
  p2 = p2
  Users <- MCUsers
  Codes <- MCCodes
  Procs <- MCProcs
  GuardKeys <- MCGuardKeys
  MaxAttempts = 2
  Window = 1
  Lockout = 3
  CodeTtl = 1
  MaxTokens = 4
  MaxRequests = 3
  MaxTime = 3
SYMMETRY Symmetry
CHECK_DEADLOCK FALSE
INVARIANT RotatedOnce
INVARIANT RevocationReaches
INVARIANT NoOrphanToken
INVARIANT DeliveredOnce
INVARIANT GuessesBounded
PROPERTY LockoutHolds
