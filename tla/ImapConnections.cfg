SPECIFICATION FairSpec
CONSTANTS
  Callers = {u1, u2}
  MaxClients = 4
  MaxAttempts = 2
  MaxTroubles = 4
INVARIANTS ReachableUnlessRetried ClosedIsRetried
PROPERTIES CallersServed
CHECK_DEADLOCK FALSE
