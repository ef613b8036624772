SPECIFICATION FairSpec
CONSTANTS
  Callers = {p1, p2}
  Logins = {l1, l2}
  MaxClients = 3
  MaxEnded = 1
INVARIANTS OneClient VerifiesItsOwn
PROPERTIES CallersAnswered
CHECK_DEADLOCK FALSE
