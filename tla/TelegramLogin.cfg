SPECIFICATION LoginFairSpec
CONSTANTS
  Requests = {r1, r2}
  MaxPrompts = 3
  MaxMishaps = 1
INVARIANTS AskedIsAnswerable FailsForCause AuthorisedIsSaved
PROPERTIES AskedIsSettled
CHECK_DEADLOCK FALSE
