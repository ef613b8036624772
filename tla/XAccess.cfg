SPECIFICATION Spec
CONSTANTS
  Sends = {s1, s2}
  Poller = Poller
  Limit = 2
  MaxGrants = 3
  MaxMishaps = 1
INVARIANTS SessionLives CallsBounded LimitLifts
SYMMETRY MCSymmetry
CHECK_DEADLOCK FALSE
