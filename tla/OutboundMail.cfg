SPECIFICATION FairSpec
CONSTANTS
  Savers = {s1, s2}
  MaxAttempts = 2
  MaxMishaps = 2
  MaxReads = 2
INVARIANTS NamedForCause SendsBounded
PROPERTIES ActorKept RequestEnds
CHECK_DEADLOCK FALSE
