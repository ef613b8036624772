SPECIFICATION Spec
CONSTANTS
  Messages = {m1, f1}
  Foreign = {f1}
  MaxMishaps = 1
INVARIANTS ShownOnce NamesActor
PROPERTIES ReadStays
CHECK_DEADLOCK FALSE
