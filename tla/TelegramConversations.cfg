SPECIFICATION ConversationsSpec
CONSTANTS
  Chats = {"friend of u1", "group of u1", "group of u2"}
  UserOf <- MCUserOf
  IdOf <- MCIdOf
  Private = {"friend of u1"}
  Names = {n1, n2, n3}
  Jobs = {j1, j2}
  MaxRows = 3
  MaxRenames = 1
  MaxJobs = 3
  MaxFailures = 1
INVARIANTS UnderItsChat StoredUnlessClash
SYMMETRY MCSymmetry
CHECK_DEADLOCK FALSE
