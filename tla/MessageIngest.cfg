SPECIFICATION Spec
CONSTANTS
  MaxEvent = 3
  PageSize = 2
  Chats <- MCChats
  ChatOf <- MCChatOf
  Workers = {w1, w2}
  MaxCopies = 1
  MaxMishaps = 2
INVARIANTS TypeOK Accounted PushedIsKept RaceHasWinner
PROPERTIES ImplementsLedger
CHECK_DEADLOCK FALSE
SYMMETRY WorkerSymmetry
