SPECIFICATION FairSpec
CONSTANTS
  MaxEvent = 2
  PageSize = 2
  Chats <- MCChats
  ChatOf <- MCChatOf
  Workers = {w1, w2}
  MaxCopies = 1
  MaxMishaps = 1
PROPERTIES EventuallySettled
CHECK_DEADLOCK FALSE
