SPECIFICATION ThreadingSpec
CONSTANTS
  Mails <- MCMails
  Accounts <- MCAccounts
  Threads <- MCThreads
  NoThread = NoThread
  Peers <- MCPeers
  Subjects <- MCSubjects
  Head <- MCHead
  Nobody = Nobody
  Workers = {w1, w2}
  MaxAgain = 1
  MaxMishaps = 1
INVARIANTS AccountsApart SplitForCause RefusedForCause
SYMMETRY WorkerSymmetry
CHECK_DEADLOCK FALSE
