SPECIFICATION FairSpec
CONSTANTS
  Accounts <- MCAccounts
  Platforms <- MCPlatforms
  PlatformOf <- MCPlatformOf
  Registers <- MCRegisters
  Sessions <- MCSessions
  SessionOf <- MCSessionOf
  MaxAttempts = 3
  MaxTroubles = 4
  MaxChanges = 1
INVARIANTS TypeOK FailedForCause
PROPERTIES DueIsPolledOrExcused SuspendedFallsSilent
