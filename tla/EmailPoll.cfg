SPECIFICATION FairSpec
CONSTANTS
  MaxUid = 4
  MaxPerPoll = 1
  Window = 3
  Unparsable <- MCUnparsable
  NeverStored <- MCNeverStored
  Scope <- MCScope
INVARIANTS Covered ReadsItsFolder
PROPERTIES DeletesItsFolder EventuallyRead EventuallyRecovered
