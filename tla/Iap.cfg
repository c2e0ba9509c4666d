SPECIFICATION Spec
CONSTANTS
  PageSize = 2
  FlashSize = 10
  Erased = "erased"
  Zero = "zero"
  Boot = "boot"
  Start <- MCStart
  ImageLen = 3
  ChunkSize = 2
  Old <- MCOld
  New <- MCNew
  Behind <- MCBehind
  StackTops <- MCStackTops
  Queries = {"version", "other"}
  MaxSends = 7
  MaxCuts = 1
INVARIANTS TypeOK CleanUpdateInstalls OnlyTheImageArea LocksOnlyWhenNew
PROPERTY EnteredBoardStays
CHECK_DEADLOCK FALSE
