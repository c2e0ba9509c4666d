SPECIFICATION Spec
CONSTANTS
  PageSize = 2
  FlashSize = 10
  Erased = "erased"
  Zero = "zero"
  Boot = "boot"
  Start <- MCStart
  ImageLen = 3
  ChunkSize = 2
  Old <- MCOld
  New <- MCNew
  Behind <- MCBehind
  StackTops <- MCStackTops
  Queries = {}
  MaxSends = 6
  MaxCuts = 0
PROPERTY SuccessMeansDone
CHECK_DEADLOCK FALSE
