SPECIFICATION Spec
CONSTANTS
  PageSize = 2
  FlashSize = 6
  Erased = "erased"
  Zero = "zero"
  Values = {"erased", "a"}
  MaxNum = 3
INVARIANT WritesFromTheAddress
CHECK_DEADLOCK FALSE
