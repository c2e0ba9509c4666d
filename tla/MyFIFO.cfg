SPECIFICATION FairSpec
CONSTANTS
  Size = 4
  Wrap = 8
  Byte = {z, a}
  Zero = z
  MaxLen = 3
INVARIANT Inv
PROPERTIES UnreadKept ImplementsQueue ReaderProgress
CHECK_DEADLOCK TRUE
