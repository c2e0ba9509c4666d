SPECIFICATION Spec
CONSTANTS
  B = 4
  ByteXor <- MCXor
  StartC = 2
  EndC = 3
  MaxLen = 11
  Timeout = 1
  ClockW = 4
  Gaps <- MCGaps
INVARIANTS TypeOK AcceptedIsWellFormed GoodFrameAccepted
PROPERTY FrameStable
