SPECIFICATION Spec
CONSTANTS
  B = 2
  ByteXor <- MCXor
  StartC = 1
  EndC = 0
  MaxLen = 12
  Timeout = 2
  ClockW = 6
  Gaps <- MCGaps
PROPERTY SilenceRestarts
