SPECIFICATION LinkSpec
CONSTANTS
  B = 4
  ByteXor <- MCXor
  StartC = 2
  EndC = 3
  MaxLen = 16
  Timeout = 2
  ClockW = 5
  Gaps <- MCGaps
  Cmds = {1}
  Payloads <- MCPayloads
  Types = {0, 1}
  MaxCalls = 2
INVARIANTS SentIsReceived CutOffIsNotReceived
CHECK_DEADLOCK FALSE
