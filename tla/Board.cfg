SPECIFICATION BoardSpec
CONSTANTS
  MaxTask = 3
  Periods = {0, 1}
  TickCap = 8
  Letter = {"a", "b"}
  CMDBufLen = 3
  StrFifoLen = 2
  MaxTyped = 3
  HexByte = {0, 1, 2, 3}
  HexBufLen = 6
  CMDList <- MCRows
  CanNodes = {1, 2}
  PieceLen = 2
  WriteLens = {3, 4}
  MaxWrites = 2
  MaxFilters = 2
  MaxAdds = 2
  BusAddr = {1, 2}
  AnyAddr = 0
  MaxBanks = 2
  MaxFrames = 4
  NfcFifoLen = 2
  ChunkLen = 1
  MaxBytes = 3
  MaxFails = 2
  UsbFifoLen = 4
  PacketLen = 2
  FrameInterval = 2
  UsbMaxBytes = 6
  SectorSize = 4
  WritePage = 2
  ChipSize = 8
  Patterns <- MCPatterns
  WriteSizes = {3}
  Probes = {1, 2}
  MaxTries = 2
  MaxCaCalls = 2
  MaxFaults = 1
  PageSize = 3
  FlashSize = 6
  Erased = "erased"
  Zero = "zero"
  Values = {"erased", "a"}
  MaxNum = 3
INVARIANTS
  BoardTypeOK
  OnlyCallsFunctions StretchBounded
  CommandIsLinesEnd ReportsAreExact
  WantedIsHeard ListIsWhole PiecesArrive
  HandlersAreWhole FirstAskerGetsIt
  LossIsBounded
  HostGetsTheRest
  W25WritesExact OneSectorExact
  FlagTellsTruth CallIsExact
PROPERTIES
  NeverTooSoon
  PortsAreStreams
  EverythingIsSent
  FifoDrains
  EveryCaCallReturns
CHECK_DEADLOCK FALSE
