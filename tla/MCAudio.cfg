CONSTANTS
  Capacity = 2
  Modulus = 6
  Data = {0, 1, 2}
  Silence = 0
  b0 = b0
  b1 = b1
  a1 = a1
  Cells <- CellsDef
  MaxUpdates = 3
  Blocks = {1, 3}
  Period = 2
  Tempos = {2, 3}
  MaxLoads = 2
SPECIFICATION AudioSpec
INVARIANTS
  NoDataRace
  SizeIsSafe
  NoTornRead
  NoStaleRead
  ModelsWholeAndAlive
  BlockProcessedWhole
  BeatsInTime
PROPERTIES
  FifoSpec
  ReadReturns
