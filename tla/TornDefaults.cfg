SPECIFICATION Spec
CONSTANTS
  Backends = {"ESP32"}
  Cells <- ConfigCells
  FirstContents <- ErasedBoard
  Requests <- TypicalRequests
  MaxLosses = 1
INVARIANT FactoryDefaults
