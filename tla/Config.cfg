SPECIFICATION Spec
CONSTANTS
  Backends = {"AVR", "ESP32", "STM32"}
  Cells <- ConfigCells
  FirstContents <- ErasedBoard
  Requests <- TypicalRequests
  MaxLosses = 2
INVARIANTS TypeOK OnRing InstanceIsLive InstanceAsConfigured
PROPERTY CellsAsConfigured
