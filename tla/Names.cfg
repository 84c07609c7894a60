SPECIFICATION Spec
CONSTANTS
  Backends = {"AVR", "ESP32", "STM32"}
  Cells <- NameCells
  FirstContents <- ErasedBoard
  NameSize = 3
  Default <- ShortDefault
  Offered <- ShortNames
  NoAnswer = NoAnswer
  MaxLosses = 3
INVARIANTS TypeOK AnswerIsName NameSurvives
