SPECIFICATION FairSpec
CONSTANTS
  This_Station = 1
  InputBufferSize = 9
  Tframe_abort = 1
  ClockSize = 3
  EventLimit = 2
  Frames <- UsualFrames
  Damage <- LineDamage
  MaxFrames = 2
  MaxDamage = 1
INVARIANTS
  TypeOK
  WithinBuffer
PROPERTIES
  OnlyFramesSent
  FrameInStepArrives
  SilenceEndsFrame
  LoopEnds
CHECK_DEADLOCK FALSE
