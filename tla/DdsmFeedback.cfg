SPECIFICATION Spec
CONSTANTS
  RxSize = 8
  WordSize = 16
  FrameLength = 3
  MotorId = 1
  Frames <- FramesOnLine
  IndexStarts = {0, 13}
  MaxFrames = 3
  MaxFaults = 1
INVARIANTS RxIsStream FeedbackIsNewest
PROPERTY DecodingEnds
CHECK_DEADLOCK FALSE
