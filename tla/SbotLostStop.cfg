SPECIFICATION Spec
CONSTANTS
  InputType = "rc"
  QueueSize = 1
  Axes = {}
  AxisValues = {0}
  Deadband = 1
  LeverValues <- TwoPositions
  Timeout = 1
  MaxFrames = 1
  SignalAt = {"enter"}
  SignalEarly = FALSE
PROPERTY StopCompletes
