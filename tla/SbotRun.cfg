SPECIFICATION Spec
CONSTANTS
  InputType = "rc"
  QueueSize = 1
  Axes = {"kX"}
  AxisValues = {0, 2}
  Deadband = 1
  LeverValues <- ThreePositions
  Timeout = 1
  MaxFrames = 1
  SignalAt = {"command", "sleep"}
  SignalEarly = FALSE
PROPERTIES ModeFollowsLever DeadManStops StopCompletes
CHECK_DEADLOCK FALSE
