SPECIFICATION Spec
CONSTANTS
  InputType = "joystick"
  QueueSize = 2
  Axes = {"kX"}
  AxisValues = {0, 1, 2}
  Deadband = 1
  LeverValues <- TwoPositions
  Timeout = 1
  MaxFrames = 1
  SignalAt = {"init_input", "init_callback", "init_base", "init_fsm", "spawn", "enter",
              "test", "drain", "command", "transit", "sleep"}
  SignalEarly = TRUE
INVARIANT RobotStaysStopped
CHECK_DEADLOCK FALSE
