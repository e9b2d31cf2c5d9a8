SPECIFICATION Spec
CONSTANTS
  Drivers = {"Joystick", "Keyboard", "HidEventListener"}
  Events <- MCEvents
  AxisRange <- MCAxisRange
  keycode_map <- MCKeycodeMap
  KernelQueue = 2
  MaxEvents = 4
  MaxOpens = 2
INVARIANT InputInOrder
PROPERTIES NoLateCallback InputIsHandled StopReturns
CHECK_DEADLOCK FALSE
