SPECIFICATION Spec
CONSTANTS
  TxRoom = 1
  RxRoom = 1
  PortErrors = TRUE
  MaxResets = 1
PROPERTIES HandledWhileOpen StopEnds ModeAgreed
CHECK_DEADLOCK FALSE
