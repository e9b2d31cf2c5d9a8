SPECIFICATION Spec
CONSTANTS
  Senders = {a, b}
  Capacity = 3
  MaxBytes = 4
  MaxOpens = 2
  PartialWrites = TRUE
  PortErrors = TRUE
INVARIANTS WireInOrder OneTransmission NothingStranded
PROPERTIES NothingLost AllSent
CHECK_DEADLOCK FALSE
