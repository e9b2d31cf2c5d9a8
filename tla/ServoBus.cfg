SPECIFICATION Spec
CONSTANTS
  Ids = {1, 2}
  FreeIds = {3}
  Positions = {0, 90}
  Default = 0
  MaxRequests = 4
  MaxFaults = 1
  MaxStrays = 1
INVARIANTS AnswerIsExpected EpromRelocked TargetsReached
PROPERTY CallsReturn
CHECK_DEADLOCK FALSE
