SPECIFICATION FairSpec
CONSTANTS
  ModeKeys = {"FixedStand", "FreeStand", "SwingTest", "BalanceTest"}
  ControlKeys = {"RightStickLeft"}
  Limit = 1
  MaxModeKeys = 3
  MaxControlKeys = 2
  MaxSamples = 1
INVARIANTS OneStaleKey GainsFitMode EmptySampleUnused
PROPERTY StopCompletes
CHECK_DEADLOCK FALSE
