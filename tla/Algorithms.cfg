SPECIFICATION AlgorithmsSpec
CONSTANTS
  Planners = {"RRT", "RRTStar", "RRG"}
  Points <- MCPoints
  Start <- MCStart
  Goal <- MCGoal
  Distance <- MCDistance
  FreeStates <- MCFreeStates
  FreePaths <- MCFreePaths
  Step = 2
  Radius = 2
  MaxNodes = 5
INVARIANTS FramesFound CommandsArrive CallsKept PlacesAgree PredictionsHold FilesKept SearchIsSound
CHECK_DEADLOCK FALSE
