CONSTANTS
  Ids <- FourIds
  None = 0
  Configs <- LowerConfigs
  MaxIncomplete = 0
  Vanishing = FALSE
  SameFrameSwap = FALSE
  Modes <- UpperModes
  MaxTouches = 4
  MaxFingers = 3
SPECIFICATION UpperSpec
INVARIANTS WireFollowsSources OwnersAgree RouteFollowsGesture
PROPERTY ToldInTurn
CHECK_DEADLOCK FALSE
