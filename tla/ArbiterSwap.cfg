CONSTANTS
  Ids = {i1, i2, i3}
  None = None
  Configs <- FullConfigs
  MaxIncomplete = 0
  Vanishing = FALSE
  SameFrameSwap = TRUE
SPECIFICATION Spec
SYMMETRY IdSymmetry
CHECK_DEADLOCK FALSE
INVARIANT WireFollowsSources
