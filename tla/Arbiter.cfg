CONSTANTS
  Ids = {i1, i2, i3}
  None = None
  Configs <- FullConfigs
  MaxIncomplete = 1
  Vanishing = TRUE
  SameFrameSwap = FALSE
SPECIFICATION Spec
SYMMETRY IdSymmetry
INVARIANT EveryPressIsOwned
PROPERTIES CleanHandover NoTapAfterPress
CHECK_DEADLOCK FALSE
