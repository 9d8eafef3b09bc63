SPECIFICATION ReplaySpec
CONSTANTS
  Slots = {s0}
  FirstSlot = s0
  Ids = {i1, i2}
  Axes = {x, y}
  Values = {v1}
  Buttons = {b}
  None = None
  Times = {0, 1}
SYMMETRY IdSymmetry
INVARIANTS InStepToTheEnd
PROPERTIES FramesAreFaithful StopsAtTheOffence
CHECK_DEADLOCK FALSE
