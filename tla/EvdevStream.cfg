SPECIFICATION StreamSpec
CONSTANTS
  Slots = {s0, s1}
  FirstSlot = s0
  Ids = {1, 2, 3}
  Values = {1, 2, 3}
  Axes = {x}
  Buttons = {left}
  None = None
  Capacity = 4
  MaxBatch = 3
  MaxPackets = 5
INVARIANTS CaughtUp FramesAreTrue
CHECK_DEADLOCK FALSE
