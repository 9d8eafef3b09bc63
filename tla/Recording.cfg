SPECIFICATION FairSpec
CONSTANTS
  MaxEvents = 3
  MaxTime = 2
  MaxBatch = 2
INVARIANTS OutputAccountedFor ReadsBack
PROPERTY EndsInOrder
