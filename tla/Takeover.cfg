CONSTANTS
  CountdownSeconds = 2
  MaxDuration = 2
  PollQuantum = 2
  TapGap = 1
  MaxBatch = 2
SPECIFICATION FairSpec
INVARIANT EndsClean
PROPERTIES StepsInOrder NothingWaitsForInput
