CONSTANTS
  NumberOf <- Numbers
  DecimalOf <- Decimals
  NotFinite <- NoNumber
  EditOf <- AllEdits
  Triggers <- Bindable
  UnknownFlags <- Strange
  Paths <- Files
  InitialDisks <- Disks
  FirstLines <- SoundOrSlipped
  LaterLines <- WithoutEmission
  MaxRuns = 2
  MaxU64 = 1000
  Before <- Dispositions
  MaxHandlers = 2
SPECIFICATION MCSpec
INVARIANTS
  SavedAsAsked
  AcceptedRunsHaveAProfile
  EmissionAccountedFor
  RecoveryWithinPolicy
  HandlerInOrder
CHECK_DEADLOCK FALSE
