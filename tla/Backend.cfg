SPECIFICATION Spec
CONSTANTS
  Seats = {1}
  Devices = {2, 3}
  MaxEvents = 6
  MaxTokens = 5
  Registrations = {{"overview", "overview-close"}, {}}
  Required = {"overview"}
  MaxActions = 1
  MaxToggles = 2
INVARIANTS EndpointsInStep NothingLeaks
PROPERTIES InOrder Directional StopEnds
CHECK_DEADLOCK FALSE
