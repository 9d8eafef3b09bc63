CONSTANTS
  Axes = {"x", "y"}
  Faults = {"portal", "poll", "disconnect", "close"}
SPECIFICATION Spec
INVARIANTS DesktopAccountedFor AcknowledgedReleaseIsNeutral
PROPERTY KeepsContract
