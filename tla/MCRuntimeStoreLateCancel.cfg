CONSTANTS
  Process = {p1}
  Operations <- RepairOnly
  None = None
  MaxCalls = 1
  MaxDirectories = 2
  MaxTroubles = 1
SPECIFICATION Spec
PROPERTY
  CancelKeepsPrevious
CHECK_DEADLOCK FALSE
