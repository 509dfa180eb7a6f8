CONSTANTS
  Process = {p1, p2}
  Operations <- InstallOnly
  None = None
  MaxCalls = 2
  MaxDirectories = 3
  MaxTroubles = 0
SPECIFICATION Spec
INVARIANT
  OneDirectoryAtRest
CHECK_DEADLOCK FALSE
