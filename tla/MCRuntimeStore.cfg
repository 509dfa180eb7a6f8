CONSTANTS
  Process = {p1, p2}
  Operations <- AllOperations
  None = None
  MaxCalls = 3
  MaxDirectories = 3
  MaxTroubles = 2
SPECIFICATION Spec
INVARIANTS
  OneInstaller
  SelectedWasProbed
  AbortedNotSelected
  LockHasOwner
PROPERTIES
  ReadyLostOnlyByRemove
  CallsEnd
CHECK_DEADLOCK FALSE
