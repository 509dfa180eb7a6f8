CONSTANTS
  Process = {p1, p2}
  asr = asr
  aligner = aligner
  Key = {asr, aligner}
  old = old
  new = new
  Revision = {old, new}
  Published <- TwoOfAsr
  Request <- Requests
  Dependencies <- AlignerFirst
  None = None
  Torn = Torn
  MaxCalls = 3
  MaxCrashes = 1
SPECIFICATION Spec
SYMMETRY Symmetry
INVARIANTS
  SelectedIsComplete
  TornOnlyWhileWriting
  ReturnsUsable
CHECK_DEADLOCK FALSE
