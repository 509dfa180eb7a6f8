SPECIFICATION PathSpec
CONSTANTS
  Transcripts <- NoPieces
  Outputs <- MCOutputs
  OwnerSize = 3
  Overlap = 1
  MaxDuration = 5
  MaxText = 6
  MaxRate = 1
  Silence = 2
  RuleSilence = 1
INVARIANTS
  ProposalsKept
  NearLimits
  CutsForced
  TextKept
  WordsDivided
  SegmentsFit
CHECK_DEADLOCK FALSE
