CONSTANTS
  Provider = {"faster-whisper", "nemo-asr", "qwen3-asr", "qwen3-asr without its forced aligner"}
  Request = {r1, r2}
  None = None
  MaxWorkers = 4
  MaxCalls = 4
  MaxDeaths = 2
  MaxInterrupts = 1
SPECIFICATION SessionSpec
INVARIANTS
  OwnTranscript
  OneModel
  NoStrayWorker
PROPERTIES
  CallsReturn
CHECK_DEADLOCK FALSE
