SPECIFICATION WindowsSpec
CHECK_DEADLOCK FALSE
CONSTANTS
  kFlushThreshold = 3
  kMaxPending = 3
  MaxTokens = 4
  MaxReports = 1
  Cpus = 2
  WhpCommands = 2
  Timed = TRUE
  TypedBytes = 4
  ReadChunks = {1, 2}
  kHostInputQueueLimit = 2
  kHostInputPumpChunk = 2
  UartRoom = 1
  MaxInterrupts = 1
  BufBytes = 2
  RxBurst = 1
  kExitDrainPolls = 2
  MaxAttempts = 2
  PtyLimit = 1
  MaxWritten = 2
  MaxKeys = 2
INVARIANTS
  OutputSafe
  WhpSafe
  InputSafe
  HelperSafe
PROPERTIES
  OutputLive
  WhpLive
  InputLive
  HelperLive
