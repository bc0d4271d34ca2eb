SPECIFICATION DevicesSpec
\* Guests, users and hosts may all fall silent.
CHECK_DEADLOCK FALSE
CONSTANTS
  Pins = {2, 4}
  TimerPin = 2
  UartPin = 4
  PendingLimit = 0
  Timers = {1}
  Full = 8
  Low = 4
  Word = 4
  MaxClock = 6
  MaxWrites = 4
  kRxCapacity = 3
  kFifoSize = 2
  HostBytes = 2
  MaxTx = 2
  MaxUartWrites = 2
  Packets = 3
  Jumbo = {2}
  Buffers = 3
  BadBuffers = {2}
  kRxBacklogLimit = 2
  MaxSends = 1
  MaxResets = 1
  RxLimit = 3
  Typed = 3
  MaxSent = 3
  MaxMasks = 3
  ConsoleLimit = 2
  kMaxQueueSize = 4
  RngQueueSize = 2
  MaxProbes = 2
  MaxSubmits = 3
  Wide = 32
  SectorBytes = 2
  DiskBytes = 5
  Lengths = {1, 2, 4}
  FirstSectors = {0, 1, 2, 16}
  MaxSegments = 2
  MaxBlkRequests = 3
  NicKinds = {"kvm_tap", "kvm_slirp", "hvf_slirp", "hvf_socket", "hvf_vmnet"}
  MaxFrames = 3
  BigFrames = {3}
  MaxBuffers = 3
  ShortBuffers = {2}
  PollLimit = 2
  Forwards = 2
  MaxTransmits = 1
  MaxNicResets = 1
  TableSize = 3
  DescLens = {0, 1, 3}
  FrameLens = {1, 2, 4}
  HdrBytes = 2
  kMaxFrameSize = 4
  RingSize = 2
  IndexWrap = 4
VIEW View
INVARIANTS
  InterruptsKept
  TimersExact
  WhpUartExact
  WhpNetSafe
  SerialExact
  RegistersAgree
  OverlayExact
  FramesKept
  ChainsExact
PROPERTIES
  SafeInjection
  TimersSteady
