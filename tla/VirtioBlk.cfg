SPECIFICATION FairSpec
CONSTANTS
  QueueSize = 2
  IndexMod = 4
  NSectors = 2
  zero = zero
  a = a
  b = b
  Data <- MCData
  Requests <- MCRequests
  Image <- MCImage
  HasOverlay = TRUE
  ReadOnly = FALSE
  None = None
INVARIANTS
  BlkSafe
PROPERTIES
  ImplementsStore
  Completes
