SPECIFICATION HostSpec
CHECK_DEADLOCK FALSE
CONSTANTS
  NoFile = NoFile
  Sources = {s1,s2}
  Sizes = {1,2}
  MaxCalls = 3
  MaxWrites = 2
  MaxDiskFaults = 2
  MaxDiskCrashes = 1
  Sessions = {u1, u2}
  None = None
  Requests <- MCRequests
  MaxFaults = 1
  MaxCrashes = 1
  PageCount = 3
  WordBits = 2
  ProgramLength = 3
  MaxSnapCalls = 2
  MaxSnapFaults = 1
INVARIANTS
  DiskKept
  ImagesSound
  SessionsEndClean
  SnapshotExact
PROPERTIES
  NeverShrinks
SYMMETRY Symmetry
