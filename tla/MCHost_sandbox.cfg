SPECIFICATION HostSpec
CHECK_DEADLOCK FALSE
CONSTANTS
  NoFile = NoFile
  Sources = {s1,s2}
  Sizes = {1,2}
  MaxCalls = 0
  MaxWrites = 0
  MaxDiskFaults = 0
  MaxDiskCrashes = 0
  Sessions = {u1, u2}
  None = None
  Requests <- SandboxRequests
  MaxFaults = 0
  MaxCrashes = 0
  PageCount = 3
  WordBits = 2
  ProgramLength = 3
  MaxSnapCalls = 0
  MaxSnapFaults = 1
INVARIANTS TempCleaned
