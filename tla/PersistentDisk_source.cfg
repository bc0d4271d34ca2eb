SPECIFICATION DiskSpec
CHECK_DEADLOCK FALSE
CONSTANTS
  NoFile = NoFile
  Sources = {s1,s2}
  Sizes = {1,2}
  MaxCalls = 2
  MaxWrites = 0
  MaxDiskFaults = 0
  MaxDiskCrashes = 0
INVARIANTS SourceRemembered
