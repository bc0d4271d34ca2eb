SPECIFICATION FairSpec
CONSTANTS
  CPUs = {c0, c1}
  Boot = c0
  Watchdog = wd
  Timeout = 0
  MaxTime = 0
  MaxCommands = 1
  Interactive = FALSE
  Net = FALSE
PROPERTIES
  RequestsComplete
