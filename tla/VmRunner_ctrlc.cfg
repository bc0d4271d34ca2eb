SPECIFICATION FairSpec
CONSTANTS
  CPUs = {c0}
  Boot = c0
  Watchdog = wd
  Timeout = 0
  MaxTime = 0
  MaxCommands = 1
  Interactive = TRUE
  Net = FALSE
PROPERTIES
  CtrlCStopsVm
