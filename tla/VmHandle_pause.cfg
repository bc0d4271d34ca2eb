SPECIFICATION HandleSpec
CONSTANTS
  CPUs = {c0, c1}
  Boot = c0
  Watchdog = wd
  Timeout = 0
  MaxTime = 0
  MaxCommands = 0
  Interactive = FALSE
  Net = FALSE
  MaxCalls = 3
  Sequential = TRUE
  Abortable = FALSE
INVARIANTS
  PauseParksGuest
