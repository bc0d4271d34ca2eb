SPECIFICATION Spec
ACTION_CONSTRAINT ClockBound
CONSTANTS
  CPUs = {c0, c1}
  Boot = c0
  Watchdog = wd
  Timeout = 1
  MaxTime = 3
  MaxCommands = 2
  Interactive = TRUE
  Net = TRUE
INVARIANTS
  ClockAccounting
  PausedCountExact
  SignalsOnlyWithHandler
  NoThreadOutlivesRunVm
  ReportsTheWinner
PROPERTIES
  ExitedIsFinal
