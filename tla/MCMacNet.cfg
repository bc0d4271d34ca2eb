SPECIFICATION MacNetSpec
CHECK_DEADLOCK FALSE
CONSTANTS
  HvfCpus = 2
  HvfCommands = 1
  HvfTimed = TRUE
  CpuOns = 1
  v1 = v1
  v2 = v2
  v3 = v3
  VMs <- MCVMs
  Taps <- MCTaps
  Octets <- MCOctets
  TapOf <- MCTapOf
  OctetOf <- MCOctetOf
  Forwards <- MCForwards
  HostPorts = {1, 2}
  NoLink = NoLink
  MaxRuns = 3
  MaxFaults = 2
INVARIANTS
  HvfSafe
  NetworkSafe
PROPERTIES
  HvfRequests
  Unwinds
