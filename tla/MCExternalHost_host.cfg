SPECIFICATION HostSpec
CONSTANTS
  a1 = a1
  a2 = a2
  Calls = {a1, a2}
  Advertised = 0
  HostCap = 0
  MaxPending = 2
  PipeRoom = 1
  MaxFaults = 1
INVARIANTS
  HealthyKept
PROPERTIES
  EveryWaitEnds
