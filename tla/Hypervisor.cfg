CONSTANTS
  m1 = m1
  m2 = m2
  m3 = m3
  p1 = p1
  p2 = p2
  g1 = g1
  Regions = {0}
  MAX_VMS = 2
  Mdevs = {m1, m2, m3}
  Procs = {p1, p2}
  VmOf <- MCVmOf
  PidOf <- MCPidOf
  NCpid = 2
  Gvas = {g1}
  MaxMaps = 1
  MaxEnds = 1
  MaxCalls = 2
  Environments <- MCEnvironments
  Created <- MCCreated
SPECIFICATION Spec
CHECK_DEADLOCK FALSE
INVARIANTS OwnIdentifier OnlyPinned  GuestSeesRegions
PROPERTIES GuestServed
