SPECIFICATION Spec
CONSTANTS
  PORT_ALLOC_BASE = 1
  PORT_ALLOC_MAX = 6
  OtherPorts = {2}
  ServerBase = 40
  MaxRequests = 3
  Offers <- MCOffers
  None = None
INVARIANTS
  TransportsForwarded
  RequestsForwarded
  SetupNamesProxyPorts
  RelayPaired
  AllocationIsFirstFit
  PortsApart
CHECK_DEADLOCK FALSE
