SPECIFICATION Spec
CONSTANTS
  Msrs <- MCMsrs
  Existing <- MCExisting
  Values <- MCValues
  Ports <- MCPorts
CHECK_DEADLOCK FALSE
INVARIANTS
  ExitsExact
  MsrsTransparent
