SPECIFICATION Spec
CONSTANTS
  p1 = p1
  p2 = p2
  q1 = q1
  Process <- TheProcesses
  HostOf <- TheHosts
  Ports <- ThePorts
  Gateways <- TheGateways
  Free = Free
  upnpCleanupAttempts = 2
  MaxFaults = 1
INVARIANTS NoStray
PROPERTIES DeleteSpares
CHECK_DEADLOCK FALSE
