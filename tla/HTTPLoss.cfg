SPECIFICATION Spec
CONSTANTS
  sender = sender
  receiver = receiver
  Client <- TheClients
  RoleOf <- TheRoles
  Addr <- TheAddrs
  Limit <- MessageLimits
  Code = {"code"}
  MaxPolls = 2
  QueueMax = 1
  NoOne = NoOne
  NoBox = NoBox
  MaxHandlers = 3
  MaxCalls = 3
  MaxAway = 1
  MaxFaults = 1
  Calls <- Messages
  MaxWindows = 0
INVARIANTS NoSilentLoss BusyOnlyIfAway
PROPERTIES PollerIsServed
CHECK_DEADLOCK FALSE
