SPECIFICATION PromptSpec
CONSTANTS
  sender = sender
  receiver = receiver
  Client <- TheClients
  RoleOf <- TheRoles
  Addr <- TheAddrs
  Limit <- TheLimits
  Code = {"code"}
  MaxPolls = 2
  QueueMax = 2
  NoOne = NoOne
  NoBox = NoBox
  MaxHandlers = 2
  MaxCalls = 2
  MaxAway = 1
  MaxFaults = 0
  Calls <- TheCalls
  MaxWindows = 1
INVARIANTS TypeOK NarrowShieldsGlobal
PROPERTIES MessageArrives
CHECK_DEADLOCK FALSE
