SPECIFICATION PromptSpec
CONSTANTS
  s1 = s1  r1 = r1  r2 = r2  x1 = x1
  ip1 = ip1  ip2 = ip2  j1 = j1  j2 = j2  t1 = t1  t2 = t2
  Conn = {s1, r1, r2, x1}
  Source = {ip1, ip2}
  Session = {j1, j2}
  Token = {t1, t2}
  NoConn = NoConn
  SourceOf <- MCSourceOf
  Hello <- MCHello
  Token2 = t1
  LiveLimit = 2
  LivePerIPLimit = 2
  WaitingLimit = 1
  WaitingPerIPLimit = 1
INVARIANTS TypeOK SlotsHeld PairsDisjoint CountsExact
PROPERTIES PairSurvivesTimer DeadWaiterLeaves PeerLossPropagates EverySlotReturned
CHECK_DEADLOCK FALSE
