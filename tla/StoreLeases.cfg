SPECIFICATION Spec
CONSTANTS
  k1 = k1
  k2 = k2
  a = a
  b = b
  c = c
  m1 = m1
  m2 = m2
  Worker = {w1, w2}
  Code = {k1, k2}
  Capability = {a, b, c}
  Msg = {m1, m2}
  Bytes <- MCBytes
  Request <- LeaseRequests
  Command = {"terminate", "drain"}
  NoOne = NoOne
  NoSession = NoSession
  NoRequest = NoRequest
  MaxSessions = 1
  TTL = 2
  MaxLifetime = 3
  SecondTicks = 2
  QueueMax = 1
  BytesMax = 3
  MaxTime = 6
  MaxSent = 0
SYMMETRY Workers
INVARIANTS LeaseWithinLifetime IndexCoversActive
PROPERTIES LeaseNeverShrinks OnlyStaleRemoved
