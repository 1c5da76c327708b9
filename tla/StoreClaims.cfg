SPECIFICATION Spec
CONSTANTS
  k1 = k1
  k2 = k2
  a = a
  b = b
  c = c
  m1 = m1
  m2 = m2
  Worker = {w1, w2}
  Code = {k1}
  Capability = {a, b, c}
  Msg = {m1, m2}
  Bytes <- MCBytes
  Request <- ClaimRequests
  Command = {"terminate"}
  NoOne = NoOne
  NoSession = NoSession
  NoRequest = NoRequest
  MaxSessions = 1
  TTL = 1
  MaxLifetime = 2
  SecondTicks = 1
  QueueMax = 1
  BytesMax = 3
  MaxTime = 3
  MaxSent = 0
SYMMETRY Workers
INVARIANTS TypeOK SingleOwner
PROPERTIES NoLostUpdate
