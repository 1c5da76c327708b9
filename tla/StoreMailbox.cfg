SPECIFICATION Spec
CONSTANTS
  k1 = k1
  k2 = k2
  a = a
  b = b
  c = c
  m1 = m1
  m2 = m2
  Worker = {w1, w2}
  Code = {k1}
  Capability = {a, b, c}
  Msg = {m1, m2}
  Bytes <- MCBytes
  Request <- MailboxRequests
  Command = {"terminate"}
  NoOne = NoOne
  NoSession = NoSession
  NoRequest = NoRequest
  MaxSessions = 1
  TTL = 1
  MaxLifetime = 2
  SecondTicks = 1
  QueueMax = 2
  BytesMax = 3
  MaxTime = 1
  MaxSent = 2
SYMMETRY Workers
INVARIANTS FifoDelivery
PROPERTIES ImplementsMailbox
