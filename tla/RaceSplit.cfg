SPECIFICATION Spec
CONSTANTS
  SendDials = 1
  RecvDials = 1
  Dials <- MCDials
  Attempts = 0
  NoConn = NoConn
INVARIANTS NoSplitBrain
CHECK_DEADLOCK FALSE
