SPECIFICATION Spec
CONSTANTS
  SendDials = 1
  RecvDials = 1
  Dials <- MCDials
  Attempts = 1
  NoConn = NoConn
INVARIANTS UnforcedAgreement OneSurvivor NoWorkerBlocks
CHECK_DEADLOCK FALSE
