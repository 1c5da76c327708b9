SPECIFICATION PromptSpec
CONSTANTS
  a = a  b = b
  Chunk = {a, b}
  File <- MCFile
  Trailer = Trailer
  TrailerLength = 1
  Path = {1, 2}
  NoPath = 0
  Absent = Absent  Foreign = Foreign
  Legacy = TRUE
INVARIANTS TypeOK SentIsKept ReceiverKnowsLast NoDebris
PROPERTIES NoClobber FailureSpreads QuietEnds EveryoneEnds
CHECK_DEADLOCK FALSE
