SPECIFICATION Spec
CONSTANTS
  a = a  b = b
  Chunk = {a, b}
  File <- MCFile
  Trailer = Trailer
  TrailerLength = 1
  Path = {1}
  NoPath = 0
  Absent = Absent  Foreign = Foreign
  Legacy = TRUE
INVARIANTS ReportTellsFile
CHECK_DEADLOCK FALSE
