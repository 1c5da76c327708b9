SPECIFICATION PromptSpec
CONSTANTS
  Code = code
  QueueMax = 8
  MaxDeferred = 2
  NoOne = NoOne
  NoBox = NoBox
INVARIANTS TypeOK NeverConfused NoMappingLeak
PROPERTIES SyncCompletes
CHECK_DEADLOCK FALSE
