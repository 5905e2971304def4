SPECIFICATION Spec
CONSTANTS
  Parallel = 2
  Rows <- EmptyAndTwo
  MaxRefusals = 1
  Before <- OneBefore
  Copies = {0, 1}
INVARIANTS LogsInOrder ReplicaIsPrefix
PROPERTIES LogsReplayed ReplicaCatchesUp
CHECK_DEADLOCK FALSE
