SPECIFICATION ShardSpec
CONSTANTS
  Keys = {k1}
  Values <- NumberValues
  Spans = {2}
  SignedSpans <- AroundZero
  Deltas <- Steps
  Patterns <- EveryPattern
  SetShapes <- EveryShape
  Second = 2
  MaxInstant = 2
  I64Min <- Lowest
  I64Max = 1
  Epoch = 7
  Mode = "off"
  Ceiling = 0
  EntryOverhead = 1
  AppendFails = TRUE
  MaxNow = 2
INVARIANTS ReplicaAgrees MemoryKept
PROPERTIES ShardIsStore CommandsKeep
