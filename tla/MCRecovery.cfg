SPECIFICATION RecoverySpec
CONSTANT None = None
CHECK_DEADLOCK FALSE
INVARIANTS StateWasServed DurableOrReported ReadsTheIntact
