SPECIFICATION KeyspaceSpec
CONSTANTS
    Keys = {1, 2, 3}
    Values = {1, 2}
    Deadlines = {}
    HashBits = 2
    Hash <- SpreadHash
    NoKey = 0
    InitialBuckets = 1
    ClockSize = 1
    EntryOverhead = 3
    BucketOverhead = 1
    KeyBytes = 1
    RehashBuckets = 1
    SweepBudget = 1
    Samples = 1
    Walks = FALSE
    MaxNow = 0
    EntriesPerTick = 1
    MaxRecords = 2
INVARIANTS TableSound WalkVisitsAll ImageAndLog
PROPERTIES CursorsArrive TableIsKeyspace
