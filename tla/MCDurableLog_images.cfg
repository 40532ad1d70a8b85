CONSTANTS
    e1 = e1
    e2 = e2
    Executors = {e1, e2}
    Policy = "never"
    Budget = 1
    Grain = 1
    SegmentBatches = 1
    Floor = 2
    ImageFloor = 2
    ScanTicks = 0
    MaxBatch = 2
    MaxFaults = 1
    MaxSaves = 0
    MaxStops = 0
SYMMETRY ExecutorSymmetry
SPECIFICATION PartsSpec
CHECK_DEADLOCK FALSE
INVARIANTS ProvenSurvives ImageNotAheadOfLog SavedIsDurable CleanStopKeepsAll NothingLostInSilence
