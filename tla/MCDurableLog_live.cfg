CONSTANTS
    e1 = e1
    e2 = e2
    Executors = {e1, e2}
    Policy = "always"
    Budget = 1
    Grain = 1
    SegmentBatches = 1
    Floor = 2
    ImageFloor = 2
    ScanTicks = 1
    MaxBatch = 2
    MaxFaults = 1
    MaxSaves = 0
    MaxStops = 0
SPECIFICATION LiveSpec
CHECK_DEADLOCK FALSE
PROPERTIES ClientsAnswered WritesResume StopCompletes
