CONSTANTS
    e1 = e1
    e2 = e2
    Executors = {e1}
    Policy = "always"
    Budget = 1
    Grain = 1
    SegmentBatches = 1
    Floor = 2
    ImageFloor = 2
    ScanTicks = 1
    MaxBatch = 3
    MaxFaults = 2
    MaxSaves = 0
    MaxStops = 0
SPECIFICATION OneSpec
CHECK_DEADLOCK FALSE
INVARIANTS AcknowledgedSurvives AnsweredOnce
PROPERTIES FailedSegmentStaysClosed
