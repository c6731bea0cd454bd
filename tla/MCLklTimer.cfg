SPECIFICATION FairSpec
CONSTANTS
    MaxDelta = 3
    PipeSize = 3
    MaxReqs = 4
    MaxErrors = 1
INVARIANTS TypeOK StaysUntilShutdown OneShot
PROPERTIES TickArrives TimerStops
CHECK_DEADLOCK FALSE
