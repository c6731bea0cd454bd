SPECIFICATION Spec
CONSTANTS
    MaxDelta = 3
    PipeSize = 3
    MaxReqs = 4
    MaxErrors = 0
INVARIANT TriggerSafe
CHECK_DEADLOCK FALSE
