SPECIFICATION FairSpec
CONSTANTS
    Tasks = {a, b, c}
    Idle = idle
    NULL = NULL
INVARIANTS TypeOK OneRunner CurrentRuns NoUseAfterFree CleanupIsLast NoRunnableKilled
PROPERTY SwitchCompletes
CHECK_DEADLOCK FALSE
