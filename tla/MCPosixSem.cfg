SPECIFICATION FairSpec
CONSTANTS
    Threads = {t1, t2, t3, t4}
    NULL = NULL
    InitVal = 0
    MaxCalls = 2
    MaxSpurious = 1
INVARIANTS TypeOK NoLostWakeup FreeAfterDown
PROPERTY ImplementsSemaphore
CHECK_DEADLOCK FALSE
