SPECIFICATION FairSpec
CONSTANTS
    Threads = {t1, t2}
    Kern = kern
    NR_IRQS = 2
    SemMax = 1
    MaxCalls = 1
    NoItem = NoItem
PROPERTIES Delivered HaltExits ImplementsQueue
CHECK_DEADLOCK FALSE
