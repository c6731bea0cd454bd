SPECIFICATION Spec
CONSTANTS
    Threads = {t1, t2}
    Kern = kern
    NR_IRQS = 2
    SemMax = 2
    MaxCalls = 2
    NoItem = NoItem
SYMMETRY Symmetry
INVARIANTS TypeOK NoLostIrq InOrder ExitAfterPending
CHECK_DEADLOCK FALSE
