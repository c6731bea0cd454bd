SPECIFICATION Spec
CONSTANTS
    Tasks = {a, b, c}
    Idle = idle
    NULL = NULL
INVARIANT DeadReferenceDropped
SYMMETRY Symmetry
CHECK_DEADLOCK FALSE
