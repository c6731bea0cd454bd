SPECIFICATION Spec
CONSTANTS
    Tasks = {a, b, c}
    Idle = idle
    NULL = NULL
INVARIANT AllocatorExclusive
SYMMETRY Symmetry
CHECK_DEADLOCK FALSE
