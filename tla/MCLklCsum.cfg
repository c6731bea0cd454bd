SPECIFICATION Spec
CONSTANTS
    Byte = 4
    Long = 65536
    MaxBytes = 4
INVARIANT AddsInSum
CHECK_DEADLOCK FALSE
