SPECIFICATION NetSpec
CONSTANTS
    Devs = {d1, d2}
    RingLen = 2
    MaxFrames = 3
    MaxFaults = 2
    NULL = NULL
    Byte = 4
    Long = 65536
    MaxBytes = 6
INVARIANTS TypeOK RingConserved FramesInOrder NoUseAfterFree
INVARIANTS ChecksumVerifies CsumFeeds
PROPERTY StopReturns
CHECK_DEADLOCK FALSE
