SPECIFICATION FairSpec
CONSTANTS
    c1 = c1
    c2 = c2
    c3 = c3
    Callers = {c1, c2, c3}
    Privates = {c1}
    Halters = {c1, c2}
    Failing = {c1}
    Default = default
    Events = events
    Idle = idle
    NULL = NULL
    HaltSems = {h1, h2}
    Results <- MCResults
    IntSize = 32
INVARIANTS TypeOK StackFrameLive OwnResult QueueServed NoFreedQueue HaltIsLast
PROPERTY Answered
CHECK_DEADLOCK FALSE
