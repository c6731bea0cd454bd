SPECIFICATION Spec
CONSTANTS
    Threads = {t1, t2, t3}
    Disks = {d1, d2}
    FsNames = {0, 2}
    MaxFaults = 1
SYMMETRY Symmetric
INVARIANTS TypeOK MountExclusive NothingLeft
