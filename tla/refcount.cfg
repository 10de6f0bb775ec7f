\* Two workers with two values each, which may share any of three cells.
SPECIFICATION Spec
CONSTANTS
    s1 = s1
    s2 = s2
    s3 = s3
    s4 = s4
    t1 = t1
    t2 = t2
    Slots = {s1, s2, s3, s4}
    Threads = {t1, t2}
    Cells = {c1, c2, c3}
    Null = Null
    WorkerOf <- MCWorkerOf
    Modulus = 7
SYMMETRY Symmetry
INVARIANTS
    NoUseAfterFree
    CountsExact
PROPERTIES
    FreedByLastHolder
\* a worker stops at a freed cell, and every cell may end up freed
CHECK_DEADLOCK FALSE
