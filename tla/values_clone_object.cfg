\* A clone of a tree that holds an object does not return.
SPECIFICATION Spec
CONSTANTS
    Vars = {v1, v2}
    Bufs = {b1, b2}
    MaxLen = 2
    MaxDepth = 2
    MaxEntries = 4
    NoBuf = NoBuf
    NoMemory = FALSE
INVARIANTS
    CloneReturns
CHECK_DEADLOCK FALSE
