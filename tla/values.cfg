\* Two variables, three buffers, trees of up to two levels; trees with more than
\* three elements in all are checked but not changed. Any allocation may fail.
SPECIFICATION Spec
CONSTANTS
    Vars = {v1, v2}
    Bufs = {b1, b2, b3}
    MaxLen = 4
    MaxDepth = 2
    MaxEntries = 3
    NoBuf = NoBuf
    NoMemory = TRUE
CONSTRAINT Small
SYMMETRY Symmetry
INVARIANTS
    TypeOK
    CountsExact
\* the model stops where the program is aborted or writes outside a block
CHECK_DEADLOCK FALSE
