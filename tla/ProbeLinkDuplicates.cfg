SPECIFICATION Spec
CONSTANTS
    a = a
    b = b
    c = c
    Probe <- ThreeProbes
    IdOf <- AllSameId
    Compatible <- TwoProbes
    MaxConn = 1
    SlowHandlers = TRUE
SYMMETRY Symmetry
INVARIANTS NotItsOwnDuplicate RegisteredIsRead
\* A probe process may exit for good: then nothing is left to do.
CHECK_DEADLOCK FALSE
