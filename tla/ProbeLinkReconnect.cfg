SPECIFICATION FairSpec
CONSTANTS
    a = a
    b = b
    c = c
    Probe <- OneProbe
    IdOf <- OneId
    Compatible <- OneProbe
    MaxConn = 3
    SlowHandlers = FALSE
INVARIANTS TypeOK RegisteredIsRead LiveIsRegistered NotItsOwnDuplicate
PROPERTY Stabilises
\* A probe process may exit for good: then nothing is left to do.
CHECK_DEADLOCK FALSE
