SPECIFICATION Spec
CONSTANTS
    a = a
    b = b
    c = c
    Probe <- TwoProbes
    IdOf <- SameId
    Compatible <- TwoProbes
    MaxConn = 1
    SlowHandlers = TRUE
INVARIANT UniqueProbeId
CHECK_DEADLOCK FALSE
