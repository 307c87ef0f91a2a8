SPECIFICATION Spec
CONSTANTS
    BatchSize = 2
    MaxBuffer = 6
    MaxEvents = 5
    MaxFail = 0
INVARIANT Lossless
\* All events have been pushed.
CHECK_DEADLOCK FALSE
