SPECIFICATION FairSpec
CONSTANTS
    BatchSize = 2
    MaxBuffer = 6
    MaxEvents = 7
    MaxFail = 2
INVARIANTS TypeOK LosslessIfShort InOrderIfShort NoRepeatIfShort
PROPERTY Drains
\* All events have been pushed.
CHECK_DEADLOCK FALSE
