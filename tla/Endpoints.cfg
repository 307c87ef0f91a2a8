SPECIFICATION FairSpec
CONSTANTS
    r1 = r1
    r2 = r2
    e1 = e1
    u1 = u1
    Req <- TwoReq
    UserOf <- SameUser
    BadJson <- SecondBad
    Endpoint <- OneEp
    User <- OneUser
    MaxVersion = 2
    MaxResults = 2
    DelaysCnt = 1
    MaxUserSize = 1
    MaxSize = 1
    MaxWakers = 1
    MaxFault = 1
INVARIANTS TypeOK InChargeWithoutFaults
PROPERTIES NoSilentDrop TrimsOldest Drains
\* When nothing is queued and no result is set, the sender sleeps forever.
CHECK_DEADLOCK FALSE
