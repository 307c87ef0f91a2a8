SPECIFICATION FairSpec
CONSTANTS
    r1 = r1
    r2 = r2
    t1 = t1
    t2 = t2
    Reader <- MCReader
    Req <- OneReq
    MaxLoss = 1
    MaxDup = 1
    MaxSqlFail = 2
INVARIANTS TypeOK LogAgrees
PROPERTIES GoneStaysGone ImplementsQueryLife Answered LogSettles
\* A query that is answered and cancelled has no step left.
CHECK_DEADLOCK FALSE
