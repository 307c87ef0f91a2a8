SPECIFICATION Spec
CONSTANTS
    r1 = r1
    r2 = r2
    t1 = t1
    t2 = t2
    Reader <- OneReader
    Req <- OneReq
    MaxLoss = 0
    MaxDup = 0
    MaxSqlFail = 0
PROPERTY NoResurrection
CHECK_DEADLOCK FALSE
