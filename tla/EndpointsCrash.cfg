SPECIFICATION Spec
CONSTANTS
    r1 = r1
    r2 = r2
    e1 = e1
    u1 = u1
    Req <- OneReq
    UserOf <- SoleUser
    BadJson <- NoBadJson
    Endpoint <- OneEp
    User <- OneUser
    MaxVersion = 1
    MaxResults = 1
    DelaysCnt = 1
    MaxUserSize = 1
    MaxSize = 1
    MaxWakers = 2
    MaxFault = 1
INVARIANT InCharge
CHECK_DEADLOCK FALSE
