---------------------------- MODULE MCEndpoints ----------------------------
EXTENDS Endpoints, TLC

CONSTANTS r1, r2, e1, u1

OneReq == {r1}
TwoReq == {r1, r2}
OneEp == {e1}
OneUser == {u1}
SoleUser == [r \in OneReq |-> u1]
SameUser == [r \in TwoReq |-> u1]
NoBadJson == {}
SecondBad == {r2}
=============================================================================
