---------------------------- MODULE MCQueryFlow ----------------------------
EXTENDS QueryFlow, TLC

CONSTANTS r1, r2, t1, t2

MCReq == {r1, r2}
OneReq == {r1}
MCReader == {t1, t2}
OneReader == {t1}
=============================================================================
