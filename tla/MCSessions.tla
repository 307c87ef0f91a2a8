---------------------------- MODULE MCSessions -----------------------------
EXTENDS Sessions, TLC

CONSTANTS p1, p2, scanner, t1, t2

TwoClients == {p1, p2}
TwoTokens == {t1, t2}
OneToken == {t1}
=============================================================================
