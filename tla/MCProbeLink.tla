---------------------------- MODULE MCProbeLink ----------------------------
EXTENDS ProbeLink, TLC

CONSTANTS a, b, c

ThreeProbes == {a, b, c}
TwoProbes == {a, b}
OneProbe == {a}
OneId == [p \in OneProbe |-> "id"]
SameId == [p \in TwoProbes |-> "id"]
AllSameId == [p \in ThreeProbes |-> "id"]

\* a and b have the same ID and are both compatible.
Symmetry == Permutations(TwoProbes)
=============================================================================
