----------------------------- MODULE MCRateLimit -----------------------------
EXTENDS RateLimit, TLC

CONSTANTS r1, r2, r3, i1, i2, d1, h1

TwoReqs   == {r1, r2}
ThreeReqs == {r1, r2, r3}
OneIp     == {i1}
TwoIps    == {i1, i2}
OneTrusted == {i2}
OneDid    == {d1}
OneHost   == {h1}

ShortWindows == [g \in Gate |-> IF g = "burst" THEN 1 ELSE 2]
LimitOne     == [g \in Gate |-> 1]
LimitTwoThenOne == [g \in Gate |-> IF g = "burst" THEN 2 ELSE IF g = "global" THEN 3 ELSE 1]

Symmetry == Permutations(Req)
=============================================================================
