------------------------------ MODULE MCRegistry ------------------------------
EXTENDS Registry, TLC

CONSTANTS d1, d2, s1, s2, s3, s4, h1, k1, p1, p2, p3, x1, x2, x3

OneDid    == {d1}
OneSub    == {s1}
TwoDids   == {d1, d2}
TwoSubs   == {s1, s2}
ThreeSubs == {s1, s2, s3}
FourSubs  == {s1, s2, s3, s4}
TwoProcs  == {p1, p2}
TwoSecrets == {x1, x2}
ThreeSecrets == {x1, x2, x3}

\* k1 is a substring of s1 only.
HitsS1 == [k \in {k1} |-> {s1}]

NoHits == [k \in {} |-> {}]

NoList  == {}
VipOnly == {<<"vip_dids", d1>>}
Bans    == {<<"blocked_dids", d1>>, <<"blocked_pds", h1>>,
            <<"reserved_handles", s1>>, <<"blocked_keywords", k1>>}

ProcSymmetry == Permutations(Proc) \cup Permutations(Secret)
FullSymmetry == Permutations(Proc) \cup Permutations(Secret)
                  \cup Permutations(DID) \cup Permutations(Sub)
=============================================================================
