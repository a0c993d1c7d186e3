------------------------------ MODULE MCStoreTx ------------------------------
EXTENDS StoreTx, TLC

CONSTANTS d1, d2, s1, s2, x1, x2, x3, c1, c2

TwoDids     == {d1, d2}
OneDid      == {d1}
TwoSubs     == {s1, s2}
TwoHashes   == {x1, x2}
ThreeHashes == {x1, x2, x3}
TwoConns    == {c1, c2}

Symmetry == Permutations(DID) \cup Permutations(Sub) \cup Permutations(Hash)
              \cup Permutations(Conn)
=============================================================================
