---------------------------- MODULE MCHandleStore ----------------------------
EXTENDS HandleStore, TLC

CONSTANTS d1, d2, s1, s2, s3, x1, x2, x3

TwoDids     == {d1, d2}
ThreeSubs   == {s1, s2, s3}
ThreeHashes == {x1, x2, x3}

\* Once the hashes are spent and the tables empty nothing can happen.
Symmetry == Permutations(DID) \cup Permutations(Sub) \cup Permutations(Hash)
=============================================================================
