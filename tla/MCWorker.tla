------------------------------- MODULE MCWorker -------------------------------
EXTENDS Worker, TLC

CONSTANTS d1, d2, s1, s2, x1, x2, p1, p2

TwoDids  == {d1, d2}
TwoSubs  == {s1, s2}
TwoKeys  == {x1, x2}
OneProc  == {p1}
TwoProcs == {p1, p2}

Symmetry == Permutations(DID) \cup Permutations(Sub) \cup Permutations(Key)
              \cup Permutations(Proc)
=============================================================================
