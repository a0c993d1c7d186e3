---------------------------- MODULE MCActivityLog ----------------------------
EXTENDS ActivityLog, TLC

CONSTANTS p1, p2, p3

ThreeProcs == {p1, p2, p3}

Symmetry == Permutations(Proc)
=============================================================================
