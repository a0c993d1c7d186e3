---------------------------- MODULE MCWorkerPolicy ----------------------------
EXTENDS WorkerPolicy, TLC

CONSTANTS a1, p1, p2

TwoProcs == {p1, p2}

\* A VIP on a banned PDS, or somebody who asks for a reserved handle.
PdsOrReserved == {[NoLists EXCEPT !["vipDids"] = {a1}, !["blockPds"] = {a1}],
                  [NoLists EXCEPT !["reservedHandles"] = {a1}]}

SomeChanges == {<<"add", "blockDids", a1>>, <<"remove", "blockDids", a1>>,
                <<"add", "blockedKeywords", a1>>, <<"remove", "reservedHandles", a1>>}

LimitOne == [g \in Guard |-> IF g = "global" THEN 2 ELSE 1]

Symmetry == Permutations(Proc)
=============================================================================
