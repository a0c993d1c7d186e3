-------------------------- MODULE HandleStoreProofs --------------------------
(* What HandleStore promises, for every set of DIDs, subdomains and hashes. *)
EXTENDS HandleStore, TLAPS

(* A credential in use was recorded as spent: what makes the next one new.  *)
CredSpent == \A d \in DID : cred[d] # None => cred[d] \in spent

IInv == TypeOK /\ TablesAgree /\ OneKeyPerDid /\ CredSpent

LEMMA InitIInv == Init => IInv
  BY NoneAssumption DEF Init, IInv, TypeOK, TablesAgree, OneKeyPerDid, CredSpent, Holdings

LEMMA FirstClaimIInv ==
  ASSUME IInv, NEW d \in DID, NEW s \in Sub, NEW h \in Hash, FirstClaim(d, s, h)
  PROVE  IInv'
  <1>1. TypeOK'
    BY DEF IInv, TypeOK, FirstClaim
  <1>2. h # None
    BY NoneAssumption
  <1>3. TablesAgree'
    BY <1>2, NoneAssumption DEF IInv, TypeOK, TablesAgree, FirstClaim, Holdings
  <1>4. OneKeyPerDid' /\ CredSpent'
    BY <1>2 DEF IInv, TypeOK, OneKeyPerDid, CredSpent, FirstClaim
  <1>5. QED
    BY <1>1, <1>3, <1>4 DEF IInv

LEMMA ClaimIInv ==
  ASSUME IInv, NEW d \in DID, NEW s \in Sub, Claim(d, s)
  PROVE  IInv'
  <1>1. TypeOK' /\ OneKeyPerDid' /\ CredSpent'
    BY DEF IInv, TypeOK, OneKeyPerDid, CredSpent, Claim
  <1>2. TablesAgree'
    BY NoneAssumption DEF IInv, TypeOK, TablesAgree, Claim, Holdings
  <1>3. QED
    BY <1>1, <1>2 DEF IInv

LEMMA ReleaseIInv ==
  ASSUME IInv, NEW d \in DID, NEW s \in Sub, Release(d, s)
  PROVE  IInv'
  <1>1. TypeOK'
    BY DEF IInv, TypeOK, Release
  <1>2. OneKeyPerDid' /\ CredSpent'
    BY DEF IInv, TypeOK, OneKeyPerDid, CredSpent, Release
  <1>3. TablesAgree'
    <2>1. owner' = [owner EXCEPT ![s] = None] /\ owner[s] = d
      BY DEF Release
    <2>2. \A e \in DID : Holdings(e)' = Holdings(e) \ {s}
      BY <2>1, NoneAssumption DEF Holdings, IInv, TypeOK
    <2>3. \A e \in DID : e # d => s \notin Holdings(e)
      BY <2>1 DEF Holdings
    <2>4. CASE Holdings(d) = {s}
      BY <2>2, <2>3, <2>4 DEF IInv, TypeOK, TablesAgree, Release
    <2>5. CASE Holdings(d) # {s}
      <3>1. s \in Holdings(d)
        BY <2>1 DEF Holdings
      <3>2. Holdings(d)' # {} /\ cred' = cred
        BY <3>1, <2>2, <2>5 DEF Release
      <3>3. QED
        BY <3>1, <3>2, <2>2, <2>3 DEF IInv, TablesAgree
    <2>6. QED
      BY <2>4, <2>5
  <1>4. QED
    BY <1>1, <1>2, <1>3 DEF IInv

LEMMA DropIInv ==
  ASSUME IInv, NEW d \in DID, Drop(d)
  PROVE  IInv'
  <1>1. TypeOK'
    BY DEF IInv, TypeOK, Drop
  <1>2. OneKeyPerDid' /\ CredSpent'
    BY DEF IInv, TypeOK, OneKeyPerDid, CredSpent, Drop
  <1>3. TablesAgree'
    <2>1. Holdings(d)' = {}
      BY NoneAssumption DEF Drop, Holdings
    <2>2. \A e \in DID : e # d => Holdings(e)' = Holdings(e)
      BY NoneAssumption DEF Drop, Holdings
    <2>3. QED
      BY <2>1, <2>2 DEF IInv, TypeOK, TablesAgree, Drop
  <1>4. QED
    BY <1>1, <1>2, <1>3 DEF IInv

LEMMA StepIInv == IInv /\ [Next]_vars => IInv'
  <1> SUFFICES ASSUME IInv, [Next]_vars
               PROVE  IInv'
    OBVIOUS
  <1>1. CASE UNCHANGED vars
    BY <1>1 DEF IInv, TypeOK, TablesAgree, OneKeyPerDid, CredSpent, Holdings, vars
  <1>2. CASE Next
    BY <1>2, FirstClaimIInv, ClaimIInv, ReleaseIInv, DropIInv DEF Next
  <1>3. QED
    BY <1>1, <1>2

(* The two tables agree and no two DIDs share a credential, whatever the    *)
(* order of claims, releases and drops.                                     *)
THEOREM StoreInvariants == Spec => []IInv
  BY InitIInv, StepIInv, PTL DEF Spec

THEOREM StoreTablesAgree == Spec => []TablesAgree
  BY StoreInvariants, PTL DEF IInv

THEOREM StoreOneKeyPerDid == Spec => []OneKeyPerDid
  BY StoreInvariants, PTL DEF IInv

(* No step takes a handle or a DID's credential over from its owner.        *)
THEOREM StoreNoTakeover == Spec => NoTakeover
  <1>1. IInv /\ [Next]_vars =>
          [ /\ \A s \in Sub : owner[s] # None => owner'[s] \in {owner[s], None}
            /\ \A d \in DID : cred[d] # None => cred'[d] \in {cred[d], None} ]_vars
    BY DEF IInv, TypeOK, Next, FirstClaim, Claim, Release, Drop, vars
  <1>2. QED
    BY <1>1, StoreInvariants, PTL DEF Spec, NoTakeover
=============================================================================
