--------------------------- MODULE RateLimitProofs ---------------------------
(***************************************************************************)
(* How many requests a window lets through, for any windows, limits and    *)
(* number of requests.                                                     *)
(*                                                                         *)
(* The argument: no request takes the key of a window that is over, so a   *)
(* row whose window lasts is out of every sweep's reach and its count is   *)
(* exact.  Once the window is over what may still be let through are the   *)
(* requests that hold its key, and each gives the key up when it counts.   *)
(* And how often the registry calls upstream: nobody stands at such a call *)
(* who has not been counted on the way there.                              *)
(***************************************************************************)
EXTENDS RateLimit, FiniteSetTheorems, TLAPS

Pending(k) == {r \in Req : req[r].key = k}

(* A request past validation knows what its next gate counts. *)
ReqOK(q) ==
  /\ q.pc \notin Ended => q.kind \in Kinds /\ q.ip \in Ip
  /\ q.pc \in Gate => q.pc \in GatesOf[q.kind]
  /\ q.pc \in {"resolve", "vip"} => q.kind = "register"
  /\ q.pc \in {"vip", "did"} => q.did \in Did
  /\ q.pc = "pds" => q.host \in Host
  /\ q.key # None => q.pc \in Gate /\ q.key.gate = q.pc /\ q.key.id = Scope(q)

ReqsOK == \A r \in Req : ReqOK(req[r])

SweepIsPast == sweeping <= clock

LateOnes ==
  \A k \in Key : ~Live(k) =>
    passed[k] + Cardinality(Pending(k)) <= Highest(k) + Cardinality(Req)

LimitInv ==
  /\ TypeOK /\ ReqsOK /\ SweepIsPast
  /\ HonestCounter /\ NthCallIsLast /\ LateOnes

-----------------------------------------------------------------------------
LEMMA KeyFields ==
  ASSUME NEW k \in Key
  PROVE  /\ k.gate \in Gate /\ k.window \in Time /\ k.window \in Nat
         /\ Expires(k) \in Nat /\ Window[k.gate] \in Nat \ {0}
         /\ Limit[k.gate] \in Nat /\ Highest(k) \in Nat /\ Limit[k.gate] <= Highest(k)
<1>1. k.gate \in Gate /\ k.window \in Time
  BY RateLimitAssumption DEF Key, GatesOf, Gate
<1>2. k.window \in Nat /\ Window[k.gate] \in Nat \ {0} /\ Limit[k.gate] \in Nat
  BY <1>1, RateLimitAssumption DEF Time
<1>3. Expires(k) \in Nat
  BY <1>2 DEF Expires
<1>4. Highest(k) \in Nat /\ Limit[k.gate] <= Highest(k)
  BY <1>2, RateLimitAssumption DEF Highest
<1> QED BY <1>1, <1>2, <1>3, <1>4

(* The window the clock is in has not ended. *)
LEMMA InWindow ==
  ASSUME NEW t \in Nat, NEW w \in Nat \ {0}
  PROVE  t \div w \in Nat /\ t \div w <= t /\ t < (t \div w + 1) * w
<1>1. t = (w * (t \div w)) + (t % w) /\ t % w \in 0 .. (w - 1) /\ t \div w \in Nat
  OBVIOUS
<1>2. t \div w <= w * (t \div w)
  BY <1>1, SMT
<1> QED BY <1>1, <1>2

LEMMA StampedKey ==
  ASSUME clock \in Time, NEW q \in Request, ReqOK(q), q.pc \in Gate
  PROVE  /\ Stamped(q.pc, Scope(q)) \in Key
         /\ clock < Expires(Stamped(q.pc, Scope(q)))
<1> DEFINE w == clock \div Window[q.pc]
<1>1. Window[q.pc] \in Nat \ {0} /\ clock \in Nat
  BY RateLimitAssumption DEF Time
<1>2. w \in Nat /\ w <= clock /\ clock < (w + 1) * Window[q.pc]
  BY <1>1, InWindow
<1>3. w \in Time
  BY <1>2, RateLimitAssumption DEF Time
<1>4. Scope(q) \in Scopes(q.pc)
  BY DEF ReqOK, Scope, Scopes, Gate, Ended
<1>5. q.pc \in UNION {GatesOf[kind] : kind \in Kinds}
  BY DEF ReqOK, Ended, Gate
<1> HIDE DEF w
<1>6. [gate |-> q.pc, id |-> Scope(q), window |-> w] \in
        [gate : {q.pc}, id : Scopes(q.pc), window : Time]
  BY <1>3, <1>4
<1>7. [gate |-> q.pc, id |-> Scope(q), window |-> w] \in Key
  BY <1>5, <1>6 DEF Key
<1> QED BY <1>2, <1>7 DEF Stamped, Expires, w

LEMMA PendingFinite ==
  ASSUME NEW k
  PROVE  /\ IsFiniteSet(Pending(k)) /\ Cardinality(Pending(k)) \in Nat
         /\ Cardinality(Req) \in Nat /\ Cardinality(Pending(k)) <= Cardinality(Req)
<1>1. Pending(k) \subseteq Req
  BY DEF Pending
<1> QED BY <1>1, RateLimitAssumption, FS_Subset, FS_CardinalityType

(* What a step that leaves the counters and the clock alone must show. *)
LEMMA CountersKept ==
  ASSUME LimitInv, UNCHANGED <<clock, bucket, tries, passed>>,
         TypeOK', ReqsOK', SweepIsPast',
         \A k \in Key : ~Live(k) => Pending(k)' \subseteq Pending(k)
  PROVE  LimitInv'
<1>1. HonestCounter' /\ NthCallIsLast'
  BY DEF LimitInv, HonestCounter, NthCallIsLast, Live
<1>2. LateOnes'
  <2> SUFFICES ASSUME NEW k \in Key, ~Live(k)'
               PROVE  passed'[k] + Cardinality(Pending(k)') <= Highest(k) + Cardinality(Req)
    BY DEF LateOnes, Highest
  <2>1. ~Live(k) BY DEF Live
  <2>2. passed[k] + Cardinality(Pending(k)) <= Highest(k) + Cardinality(Req)
    BY <2>1 DEF LimitInv, LateOnes
  <2>3. Cardinality(Pending(k)') <= Cardinality(Pending(k)) /\ Cardinality(Pending(k)') \in Nat
    BY <2>1, PendingFinite, FS_Subset, FS_CardinalityType
  <2>4. passed[k] \in Nat /\ Cardinality(Pending(k)) \in Nat /\ Cardinality(Req) \in Nat
        /\ Highest(k) \in Nat
    BY PendingFinite, KeyFields DEF LimitInv, TypeOK
  <2> QED BY <2>2, <2>3, <2>4
<1> QED BY <1>1, <1>2 DEF LimitInv

-----------------------------------------------------------------------------
THEOREM LimitInit == Init => LimitInv
<1> SUFFICES ASSUME Init PROVE LimitInv
  OBVIOUS
<1>1. TypeOK
  BY RateLimitAssumption DEF Init, TypeOK, NoRequest, NewRequest, Request, Time, GatesOf
<1>2. ReqsOK
  BY DEF Init, ReqsOK, ReqOK, NoRequest, NewRequest, Ended, Gate
<1>3. SweepIsPast
  BY DEF Init, SweepIsPast
<1>4. \A k \in Key : bucket[k] = 0 /\ tries[k] = 0 /\ passed[k] = 0
  BY DEF Init
<1>5. HonestCounter
  BY <1>4 DEF HonestCounter
<1>6. NthCallIsLast
  BY <1>4, KeyFields DEF NthCallIsLast, Least
<1>7. LateOnes
  BY <1>4, KeyFields, PendingFinite DEF LateOnes
<1> QED BY <1>1, <1>2, <1>3, <1>5, <1>6, <1>7 DEF LimitInv

(* Requests that move between gates hold no key, and take one only of a    *)
(* window that lasts.                                                      *)
LEMMA ReceiveStep == ASSUME LimitInv, NEW r \in Req, Receive(r) PROVE LimitInv'
<1> USE DEF LimitInv
<1>1. PICK kind \in Kinds, ip \in Ip :
        req' = [req EXCEPT ![r] = NewRequest(FirstGate(kind, ip), kind, ip)]
  BY DEF Receive
<1> DEFINE q == NewRequest(FirstGate(kind, ip), kind, ip)
<1>2. q \in Request /\ ReqOK(q) /\ q.key = None
  <2> DEFINE g == FirstGate(kind, ip)
  <2>0. kind \in {"register", "manage", "login"}
    BY RateLimitAssumption DEF GatesOf
  <2>1. /\ kind \in DOMAIN GatesOf
        /\ g \in {"login", "global", "resolve", "done"}
        /\ g \in Gate => g \in GatesOf[kind]
        /\ g = "resolve" => kind = "register"
    <3>1. CASE IsTrusted(ip)
      BY <2>0, <3>1 DEF FirstGate, Gate, GatesOf
    <3>2. CASE ~IsTrusted(ip)
      BY <2>0, <3>2 DEF FirstGate, Gate, GatesOf
    <3> QED BY <3>1, <3>2
  <2> HIDE DEF g
  <2>2. q = NewRequest(g, kind, ip)
    BY DEF g
  <2> HIDE DEF q
  <2>3. q \in Request
    BY <2>1, <2>2 DEF NewRequest, Request, Gate
  <2>4. ReqOK(q) /\ q.key = None
    BY <2>1, <2>2 DEF NewRequest, ReqOK, Ended, Gate
  <2> QED BY <2>3, <2>4
<1> HIDE DEF q
<1>3. req' = [req EXCEPT ![r] = q]
  BY <1>1 DEF q
<1>4. TypeOK'
  BY <1>2, <1>3 DEF TypeOK, Receive
<1>5. ReqsOK' /\ SweepIsPast'
  BY <1>2, <1>3 DEF ReqsOK, SweepIsPast, TypeOK, Receive
<1>6. \A k \in Key : Pending(k)' \subseteq Pending(k)
  BY <1>2, <1>3, RateLimitAssumption DEF Pending, TypeOK
<1> QED BY <1>4, <1>5, <1>6, CountersKept DEF Receive

LEMMA StampStep == ASSUME LimitInv, NEW r \in Req, Stamp(r) PROVE LimitInv'
<1> USE DEF LimitInv
<1> DEFINE new == Stamped(req[r].pc, Scope(req[r]))
           q == [req[r] EXCEPT !.key = new]
<1>1. req[r] \in Request /\ ReqOK(req[r]) /\ req[r].pc \in Gate /\ clock \in Time
  BY DEF TypeOK, ReqsOK, Stamp
<1>2. /\ new \in Key /\ clock < Expires(new)
      /\ new.gate = req[r].pc /\ new.id = Scope(req[r])
  BY <1>1, StampedKey DEF Stamped
<1> HIDE DEF new
<1>3. q \in Request /\ ReqOK(q) /\ q.key = new
  <2>1. q \in Request /\ q.key = new /\ Scope(q) = Scope(req[r])
    BY <1>1, <1>2 DEF Request, Scope
  <2>2. /\ q.pc = req[r].pc /\ q.kind = req[r].kind /\ q.ip = req[r].ip
        /\ q.did = req[r].did /\ q.host = req[r].host
    BY <1>1 DEF Request
  <2> HIDE DEF q
  <2> QED BY <1>1, <1>2, <2>1, <2>2 DEF ReqOK
<1> HIDE DEF q
<1>4. req' = [req EXCEPT ![r] = q]
  BY DEF Stamp, q, new
<1>5. TypeOK'
  BY <1>3, <1>4 DEF TypeOK, Stamp
<1>6. ReqsOK' /\ SweepIsPast'
  BY <1>3, <1>4 DEF ReqsOK, SweepIsPast, TypeOK, Stamp
<1>7. Live(new)
  BY <1>1, <1>2, KeyFields DEF Live, Time
<1>8. \A k \in Key : ~Live(k) => Pending(k)' \subseteq Pending(k)
  BY <1>3, <1>4, <1>7 DEF Pending, TypeOK
<1> QED BY <1>5, <1>6, <1>8, CountersKept DEF Stamp

LEMMA MoveStep ==
  ASSUME LimitInv, NEW r \in Req, Resolve(r) \/ IsVip(r) \/ Fail(r) PROVE LimitInv'
<1> USE DEF LimitInv
<1>1. req[r] \in Request /\ ReqOK(req[r]) /\ req[r].pc \notin Ended /\ req[r].ip \in Ip
  BY DEF TypeOK, ReqsOK, ReqOK, Resolve, IsVip, Fail, Ended
<1>2. PICK q \in Request : /\ req' = [req EXCEPT ![r] = q] /\ ReqOK(q)
                           /\ q.key = None
  <2>1. CASE Resolve(r)
    <3>1. req[r].key = None /\ req[r].kind = "register" /\ req[r].kind \in Kinds
      BY <1>1, <2>1 DEF Resolve, ReqOK, Gate
    <3>2. CASE req' = [req EXCEPT ![r].pc = "rejected"]
      <4>1. [req[r] EXCEPT !.pc = "rejected"] \in Request
        BY <1>1 DEF Request
      <4>2. ReqOK([req[r] EXCEPT !.pc = "rejected"])
        BY <1>1, <3>1 DEF ReqOK, Request, Ended, Gate
      <4> QED BY <3>1, <3>2, <4>1, <4>2, <1>1 DEF Request
    <3>3. ASSUME NEW d \in Did, NEW h \in Host \cup {None},
                 req' = [req EXCEPT ![r] = [@ EXCEPT !.did = d, !.host = h,
                                       !.pc = IF IsTrusted(req[r].ip) THEN "done" ELSE "vip"]]
          PROVE  \E q \in Request : req' = [req EXCEPT ![r] = q] /\ ReqOK(q) /\ q.key = None
      <4> DEFINE q == [req[r] EXCEPT !.did = d, !.host = h,
                         !.pc = IF IsTrusted(req[r].ip) THEN "done" ELSE "vip"]
      <4>1. q \in Request
        BY <1>1 DEF Request
      <4>2. ReqOK(q) /\ q.key = None
        BY <1>1, <3>1 DEF ReqOK, Request, Ended, Gate
      <4>3. req' = [req EXCEPT ![r] = q]
        BY <3>3
      <4> QED BY <4>1, <4>2, <4>3
    <3> QED BY <2>1, <3>2, <3>3 DEF Resolve
  <2>2. CASE IsVip(r)
    <3> DEFINE b == req[r].did \in vip
               q == [req[r] EXCEPT !.vip = b, !.pc = "did"]
    <3>0. b \in BOOLEAN
      OBVIOUS
    <3>4. req' = [req EXCEPT ![r] = q]
      BY <2>2 DEF IsVip
    <3> HIDE DEF b
    <3>1. req[r].key = None /\ req[r].kind = "register" /\ req[r].did \in Did
      BY <1>1, <2>2 DEF IsVip, ReqOK, Gate
    <3>2. q \in Request
      BY <1>1, <3>0 DEF Request, Gate
    <3>3. ReqOK(q) /\ q.key = None
      BY <1>1, <3>1 DEF ReqOK, Request, Ended, Gate, GatesOf
    <3> QED BY <3>2, <3>3, <3>4
  <2>3. CASE Fail(r)
    <3> DEFINE q == [req[r] EXCEPT !.key = None,
                       !.pc = IF req[r].kind = "login" THEN "loginPage" ELSE "failed"]
    <3>1. q \in Request
      BY <1>1 DEF Request
    <3>2. ReqOK(q) /\ q.key = None
      BY <1>1 DEF ReqOK, Request, Ended, Gate
    <3>3. req' = [req EXCEPT ![r] = q]
      BY <2>3 DEF Fail
    <3> QED BY <3>1, <3>2, <3>3
  <2> QED BY <2>1, <2>2, <2>3
<1>3. TypeOK'
  <2>1. upstream \in [Ip -> Nat] /\ faults \in Nat
    BY DEF TypeOK
  <2>2. upstream' = upstream \/ upstream' = [upstream EXCEPT ![req[r].ip] = @ + 1]
    BY DEF Resolve, IsVip, Fail
  <2>3. faults' \in Nat
    <3>1. faults' = faults \/ faults' = faults + 1
      BY DEF Resolve, IsVip, Fail
    <3> QED BY <2>1, <3>1
  <2>4. upstream' \in [Ip -> Nat]
    BY <1>1, <2>1, <2>2
  <2> QED BY <1>2, <2>3, <2>4 DEF TypeOK, Resolve, IsVip, Fail
<1>4. ReqsOK'
  BY <1>2 DEF ReqsOK, TypeOK
<1>5. SweepIsPast'
  BY DEF SweepIsPast, Resolve, IsVip, Fail
<1>6. \A k \in Key : Pending(k)' \subseteq Pending(k)
  BY <1>2, RateLimitAssumption DEF Pending, TypeOK
<1>7. UNCHANGED <<clock, bucket, tries, passed>>
  BY DEF Resolve, IsVip, Fail
<1> QED BY <1>3, <1>4, <1>5, <1>6, <1>7, CountersKept

-----------------------------------------------------------------------------
(* The counted attempt gives its key up: before the window ends the counts *)
(* rise together, afterwards one that is let through is one fewer pending. *)
LEMMA CheckCounts ==
  ASSUME LimitInv, NEW r \in Req, Check(r), NEW k \in Key, req[r].key = k
  PROVE  /\ bucket'[k] = bucket[k] + 1 /\ tries'[k] = tries[k] + 1
         /\ passed'[k] = IF bucket[k] + 1 <= LimitFor(req[r]) THEN passed[k] + 1 ELSE passed[k]
         /\ LimitFor(req[r]) \in Nat
         /\ Limit[k.gate] <= LimitFor(req[r]) /\ LimitFor(req[r]) <= Highest(k)
         /\ \A j \in Key \ {k} : UNCHANGED <<bucket[j], tries[j], passed[j]>>
<1>1. bucket \in [Key -> Nat] /\ tries \in [Key -> Nat] /\ passed \in [Key -> Nat]
  BY DEF LimitInv, TypeOK
<1>2. k # None
  BY RateLimitAssumption
<1>3. req[r].pc \in Gate /\ k.gate = req[r].pc
  BY <1>2 DEF LimitInv, ReqsOK, ReqOK
<1>4. /\ LimitFor(req[r]) \in Nat
      /\ Limit[k.gate] <= LimitFor(req[r]) /\ LimitFor(req[r]) <= Highest(k)
  BY <1>3, RateLimitAssumption DEF LimitFor, Highest
<1>5. bucket' = [bucket EXCEPT ![k] = @ + 1] /\ tries' = [tries EXCEPT ![k] = @ + 1]
  BY DEF Check
<1>6. passed' = IF bucket[k] + 1 <= LimitFor(req[r]) THEN [passed EXCEPT ![k] = @ + 1] ELSE passed
  BY DEF Check
<1> HIDE DEF LimitFor
<1> QED BY <1>1, <1>4, <1>5, <1>6

LEMMA CheckTypes == ASSUME LimitInv, NEW r \in Req, Check(r) PROVE TypeOK' /\ ReqsOK'
<1> DEFINE pass == bucket[req[r].key] + 1 <= LimitFor(req[r])
           pc == IF pass THEN After(req[r]) ELSE Denied(req[r])
           q == [req[r] EXCEPT !.key = None, !.pc = pc]
<1>1. req[r] \in Request /\ ReqOK(req[r]) /\ req[r].key # None
  BY DEF LimitInv, TypeOK, ReqsOK, Check
<1>2. req[r].key \in Key /\ req[r].pc \in Gate /\ req[r].kind \in Kinds /\ req[r].ip \in Ip
      /\ req[r].pc \in GatesOf[req[r].kind] /\ req[r].kind \in DOMAIN GatesOf
  BY <1>1, RateLimitAssumption DEF Request, ReqOK, Ended, Gate
<1>3. /\ pc \in {"burst", "resolve", "pds", "done", "loginPage", "notFound"}
      /\ pc \in {"burst", "resolve", "pds"} => req[r].kind = "register"
      /\ pc = "pds" => req[r].host # None
  BY <1>2 DEF After, Denied, GatesOf, Gate
<1>4. req' = [req EXCEPT ![r] = q]
  BY DEF Check
<1> HIDE DEF pc
<1>6. q \in Request
  BY <1>1, <1>3 DEF Request, Gate
<1>7. q.pc = pc /\ q.key = None /\ q.kind = req[r].kind /\ q.ip = req[r].ip
      /\ q.host = req[r].host
  BY <1>1 DEF Request
<1>8. req[r].host \in Host \cup {None}
  BY <1>1 DEF Request
<1> HIDE DEF q
<1>9. ReqOK(q)
  BY <1>2, <1>3, <1>7, <1>8 DEF ReqOK, Ended, Gate, GatesOf
<1>10. ReqsOK'
  BY <1>4, <1>9 DEF LimitInv, ReqsOK, TypeOK
<1>11. bucket \in [Key -> Nat] /\ tries \in [Key -> Nat] /\ passed \in [Key -> Nat]
  BY DEF LimitInv, TypeOK
<1>12. bucket' \in [Key -> Nat] /\ tries' \in [Key -> Nat] /\ passed' \in [Key -> Nat]
  BY <1>2, <1>11 DEF Check
<1>13. TypeOK'
  BY <1>4, <1>6, <1>12 DEF LimitInv, TypeOK, Check
<1> QED BY <1>10, <1>13

LEMMA CheckStep == ASSUME LimitInv, NEW r \in Req, Check(r) PROVE LimitInv'
<1> DEFINE k == req[r].key
<1>1. k \in Key /\ k # None
  BY DEF Check, LimitInv, TypeOK, Request
<1> HIDE DEF k
<1>2. TypeOK' /\ ReqsOK' /\ SweepIsPast'
  BY CheckTypes DEF SweepIsPast, Check, LimitInv
<1>3. /\ bucket'[k] = bucket[k] + 1 /\ tries'[k] = tries[k] + 1
      /\ passed'[k] = IF bucket[k] + 1 <= LimitFor(req[r]) THEN passed[k] + 1 ELSE passed[k]
      /\ LimitFor(req[r]) \in Nat
      /\ Limit[k.gate] <= LimitFor(req[r]) /\ LimitFor(req[r]) <= Highest(k)
      /\ \A j \in Key \ {k} : UNCHANGED <<bucket[j], tries[j], passed[j]>>
  BY <1>1, CheckCounts DEF k
<1>4. bucket[k] \in Nat /\ tries[k] \in Nat /\ passed[k] \in Nat
  BY <1>1 DEF LimitInv, TypeOK
<1>5. clock' = clock
  BY DEF Check
<1>6. HonestCounter'
  BY <1>3, <1>4, <1>5 DEF HonestCounter, Live, LimitInv
<1>7. NthCallIsLast'
  <2> SUFFICES ASSUME NEW j \in Key, Live(j)
               PROVE  /\ Least(tries'[j], Limit[j.gate]) <= passed'[j]
                      /\ passed'[j] <= Least(tries'[j], Highest(j))
    BY <1>5 DEF NthCallIsLast, Live, Highest
  <2>1. /\ Least(tries[j], Limit[j.gate]) <= passed[j] /\ passed[j] <= Least(tries[j], Highest(j))
        /\ bucket[j] = tries[j]
    BY DEF LimitInv, NthCallIsLast, HonestCounter
  <2>2. CASE j = k
    <3>1. Limit[k.gate] \in Nat /\ Highest(k) \in Nat /\ Limit[k.gate] <= Highest(k)
      BY <1>1, KeyFields
    <3> QED BY <1>3, <1>4, <2>1, <2>2, <3>1 DEF Least
  <2>3. CASE j # k
    BY <1>3, <2>1, <2>3
  <2> QED BY <2>2, <2>3
<1>8. LateOnes'
  <2> SUFFICES ASSUME NEW j \in Key, ~Live(j)
               PROVE  passed'[j] + Cardinality(Pending(j)') <= Highest(j) + Cardinality(Req)
    BY <1>5 DEF LateOnes, Live, Highest
  <2>1. passed[j] + Cardinality(Pending(j)) <= Highest(j) + Cardinality(Req)
    BY DEF LimitInv, LateOnes
  <2>2. Pending(j)' = Pending(j) \ {r} /\ (r \in Pending(j) <=> j = k)
    BY RateLimitAssumption DEF Pending, k, Check, LimitInv, TypeOK
  <2>3. IsFiniteSet(Pending(j)) /\ Cardinality(Pending(j)) \in Nat /\ Cardinality(Req) \in Nat
    BY PendingFinite
  <2>4. Cardinality(Pending(j)') =
          IF j = k THEN Cardinality(Pending(j)) - 1 ELSE Cardinality(Pending(j))
    BY <2>2, <2>3, FS_RemoveElement
  <2>5. passed'[j] = passed[j] \/ (j = k /\ passed'[j] = passed[j] + 1)
    BY <1>3
  <2>6. passed[j] \in Nat /\ Highest(j) \in Nat
    BY KeyFields DEF LimitInv, TypeOK
  <2> QED BY <2>1, <2>3, <2>4, <2>5, <2>6
<1> QED BY <1>2, <1>6, <1>7, <1>8 DEF LimitInv

-----------------------------------------------------------------------------
(* A sweep touches no row whose window lasts.                              *)
LEMMA SweepStep == ASSUME LimitInv, SweepExpiredBuckets PROVE LimitInv'
<1>1. bucket' = [k \in Key |-> IF Expires(k) < sweeping THEN 0 ELSE bucket[k]]
      /\ sweeping' = -1 /\ sweeping \in Time /\ sweeping <= clock /\ clock \in Time
      /\ UNCHANGED <<clock, vip, req, tries, passed, upstream, begun, faults>>
  BY DEF SweepExpiredBuckets, LimitInv, TypeOK, SweepIsPast
<1>2. bucket' \in [Key -> Nat]
  BY <1>1 DEF LimitInv, TypeOK
<1>3. TypeOK' /\ ReqsOK'
  BY <1>1, <1>2 DEF LimitInv, TypeOK, ReqsOK
<1>4. SweepIsPast'
  BY <1>1 DEF SweepIsPast, Time
<1>5. \A k \in Key : Live(k) => bucket'[k] = bucket[k]
  BY <1>1, KeyFields DEF Live, Time
<1>6. HonestCounter' /\ NthCallIsLast'
  BY <1>1, <1>5 DEF LimitInv, HonestCounter, NthCallIsLast, Live
<1>7. LateOnes'
  BY <1>1 DEF LimitInv, LateOnes, Live, Pending
<1> QED BY <1>3, <1>4, <1>6, <1>7 DEF LimitInv

(* When a window ends at most every request holds its key. *)
LEMMA TickStep == ASSUME LimitInv, Tick PROVE LimitInv'
<1>1. /\ clock' = clock + 1 /\ clock \in Time /\ clock' \in Time
      /\ UNCHANGED <<bucket, vip, req, sweeping, tries, passed, upstream, begun, faults>>
  BY RateLimitAssumption DEF Tick, LimitInv, TypeOK, Time
<1>2. TypeOK' /\ ReqsOK'
  BY <1>1 DEF LimitInv, TypeOK, ReqsOK
<1>3. SweepIsPast'
  BY <1>1 DEF LimitInv, SweepIsPast, TypeOK, Time
<1>4. \A k \in Key : Live(k)' => Live(k)
  BY <1>1, KeyFields DEF Live, Time
<1>5. HonestCounter' /\ NthCallIsLast'
  BY <1>1, <1>4 DEF LimitInv, HonestCounter, NthCallIsLast, Live
<1>6. LateOnes'
  <2> SUFFICES ASSUME NEW k \in Key
               PROVE  passed[k] + Cardinality(Pending(k)) <= Highest(k) + Cardinality(Req)
    BY <1>1 DEF LateOnes, Pending, Live
  <2>1. CASE ~Live(k)
    BY <2>1 DEF LimitInv, LateOnes
  <2>2. CASE Live(k)
    <3>1. passed[k] <= Highest(k)
      <4>1. passed[k] <= Least(tries[k], Highest(k))
        BY <2>2 DEF LimitInv, NthCallIsLast
      <4>2. tries[k] \in Nat /\ passed[k] \in Nat /\ Highest(k) \in Nat
        BY KeyFields DEF LimitInv, TypeOK
      <4> QED BY <4>1, <4>2 DEF Least
    <3>2. passed[k] \in Nat /\ Highest(k) \in Nat
      BY KeyFields DEF LimitInv, TypeOK
    <3> QED BY <3>1, <3>2, PendingFinite
  <2> QED BY <2>1, <2>2
<1> QED BY <1>2, <1>3, <1>5, <1>6 DEF LimitInv

THEOREM LimitStep == LimitInv /\ [Next]_vars => LimitInv'
<1> SUFFICES ASSUME LimitInv, [Next]_vars PROVE LimitInv'
  OBVIOUS
<1>1. CASE \E r \in Req : Receive(r) \/ Stamp(r) \/ Check(r)
  BY <1>1, ReceiveStep, StampStep, CheckStep
<1>2. CASE \E r \in Req : Resolve(r) \/ IsVip(r) \/ Fail(r)
  BY <1>2, MoveStep
<1>3. CASE SweepExpiredBuckets
  BY <1>3, SweepStep
<1>4. CASE Tick
  BY <1>4, TickStep
<1>5. CASE SweepBegin \/ SweepFails \/ (\E d \in Did : ConfigVip(d)) \/ UNCHANGED vars
  <2>1. UNCHANGED <<clock, bucket, tries, passed, req>>
    BY <1>5 DEF SweepBegin, SweepFails, ConfigVip, vars
  <2>2. TypeOK' /\ SweepIsPast'
    BY <1>5 DEF LimitInv, TypeOK, SweepIsPast, SweepBegin, SweepFails, ConfigVip, vars, Time
  <2>3. ReqsOK' /\ \A k \in Key : Pending(k)' \subseteq Pending(k)
    BY <2>1 DEF LimitInv, ReqsOK, Pending
  <2> QED BY <2>1, <2>2, <2>3, CountersKept
<1> QED BY <1>1, <1>2, <1>3, <1>4, <1>5 DEF Next

(* Counts and requests keep their shape; a request counts under a key of    *)
(* its own gate (rate_limit.rs, service.rs register).                      *)
THEOREM RateTypeOK == Spec => []TypeOK
<1>1. LimitInv => TypeOK
  BY DEF LimitInv
<1> QED BY <1>1, LimitInit, LimitStep, PTL DEF Spec

(* While a window lasts its row shows every attempt (db.rs bucket_incr,    *)
(* sweep_expired_buckets).                                                 *)
THEOREM RateHonestCounter == Spec => []HonestCounter
<1>1. LimitInv => HonestCounter
  BY DEF LimitInv
<1> QED BY <1>1, LimitInit, LimitStep, PTL DEF Spec

(* ... and the limit is exact (rate_limit.rs check).                       *)
THEOREM RateNthCallIsLast == Spec => []NthCallIsLast
<1>1. LimitInv => NthCallIsLast
  BY DEF LimitInv
<1> QED BY <1>1, LimitInit, LimitStep, PTL DEF Spec

(* Over all time, sweeps and late increments included, a window lets no    *)
(* more through than its limit and the requests in flight (service.rs      *)
(* register).                                                              *)
THEOREM RateOverrunBounded == Spec => []OverrunBounded
<1>1. ASSUME LimitInv, NEW k \in Key PROVE passed[k] <= Highest(k) + Cardinality(Req)
  <2>1. /\ passed[k] \in Nat /\ tries[k] \in Nat /\ Highest(k) \in Nat
        /\ Cardinality(Req) \in Nat /\ Cardinality(Pending(k)) \in Nat
    BY <1>1, KeyFields, PendingFinite DEF LimitInv, TypeOK
  <2>2. CASE Live(k)
    BY <1>1, <2>1, <2>2 DEF LimitInv, NthCallIsLast, Least
  <2>3. CASE ~Live(k)
    BY <1>1, <2>1, <2>3 DEF LimitInv, LateOnes
  <2> QED BY <2>2, <2>3
<1>2. LimitInv => OverrunBounded
  BY <1>1 DEF OverrunBounded
<1> QED BY <1>2, LimitInit, LimitStep, PTL DEF Spec

-----------------------------------------------------------------------------
(* Requests at some calls, for some addresses *)
Standing(pcs, ips) == {r \in Req : req[r].pc \in pcs /\ req[r].ip \in ips}

AtCall(i) == Cardinality(Standing({"resolve"}, {i}))
AtDid     == Cardinality(Standing({"vip", "did"}, Ip))
AtPds     == Cardinality(Standing({"pds"}, Ip))
Resolved  == Cardinality(Each(upstream, Ip \ Trusted))

AttemptsFinite ==
  /\ \A i \in Ip : IsFiniteSet(Each(passed, BurstOf(i)))
  /\ \A g \in {"did", "pds"} : IsFiniteSet(Each(tries, Under(g)))
  /\ IsFiniteSet(Each(upstream, Ip \ Trusted))

(* Whoever is let through to a call has been counted on the way there.     *)
RationInv ==
  /\ AttemptsFinite
  /\ \A i \in Ip \ Trusted : upstream[i] + AtCall(i) <= PassedBy(i)
  /\ ChargedTo("pds") + AtPds <= ChargedTo("did")
  /\ ChargedTo("did") + AtDid <= Resolved

One(b) == IF b THEN 1 ELSE 0

(* One more attempt under the key d. *)
OneMore(f, g, d, K) ==
  LET n == Cardinality(Each(f, K)) IN
  /\ IsFiniteSet(Each(g, K)) /\ n \in Nat
  /\ Cardinality(Each(g, K)) = n + One(d \in K)

LEMMA EachMore ==
  ASSUME NEW D, NEW K \in SUBSET D, NEW f \in [D -> Nat], NEW d \in D, IsFiniteSet(Each(f, K)),
         NEW g, g = [f EXCEPT ![d] = @ + 1]
  PROVE  OneMore(f, g, d, K)
<1>1. \A k \in K : g[k] = IF k = d THEN f[k] + 1 ELSE f[k]
  OBVIOUS
<1>2. Cardinality(Each(f, K)) \in Nat
  BY FS_CardinalityType
<1>3. CASE d \notin K
  <2>1. Each(g, K) = Each(f, K)
    BY <1>1, <1>3 DEF Each
  <2> QED BY <1>2, <1>3, <2>1 DEF OneMore, One
<1>4. CASE d \in K
  <2> DEFINE e == <<d, f[d] + 1>>
  <2>1. f[d] \in Nat /\ 1 .. (f[d] + 1) = (1 .. f[d]) \cup {f[d] + 1} /\ f[d] + 1 \notin 1 .. f[d]
    OBVIOUS
  <2>2. \A x : x \in Each(f, K) <=> \E k \in K : x \in {k} \X (1 .. f[k])
    BY DEF Each
  <2>3. \A x : x \in Each(g, K) <=> \E k \in K : x \in {k} \X (1 .. g[k])
    BY DEF Each
  <2>4. {d} \X (1 .. g[d]) = ({d} \X (1 .. f[d])) \cup {e}
    BY <1>1, <1>4, <2>1
  <2>5. \A k \in K \ {d} : {k} \X (1 .. g[k]) = {k} \X (1 .. f[k])
    BY <1>1
  <2>6. Each(g, K) = Each(f, K) \cup {e}
    BY <1>4, <2>2, <2>3, <2>4, <2>5
  <2>7. e \notin Each(f, K)
    BY <2>1, <2>2
  <2> HIDE DEF e
  <2>8. /\ IsFiniteSet(Each(f, K) \cup {e})
        /\ Cardinality(Each(f, K) \cup {e}) = Cardinality(Each(f, K)) + 1
    BY <2>7, FS_AddElement
  <2> QED BY <1>2, <1>4, <2>6, <2>8 DEF OneMore, One
<1> QED BY <1>3, <1>4

(* One request moves. *)
Moved(r, q, pcs, ips) ==
  LET n == Cardinality(Standing(pcs, ips)) IN
  /\ n \in Nat /\ n' \in Nat
  /\ n' = n + One(q.pc \in pcs /\ q.ip \in ips) - One(req[r].pc \in pcs /\ req[r].ip \in ips)

LEMMA StandingMoves ==
  ASSUME TypeOK, NEW r \in Req, NEW q, req' = [req EXCEPT ![r] = q], NEW pcs, NEW ips
  PROVE  Moved(r, q, pcs, ips)
<1> DEFINE S == Standing(pcs, ips) T == Standing(pcs, ips)'
<1>1. S \subseteq Req /\ T \subseteq Req
  BY DEF Standing
<1>2. IsFiniteSet(S) /\ IsFiniteSet(T) /\ Cardinality(S) \in Nat /\ Cardinality(T) \in Nat
  BY <1>1, RateLimitAssumption, FS_Subset, FS_CardinalityType
<1>3. S \ {r} = T \ {r}
  BY DEF Standing, TypeOK
<1>4. /\ r \in S <=> req[r].pc \in pcs /\ req[r].ip \in ips
      /\ r \in T <=> q.pc \in pcs /\ q.ip \in ips
  BY DEF Standing, TypeOK
<1> HIDE DEF S, T
<1>5. /\ Cardinality(S \ {r}) = IF r \in S THEN Cardinality(S) - 1 ELSE Cardinality(S)
      /\ Cardinality(T \ {r}) = IF r \in T THEN Cardinality(T) - 1 ELSE Cardinality(T)
  BY <1>2, FS_RemoveElement
<1>6. Cardinality(T) = Cardinality(S) + (IF r \in T THEN 1 ELSE 0) - (IF r \in S THEN 1 ELSE 0)
  <2> DEFINE s == Cardinality(S) t == Cardinality(T) c == Cardinality(S \ {r})
  <2>1. s \in Nat /\ t \in Nat /\ c = IF r \in S THEN s - 1 ELSE s
    BY <1>2, <1>5
  <2>2. c = IF r \in T THEN t - 1 ELSE t
    BY <1>3, <1>5
  <2> HIDE DEF s, t, c
  <2>3. t = s + (IF r \in T THEN 1 ELSE 0) - (IF r \in S THEN 1 ELSE 0)
    BY <2>1, <2>2
  <2> QED BY <2>3 DEF s, t
<1> QED BY <1>2, <1>4, <1>6 DEF S, T, Moved, One

LEMMA RationInit == Init => RationInv
<1> SUFFICES ASSUME Init PROVE RationInv
  OBVIOUS
<1>1. ASSUME NEW D, NEW K \in SUBSET D, NEW f, f = [d \in D |-> 0] PROVE Each(f, K) = {}
  <2>1. \A k \in K : f[k] = 0
    BY <1>1
  <2>2. \A k \in K : {k} \X (1 .. f[k]) = {}
    BY <2>1
  <2> QED BY <2>2 DEF Each
<1>2. /\ \A i : BurstOf(i) \in SUBSET Key
      /\ \A g : Under(g) \in SUBSET Key
  BY DEF BurstOf, Under
<1>3. /\ \A i : Each(passed, BurstOf(i)) = {}
      /\ \A g : Each(tries, Under(g)) = {}
      /\ Each(upstream, Ip \ Trusted) = {}
  BY <1>1, <1>2 DEF Init
<1>4. \A pcs, ips : "done" \notin pcs => Standing(pcs, ips) = {}
  BY DEF Init, Standing, NoRequest, NewRequest
<1>5. IsFiniteSet({}) /\ Cardinality({}) = 0
  BY FS_EmptySet
<1>6. /\ \A i : AtCall(i) = 0 /\ PassedBy(i) = 0
      /\ \A g : ChargedTo(g) = 0
      /\ AtDid = 0 /\ AtPds = 0 /\ Resolved = 0
  BY <1>3, <1>4, <1>5 DEF AtCall, AtDid, AtPds, Resolved, PassedBy, ChargedTo
<1>7. AttemptsFinite
  BY <1>3, <1>5 DEF AttemptsFinite
<1>8. \A i \in Ip : upstream[i] = 0
  BY DEF Init
<1> QED BY <1>6, <1>7, <1>8 DEF RationInv

LEMMA CountsAreNumbers ==
  ASSUME TypeOK, AttemptsFinite
  PROVE  /\ \A i \in Ip \ Trusted : upstream[i] \in Nat /\ PassedBy(i) \in Nat
         /\ ChargedTo("did") \in Nat /\ ChargedTo("pds") \in Nat /\ Resolved \in Nat
<1>1. \A i \in Ip \ Trusted : upstream[i] \in Nat /\ PassedBy(i) \in Nat
  BY FS_CardinalityType DEF TypeOK, AttemptsFinite, PassedBy
<1>2. ChargedTo("did") \in Nat /\ ChargedTo("pds") \in Nat /\ Resolved \in Nat
  BY FS_CardinalityType DEF AttemptsFinite, ChargedTo, Resolved
<1> QED BY <1>1, <1>2

CallsMoved(r, q) ==
  /\ \A i \in Ip \ Trusted :
       /\ AtCall(i) \in Nat /\ AtCall(i)' \in Nat
       /\ AtCall(i)' = AtCall(i) + One(q.pc = "resolve" /\ q.ip = i)
                                - One(req[r].pc = "resolve" /\ req[r].ip = i)
  /\ AtDid \in Nat /\ AtDid' \in Nat
  /\ AtDid' = AtDid + One(q.pc \in {"vip", "did"} /\ q.ip \in Ip)
                    - One(req[r].pc \in {"vip", "did"} /\ req[r].ip \in Ip)
  /\ AtPds \in Nat /\ AtPds' \in Nat
  /\ AtPds' = AtPds + One(q.pc = "pds" /\ q.ip \in Ip)
                    - One(req[r].pc = "pds" /\ req[r].ip \in Ip)

LEMMA CallsMove ==
  ASSUME TypeOK, NEW r \in Req, NEW q, req' = [req EXCEPT ![r] = q]
  PROVE  CallsMoved(r, q)
<1>1. ASSUME NEW i \in Ip \ Trusted PROVE Moved(r, q, {"resolve"}, {i})
  BY StandingMoves
<1>2. Moved(r, q, {"vip", "did"}, Ip)
  BY StandingMoves
<1>3. Moved(r, q, {"pds"}, Ip)
  BY StandingMoves
<1>4. \A i, j, pc, p : (pc \in {p} /\ j \in {i}) <=> (pc = p /\ j = i)
  OBVIOUS
<1>5. \A i \in Ip \ Trusted :
        /\ AtCall(i) \in Nat /\ AtCall(i)' \in Nat
        /\ AtCall(i)' = AtCall(i) + One(q.pc = "resolve" /\ q.ip = i)
                                 - One(req[r].pc = "resolve" /\ req[r].ip = i)
  BY <1>1 DEF Moved, AtCall, One
<1>6. /\ AtDid \in Nat /\ AtDid' \in Nat
      /\ AtDid' = AtDid + One(q.pc \in {"vip", "did"} /\ q.ip \in Ip)
                        - One(req[r].pc \in {"vip", "did"} /\ req[r].ip \in Ip)
  BY <1>2 DEF Moved, AtDid
<1>7. /\ AtPds \in Nat /\ AtPds' \in Nat
      /\ AtPds' = AtPds + One(q.pc = "pds" /\ q.ip \in Ip)
                        - One(req[r].pc = "pds" /\ req[r].ip \in Ip)
  BY <1>3 DEF Moved, AtPds, One
<1> QED BY <1>5, <1>6, <1>7 DEF CallsMoved

(* Steps that count nothing and bring nobody to a call *)
LEMMA RationKept ==
  ASSUME TypeOK, RationInv, UNCHANGED <<passed, tries, upstream>>,
         NEW r \in Req, NEW q, req' = [req EXCEPT ![r] = q], req[r].pc \in Ended \/ req[r].ip \in Ip,
         q.pc = "resolve" => q.ip \in Trusted \/ (req[r].pc = "resolve" /\ q.ip = req[r].ip),
         q.pc \in {"vip", "did"} => req[r].pc \in {"vip", "did"},
         q.pc = "pds" => req[r].pc = "pds"
  PROVE  RationInv'
<1>1. /\ \A i : PassedBy(i)' = PassedBy(i)
      /\ \A g : ChargedTo(g)' = ChargedTo(g)
      /\ Resolved' = Resolved /\ upstream' = upstream
      /\ AttemptsFinite'
  BY DEF PassedBy, ChargedTo, Resolved, RationInv, AttemptsFinite, Each
<1>2. /\ \A i \in Ip \ Trusted : upstream[i] \in Nat /\ PassedBy(i) \in Nat
      /\ ChargedTo("did") \in Nat /\ ChargedTo("pds") \in Nat /\ Resolved \in Nat
  BY CountsAreNumbers DEF RationInv
<1>3. CallsMoved(r, q)
  BY CallsMove
<1>4. ASSUME NEW i \in Ip \ Trusted
      PROVE  AtCall(i)' <= AtCall(i) /\ AtCall(i)' \in Nat /\ AtCall(i) \in Nat
  BY <1>3 DEF CallsMoved, One
<1>5. AtDid' <= AtDid /\ AtDid' \in Nat /\ AtDid \in Nat
  BY <1>3 DEF CallsMoved, One, Ended
<1>6. AtPds' <= AtPds /\ AtPds' \in Nat /\ AtPds \in Nat
  BY <1>3 DEF CallsMoved, One, Ended
<1>7. \A i \in Ip \ Trusted : (upstream[i] + AtCall(i) <= PassedBy(i))'
  BY <1>1, <1>2, <1>4 DEF RationInv
<1> QED BY <1>1, <1>2, <1>5, <1>6, <1>7 DEF RationInv

LEMMA MovesKeepRation ==
  ASSUME LimitInv, RationInv, NEW r \in Req, Receive(r) \/ Stamp(r) \/ IsVip(r) \/ Fail(r)
  PROVE  RationInv'
<1>1. TypeOK /\ ReqOK(req[r]) /\ req[r] \in Request /\ UNCHANGED <<passed, tries, upstream>>
  BY DEF LimitInv, TypeOK, ReqsOK, Receive, Stamp, IsVip, Fail
<1>2. req[r].pc \in Ended \/ req[r].ip \in Ip
  BY <1>1 DEF ReqOK
<1>3. CASE Receive(r)
  <2>1. PICK kind \in Kinds, ip \in Ip :
          req' = [req EXCEPT ![r] = NewRequest(FirstGate(kind, ip), kind, ip)]
    BY <1>3 DEF Receive
  <2> DEFINE q == NewRequest(FirstGate(kind, ip), kind, ip)
  <2>2. /\ q.pc \in {"login", "global", "resolve", "done"}
        /\ q.pc = "resolve" => q.ip \in Trusted
    BY DEF NewRequest, FirstGate, IsTrusted
  <2>3. req' = [req EXCEPT ![r] = q]
    BY <2>1
  <2> HIDE DEF q
  <2> QED BY <1>1, <1>2, <2>2, <2>3, RationKept
<1>4. CASE Stamp(r)
  <2> DEFINE q == [req[r] EXCEPT !.key = Stamped(req[r].pc, Scope(req[r]))]
  <2>1. q.pc = req[r].pc /\ q.ip = req[r].ip
    BY <1>1 DEF Request
  <2>2. req' = [req EXCEPT ![r] = q]
    BY <1>4 DEF Stamp
  <2> HIDE DEF q
  <2> QED BY <1>1, <1>2, <2>1, <2>2, RationKept
<1>5. CASE IsVip(r)
  <2> DEFINE q == [req[r] EXCEPT !.vip = req[r].did \in vip, !.pc = "did"]
  <2>1. q.pc = "did" /\ req[r].pc = "vip"
    BY <1>1, <1>5 DEF Request, IsVip
  <2>2. req' = [req EXCEPT ![r] = q]
    BY <1>5 DEF IsVip
  <2> HIDE DEF q
  <2> QED BY <1>1, <1>2, <2>1, <2>2, RationKept
<1>6. CASE Fail(r)
  <2> DEFINE q == [req[r] EXCEPT !.key = None,
                     !.pc = IF req[r].kind = "login" THEN "loginPage" ELSE "failed"]
  <2>1. q.pc \in {"loginPage", "failed"}
    BY <1>1 DEF Request
  <2>2. req' = [req EXCEPT ![r] = q]
    BY <1>6 DEF Fail
  <2> HIDE DEF q
  <2> QED BY <1>1, <1>2, <2>1, <2>2, RationKept
<1> QED BY <1>3, <1>4, <1>5, <1>6

(* A resolution takes the request from its call; only an untrusted client's *)
(* goes on to be charged to a DID.                                         *)
LEMMA ResolveRation ==
  ASSUME LimitInv, RationInv, NEW r \in Req, Resolve(r) PROVE RationInv'
<1> DEFINE ip == req[r].ip
<1>0. /\ req[r].pc = "resolve" /\ upstream' = [upstream EXCEPT ![ip] = @ + 1]
      /\ UNCHANGED <<passed, tries>>
  BY DEF Resolve
<1>1. /\ TypeOK /\ req[r] \in Request /\ ip \in Ip /\ req[r].pc = "resolve"
      /\ UNCHANGED <<passed, tries>>
      /\ upstream \in [Ip -> Nat] /\ upstream' = [upstream EXCEPT ![ip] = @ + 1]
  BY <1>0 DEF LimitInv, TypeOK, ReqsOK, ReqOK, Ended
<1>2. PICK q : /\ req' = [req EXCEPT ![r] = q]
               /\ q.pc \in {"rejected", "done", "vip"}
               /\ q.pc = "vip" => ip \notin Trusted
  <2>1. CASE req' = [req EXCEPT ![r].pc = "rejected"]
    <3>1. [req[r] EXCEPT !.pc = "rejected"].pc = "rejected"
      BY <1>1 DEF Request
    <3> QED BY <2>1, <3>1
  <2>2. ASSUME NEW d \in Did, NEW h \in Host \cup {None},
               req' = [req EXCEPT ![r] = [@ EXCEPT !.did = d, !.host = h,
                                     !.pc = IF IsTrusted(req[r].ip) THEN "done" ELSE "vip"]]
        PROVE  \E q : /\ req' = [req EXCEPT ![r] = q]
                      /\ q.pc \in {"rejected", "done", "vip"}
                      /\ q.pc = "vip" => ip \notin Trusted
    <3> DEFINE q == [req[r] EXCEPT !.did = d, !.host = h,
                       !.pc = IF IsTrusted(req[r].ip) THEN "done" ELSE "vip"]
    <3>1. q.pc = IF IsTrusted(ip) THEN "done" ELSE "vip"
      BY <1>1 DEF Request
    <3>2. req' = [req EXCEPT ![r] = q]
      BY <2>2
    <3> HIDE DEF q
    <3> QED BY <3>1, <3>2 DEF IsTrusted
  <2>3. \/ req' = [req EXCEPT ![r].pc = "rejected"]
        \/ \E d \in Did, h \in Host \cup {None} :
             req' = [req EXCEPT ![r] = [@ EXCEPT !.did = d, !.host = h,
                                   !.pc = IF IsTrusted(req[r].ip) THEN "done" ELSE "vip"]]
    BY DEF Resolve
  <2> QED BY <2>1, <2>2, <2>3
<1> HIDE DEF ip
<1>3. CallsMoved(r, q)
  BY <1>1, <1>2, CallsMove
<1>4. /\ IsFiniteSet(Each(upstream', Ip \ Trusted)) /\ Resolved \in Nat
      /\ Resolved' = IF ip \in Ip \ Trusted THEN Resolved + 1 ELSE Resolved
  <2>1. OneMore(upstream, upstream', ip, Ip \ Trusted)
    BY <1>1, EachMore DEF RationInv, AttemptsFinite
  <2>2. Each(upstream, Ip \ Trusted)' = Each(upstream', Ip \ Trusted)
    BY DEF Each
  <2>3. Resolved' = Cardinality(Each(upstream', Ip \ Trusted))
    BY <2>2 DEF Resolved
  <2>4. Resolved \in Nat /\ Cardinality(Each(upstream', Ip \ Trusted)) = Resolved + One(ip \in Ip \ Trusted)
    BY <2>1 DEF OneMore, Resolved
  <2> QED BY <2>1, <2>3, <2>4 DEF OneMore, One
<1>5. /\ \A i : PassedBy(i)' = PassedBy(i)
      /\ \A g : ChargedTo(g)' = ChargedTo(g)
      /\ AttemptsFinite'
  BY <1>1, <1>4 DEF PassedBy, ChargedTo, RationInv, AttemptsFinite, Each, BurstOf, Under
<1>6. /\ \A i \in Ip \ Trusted : upstream[i] \in Nat /\ PassedBy(i) \in Nat
      /\ ChargedTo("did") \in Nat /\ ChargedTo("pds") \in Nat
  BY <1>1, CountsAreNumbers DEF RationInv
<1>7. ASSUME NEW i \in Ip \ Trusted PROVE (upstream[i] + AtCall(i) <= PassedBy(i))'
  <2>1. upstream'[i] = upstream[i] + One(ip = i)
    BY <1>1 DEF One
  <2>2. AtCall(i)' = AtCall(i) - One(ip = i) /\ AtCall(i) \in Nat
    BY <1>1, <1>2, <1>3 DEF CallsMoved, One, ip
  <2>3. upstream[i] + AtCall(i) <= PassedBy(i) /\ One(ip = i) \in Nat
    BY DEF RationInv, One
  <2> QED BY <1>5, <1>6, <2>1, <2>2, <2>3
<1>8. (ChargedTo("pds") + AtPds <= ChargedTo("did"))'
  <2>1. AtPds' <= AtPds /\ AtPds' \in Nat /\ AtPds \in Nat
    BY <1>1, <1>2, <1>3 DEF CallsMoved, One
  <2> QED BY <1>5, <1>6, <2>1 DEF RationInv
<1>9. (ChargedTo("did") + AtDid <= Resolved)'
  <2>1. /\ AtDid' \in Nat /\ AtDid \in Nat
        /\ AtDid' <= IF ip \in Ip \ Trusted THEN AtDid + 1 ELSE AtDid
    BY <1>1, <1>2, <1>3 DEF CallsMoved, One
  <2> QED BY <1>4, <1>5, <1>6, <2>1 DEF RationInv
<1> QED BY <1>5, <1>7, <1>8, <1>9 DEF RationInv

(* An attempt at the gate "burst" that passes pays for the call, one at    *)
(* "did" leaves its balance, pays for the host and is charged itself.      *)
LEMMA CheckRation ==
  ASSUME LimitInv, RationInv, NEW r \in Req, Check(r) PROVE RationInv'
<1> DEFINE k == req[r].key
           pass == bucket[k] + 1 <= LimitFor(req[r])
           q == [req[r] EXCEPT !.key = None,
                   !.pc = IF pass THEN After(req[r]) ELSE Denied(req[r])]
<1>1. /\ TypeOK /\ req[r] \in Request /\ k \in Key /\ ReqOK(req[r])
      /\ req[r].pc \in Gate /\ k.gate = req[r].pc /\ k.id = Scope(req[r]) /\ req[r].ip \in Ip
  BY DEF Check, LimitInv, TypeOK, Request, ReqsOK, ReqOK, Ended, Gate
<1>2. /\ upstream' = upstream /\ tries' = [tries EXCEPT ![k] = @ + 1]
      /\ passed' = IF pass THEN [passed EXCEPT ![k] = @ + 1] ELSE passed
      /\ req' = [req EXCEPT ![r] = q]
  BY DEF Check
<1>3. /\ q.ip = req[r].ip
      /\ q.pc \in {"burst", "resolve", "pds", "done", "loginPage", "notFound"}
      /\ q.pc = "resolve" => pass /\ req[r].pc = "burst"
      /\ q.pc = "pds" => req[r].pc = "did"
  BY <1>1 DEF Request, After, Denied
<1> HIDE DEF k, pass, q
<1>4. CallsMoved(r, q)
  BY <1>1, <1>2, CallsMove
<1>5. /\ tries \in [Key -> Nat] /\ passed \in [Key -> Nat]
      /\ \A i : BurstOf(i) \in SUBSET Key
      /\ \A g : Under(g) \in SUBSET Key
  BY <1>1 DEF TypeOK, BurstOf, Under
<1>6. /\ \A i \in Ip \ Trusted : upstream[i] \in Nat /\ PassedBy(i) \in Nat
      /\ ChargedTo("did") \in Nat /\ ChargedTo("pds") \in Nat /\ Resolved \in Nat
  BY <1>1, CountsAreNumbers DEF RationInv
<1>7. ASSUME NEW i \in Ip
      PROVE  /\ IsFiniteSet(Each(passed', BurstOf(i)))
             /\ PassedBy(i)' = PassedBy(i) + One(pass /\ req[r].pc = "burst" /\ req[r].ip = i)
  <2>1. Each(passed, BurstOf(i))' = Each(passed', BurstOf(i)) /\ IsFiniteSet(Each(passed, BurstOf(i)))
    BY DEF Each, BurstOf, RationInv, AttemptsFinite
  <2>2. CASE ~pass
    BY <1>2, <2>1, <2>2, FS_CardinalityType DEF PassedBy, One
  <2>3. CASE pass
    <3>1. OneMore(passed, passed', k, BurstOf(i))
      BY <1>1, <1>2, <1>5, <2>1, <2>3, EachMore
    <3>2. k \in BurstOf(i) <=> req[r].pc = "burst" /\ req[r].ip = i
      BY <1>1 DEF BurstOf, Scope
    <3> QED BY <2>1, <2>3, <3>1, <3>2 DEF OneMore, One, PassedBy
  <2> QED BY <2>2, <2>3
<1>8. ASSUME NEW g \in {"did", "pds"}
      PROVE  /\ IsFiniteSet(Each(tries', Under(g)))
             /\ ChargedTo(g)' = ChargedTo(g) + One(req[r].pc = g)
  <2>1. Each(tries, Under(g))' = Each(tries', Under(g)) /\ IsFiniteSet(Each(tries, Under(g)))
    BY DEF Each, Under, RationInv, AttemptsFinite
  <2>2. OneMore(tries, tries', k, Under(g))
    BY <1>1, <1>2, <1>5, <2>1, EachMore
  <2>3. k \in Under(g) <=> req[r].pc = g
    BY <1>1 DEF Under
  <2> QED BY <2>1, <2>2, <2>3 DEF OneMore, One, ChargedTo
<1>9. Resolved' = Resolved /\ AttemptsFinite'
  BY <1>2, <1>7, <1>8 DEF Resolved, RationInv, AttemptsFinite, Each, BurstOf, Under
<1>10. ASSUME NEW i \in Ip \ Trusted PROVE (upstream[i] + AtCall(i) <= PassedBy(i))'
  <2>1. /\ AtCall(i) \in Nat /\ AtCall(i)' \in Nat
        /\ AtCall(i)' <= AtCall(i) + One(pass /\ req[r].pc = "burst" /\ req[r].ip = i)
    BY <1>3, <1>4 DEF CallsMoved, One
  <2>2. upstream[i] + AtCall(i) <= PassedBy(i)
    BY DEF RationInv
  <2> QED BY <1>2, <1>6, <1>7, <2>1, <2>2 DEF One
<1>11. /\ AtDid \in Nat /\ AtDid' \in Nat /\ AtDid' <= AtDid - One(req[r].pc = "did")
       /\ AtPds \in Nat /\ AtPds' \in Nat
       /\ AtPds' <= AtPds + One(req[r].pc = "did") - One(req[r].pc = "pds")
  BY <1>1, <1>3, <1>4 DEF CallsMoved, One
<1>12. (ChargedTo("pds") + AtPds <= ChargedTo("did"))'
  BY <1>6, <1>8, <1>11 DEF RationInv, One
<1>13. (ChargedTo("did") + AtDid <= Resolved)'
  BY <1>6, <1>8, <1>9, <1>11 DEF RationInv, One
<1> QED BY <1>9, <1>10, <1>12, <1>13 DEF RationInv

THEOREM RationStep == LimitInv /\ RationInv /\ [Next]_vars => RationInv'
<1> SUFFICES ASSUME LimitInv, RationInv, [Next]_vars PROVE RationInv'
  OBVIOUS
<1>1. CASE \E r \in Req : Receive(r) \/ Stamp(r) \/ IsVip(r) \/ Fail(r)
  BY <1>1, MovesKeepRation
<1>2. CASE \E r \in Req : Check(r)
  BY <1>2, CheckRation
<1>3. CASE \E r \in Req : Resolve(r)
  BY <1>3, ResolveRation
<1>4. CASE \/ SweepBegin \/ SweepExpiredBuckets \/ SweepFails \/ Tick
           \/ (\E d \in Did : ConfigVip(d)) \/ UNCHANGED vars
  <2>1. UNCHANGED <<req, tries, passed, upstream>>
    BY <1>4 DEF SweepBegin, SweepExpiredBuckets, SweepFails, Tick, ConfigVip, vars
  <2> QED BY <2>1 DEF RationInv, AttemptsFinite, AtCall, AtDid, AtPds, Standing, Resolved,
                     PassedBy, ChargedTo, Each, BurstOf, Under
<1> QED BY <1>1, <1>2, <1>3, <1>4 DEF Next

(* However requests, failures and changes of the VIP list interleave, an   *)
(* address has the registry call upstream no more often than its own gates *)
(* let it through, and DIDs and hosts are charged only for such calls      *)
(* (service.rs register: "IP rate limits before network calls").           *)
THEOREM RateUpstreamRationed == Spec => []UpstreamRationed
<1>1. ASSUME TypeOK, RationInv PROVE UpstreamRationed
  <2>1. /\ \A i \in Ip \ Trusted : upstream[i] \in Nat /\ PassedBy(i) \in Nat
        /\ ChargedTo("did") \in Nat /\ ChargedTo("pds") \in Nat /\ Resolved \in Nat
    BY <1>1, CountsAreNumbers DEF RationInv
  <2>2. \A pcs, ips : Cardinality(Standing(pcs, ips)) \in Nat
    <3> SUFFICES ASSUME NEW pcs, NEW ips PROVE Cardinality(Standing(pcs, ips)) \in Nat
      OBVIOUS
    <3>1. Standing(pcs, ips) \subseteq Req
      BY DEF Standing
    <3> QED BY <3>1, RateLimitAssumption, FS_Subset, FS_CardinalityType
  <2>3. (\A i : AtCall(i) \in Nat) /\ AtDid \in Nat /\ AtPds \in Nat
    BY <2>2 DEF AtCall, AtDid, AtPds
  <2>4. \A i \in Ip \ Trusted : upstream[i] <= PassedBy(i)
    BY <1>1, <2>1, <2>3 DEF RationInv
  <2>5. ChargedTo("pds") <= ChargedTo("did") /\ ChargedTo("did") <= Resolved
    BY <1>1, <2>1, <2>3 DEF RationInv
  <2> QED BY <2>4, <2>5 DEF UpstreamRationed, Resolved
<1>2. LimitInv /\ RationInv => UpstreamRationed
  BY <1>1 DEF LimitInv
<1> QED BY <1>2, LimitInit, LimitStep, RationInit, RationStep, PTL DEF Spec
=============================================================================
