-------------------------- MODULE ActivityLogProofs --------------------------
(* The ring buffer of the activity log, for every capacity and any number   *)
(* of requests.                                                             *)
EXTENDS ActivityLog, Integers, FiniteSetTheorems, TLAPS

IInv == TypeOK /\ LatestKept

(* The ids that are left when those up to the offset row are dropped.       *)
LEMMA DropFromInterval ==
  ASSUME LogAssumption, NEW lo \in Nat \ {0}, NEW hi \in Nat
  PROVE  DropUpTo(lo .. hi) = IF hi - Cap >= lo THEN hi - Cap ELSE 0
  <1>1. ASSUME NEW i \in lo .. hi
        PROVE  Cardinality({j \in lo .. hi : j > i}) = hi - i
    <2>1. {j \in lo .. hi : j > i} = (i + 1) .. hi
      OBVIOUS
    <2>2. Cardinality((i + 1) .. hi) = IF i + 1 > hi THEN 0 ELSE hi - (i + 1) + 1
      BY FS_Interval
    <2>3. (IF i + 1 > hi THEN 0 ELSE hi - (i + 1) + 1) = hi - i
      OBVIOUS
    <2>4. QED
      BY <2>1, <2>2, <2>3
  <1>2. Cap \in Nat \ {0}
    BY DEF LogAssumption
  <1>3. \A i \in lo .. hi : Cardinality({j \in lo .. hi : j > i}) = Cap <=> i = hi - Cap
    BY <1>1, <1>2
  <1>4. hi - Cap \in lo .. hi <=> hi - Cap >= lo
    BY <1>2
  <1>5. CASE hi - Cap >= lo
    <2>1. hi - Cap \in lo .. hi
      BY <1>4, <1>5
    <2>2. \E i \in lo .. hi : Cardinality({j \in lo .. hi : j > i}) = Cap
      BY <1>3, <2>1
    <2>3. (CHOOSE i \in lo .. hi : Cardinality({j \in lo .. hi : j > i}) = Cap) = hi - Cap
      BY <1>3, <2>2
    <2>4. QED
      BY <1>5, <2>2, <2>3 DEF DropUpTo
  <1>6. CASE ~(hi - Cap >= lo)
    <2>1. ~ \E i \in lo .. hi : Cardinality({j \in lo .. hi : j > i}) = Cap
      BY <1>3, <1>4, <1>6
    <2>2. QED
      BY <1>6, <2>1 DEF DropUpTo
  <1>7. QED
    BY <1>5, <1>6

LEMMA LogStart == Init => IInv
  BY LogAssumption DEF Init, IInv, TypeOK, LatestKept, Ids, Oldest, LogAssumption

LEMMA AppendKeeps ==
  ASSUME IInv, NEW p \in Proc, Append(p)
  PROVE  IInv'
  <1> DEFINE row == [id |-> next, ts |-> pending[p].ts, event |-> pending[p].event]
             all == log \cup {row}
  <1>1. /\ log' = {r \in all : r.id > DropUpTo({q.id : q \in all})}
        /\ next' = next + 1 /\ next \in Nat \ {0}
        /\ pending[p] # None /\ pending' = [pending EXCEPT ![p] = None] /\ clock' = clock
    BY DEF Append, IInv, TypeOK
  <1>2. row \in Row
    BY <1>1 DEF IInv, TypeOK, Row
  <1>3. TypeOK'
    <2>1. log' \subseteq Row
      BY <1>1, <1>2 DEF IInv, TypeOK
    <2>2. QED
      BY <1>1, <2>1 DEF IInv, TypeOK
  <1>4. Cap \in Nat \ {0}
    BY LogAssumption
  <1>5. Oldest \in Nat \ {0} /\ Oldest <= next
    BY <1>1, <1>4 DEF Oldest
  <1>6. {q.id : q \in all} = Oldest .. next
    <2>1. {q.id : q \in log \cup {row}} = {q.id : q \in log} \cup {row.id}
      OBVIOUS
    <2>2. row.id = next
      OBVIOUS
    <2>3. {q.id : q \in log} = Oldest .. (next - 1)
      BY DEF IInv, LatestKept, Ids
    <2>4. (Oldest .. (next - 1)) \cup {next} = Oldest .. next
      BY <1>1, <1>5
    <2> HIDE DEF row
    <2>5. QED
      BY <2>1, <2>2, <2>3, <2>4
  <1>7. DropUpTo(Oldest .. next) = IF next - Cap >= Oldest THEN next - Cap ELSE 0
    BY <1>1, <1>5, DropFromInterval, LogAssumption
  <1>8. Ids' = {i \in Oldest .. next : i > DropUpTo(Oldest .. next)}
    <2> HIDE DEF all
    <2>1. Ids' = {i \in {q.id : q \in all} : i > DropUpTo({q.id : q \in all})}
      BY <1>1 DEF Ids
    <2>2. QED
      BY <1>6, <2>1
  <1>9. Ids' = Oldest' .. (next' - 1)
    BY <1>1, <1>4, <1>5, <1>7, <1>8 DEF Oldest
  <1>10. QED
    BY <1>3, <1>9 DEF IInv, LatestKept

LEMMA LogStep == IInv /\ [Next]_vars => IInv'
  <1> SUFFICES ASSUME IInv, [Next]_vars
               PROVE  IInv'
    OBVIOUS
  <1> USE DEF IInv, TypeOK, LatestKept, Ids, Oldest
  <1>1. CASE UNCHANGED vars
    BY <1>1 DEF vars
  <1>2. CASE Tick
    BY <1>2 DEF Tick
  <1>3. ASSUME NEW p \in Proc, Stamp(p)
        PROVE  IInv'
    BY <1>3 DEF Stamp
  <1>4. ASSUME NEW p \in Proc, GiveUp(p)
        PROVE  IInv'
    BY <1>4 DEF GiveUp
  <1>5. QED
    BY <1>1, <1>2, <1>3, <1>4, AppendKeeps DEF Next

(* The log is exactly the latest Cap events, whatever Cap is and however    *)
(* many requests append to it.                                              *)
THEOREM LogLatestKept == Spec => []LatestKept
  <1>1. IInv => LatestKept
    BY DEF IInv
  <1>2. QED
    BY <1>1, LogStart, LogStep, PTL DEF Spec

(* Rows are appended under a fresh id or forgotten, never changed.          *)
THEOREM LogOnlyForgets == Spec => OnlyForgets
  <1>1. ASSUME [Next]_vars
        PROVE  \A r \in log' : r \in log \/ r.id = next
    <2>1. ASSUME NEW p \in Proc, Append(p)
          PROVE  \A r \in log' : r \in log \/ r.id = next
      BY <2>1 DEF Append
    <2>2. CASE ~ \E p \in Proc : Append(p)
      <3>1. log' = log
        BY <1>1, <2>2 DEF Next, vars, Tick, Stamp, GiveUp
      <3>2. QED
        BY <3>1
    <2>3. QED
      BY <2>1, <2>2
  <1>2. QED
    BY <1>1, PTL DEF Spec, OnlyForgets

(***************************************************************************)
(* The disorder of the list.  What may still be listed above a row although *)
(* it is older is pending when the row is appended, and only gets less.     *)
(***************************************************************************)

Late(q)   == {r \in log : r.id > q.id /\ r.ts < q.ts}
Behind(t) == {p \in Proc : pending[p] # None /\ pending[p].ts < t}

OrderInv ==
  /\ IsFiniteSet(log)
  /\ \A p \in Proc : pending[p] # None => pending[p].ts <= clock
  /\ \A q \in log : /\ q.ts <= clock /\ q.id < next
                    /\ Cardinality(Late(q)) + Cardinality(Behind(q.ts)) < Cardinality(Proc)

LEMMA OrderSizes ==
  ASSUME OrderInv
  PROVE  /\ Cardinality(Proc) \in Nat
         /\ \A q : IsFiniteSet(Late(q)) /\ Cardinality(Late(q)) \in Nat
         /\ \A t : IsFiniteSet(Behind(t)) /\ Cardinality(Behind(t)) \in Nat
  <1>1. IsFiniteSet(Proc) /\ IsFiniteSet(log)
    BY LogAssumption DEF OrderInv
  <1>2. \A q : Late(q) \in SUBSET log
    BY DEF Late
  <1>3. \A t : Behind(t) \in SUBSET Proc
    BY DEF Behind
  <1>4. (\A q : IsFiniteSet(Late(q))) /\ \A t : IsFiniteSet(Behind(t))
    BY <1>1, <1>2, <1>3, FS_Subset
  <1>5. QED
    BY <1>1, <1>4, FS_CardinalityType

(* While the rows and what waits behind them only shrink, nothing is lost.  *)
LEMMA OrderShrinks ==
  ASSUME OrderInv, log' = log, next' = next, clock' >= clock, clock \in Nat, clock' \in Nat,
         log \subseteq Row,
         \A p \in Proc : pending'[p] # None => pending'[p].ts <= clock',
         \A q \in log : Behind(q.ts)' \subseteq Behind(q.ts)
  PROVE  OrderInv'
  <1>1. ASSUME NEW q \in log
        PROVE  Cardinality(Late(q)') + Cardinality(Behind(q.ts)') < Cardinality(Proc)
    <2>1. Late(q)' = Late(q)
      BY DEF Late
    <2>2. /\ IsFiniteSet(Behind(q.ts)') 
          /\ Cardinality(Behind(q.ts)') <= Cardinality(Behind(q.ts))
          /\ Cardinality(Behind(q.ts)') \in Nat
      BY OrderSizes, FS_Subset, FS_CardinalityType
    <2>3. QED
      BY <2>1, <2>2, OrderSizes DEF OrderInv
  <1>2. \A q \in log : q.ts <= clock' /\ q.id < next'
    BY DEF OrderInv, Row
  <1>3. QED
    BY <1>1, <1>2 DEF OrderInv, Late, Behind

LEMMA OrderAppend ==
  ASSUME IInv, OrderInv, NEW p \in Proc, Append(p)
  PROVE  OrderInv'
  <1>0. PICK row : row = [id |-> next, ts |-> pending[p].ts, event |-> pending[p].event]
    OBVIOUS
  <1>1. /\ log' \subseteq log \cup {row}
        /\ next' = next + 1 /\ next \in Nat \ {0} /\ clock' = clock /\ clock \in Nat
        /\ pending[p] # None /\ pending[p].ts \in Nat /\ pending[p].ts <= clock
        /\ pending' = [pending EXCEPT ![p] = None]
        /\ pending \in [Proc -> [ts : Nat, event : Event] \cup {None}]
    BY <1>0 DEF Append, IInv, TypeOK, OrderInv
  <1>2. row.id = next /\ row.ts = pending[p].ts
    BY <1>0
  <1>3. \A q \in log : q.id \in Nat /\ q.ts \in Nat /\ q.id < next /\ q.ts <= clock
    BY DEF OrderInv, IInv, TypeOK, Row
  <1>4. IsFiniteSet(log')
    <2>1. IsFiniteSet(log \cup {row})
      BY FS_AddElement DEF OrderInv
    <2>2. QED
      BY <1>1, <2>1, FS_Subset
  <1>5. \A t : Behind(t)' = Behind(t) \ {p}
    BY <1>1 DEF Behind
  <1>6. \A q : IsFiniteSet(Late(q)')
    <2>1. \A q : Late(q)' \in SUBSET log'
      BY DEF Late
    <2>2. QED
      BY <1>4, <2>1, FS_Subset
  <1>7. \A t : /\ IsFiniteSet(Behind(t)') /\ Cardinality(Behind(t)') \in Nat
               /\ Cardinality(Behind(t)') = IF p \in Behind(t) THEN Cardinality(Behind(t)) - 1
                                                             ELSE Cardinality(Behind(t))
    BY <1>5, OrderSizes, FS_RemoveElement, FS_CardinalityType
  <1>8. ASSUME NEW q \in log', q # row
        PROVE  Cardinality(Late(q)') + Cardinality(Behind(q.ts)') < Cardinality(Proc)
    <2>1. q \in log /\ q.id < next
      BY <1>1, <1>3, <1>8
    <2>2. Cardinality(Late(q)) + Cardinality(Behind(q.ts)) < Cardinality(Proc)
      BY <2>1 DEF OrderInv
    <2>3. CASE p \in Behind(q.ts)
      <3>1. Late(q)' \in SUBSET (Late(q) \cup {row})
        BY <1>1 DEF Late
      <3>2. IsFiniteSet(Late(q) \cup {row})
            /\ Cardinality(Late(q) \cup {row}) <= Cardinality(Late(q)) + 1
        <4>1. IsFiniteSet(Late(q)) /\ Cardinality(Late(q)) \in Nat
          BY OrderSizes
        <4>2. /\ IsFiniteSet(Late(q) \cup {row})
              /\ Cardinality(Late(q) \cup {row})
                   = IF row \in Late(q) THEN Cardinality(Late(q)) ELSE Cardinality(Late(q)) + 1
          BY <4>1, FS_AddElement
        <4>3. QED
          BY <4>1, <4>2
      <3>3. Cardinality(Late(q)') <= Cardinality(Late(q)) + 1 /\ Cardinality(Late(q)') \in Nat
        BY <1>6, <3>1, <3>2, OrderSizes, FS_Subset, FS_CardinalityType
      <3>4. QED
        BY <1>7, <2>2, <2>3, <3>3, OrderSizes
    <2>4. CASE p \notin Behind(q.ts)
      <3>1. ~(row.ts < q.ts)
        BY <1>1, <1>2, <2>4 DEF Behind
      <3>2. Late(q)' \in SUBSET Late(q)
        BY <1>1, <3>1 DEF Late
      <3>3. Cardinality(Late(q)') <= Cardinality(Late(q)) /\ Cardinality(Late(q)') \in Nat
        BY <1>6, <3>2, OrderSizes, FS_Subset, FS_CardinalityType
      <3>4. QED
        BY <1>7, <2>2, <2>4, <3>3, OrderSizes
    <2>5. QED
      BY <2>3, <2>4
  <1>9. ASSUME row \in log'
        PROVE  Cardinality(Late(row)') + Cardinality(Behind(row.ts)') < Cardinality(Proc)
    <2>1. Late(row)' = {}
      BY <1>1, <1>2, <1>3 DEF Late
    <2>2. Behind(row.ts)' \in SUBSET (Proc \ {p})
      BY <1>5 DEF Behind
    <2>3. IsFiniteSet(Proc \ {p}) /\ Cardinality(Proc \ {p}) = Cardinality(Proc) - 1
      BY LogAssumption, FS_RemoveElement
    <2>4. Cardinality(Behind(row.ts)') <= Cardinality(Proc) - 1
      BY <2>2, <2>3, FS_Subset
    <2>5. QED
      BY <1>7, <2>1, <2>4, FS_EmptySet, OrderSizes
  <1>10. \A q \in log' : q.ts <= clock' /\ q.id < next'
    BY <1>1, <1>2, <1>3
  <1>11. \A q \in Proc : pending'[q] # None => pending'[q].ts <= clock'
    BY <1>1 DEF OrderInv
  <1>12. QED
    <2>1. \A q \in log' : Cardinality(Late(q)') + Cardinality(Behind(q.ts)') < Cardinality(Proc)
      BY <1>8, <1>9
    <2>2. QED
      BY <1>4, <1>10, <1>11, <2>1 DEF OrderInv, Late, Behind

LEMMA OrderStart == Init => OrderInv
  BY FS_EmptySet DEF Init, OrderInv

LEMMA OrderStep == IInv /\ OrderInv /\ [Next]_vars => OrderInv'
  <1> SUFFICES ASSUME IInv, OrderInv, [Next]_vars
               PROVE  OrderInv'
    OBVIOUS
  <1>0. /\ clock \in Nat /\ log \subseteq Row
        /\ pending \in [Proc -> [ts : Nat, event : Event] \cup {None}]
        /\ \A q \in log : q.ts \in Nat /\ q.ts <= clock
    BY DEF IInv, TypeOK, OrderInv, Row
  <1>1. CASE UNCHANGED vars
    BY <1>0, <1>1, OrderShrinks DEF vars, OrderInv, Behind
  <1>2. CASE Tick
    <2>1. \A p \in Proc : pending'[p] # None => pending'[p].ts <= clock'
      BY <1>0, <1>2 DEF Tick, OrderInv
    <2>2. QED
      BY <1>0, <1>2, <2>1, OrderShrinks DEF Tick, Behind
  <1>3. ASSUME NEW p \in Proc, Stamp(p)
        PROVE  OrderInv'
    <2>1. PICK e \in Event : pending' = [pending EXCEPT ![p] = [ts |-> clock, event |-> e]]
      BY <1>3 DEF Stamp
    <2>2. \A q \in Proc : pending'[q] # None => pending'[q].ts <= clock
      BY <1>0, <2>1 DEF OrderInv
    <2>3. \A q \in log : Behind(q.ts)' \subseteq Behind(q.ts)
      BY <1>0, <2>1 DEF Behind
    <2>4. QED
      BY <1>0, <1>3, <2>2, <2>3, OrderShrinks DEF Stamp
  <1>4. ASSUME NEW p \in Proc, GiveUp(p)
        PROVE  OrderInv'
    <2>1. \A q \in Proc : pending'[q] # None => pending'[q].ts <= clock
      BY <1>0, <1>4 DEF GiveUp, OrderInv
    <2>2. \A q \in log : Behind(q.ts)' \subseteq Behind(q.ts)
      BY <1>0, <1>4 DEF GiveUp, Behind
    <2>3. QED
      BY <1>0, <1>4, <2>1, <2>2, OrderShrinks DEF GiveUp
  <1>5. QED
    BY <1>1, <1>2, <1>3, <1>4, OrderAppend DEF Next

(* No event has more older ones listed above it than other requests were    *)
(* waiting for the database when it was appended.                           *)
THEOREM LogDisorderBounded == Spec => []DisorderBounded
  <1>1. OrderInv => DisorderBounded
    <2>1. ASSUME OrderInv, NEW q \in log
          PROVE  Cardinality({r \in log : r.id > q.id /\ r.ts < q.ts}) < Cardinality(Proc)
      <3>1. {r \in log : r.id > q.id /\ r.ts < q.ts} = Late(q)
        BY DEF Late
      <3>2. Cardinality(Late(q)) + Cardinality(Behind(q.ts)) < Cardinality(Proc)
        BY <2>1 DEF OrderInv
      <3>3. /\ Cardinality(Late(q)) \in Nat /\ Cardinality(Behind(q.ts)) \in Nat
            /\ Cardinality(Proc) \in Nat
        BY <2>1, OrderSizes
      <3>4. Cardinality(Late(q)) < Cardinality(Proc)
        BY <3>2, <3>3
      <3>5. QED
        BY <3>1, <3>4, Zenon
    <2>2. QED
      BY <2>1 DEF DisorderBounded
  <1>2. QED
    BY <1>1, LogStart, LogStep, OrderStart, OrderStep, PTL DEF Spec
=============================================================================
