---------------------------- MODULE RegistrySafety ----------------------------
(***************************************************************************)
(* Registry's safety invariants: the bans, the cap, the secrets on their   *)
(* way to the clients, the balance of the activity log.                    *)
(***************************************************************************)
EXTENDS RegistryProofs, FiniteSetTheorems

-----------------------------------------------------------------------------
(* Bans survive the unlocked checks of the register flow, for any number of *)
(* requests in flight and whatever the administrator does meanwhile.        *)

AfterKeyword  == {"taken", "getDid", "count", "vip", "write", "log"}
AfterReserved == AfterKeyword \cup {"keyword"}
AfterPds      == AfterReserved \cup {"gateDid", "reserved"}
AfterDid      == AfterPds \cup {"blockedPds"}

Elsewhere     == {"find", "remove", "drop"}   \* no registration gets here

(* Each check that is behind a registration found no ban, so the ban was    *)
(* not in force from the start.                                             *)
Cleared(r) ==
  /\ r.pc \notin Elsewhere
  /\ r.pc \in AfterDid      => <<"blocked_dids", r.did>> \notin r.standing
  /\ r.pc \in AfterPds      => <<"blocked_pds", r.host>> \notin r.standing
  /\ r.pc \in AfterReserved => <<"reserved_handles", r.sub>> \notin r.standing
  /\ r.pc \in AfterKeyword  => ~HasBlockedKeyword(r.sub, r.standing)

BansInv ==
  \A p \in Proc :
    /\ req[p].standing \subseteq config
    /\ req[p].op = "register" => Cleared(req[p])

LEMMA BansStart == Init => BansInv
  BY DEF Init, BansInv, Idle, Cleared, Elsewhere, AfterDid, AfterPds, AfterReserved, AfterKeyword

LEMMA IdleClear == \A r : r.pc \notin AfterDid \cup Elsewhere => Cleared(r)
  BY DEF Cleared, AfterDid, AfterPds, AfterReserved, AfterKeyword

(* What a step may do to the request's claim: give it up, or carry it on.   *)
GivesUp(p) ==
  /\ req'[p].pc \notin AfterDid \cup Elsewhere
  /\ req'[p].standing \subseteq req[p].standing
CarriesOn(p, label) ==
  /\ req'[p].pc = label
  /\ req'[p].op = req[p].op
  /\ req'[p].did = req[p].did
  /\ req'[p].sub = req[p].sub
  /\ req'[p].host = req[p].host
  /\ req'[p].standing = req[p].standing

StaysClear(p) ==
  /\ req'[p].standing \subseteq config
  /\ req'[p].op = "register" => Cleared(req'[p])

(* A step that only moves request p keeps BansInv if it does for p.         *)
LEMMA BansOfOne ==
  ASSUME IInv, BansInv, NEW p \in Proc, Moves(p), config' = config,
         StaysClear(p)
  PROVE  BansInv'
  BY DEF BansInv, Moves, StaysClear, Cleared, HasBlockedKeyword

LEMMA RefuseGivesUp ==
  ASSUME IInv, NEW p \in Proc, NEW code, Refuse(p, code)
  PROVE  GivesUp(p)
  BY DEF IInv, TypeOK, Refuse, Idle, GivesUp, Elsewhere, AfterDid, AfterPds, AfterReserved, AfterKeyword

LEMMA GotoCarriesOn ==
  ASSUME IInv, NEW p \in Proc, NEW label, Goto(p, label)
  PROVE  CarriesOn(p, label)
  BY DEF IInv, TypeOK, Goto, CarriesOn, Request

LEMMA GaveUpClear ==
  ASSUME BansInv, NEW p \in Proc, GivesUp(p)
  PROVE  req'[p].standing \subseteq config /\ Cleared(req'[p])
  BY IdleClear DEF BansInv, GivesUp

LEMMA BansRead ==
  ASSUME IInv, BansInv, NEW p \in Proc, ReadStep(p)
  PROVE  StaysClear(p)
  <1> USE DEF Reads, At, Listed
  <1>1. /\ req[p] \in Request /\ req \in [Proc -> Request]
        /\ req[p].standing \subseteq config
        /\ req[p].op = "register" => Cleared(req[p])
    BY DEF IInv, TypeOK, BansInv
  <1>2. ASSUME GivesUp(p)
        PROVE  StaysClear(p)
    BY <1>2, GaveUpClear DEF StaysClear
  <1>3. ASSUME NEW label, CarriesOn(p, label), label \notin Elsewhere,
               label \in AfterDid      => req[p].pc \in AfterDid
                                          \/ <<"blocked_dids", req[p].did>> \notin config,
               label \in AfterPds      => req[p].pc \in AfterPds,
               label \in AfterReserved => req[p].pc \in AfterReserved
                                          \/ <<"reserved_handles", req[p].sub>> \notin config,
               label \in AfterKeyword  => req[p].pc \in AfterKeyword
                                          \/ ~HasBlockedKeyword(req[p].sub, config)
        PROVE  StaysClear(p)
    BY <1>1, <1>3 DEF StaysClear, CarriesOn, Cleared, HasBlockedKeyword
  <1> USE DEF Elsewhere, AfterDid, AfterPds, AfterReserved, AfterKeyword
  <1>4. CASE Gate(p)
    <2>1. ASSUME req[p].op # "register", CarriesOn(p, "find")
          PROVE  StaysClear(p)
      BY <1>1, <2>1 DEF StaysClear, CarriesOn
    <2>2. QED
      BY <1>2, <1>3, <1>4, <2>1, RefuseGivesUp, GotoCarriesOn DEF Gate
  <1>5. CASE ResolveHandle(p)
    <2>1. ASSUME NEW d \in DID, req' = [req EXCEPT ![p].did = d, ![p].pc = "blockedDid"]
          PROVE  GivesUp(p)
      BY <1>1, <2>1 DEF GivesUp, Request
    <2>2. QED
      BY <1>2, <1>5, <2>1, RefuseGivesUp DEF ResolveHandle
  <1>6. CASE CheckBlockedDid(p)
    BY <1>2, <1>3, <1>6, RefuseGivesUp, GotoCarriesOn DEF CheckBlockedDid
  <1>7. CASE CheckBlockedPds(p)
    <2>1. PICK h \in Host \cup {None} :
            req' = [req EXCEPT ![p].host = h,
                               ![p].pc = IF h # None /\ Listed("blocked_pds", h)
                                         THEN "logBlocked" ELSE "gateDid"]
      BY <1>7 DEF CheckBlockedPds
    <2>2. <<"blocked_pds", None>> \notin req[p].standing
      BY <1>1, RegistryAssumption DEF Request
    <2>3. CASE h # None /\ Listed("blocked_pds", h)
      <3>1. GivesUp(p)
        BY <1>1, <2>1, <2>3 DEF GivesUp, Request
      <3>2. QED
        BY <1>2, <3>1
    <2>4. CASE ~(h # None /\ Listed("blocked_pds", h))
      <3>1. /\ req'[p].pc = "gateDid" /\ req'[p].host = h
            /\ req'[p].op = req[p].op /\ req'[p].did = req[p].did
            /\ req'[p].standing = req[p].standing
        BY <1>1, <2>1, <2>4 DEF Request
      <3>2. <<"blocked_pds", h>> \notin req[p].standing
        BY <1>1, <2>2, <2>4
      <3>3. QED
        BY <1>1, <1>7, <3>1, <3>2 DEF StaysClear, Cleared, CheckBlockedPds
    <2>5. QED
      BY <2>3, <2>4
  <1>8. CASE GateDid(p)
    BY <1>2, <1>3, <1>8, RefuseGivesUp, GotoCarriesOn DEF GateDid
  <1>9. CASE CheckReserved(p)
    BY <1>2, <1>3, <1>9, RefuseGivesUp, GotoCarriesOn DEF CheckReserved
  <1>10. CASE CheckKeyword(p)
    BY <1>2, <1>3, <1>10, GotoCarriesOn DEF CheckKeyword
  <1>11. CASE CheckTaken(p)
    BY <1>2, <1>3, <1>11, RefuseGivesUp, GotoCarriesOn DEF CheckTaken
  <1>12. CASE GetDid(p)
    <2>1. \E label \in {"write", "count"} : CarriesOn(p, label)
      BY <1>1, <1>12 DEF GetDid, CarriesOn, Request
    <2>2. QED
      BY <1>3, <1>12, <2>1 DEF GetDid
  <1>13. CASE CountHandles(p)
    <2>1. CarriesOn(p, "vip")
      BY <1>1, <1>13 DEF CountHandles, CarriesOn, Request
    <2>2. QED
      BY <1>3, <1>13, <2>1 DEF CountHandles
  <1>14. CASE CheckVip(p)
    BY <1>2, <1>3, <1>14, RefuseGivesUp, GotoCarriesOn DEF CheckVip
  <1>15. CASE RaceToUnavailable(p) \/ ForeignKeyViolation(p) \/ LogBlocked(p)
              \/ DeleteFindsNothing(p)
    BY <1>2, <1>15, RefuseGivesUp
       DEF RaceToUnavailable, ForeignKeyViolation, LogBlocked, DeleteFindsNothing
  <1>16. CASE FindDidForSecret(p)
    <2>1. req[p].op # "register"
      BY <1>1, <1>16 DEF FindDidForSecret, Cleared
    <2>2. ASSUME NEW d \in DID,
                 req' = [req EXCEPT ![p].did = d,
                                    ![p].pc = IF req[p].op = "list" THEN "list" ELSE "remove"]
          PROVE  StaysClear(p)
      BY <1>1, <2>1, <2>2 DEF StaysClear, Request
    <2>3. QED
      BY <1>2, <1>16, <2>2, RefuseGivesUp DEF FindDidForSecret
  <1>17. CASE ListHandles(p)
    <2>1. GivesUp(p)
      BY <1>1, <1>17 DEF ListHandles, AnswerOk, GivesUp, Request
    <2>2. QED
      BY <1>2, <2>1
  <1>18. QED
    BY <1>4, <1>5, <1>6, <1>7, <1>8, <1>9, <1>10, <1>11, <1>12, <1>13, <1>14, <1>15,
       <1>16, <1>17 DEF ReadStep

LEMMA BansBegin ==
  ASSUME IInv, NEW p \in Proc, Begin(p)
  PROVE  StaysClear(p)
  <1>1. ASSUME NEW r, Start(p, r), r.pc \notin AfterDid \cup Elsewhere \/ r.op # "register",
               r.standing \subseteq config
        PROVE  StaysClear(p)
    <2>1. req'[p] = r
      BY <1>1 DEF Start, IInv, TypeOK
    <2>2. QED
      BY <1>1, <2>1, IdleClear DEF StaysClear
  <1> USE DEF Idle, Elsewhere, AfterDid, AfterPds, AfterReserved, AfterKeyword
  <1>2. CASE Register(p)
    BY <1>1, <1>2 DEF Register
  <1>3. CASE Manage(p)
    BY <1>1, <1>3 DEF Manage
  <1>4. CASE AdminAssignHandle(p)
    BY <1>1, <1>4 DEF AdminAssignHandle
  <1>5. CASE AdminDeleteHandle(p) \/ AdminDeleteDid(p)
    BY <1>1, <1>5 DEF AdminDeleteHandle, AdminDeleteDid
  <1>6. QED
    BY <1>2, <1>3, <1>4, <1>5 DEF Begin

LEMMA BansWrite ==
  ASSUME IInv, BansInv, NEW p \in Proc, WriteStep(p)
  PROVE  StaysClear(p) /\ Moves(p) /\ config' = config
  <1> USE DEF At
  <1>1. /\ req[p] \in Request /\ req \in [Proc -> Request] /\ FieldsKnown(req[p])
        /\ req[p].standing \subseteq config
        /\ req[p].op = "register" => Cleared(req[p])
    BY DEF IInv, TypeOK, BansInv
  <1>2. ASSUME CarriesOn(p, "log"), At(p, "write")
        PROVE  StaysClear(p)
    BY <1>1, <1>2 DEF StaysClear, CarriesOn, Cleared, HasBlockedKeyword, Elsewhere, AfterDid,
                      AfterPds, AfterReserved, AfterKeyword
  <1>3. CASE RegisterNewDidWithHandle(p)
    <2>1. PICK s \in Secret : req' = [req EXCEPT ![p].secret = s, ![p].pc = "log"]
      BY <1>3 DEF RegisterNewDidWithHandle
    <2>2. CarriesOn(p, "log")
      BY <1>1, <2>1 DEF CarriesOn, Request
    <2> DEFINE r == [req[p] EXCEPT !.secret = s, !.pc = "log"]
    <2>3. WellFormed(r)
      <3>1. r \in Request
        BY <1>1 DEF Request, PC
      <3>2. r.did = req[p].did /\ r.pc = "log"
        BY <1>1 DEF Request
      <3>3. QED
        BY <1>1, <1>3, <3>1, <3>2
           DEF WellFormed, FieldsKnown, NamesDid, NamesSub, RegisterNewDidWithHandle
    <2>4. req' = [req EXCEPT ![p] = r]
      BY <1>1, <2>1
    <2> HIDE DEF r
    <2>5. Moves(p)
      BY <2>3, <2>4, UpdateMoves
    <2>6. QED
      BY <1>2, <1>3, <2>2, <2>5 DEF RegisterNewDidWithHandle, InsertHandle
  <1>4. ASSUME Goto(p, "log"), req[p].pc \in {"write", "remove"}
        PROVE  Moves(p)
    BY <1>1, <1>4, GotoMoves DEF FieldsKnown, NamesDid, NamesSub, PC, Request
  <1>5. CASE AddHandle(p)
    BY <1>2, <1>4, <1>5, GotoCarriesOn DEF AddHandle, InsertHandle
  <1>6. CASE DeleteHandleAndMaybeDid(p)
    <2>1. req[p].op # "register"
      BY <1>1, <1>6 DEF DeleteHandleAndMaybeDid, Cleared, Elsewhere
    <2>2. StaysClear(p)
      BY <1>1, <1>6, <2>1, GotoCarriesOn DEF DeleteHandleAndMaybeDid, StaysClear, CarriesOn
    <2>3. QED
      BY <1>4, <1>6, <2>2 DEF DeleteHandleAndMaybeDid
  <1>7. CASE DeleteDidAndHandles(p)
    <2>1. req[p].op # "register"
      BY <1>1, <1>7 DEF DeleteDidAndHandles, Cleared, Elsewhere
    <2>2. CASE dids[req[p].did] = None
      <3>1. GivesUp(p) /\ Moves(p)
        BY <1>7, <2>2, RefuseGivesUp, RefuseMoves DEF DeleteDidAndHandles, Reply
      <3>2. QED
        BY <1>7, <3>1, GaveUpClear DEF StaysClear, DeleteDidAndHandles
    <2>3. CASE dids[req[p].did] # None
      <3> DEFINE r == [req[p] EXCEPT !.gone = HandlesOf(req[p].did), !.pc = "log"]
      <3>1. req' = [req EXCEPT ![p] = r]
        BY <1>1, <1>7, <2>3 DEF DeleteDidAndHandles
      <3>2. r \in Request
        BY <1>1 DEF Request, PC, HandlesOf
      <3>3. r.op = req[p].op /\ r.did = req[p].did /\ r.pc = "log"
            /\ r.standing = req[p].standing
        BY <1>1 DEF Request
      <3> HIDE DEF r
      <3>4. WellFormed(r)
        BY <1>1, <1>7, <3>2, <3>3
           DEF WellFormed, FieldsKnown, NamesDid, NamesSub, DeleteDidAndHandles
      <3>5. Moves(p)
        BY <3>1, <3>4, UpdateMoves
      <3>6. StaysClear(p)
        BY <1>1, <2>1, <3>1, <3>3 DEF StaysClear
      <3>7. QED
        BY <1>7, <3>5, <3>6 DEF DeleteDidAndHandles
    <2>4. QED
      BY <2>2, <2>3
  <1>8. QED
    BY <1>3, <1>5, <1>6, <1>7 DEF WriteStep

LEMMA BansOutside ==
  ASSUME IInv, BansInv, NEW p \in Proc,
         LogEvent(p) \/ Receive(p) \/ DatabaseError(p) \/ Disconnect(p)
  PROVE  BansInv'
  <1>1. req[p] \in Request /\ req \in [Proc -> Request]
    BY DEF IInv, TypeOK
  <1>2. CASE LogEvent(p)
    <2>1. Moves(p) /\ config' = config
      BY <1>2, AnswerOkMoves DEF LogEvent
    <2>2. GivesUp(p)
      BY <1>1, <1>2 DEF LogEvent, AnswerOk, GivesUp, Request, Elsewhere, AfterDid, AfterPds,
                        AfterReserved, AfterKeyword
    <2>3. QED
      BY <2>1, <2>2, GaveUpClear, BansOfOne DEF StaysClear
  <1>3. CASE DatabaseError(p)
    BY <1>3, RefuseGivesUp, RefuseMoves, GaveUpClear, BansOfOne
       DEF DatabaseError, StaysClear, tables, Reply
  <1>4. CASE Receive(p) \/ Disconnect(p)
    <2>1. req' = [req EXCEPT ![p] = Idle] /\ config' = config
      BY <1>4 DEF Receive, Disconnect, tables
    <2>2. WellFormed(Idle)
      BY DEF WellFormed, Request, Idle, PC, FieldsKnown, NamesDid, NamesSub
    <2>3. Moves(p)
      BY <2>1, <2>2, UpdateMoves
    <2>4. GivesUp(p)
      BY <1>1, <2>1 DEF GivesUp, Idle, Elsewhere, AfterDid, AfterPds, AfterReserved, AfterKeyword
    <2>5. QED
      BY <2>1, <2>3, <2>4, GaveUpClear, BansOfOne DEF StaysClear
  <1>5. QED
    BY <1>2, <1>3, <1>4

LEMMA BansConfig ==
  ASSUME IInv, BansInv, NEW c \in Listable,
         ConfigAdd(c[1], c[2]) \/ ConfigRemove(c[1], c[2])
  PROVE  BansInv'
  <1>1. CASE ConfigAdd(c[1], c[2])
    BY <1>1 DEF ConfigAdd, BansInv, Cleared, HasBlockedKeyword
  <1>2. CASE ConfigRemove(c[1], c[2])
    <2> DEFINE gone == <<c[1], c[2]>>
    <2>1. config' = config \ {gone}
      BY <1>2 DEF ConfigRemove
    <2>2. ASSUME NEW p \in Proc
          PROVE  /\ req'[p].standing = req[p].standing \ {gone}
                 /\ req'[p].op = req[p].op /\ req'[p].pc = req[p].pc
                 /\ req'[p].did = req[p].did /\ req'[p].sub = req[p].sub
                 /\ req'[p].host = req[p].host
      <3>1. req[p] \in Request
        BY DEF IInv, TypeOK
      <3>2. req'[p] = [req[p] EXCEPT !.standing = @ \ {gone}]
        BY <1>2 DEF ConfigRemove
      <3> HIDE DEF gone
      <3>3. QED
        BY <3>1, <3>2 DEF Request
    <2> HIDE DEF gone
    <2>3. QED
      BY <2>1, <2>2 DEF BansInv, Cleared, HasBlockedKeyword
  <1>3. QED
    BY <1>1, <1>2

LEMMA BansStep == IInv /\ BansInv /\ [Next]_vars => BansInv'
  <1> SUFFICES ASSUME IInv, BansInv, [Next]_vars
               PROVE  BansInv'
    OBVIOUS
  <1>1. CASE UNCHANGED vars
    BY <1>1 DEF BansInv, Cleared, HasBlockedKeyword, vars
  <1>2. ASSUME NEW p \in Proc, Begin(p) \/ ReadStep(p)
        PROVE  BansInv'
    BY <1>2, BeginMoves, ReadStepMoves, BansBegin, BansRead, BansOfOne DEF tables
  <1>3. ASSUME NEW p \in Proc, WriteStep(p)
        PROVE  BansInv'
    BY <1>3, BansWrite, BansOfOne
  <1>4. QED
    BY <1>1, <1>2, <1>3, BansOutside, BansConfig DEF Next, Serve

(* No committed registration broke a ban that was in force all along.       *)
THEOREM RegistryBansRespected == Spec => []BansRespected
  <1>1. BansInv => BansRespected
    BY DEF BansInv, BansRespected, Cleared, At, AfterDid, AfterPds, AfterReserved, AfterKeyword
  <1>2. QED
    BY <1>1, BansStart, BansStep, RegistryTypes, PTL DEF Spec

-----------------------------------------------------------------------------
(* How far past HANDLE_LIMIT_PER_DID the unlocked count can go: the number  *)
(* of requests in flight, less one, and no further.                         *)

(* Registrations that have read a count under the cap and not written yet.  *)
PastCap(d) ==
  {p \in Proc : /\ req[p].op # "assign" /\ req[p].did = d /\ ~req[p].isNew
                /\ At(p, "write") \/ (At(p, "vip") /\ ~req[p].atCap)}

(* Each of them can add one handle to what is there.                        *)
CapOf(d) ==
  Cardinality(HandlesOf(d)) + Cardinality(PastCap(d)) <= HandleLimit - 1 + Cardinality(Proc)

CapInv ==
  \A d \in DID \ exempt : <<"vip_dids", d>> \notin config /\ CapOf(d)

LEMMA Sizes ==
  /\ Cardinality(Proc) \in Nat
  /\ HandleLimit - 1 + Cardinality(Proc) \in Int
  /\ \A d : /\ IsFiniteSet(HandlesOf(d)) /\ Cardinality(HandlesOf(d)) \in Nat
            /\ IsFiniteSet(PastCap(d)) /\ Cardinality(PastCap(d)) \in Nat
            /\ Cardinality(PastCap(d)) <= Cardinality(Proc)
  <1>1. IsFiniteSet(Proc) /\ IsFiniteSet(Sub)
    BY RegistryAssumption
  <1>2. ASSUME NEW d
        PROVE  HandlesOf(d) \in SUBSET Sub /\ PastCap(d) \in SUBSET Proc
    BY DEF HandlesOf, PastCap
  <1>3. Cardinality(Proc) \in Nat
    BY <1>1, FS_CardinalityType
  <1>4. HandleLimit - 1 + Cardinality(Proc) \in Int
    BY <1>3, RegistryAssumption
  <1>5. QED
    BY <1>1, <1>2, <1>3, <1>4, FS_Subset, FS_CardinalityType

(* With h handles and w requests past the check, and then h1 and w1.         *)
LEMMA LessIsWithin ==
  ASSUME NEW h \in Nat, NEW w \in Nat, NEW h1 \in Nat, NEW w1 \in Nat, NEW n \in Int,
         h + w <= n, h1 <= h, w1 <= w
  PROVE  h1 + w1 <= n
  OBVIOUS

LEMMA CapStart == Init => CapInv
  <1> SUFFICES ASSUME Init, NEW d \in DID \ exempt
               PROVE  <<"vip_dids", d>> \notin config /\ CapOf(d)
    BY DEF CapInv
  <1>1. HandlesOf(d) = {} /\ PastCap(d) = {}
    BY RegistryAssumption DEF Init, HandlesOf, PastCap, At, Idle
  <1>2. Cardinality(Proc) \in Nat
    BY Sizes
  <1>3. QED
    BY <1>1, <1>2, FS_EmptySet, RegistryAssumption DEF Init, CapOf

(* A step that gives no DID a handle and lets no request past the check.    *)
Tightens ==
  /\ exempt \subseteq exempt'
  /\ \A d \in DID \ exempt' :
       /\ <<"vip_dids", d>> \in config' => <<"vip_dids", d>> \in config
       /\ HandlesOf(d)' \subseteq HandlesOf(d)
       /\ PastCap(d)' \subseteq PastCap(d)

LEMMA TightensKeepsCap ==
  ASSUME CapInv, Tightens
  PROVE  CapInv'
  <1> SUFFICES ASSUME NEW d \in DID \ exempt'
               PROVE  (<<"vip_dids", d>> \notin config /\ CapOf(d))'
    BY DEF CapInv
  <1>1. d \in DID \ exempt
    BY DEF Tightens
  <1>2. CapOf(d)
    BY <1>1 DEF CapInv
  <1>3. /\ Cardinality(HandlesOf(d)') <= Cardinality(HandlesOf(d))
        /\ Cardinality(PastCap(d)') <= Cardinality(PastCap(d))
        /\ Cardinality(HandlesOf(d)') \in Nat
        /\ Cardinality(PastCap(d)') \in Nat
    BY Sizes, FS_Subset, FS_CardinalityType DEF Tightens
  <1>4. HandleLimit - 1 + Cardinality(Proc) \in Int
    BY Sizes, RegistryAssumption
  <1>5. CapOf(d)'
    BY <1>2, <1>3, <1>4, Sizes, LessIsWithin DEF CapOf
  <1>6. QED
    BY <1>1, <1>5 DEF CapInv, Tightens

(* The moved request is not past the check, or was so before.               *)
LEMMA OneRequestPast ==
  ASSUME IInv, NEW p \in Proc, Moves(p),
         \/ req'[p].pc \notin {"vip", "write"}
         \/ req'[p].op = "assign" \/ req'[p].isNew \/ (req'[p].pc = "vip" /\ req'[p].atCap)
         \/ p \in PastCap(req[p].did) /\ req'[p].did = req[p].did
  PROVE  \A d : PastCap(d)' \subseteq PastCap(d)
  BY DEF Moves, PastCap, At

(* The step that lets a request past the check saw the DID under the cap.   *)
LEMMA CapCount ==
  ASSUME IInv, CapInv, NEW p \in Proc, CountHandles(p)
  PROVE  CapInv'
  <1>1. req[p] \in Request /\ req \in [Proc -> Request]
    BY DEF IInv, TypeOK
  <1>2. UNCHANGED <<handles, config, exempt>> /\ Moves(p)
    BY ReadStepMoves DEF ReadStep, tables, history
  <1>3. /\ req'[p].pc = "vip" /\ req'[p].did = req[p].did
        /\ req'[p].atCap = (Cardinality(HandlesOf(req[p].did)) >= HandleLimit)
    BY <1>1 DEF CountHandles, Request
  <1>4. ASSUME NEW d \in DID \ exempt
        PROVE  CapOf(d)'
    <2>1. HandlesOf(d)' = HandlesOf(d)
      BY <1>2 DEF HandlesOf
    <2>2. CASE req[p].did = d /\ ~(Cardinality(HandlesOf(d)) >= HandleLimit)
      <3>1. PastCap(d)' \in SUBSET Proc
        BY DEF PastCap
      <3>2. Cardinality(PastCap(d)') <= Cardinality(Proc) /\ Cardinality(PastCap(d)') \in Nat
        BY <3>1, FS_Subset, FS_CardinalityType, RegistryAssumption
      <3>3. QED
        BY <2>1, <2>2, <3>2, Sizes, RegistryAssumption DEF CapOf
    <2>3. CASE req[p].did # d \/ Cardinality(HandlesOf(d)) >= HandleLimit
      <3>1. PastCap(d)' \in SUBSET PastCap(d)
        BY <1>2, <1>3, <2>3 DEF PastCap, At, Moves
      <3>2. Cardinality(PastCap(d)') <= Cardinality(PastCap(d)) /\ Cardinality(PastCap(d)') \in Nat
        BY <3>1, FS_Subset, FS_CardinalityType, Sizes
      <3>3. CapOf(d)
        BY <1>4 DEF CapInv
      <3>4. HandleLimit - 1 + Cardinality(Proc) \in Int
        BY Sizes, RegistryAssumption
      <3>5. QED
        BY <2>1, <3>2, <3>3, <3>4, Sizes, LessIsWithin DEF CapOf
    <2>4. QED
      BY <2>2, <2>3
  <1>5. QED
    BY <1>2, <1>4 DEF CapInv

LEMMA CapRead ==
  ASSUME IInv, CapInv, NEW p \in Proc, ReadStep(p), ~CountHandles(p)
  PROVE  CapInv'
  <1> USE DEF Reads, At
  <1>1. req[p] \in Request /\ req \in [Proc -> Request]
    BY DEF IInv, TypeOK
  <1>2. UNCHANGED <<handles, config, exempt>> /\ Moves(p)
    BY ReadStepMoves DEF tables, history
  <1>3. ASSUME \/ req'[p].pc \notin {"vip", "write"}
               \/ req'[p].op = "assign" \/ req'[p].isNew
               \/ (req'[p].pc = "write" /\ req'[p].did = req[p].did /\ req'[p].op = req[p].op
                   /\ req'[p].isNew = req[p].isNew /\ req[p].pc = "vip" /\ ~req[p].atCap)
               \/ req'[p].pc = "write" /\ <<"vip_dids", req[p].did>> \in config
                   /\ req'[p].did = req[p].did
        PROVE  CapInv'
    <2>1. \A d \in DID \ exempt : PastCap(d)' \subseteq PastCap(d)
      BY <1>2, <1>3 DEF Moves, PastCap, CapInv
    <2>2. Tightens
      BY <1>2, <2>1 DEF Tightens, HandlesOf
    <2>3. QED
      BY <2>2, TightensKeepsCap
  <1>4. ASSUME NEW code, Refuse(p, code)
        PROVE  req'[p].pc \notin {"vip", "write"}
    BY <1>1, <1>4 DEF Refuse, Idle
  <1>5. ASSUME NEW label, Goto(p, label)
        PROVE  /\ req'[p].pc = label /\ req'[p].did = req[p].did /\ req'[p].op = req[p].op
               /\ req'[p].isNew = req[p].isNew
    BY <1>1, <1>5 DEF Goto, Request
  <1>6. CASE \/ LogBlocked(p) \/ RaceToUnavailable(p) \/ ForeignKeyViolation(p)
             \/ DeleteFindsNothing(p)
    BY <1>3, <1>4, <1>6
       DEF LogBlocked, RaceToUnavailable, ForeignKeyViolation, DeleteFindsNothing
  <1>7. CASE \/ Gate(p) \/ GateDid(p) \/ CheckReserved(p) \/ CheckTaken(p)
             \/ CheckBlockedDid(p) \/ CheckKeyword(p)
    BY <1>3, <1>4, <1>5, <1>7
       DEF Gate, GateDid, CheckReserved, CheckTaken, CheckBlockedDid, CheckKeyword
  <1>8. CASE ResolveHandle(p)
    <2>1. ASSUME NEW d \in DID, req' = [req EXCEPT ![p].did = d, ![p].pc = "blockedDid"]
          PROVE  req'[p].pc = "blockedDid"
      BY <1>1, <2>1 DEF Request
    <2>2. req'[p].pc \notin {"vip", "write"}
      BY <1>4, <1>8, <2>1 DEF ResolveHandle
    <2>3. QED
      BY <1>3, <2>2
  <1>9. CASE CheckBlockedPds(p)
    <2>1. PICK h \in Host \cup {None} :
            req' = [req EXCEPT ![p].host = h,
                               ![p].pc = IF h # None /\ Listed("blocked_pds", h)
                                         THEN "logBlocked" ELSE "gateDid"]
      BY <1>9 DEF CheckBlockedPds
    <2>2. req'[p].pc \in {"logBlocked", "gateDid"}
      BY <1>1, <2>1 DEF Request
    <2>3. QED
      BY <1>3, <2>2
  <1>10. CASE GetDid(p)
    <2>1. /\ req'[p].isNew = (dids[req[p].did] = None)
          /\ req'[p].op = req[p].op
          /\ req'[p].pc = IF req'[p].isNew \/ req'[p].op = "assign" THEN "write" ELSE "count"
      BY <1>1, <1>10 DEF GetDid, Request
    <2>2. QED
      BY <1>3, <2>1
  <1>11. CASE CheckVip(p)
    BY <1>3, <1>4, <1>5, <1>11 DEF CheckVip, Listed
  <1>12. CASE FindDidForSecret(p)
    <2>1. ASSUME NEW d \in DID,
                 req' = [req EXCEPT ![p].did = d,
                                    ![p].pc = IF req[p].op = "list" THEN "list" ELSE "remove"]
          PROVE  req'[p].pc \notin {"vip", "write"}
      BY <1>1, <2>1 DEF Request
    <2>2. QED
      BY <1>3, <1>4, <1>12, <2>1 DEF FindDidForSecret
  <1>13. CASE ListHandles(p)
    <2>1. req'[p].pc = "done"
      BY <1>1, <1>13 DEF ListHandles, AnswerOk, Request
    <2>2. QED
      BY <1>3, <2>1
  <1>14. QED
    BY <1>6, <1>7, <1>8, <1>9, <1>10, <1>11, <1>12, <1>13 DEF ReadStep

LEMMA CapBegin ==
  ASSUME IInv, CapInv, NEW p \in Proc, Begin(p)
  PROVE  CapInv'
  <1>1. UNCHANGED <<handles, config, exempt>> /\ Moves(p)
    BY BeginMoves DEF tables, history
  <1>2. ASSUME NEW r, Start(p, r), r.pc \notin {"vip", "write"}
        PROVE  req'[p].pc \notin {"vip", "write"}
    BY <1>2 DEF Start, IInv, TypeOK
  <1>3. req'[p].pc \notin {"vip", "write"}
    <2> USE DEF Idle
    <2>1. CASE Register(p)
      BY <1>2, <2>1 DEF Register
    <2>2. CASE Manage(p)
      BY <1>2, <2>2 DEF Manage
    <2>3. CASE AdminAssignHandle(p)
      BY <1>2, <2>3 DEF AdminAssignHandle
    <2>4. CASE AdminDeleteHandle(p) \/ AdminDeleteDid(p)
      BY <1>2, <2>4 DEF AdminDeleteHandle, AdminDeleteDid
    <2>5. QED
      BY <2>1, <2>2, <2>3, <2>4 DEF Begin
  <1>4. Tightens
    BY <1>1, <1>3, OneRequestPast DEF Tightens, HandlesOf
  <1>5. QED
    BY <1>4, TightensKeepsCap

(* A later claim turns one request past the check into one handle.          *)
LEMMA CapAdd ==
  ASSUME IInv, CapInv, NEW p \in Proc, AddHandle(p)
  PROVE  CapInv'
  <1>1. /\ req[p] \in Request /\ req \in [Proc -> Request] /\ handles \in [Sub -> DID \cup {None}]
        /\ req[p].did \in DID /\ req[p].sub \in Sub
    BY DEF IInv, TypeOK, FieldsKnown, NamesDid, NamesSub, AddHandle, At
  <1>2. /\ handles[req[p].sub] = None /\ ~req[p].isNew /\ At(p, "write")
        /\ handles' = [handles EXCEPT ![req[p].sub] = req[p].did]
        /\ req' = [req EXCEPT ![p].pc = "log"] /\ config' = config
        /\ exempt' = IF req[p].op = "assign" THEN exempt \cup {req[p].did} ELSE exempt
    BY DEF AddHandle, InsertHandle, Goto
  <1>3. req'[p].pc = "log" /\ \A q \in Proc \ {p} : req'[q] = req[q]
    BY <1>1, <1>2 DEF Request
  <1>4. ASSUME NEW d \in DID \ exempt'
        PROVE  CapOf(d)'
    <2>1. d \in DID \ exempt
      BY <1>2, <1>4
    <2>2. CapOf(d) /\ HandleLimit - 1 + Cardinality(Proc) \in Int
      BY <2>1, Sizes DEF CapInv
    <2>3. CASE d = req[p].did
      <3>1. p \in PastCap(d)
        BY <1>2, <1>4, <2>3 DEF PastCap
      <3>2. PastCap(d)' = PastCap(d) \ {p}
        BY <1>3 DEF PastCap, At
      <3>3. HandlesOf(d)' = HandlesOf(d) \cup {req[p].sub} /\ req[p].sub \notin HandlesOf(d)
        BY <1>1, <1>2, <2>1, <2>3, RegistryAssumption DEF HandlesOf
      <3>4. Cardinality(PastCap(d)') = Cardinality(PastCap(d)) - 1
        BY <3>1, <3>2, Sizes, FS_RemoveElement
      <3>5. Cardinality(HandlesOf(d)') = Cardinality(HandlesOf(d)) + 1
        BY <3>3, Sizes, FS_AddElement
      <3>6. QED
        BY <2>2, <3>4, <3>5, Sizes DEF CapOf
    <2>4. CASE d # req[p].did
      <3>1. HandlesOf(d)' = HandlesOf(d)
        BY <1>1, <1>2, <2>1, <2>4, RegistryAssumption DEF HandlesOf
      <3>2. PastCap(d)' = PastCap(d)
        BY <1>1, <1>2, <1>3, <2>4 DEF PastCap, At, Request
      <3>3. QED
        BY <2>2, <3>1, <3>2 DEF CapOf
    <2>5. QED
      BY <2>3, <2>4
  <1>5. QED
    BY <1>2, <1>4 DEF CapInv

(* A first claim finds the DID without any handle, and uses up a request    *)
(* that is not past the check of another.                                   *)
LEMMA CapFirst ==
  ASSUME IInv, TablesAgree, CapInv, NEW p \in Proc, RegisterNewDidWithHandle(p)
  PROVE  CapInv'
  <1>1. /\ req[p] \in Request /\ req \in [Proc -> Request] /\ handles \in [Sub -> DID \cup {None}]
        /\ req[p].did \in DID /\ req[p].sub \in Sub
    BY DEF IInv, TypeOK, FieldsKnown, NamesDid, NamesSub, RegisterNewDidWithHandle, At
  <1>2. /\ handles[req[p].sub] = None /\ req[p].isNew /\ dids[req[p].did] = None
        /\ handles' = [handles EXCEPT ![req[p].sub] = req[p].did] /\ config' = config
        /\ exempt' = IF req[p].op = "assign" THEN exempt \cup {req[p].did} ELSE exempt
    BY DEF RegisterNewDidWithHandle, InsertHandle
  <1>3. PICK s \in Secret : req' = [req EXCEPT ![p].secret = s, ![p].pc = "log"]
    BY DEF RegisterNewDidWithHandle
  <1>4. req'[p].pc = "log" /\ \A q \in Proc \ {p} : req'[q] = req[q]
    BY <1>1, <1>3 DEF Request
  <1>5. ASSUME NEW d \in DID \ exempt'
        PROVE  CapOf(d)'
    <2>1. d \in DID \ exempt
      BY <1>2, <1>5
    <2>2. CapOf(d) /\ HandleLimit - 1 + Cardinality(Proc) \in Int
      BY <2>1, Sizes DEF CapInv
    <2>3. CASE d = req[p].did
      <3>1. HandlesOf(d) = {}
        BY <1>2, <2>3 DEF TablesAgree, Store!TablesAgree, Store!Holdings, HandlesOf
      <3>2. HandlesOf(d)' = {req[p].sub}
        BY <1>1, <1>2, <2>1, <2>3, <3>1, RegistryAssumption DEF HandlesOf
      <3>3. PastCap(d)' \in SUBSET (Proc \ {p})
        BY <1>4 DEF PastCap, At
      <3>4. IsFiniteSet(Proc \ {p}) /\ Cardinality(Proc \ {p}) = Cardinality(Proc) - 1
        BY FS_RemoveElement, RegistryAssumption
      <3>5. Cardinality(PastCap(d)') <= Cardinality(Proc) - 1 /\ Cardinality(PastCap(d)') \in Nat
        BY <3>3, <3>4, FS_Subset, FS_CardinalityType
      <3>6. Cardinality(HandlesOf(d)') = 1
        BY <3>2, FS_Singleton
      <3>7. QED
        BY <3>5, <3>6, Sizes, RegistryAssumption DEF CapOf
    <2>4. CASE d # req[p].did
      <3>1. HandlesOf(d)' = HandlesOf(d)
        BY <1>1, <1>2, <2>1, <2>4, RegistryAssumption DEF HandlesOf
      <3>2. PastCap(d)' \subseteq PastCap(d)
        BY <1>4 DEF PastCap, At
      <3>3. /\ Cardinality(PastCap(d)') <= Cardinality(PastCap(d))
            /\ Cardinality(PastCap(d)') \in Nat
        BY <3>2, Sizes, FS_Subset, FS_CardinalityType
      <3>4. QED
        BY <2>2, <3>1, <3>3, Sizes, LessIsWithin DEF CapOf
    <2>5. QED
      BY <2>3, <2>4
  <1>6. QED
    BY <1>2, <1>5 DEF CapInv

LEMMA CapRemove ==
  ASSUME IInv, CapInv, NEW p \in Proc, DeleteHandleAndMaybeDid(p) \/ DeleteDidAndHandles(p)
  PROVE  CapInv'
  <1>1. req[p] \in Request /\ handles \in [Sub -> DID \cup {None}]
    BY DEF IInv, TypeOK
  <1>2. UNCHANGED <<config, exempt>>
    BY DEF DeleteHandleAndMaybeDid, DeleteDidAndHandles, history
  <1>3. \A d \in DID : HandlesOf(d)' \subseteq HandlesOf(d)
    BY <1>1, RegistryAssumption DEF DeleteHandleAndMaybeDid, DeleteDidAndHandles, HandlesOf
  <1>4. /\ \A q \in Proc \ {p} : req'[q] = req[q]
        /\ req'[p].pc \in {"log", "done"}
    <2>1. req \in [Proc -> Request]
      BY DEF IInv, TypeOK
    <2>2. CASE DeleteHandleAndMaybeDid(p)
      BY <1>1, <2>1, <2>2 DEF DeleteHandleAndMaybeDid, Goto, Request
    <2>3. ASSUME Refuse(p, "Nothing")
          PROVE  req'[p].pc = "done" /\ \A q \in Proc \ {p} : req'[q] = req[q]
      BY <2>1, <2>3 DEF Refuse, Idle
    <2>4. ASSUME req' = [req EXCEPT ![p].gone = HandlesOf(req[p].did), ![p].pc = "log"]
          PROVE  req'[p].pc = "log" /\ \A q \in Proc \ {p} : req'[q] = req[q]
      BY <1>1, <2>1, <2>4 DEF Request
    <2>5. QED
      BY <2>2, <2>3, <2>4 DEF DeleteDidAndHandles
  <1>5. \A d : PastCap(d)' \subseteq PastCap(d)
    BY <1>4 DEF PastCap, At
  <1>6. Tightens
    BY <1>2, <1>3, <1>5 DEF Tightens
  <1>7. QED
    BY <1>6, TightensKeepsCap

LEMMA CapOutside ==
  ASSUME IInv, CapInv, NEW p \in Proc,
         LogEvent(p) \/ Receive(p) \/ DatabaseError(p) \/ Disconnect(p)
  PROVE  CapInv'
  <1>1. UNCHANGED <<handles, config, exempt>>
    BY DEF LogEvent, Receive, DatabaseError, Disconnect, tables, history
  <1>2. req'[p].pc \notin {"vip", "write"} /\ \A q \in Proc \ {p} : req'[q] = req[q]
    <2>1. req \in [Proc -> Request] /\ req[p] \in Request
      BY DEF IInv, TypeOK
    <2>2. CASE LogEvent(p)
      BY <2>1, <2>2 DEF LogEvent, AnswerOk, Request
    <2>3. CASE Receive(p) \/ Disconnect(p)
      BY <2>1, <2>3 DEF Receive, Disconnect, Idle
    <2>4. CASE DatabaseError(p)
      BY <2>1, <2>4 DEF DatabaseError, Refuse, Idle
    <2>5. QED
      BY <2>2, <2>3, <2>4
  <1>3. \A d : PastCap(d)' \subseteq PastCap(d)
    BY <1>2 DEF PastCap, At
  <1>4. Tightens
    BY <1>1, <1>3 DEF Tightens, HandlesOf
  <1>5. QED
    BY <1>4, TightensKeepsCap

LEMMA CapConfig ==
  ASSUME IInv, CapInv, NEW c \in Listable,
         ConfigAdd(c[1], c[2]) \/ ConfigRemove(c[1], c[2])
  PROVE  CapInv'
  <1>1. CASE ConfigAdd(c[1], c[2])
    <2>1. \A d : PastCap(d)' = PastCap(d)
      BY <1>1 DEF ConfigAdd, PastCap, At
    <2>2. Tightens
      BY <1>1, <2>1 DEF ConfigAdd, Tightens, HandlesOf
    <2>3. QED
      BY <2>2, TightensKeepsCap
  <1>2. CASE ConfigRemove(c[1], c[2])
    <2> DEFINE left(p) == req[p].standing \ {<<c[1], c[2]>>}
    <2>1. ASSUME NEW p \in Proc
          PROVE  /\ req'[p].op = req[p].op /\ req'[p].pc = req[p].pc
                 /\ req'[p].did = req[p].did /\ req'[p].isNew = req[p].isNew
                 /\ req'[p].atCap = req[p].atCap
      <3>1. req[p] \in Request
        BY DEF IInv, TypeOK
      <3>2. req'[p] = [req[p] EXCEPT !.standing = left(p)]
        BY <1>2 DEF ConfigRemove
      <3> HIDE DEF left
      <3>3. QED
        BY <3>1, <3>2 DEF Request
    <2>2. \A d : PastCap(d)' = PastCap(d)
      BY <2>1 DEF PastCap, At
    <2>3. Tightens
      BY <1>2, <2>2 DEF ConfigRemove, Tightens, HandlesOf, history
    <2>4. QED
      BY <2>3, TightensKeepsCap
  <1>3. QED
    BY <1>1, <1>2

LEMMA CapStep == IInv /\ TablesAgree /\ CapInv /\ [Next]_vars => CapInv'
  <1> SUFFICES ASSUME IInv, TablesAgree, CapInv, [Next]_vars
               PROVE  CapInv'
    OBVIOUS
  <1>1. CASE UNCHANGED vars
    BY <1>1 DEF CapInv, CapOf, HandlesOf, PastCap, At, vars
  <1>2. ASSUME NEW p \in Proc, WriteStep(p)
        PROVE  CapInv'
    BY <1>2, CapFirst, CapAdd, CapRemove DEF WriteStep
  <1>3. ASSUME NEW p \in Proc, Begin(p) \/ ReadStep(p)
        PROVE  CapInv'
    BY <1>3, CapBegin, CapRead, CapCount
  <1>4. QED
    BY <1>1, <1>2, <1>3, CapOutside, CapConfig DEF Next, Serve

(* The cap is overshot by at most the requests in flight, less one: the     *)
(* check is unlocked, and CapInv counts what it may let through.            *)
THEOREM RegistryCapOvershootBounded == Spec => []CapOvershootBounded
  <1>1. CapInv => CapOvershootBounded
    <2> SUFFICES ASSUME CapInv, NEW d \in DID \ exempt
                 PROVE  Cardinality(HandlesOf(d)) <= HandleLimit - 1 + Cardinality(Proc)
      BY DEF CapOvershootBounded
    <2>1. CapOf(d)
      BY DEF CapInv
    <2>2. QED
      BY <2>1, Sizes DEF CapOf
  <1>2. QED
    BY <1>1, CapStart, CapStep, RegistryTypes, RegistryTablesAgree, PTL DEF Spec
-----------------------------------------------------------------------------
(* Secrets on their way: while nothing fails, none is lost between the     *)
(* commit of its row and the client that receives it.                      *)

(* An answer that holds a secret is an Ok, so the client keeps it.         *)
AnswersOpenly(r) == r.pc = "done" /\ r.secret # None => r.reply = "Ok"

KeysInv == (\A p \in Proc : AnswersOpenly(req[p])) /\ KeysReachClients

OnTheWay == {"log", "done"}

(* A step of request p loses no secret if p's own is kept, and no row gets *)
(* a key but the one that p carries.                                       *)
LEMMA KeysOfOne ==
  ASSUME IInv, KeysInv, NEW p \in Proc, Moves(p), held \subseteq held', faults' = faults,
         \A d \in DID, s \in Secret : dids'[d] = HashUserSecret(s)
           => \/ \E e \in DID : dids[e] = HashUserSecret(s)
              \/ req'[p].pc = "log" /\ req'[p].secret = s,
         AnswersOpenly(req'[p]),
         req[p].pc \in OnTheWay
           => \/ req[p].secret \in held' \cup {None}
              \/ req'[p].pc \in OnTheWay /\ req'[p].secret = req[p].secret
  PROVE  KeysInv'
  <1>1. \A q \in Proc : AnswersOpenly(req'[q])
    BY DEF Moves, KeysInv, AnswersOpenly
  <1>2. ASSUME faults = 0, NEW d \in DID, NEW s \in Secret, dids'[d] = HashUserSecret(s)
        PROVE  s \in held' \/ OnItsWay(s)'
    <2>1. CASE req'[p].pc = "log" /\ req'[p].secret = s
      BY <2>1 DEF OnItsWay
    <2>2. CASE \E e \in DID : dids[e] = HashUserSecret(s)
      <3>1. CASE s \in held
        BY <3>1
      <3>2. CASE s \notin held
        <4>1. PICK q \in Proc : req[q].pc \in OnTheWay /\ req[q].secret = s
          BY <1>2, <2>2, <3>2 DEF KeysInv, KeysReachClients, OnItsWay, OnTheWay
        <4>2. s # None
          BY RegistryAssumption
        <4>3. CASE q = p
          BY <4>1, <4>2, <4>3 DEF OnItsWay, OnTheWay
        <4>4. CASE q # p
          BY <4>1, <4>4 DEF Moves, OnItsWay, OnTheWay
        <4>5. QED
          BY <4>3, <4>4
      <3>3. QED
        BY <3>1, <3>2
    <2>3. QED
      BY <1>2, <2>1, <2>2
  <1>3. KeysReachClients'
    BY <1>2 DEF KeysReachClients
  <1>4. QED
    BY <1>1, <1>3 DEF KeysInv, AnswersOpenly

(* A request that had no row yet, and gives up or goes on without one.     *)
LEMMA KeysAside ==
  ASSUME IInv, KeysInv, NEW p \in Proc, Moves(p), held' = held, faults' = faults,
         \A d \in DID : dids'[d] \in {dids[d], None},
         req[p].pc \notin OnTheWay, AnswersOpenly(req'[p])
  PROVE  KeysInv'
  <1>1. \A s \in Secret : HashUserSecret(s) # None
    BY RegistryAssumption DEF Hash
  <1>2. QED
    BY <1>1, KeysOfOne

LEMMA KeysBegin ==
  ASSUME IInv, KeysInv, NEW p \in Proc, Begin(p)
  PROVE  KeysInv'
  <1>1. ASSUME NEW r, Start(p, r), AnswersOpenly(r)
        PROVE  req[p].pc \notin OnTheWay /\ AnswersOpenly(req'[p])
    BY <1>1 DEF Start, Reads, At, OnTheWay, IInv, TypeOK
  <1>2. req[p].pc \notin OnTheWay /\ AnswersOpenly(req'[p])
    <2> USE DEF Idle, AnswersOpenly
    <2>1. CASE Register(p)
      BY <1>1, <2>1 DEF Register
    <2>2. CASE Manage(p)
      BY <1>1, <2>2 DEF Manage
    <2>3. CASE AdminAssignHandle(p)
      BY <1>1, <2>3 DEF AdminAssignHandle
    <2>4. CASE AdminDeleteHandle(p) \/ AdminDeleteDid(p)
      BY <1>1, <2>4 DEF AdminDeleteHandle, AdminDeleteDid
    <2>5. QED
      BY <2>1, <2>2, <2>3, <2>4 DEF Begin
  <1>3. QED
    BY <1>2, BeginMoves, KeysAside DEF tables, history

LEMMA RefuseOpenly ==
  ASSUME IInv, NEW p \in Proc, NEW code, Refuse(p, code)
  PROVE  AnswersOpenly(req'[p])
  BY DEF IInv, TypeOK, Refuse, Idle, AnswersOpenly

LEMMA OkOpenly ==
  ASSUME IInv, NEW p \in Proc, AnswerOk(p)
  PROVE  /\ AnswersOpenly(req'[p])
         /\ req'[p].pc = "done" /\ req'[p].secret = req[p].secret
  BY DEF IInv, TypeOK, AnswerOk, Request, AnswersOpenly

LEMMA KeysRead ==
  ASSUME IInv, KeysInv, NEW p \in Proc, ReadStep(p)
  PROVE  KeysInv'
  <1> USE DEF Reads, At
  <1>1. req[p] \in Request /\ req \in [Proc -> Request]
    BY DEF IInv, TypeOK
  <1>2. req[p].pc \notin OnTheWay
    BY DEF OnTheWay, ReadStep, Gate, ResolveHandle, CheckBlockedDid, CheckBlockedPds,
           LogBlocked, GateDid, CheckReserved, CheckKeyword, CheckTaken, GetDid, CountHandles,
           CheckVip, RaceToUnavailable, ForeignKeyViolation, FindDidForSecret, ListHandles,
           DeleteFindsNothing
  <1>3. ASSUME NEW label, label # "done", Goto(p, label)
        PROVE  AnswersOpenly(req'[p])
    BY <1>1, <1>3 DEF Goto, Request, AnswersOpenly
  <1>4. ASSUME NEW label, label # "done", NEW h, NEW d, NEW b,
               \/ req' = [req EXCEPT ![p].did = d, ![p].pc = label]
               \/ req' = [req EXCEPT ![p].host = h, ![p].pc = label]
               \/ req' = [req EXCEPT ![p].isNew = b, ![p].pc = label]
               \/ req' = [req EXCEPT ![p].atCap = b, ![p].pc = label]
        PROVE  AnswersOpenly(req'[p])
    BY <1>1, <1>4 DEF Request, AnswersOpenly
  <1>5. AnswersOpenly(req'[p])
    <2>1. CASE \/ LogBlocked(p) \/ RaceToUnavailable(p) \/ ForeignKeyViolation(p)
               \/ DeleteFindsNothing(p)
      BY <2>1, RefuseOpenly
         DEF LogBlocked, RaceToUnavailable, ForeignKeyViolation, DeleteFindsNothing
    <2>2. CASE \/ Gate(p) \/ GateDid(p) \/ CheckReserved(p) \/ CheckTaken(p)
               \/ CheckBlockedDid(p) \/ CheckKeyword(p) \/ CheckVip(p)
      BY <1>3, <2>2, RefuseOpenly
         DEF Gate, GateDid, CheckReserved, CheckTaken, CheckBlockedDid, CheckKeyword, CheckVip
    <2>3. CASE ResolveHandle(p)
      BY <1>4, <2>3, RefuseOpenly DEF ResolveHandle
    <2>4. CASE CheckBlockedPds(p)
      BY <1>4, <2>4 DEF CheckBlockedPds
    <2>5. CASE GetDid(p)
      BY <1>4, <2>5 DEF GetDid
    <2>6. CASE CountHandles(p)
      BY <1>4, <2>6 DEF CountHandles
    <2>7. CASE FindDidForSecret(p)
      BY <1>4, <2>7, RefuseOpenly DEF FindDidForSecret
    <2>8. CASE ListHandles(p)
      BY <2>8, OkOpenly DEF ListHandles
    <2>9. QED
      BY <2>1, <2>2, <2>3, <2>4, <2>5, <2>6, <2>7, <2>8 DEF ReadStep
  <1>6. QED
    BY <1>2, <1>5, ReadStepMoves, KeysAside DEF tables, history

LEMMA KeysWrite ==
  ASSUME IInv, KeysInv, NEW p \in Proc, WriteStep(p)
  PROVE  KeysInv'
  <1>1. /\ req[p] \in Request /\ req \in [Proc -> Request] /\ req[p].did \in DID
        /\ dids \in [DID -> Hash \cup {None}]
    BY DEF IInv, TypeOK, FieldsKnown, NamesDid, WriteStep, RegisterNewDidWithHandle, AddHandle,
           DeleteHandleAndMaybeDid, DeleteDidAndHandles, At
  <1>2. Moves(p) /\ held' = held /\ faults' = faults /\ req[p].pc \notin OnTheWay
    <2>1. IInv'
      BY RegisterNewIInv, AddHandleIInv, DeleteHandleIInv, DeleteDidIInv DEF WriteStep
    <2>2. \A q \in Proc \ {p} : req'[q] = req[q]
      BY <1>1 DEF WriteStep, RegisterNewDidWithHandle, AddHandle, DeleteHandleAndMaybeDid,
                  DeleteDidAndHandles, Refuse, Goto
    <2>3. held' = held /\ faults' = faults /\ req[p].pc \notin OnTheWay
      BY DEF WriteStep, RegisterNewDidWithHandle, AddHandle, InsertHandle,
             DeleteHandleAndMaybeDid, DeleteDidAndHandles, history, At, OnTheWay
    <2>4. QED
      BY <2>1, <2>2, <2>3 DEF IInv, TypeOK, Moves
  <1>3. CASE RegisterNewDidWithHandle(p)
    <2>1. PICK k \in Secret :
            /\ dids' = [dids EXCEPT ![req[p].did] = HashUserSecret(k)]
            /\ req'  = [req EXCEPT ![p].secret = k, ![p].pc = "log"]
      BY <1>3 DEF RegisterNewDidWithHandle
    <2>2. req'[p].secret = k /\ req'[p].pc = "log"
      BY <1>1, <2>1 DEF Request
    <2>3. \A d \in DID, s \in Secret : dids'[d] = HashUserSecret(s)
            => (\E e \in DID : dids[e] = HashUserSecret(s)) \/ s = k
      BY <1>1, <2>1, HashInjective
    <2>4. QED
      BY <1>2, <2>2, <2>3, KeysOfOne DEF AnswersOpenly
  <1>4. CASE ~RegisterNewDidWithHandle(p)
    <2>1. \A d \in DID : dids'[d] \in {dids[d], None}
      BY <1>1, <1>4 DEF WriteStep, AddHandle, DeleteHandleAndMaybeDid, DeleteDidAndHandles
    <2>2. ASSUME Goto(p, "log")
          PROVE  AnswersOpenly(req'[p])
      BY <1>1, <2>2 DEF Goto, Request, AnswersOpenly
    <2>3. ASSUME req' = [req EXCEPT ![p].gone = HandlesOf(req[p].did), ![p].pc = "log"]
          PROVE  AnswersOpenly(req'[p])
      BY <1>1, <2>3 DEF Request, AnswersOpenly
    <2>4. AnswersOpenly(req'[p])
      BY <1>4, <2>2, <2>3, RefuseOpenly
         DEF WriteStep, AddHandle, DeleteHandleAndMaybeDid, DeleteDidAndHandles
    <2>5. QED
      BY <1>2, <2>1, <2>4, KeysAside
  <1>5. QED
    BY <1>3, <1>4

LEMMA KeysLog ==
  ASSUME IInv, KeysInv, NEW p \in Proc, LogEvent(p)
  PROVE  KeysInv'
  <1>1. Moves(p) /\ UNCHANGED <<dids, held, faults>>
    BY AnswerOkMoves DEF LogEvent, history
  <1>2. AnswersOpenly(req'[p]) /\ req'[p].pc \in OnTheWay /\ req'[p].secret = req[p].secret
    BY OkOpenly DEF LogEvent, OnTheWay
  <1>3. QED
    BY <1>1, <1>2, KeysOfOne

(* The client takes the secret out of an open answer.                      *)
LEMMA KeysReceive ==
  ASSUME IInv, KeysInv, NEW p \in Proc, Receive(p)
  PROVE  KeysInv'
  <1>1. req'[p] = Idle /\ Moves(p)
    <2>1. WellFormed(Idle)
      BY DEF WellFormed, Request, Idle, PC, FieldsKnown, NamesDid, NamesSub
    <2>2. QED
      BY <2>1, UpdateMoves DEF Receive, IInv, TypeOK
  <1>2. UNCHANGED <<dids, faults>> /\ held \subseteq held'
    BY DEF Receive, tables
  <1>3. req[p].secret \in held' \cup {None}
    BY DEF Receive, KeysInv, AnswersOpenly, At
  <1>4. AnswersOpenly(req'[p])
    BY <1>1 DEF AnswersOpenly, Idle
  <1>5. QED
    BY <1>1, <1>2, <1>3, <1>4, KeysOfOne

LEMMA KeysFault ==
  ASSUME IInv, KeysInv, NEW p \in Proc, DatabaseError(p) \/ Disconnect(p)
  PROVE  KeysInv'
  <1>1. req \in [Proc -> Request] /\ faults' # 0
    BY DEF IInv, TypeOK, DatabaseError, Disconnect, Fault
  <1>2. \A q \in Proc : req'[q].secret = None \/ req'[q] = req[q]
    <2>1. CASE DatabaseError(p)
      BY <1>1, <2>1 DEF DatabaseError, Refuse, Idle
    <2>2. CASE Disconnect(p)
      BY <1>1, <2>2 DEF Disconnect, Idle
    <2>3. QED
      BY <2>1, <2>2
  <1>3. \A q \in Proc : AnswersOpenly(req'[q])
    BY <1>2 DEF KeysInv, AnswersOpenly
  <1>4. KeysReachClients'
    BY <1>1 DEF KeysReachClients
  <1>5. QED
    BY <1>3, <1>4 DEF KeysInv, AnswersOpenly

LEMMA KeysConfig ==
  ASSUME IInv, KeysInv, NEW c \in Listable, ConfigAdd(c[1], c[2]) \/ ConfigRemove(c[1], c[2])
  PROVE  KeysInv'
  <1>1. UNCHANGED <<dids, held, faults>>
    BY DEF ConfigAdd, ConfigRemove, history
  <1>2. ASSUME NEW p \in Proc
        PROVE  /\ req'[p].pc = req[p].pc /\ req'[p].secret = req[p].secret
               /\ req'[p].reply = req[p].reply
    <2>1. req[p] \in Request
      BY DEF IInv, TypeOK
    <2>2. QED
      BY <2>1 DEF ConfigAdd, ConfigRemove, Request
  <1>3. QED
    BY <1>1, <1>2 DEF KeysInv, KeysReachClients, OnItsWay, AnswersOpenly

LEMMA KeysStart == Init => KeysInv
  BY RegistryAssumption DEF Init, KeysInv, AnswersOpenly, KeysReachClients, Idle, Hash

LEMMA KeysStep == IInv /\ KeysInv /\ [Next]_vars => KeysInv'
  <1> SUFFICES ASSUME IInv, KeysInv, [Next]_vars
               PROVE  KeysInv'
    OBVIOUS
  <1>1. CASE UNCHANGED vars
    BY <1>1 DEF vars, KeysInv, KeysReachClients, OnItsWay, AnswersOpenly
  <1>2. QED
    BY <1>1, KeysBegin, KeysRead, KeysWrite, KeysLog, KeysReceive, KeysFault, KeysConfig
       DEF Next, Serve

(* While nothing fails, the secret behind every row of dids is known to a  *)
(* client or on its way to one (service.rs register step 10), for any      *)
(* number of requests.                                                     *)
THEOREM RegistryKeysReachClients == Spec => []KeysReachClients
  <1>1. KeysInv => KeysReachClients
    BY DEF KeysInv
  <1>2. QED
    BY <1>1, KeysStart, KeysStep, RegistryTypes, PTL DEF Spec

-----------------------------------------------------------------------------
(* The activity log adds up: what was claimed and removed, less what is    *)
(* still to be written, is what the table says.                            *)

(* The kinds of request that get to a step, so that its event says what    *)
(* it did.                                                                 *)
RightOp(r) ==
  /\ r.pc \in {"find", "list"} => r.op \in {"list", "delete"}
  /\ r.pc = "remove" => r.op \in {"delete", "adminDelete"}
  /\ r.pc = "drop"   => r.op = "adminDrop"
  /\ r.pc \in {"blockedDid", "blockedPds", "gateDid", "reserved", "keyword", "taken",
               "getDid", "count", "vip", "write", "resolve"} => r.op \in {"register", "assign"}
  /\ r.pc = "gate" => r.op \in {"register", "list", "delete"}

Taken(s)    == IF handles[s] = None THEN 0 ELSE 1
Balanced(s) ==
  ledger[s] + Cardinality(Unlogged(s)) - Cardinality(UnloggedRemoval(s)) = Taken(s)

AuditInv ==
  /\ \A p \in Proc : RightOp(req[p])
  /\ faults = 0 => \A s \in Sub : Balanced(s)

LEMMA RightOps ==
  ASSUME NEW p \in Proc, \A q \in Proc : RightOp(req[q]), Moves(p), RightOp(req'[p])
  PROVE  \A q \in Proc : RightOp(req'[q])
  BY DEF Moves

LEMMA Pending ==
  ASSUME NEW s
  PROVE  /\ IsFiniteSet(Unlogged(s)) /\ Cardinality(Unlogged(s)) \in Nat
         /\ IsFiniteSet(UnloggedRemoval(s)) /\ Cardinality(UnloggedRemoval(s)) \in Nat
  <1>1. Unlogged(s) \in SUBSET Proc /\ UnloggedRemoval(s) \in SUBSET Proc
    BY DEF Unlogged, UnloggedRemoval
  <1>2. QED
    BY <1>1, RegistryAssumption, FS_Subset, FS_CardinalityType

LEMMA EntryIsUnit == \A r, s : Entry(r, s) \in {-1, 0, 1}
  BY DEF Entry

(* No event becomes due or is written, and no handle changes hands.        *)
LEMMA NothingToLog ==
  ASSUME IInv, AuditInv, NEW p \in Proc, Moves(p), UNCHANGED <<handles, ledger, faults>>,
         ~At(p, "log"), req'[p].pc # "log", RightOp(req'[p])
  PROVE  AuditInv'
  <1>1. \A s : Unlogged(s)' = Unlogged(s) /\ UnloggedRemoval(s)' = UnloggedRemoval(s)
    BY DEF Unlogged, UnloggedRemoval, At, Moves
  <1>2. \A s \in Sub : Balanced(s)' <=> Balanced(s)
    BY <1>1 DEF Balanced, Taken
  <1>3. QED
    BY <1>2, RightOps DEF AuditInv

(* The commit of a change makes its event due, with what it did.           *)
LEMMA CommitBalances ==
  ASSUME IInv, AuditInv, NEW p \in Proc, Moves(p), UNCHANGED <<ledger, faults>>,
         ~At(p, "log"), req'[p].pc = "log", RightOp(req'[p]),
         \A s \in Sub : Taken(s)' = Taken(s) + Entry(req'[p], s)
  PROVE  AuditInv'
  <1>1. ASSUME NEW s \in Sub, Balanced(s)
        PROVE  Balanced(s)'
    <2>1. /\ Unlogged(s)' = IF Entry(req'[p], s) = 1 THEN Unlogged(s) \cup {p} ELSE Unlogged(s)
          /\ UnloggedRemoval(s)' = IF Entry(req'[p], s) = -1
                                   THEN UnloggedRemoval(s) \cup {p} ELSE UnloggedRemoval(s)
          /\ p \notin Unlogged(s) /\ p \notin UnloggedRemoval(s)
      BY DEF Unlogged, UnloggedRemoval, At, Moves
    <2>2. /\ Cardinality(Unlogged(s) \cup {p}) = Cardinality(Unlogged(s)) + 1
          /\ Cardinality(UnloggedRemoval(s) \cup {p}) = Cardinality(UnloggedRemoval(s)) + 1
      BY <2>1, Pending, FS_AddElement
    <2>3. Taken(s) \in Int /\ ledger[s] \in Int /\ Entry(req'[p], s) \in {-1, 0, 1}
      BY EntryIsUnit DEF Taken, IInv, TypeOK
    <2>4. CASE Entry(req'[p], s) = 1
      <3>1. /\ Cardinality(Unlogged(s)') = Cardinality(Unlogged(s)) + 1
            /\ Cardinality(UnloggedRemoval(s)') = Cardinality(UnloggedRemoval(s))
        BY <2>1, <2>2, <2>4
      <3>2. QED
        BY <1>1, <2>3, <2>4, <3>1, Pending DEF Balanced
    <2>5. CASE Entry(req'[p], s) = -1
      <3>1. /\ Cardinality(Unlogged(s)') = Cardinality(Unlogged(s))
            /\ Cardinality(UnloggedRemoval(s)') = Cardinality(UnloggedRemoval(s)) + 1
        BY <2>1, <2>2, <2>5
      <3>2. QED
        BY <1>1, <2>3, <2>5, <3>1, Pending DEF Balanced
    <2>6. CASE Entry(req'[p], s) = 0
      <3>1. Unlogged(s)' = Unlogged(s) /\ UnloggedRemoval(s)' = UnloggedRemoval(s)
        BY <2>1, <2>6
      <3>2. QED
        BY <1>1, <2>3, <2>6, <3>1, Pending DEF Balanced
    <2>7. QED
      BY <2>3, <2>4, <2>5, <2>6
  <1>2. QED
    BY <1>1, RightOps DEF AuditInv

(* The event is written.                                                   *)
LEMMA LogBalances ==
  ASSUME IInv, AuditInv, NEW p \in Proc, LogEvent(p)
  PROVE  AuditInv'
  <1>1. /\ Moves(p) /\ UNCHANGED <<handles, faults>> /\ At(p, "log")
        /\ req'[p].pc = "done" /\ \A s \in Sub : ledger'[s] = ledger[s] + Entry(req[p], s)
    BY AnswerOkMoves, OkOpenly DEF LogEvent, history
  <1>2. ASSUME NEW s \in Sub, Balanced(s)
        PROVE  Balanced(s)'
    <2>1. /\ Unlogged(s)' = Unlogged(s) \ {p}
          /\ UnloggedRemoval(s)' = UnloggedRemoval(s) \ {p}
          /\ p \in Unlogged(s) <=> Entry(req[p], s) = 1
          /\ p \in UnloggedRemoval(s) <=> Entry(req[p], s) = -1
      BY <1>1 DEF Unlogged, UnloggedRemoval, At, Moves
    <2>2. /\ Cardinality(Unlogged(s)') = IF Entry(req[p], s) = 1
              THEN Cardinality(Unlogged(s)) - 1 ELSE Cardinality(Unlogged(s))
          /\ Cardinality(UnloggedRemoval(s)') = IF Entry(req[p], s) = -1
              THEN Cardinality(UnloggedRemoval(s)) - 1 ELSE Cardinality(UnloggedRemoval(s))
      BY <2>1, Pending, FS_RemoveElement
    <2>3. Taken(s)' = Taken(s) /\ ledger[s] \in Int /\ Entry(req[p], s) \in {-1, 0, 1}
      BY <1>1, EntryIsUnit DEF Taken, IInv, TypeOK
    <2>4. QED
      BY <1>1, <1>2, <2>2, <2>3, Pending DEF Balanced
  <1>3. RightOp(req'[p])
    BY <1>1 DEF RightOp
  <1>4. QED
    BY <1>1, <1>2, <1>3, RightOps DEF AuditInv

LEMMA AuditBegin ==
  ASSUME IInv, AuditInv, NEW p \in Proc, Begin(p)
  PROVE  AuditInv'
  <1>1. ASSUME NEW r, Start(p, r), RightOp(r), r.pc # "log"
        PROVE  ~At(p, "log") /\ req'[p].pc # "log" /\ RightOp(req'[p])
    BY <1>1 DEF Start, Reads, At, IInv, TypeOK
  <1>2. ~At(p, "log") /\ req'[p].pc # "log" /\ RightOp(req'[p])
    <2> USE DEF Idle, RightOp
    <2>1. CASE Register(p)
      BY <1>1, <2>1 DEF Register
    <2>2. CASE Manage(p)
      BY <1>1, <2>2 DEF Manage
    <2>3. CASE AdminAssignHandle(p)
      BY <1>1, <2>3 DEF AdminAssignHandle
    <2>4. CASE AdminDeleteHandle(p) \/ AdminDeleteDid(p)
      BY <1>1, <2>4 DEF AdminDeleteHandle, AdminDeleteDid
    <2>5. QED
      BY <2>1, <2>2, <2>3, <2>4 DEF Begin
  <1>3. QED
    BY <1>2, BeginMoves, NothingToLog DEF tables, history

LEMMA RefuseRight ==
  ASSUME IInv, NEW p \in Proc, NEW code, Refuse(p, code)
  PROVE  req'[p].pc # "log" /\ RightOp(req'[p])
  BY RefuseDone DEF RightOp

LEMMA AuditRead ==
  ASSUME IInv, AuditInv, NEW p \in Proc, ReadStep(p)
  PROVE  AuditInv'
  <1> USE DEF Reads, At
  <1>1. req[p] \in Request /\ req \in [Proc -> Request] /\ RightOp(req[p])
    BY DEF IInv, TypeOK, AuditInv
  <1>2. ~At(p, "log")
    BY DEF ReadStep, Gate, ResolveHandle, CheckBlockedDid, CheckBlockedPds,
           LogBlocked, GateDid, CheckReserved, CheckKeyword, CheckTaken, GetDid, CountHandles,
           CheckVip, RaceToUnavailable, ForeignKeyViolation, FindDidForSecret, ListHandles,
           DeleteFindsNothing
  <1> DEFINE Right == req'[p].pc # "log" /\ RightOp(req'[p])
  <1>3. ASSUME NEW label, Goto(p, label)
        PROVE  req'[p].pc = label /\ req'[p].op = req[p].op
    BY <1>1, <1>3 DEF Goto, Request
  <1>4. ASSUME NEW label, NEW h, NEW d, NEW b,
               \/ req' = [req EXCEPT ![p].did = d, ![p].pc = label]
               \/ req' = [req EXCEPT ![p].host = h, ![p].pc = label]
               \/ req' = [req EXCEPT ![p].isNew = b, ![p].pc = label]
               \/ req' = [req EXCEPT ![p].atCap = b, ![p].pc = label]
        PROVE  req'[p].pc = label /\ req'[p].op = req[p].op
    BY <1>1, <1>4 DEF Request
  <1>5. ASSUME req'[p].pc \in {"blockedDid", "logBlocked", "gateDid", "write", "count", "vip"},
               req'[p].op = req[p].op,
               req[p].pc \in {"resolve", "blockedPds", "getDid", "count"}
        PROVE  Right
    BY <1>1, <1>5 DEF RightOp
  <1>6. ASSUME NEW d, req[p].pc = "find",
               req' = [req EXCEPT ![p].did = d,
                                  ![p].pc = IF req[p].op = "list" THEN "list" ELSE "remove"]
        PROVE  Right
    <2>1. /\ req'[p].pc = IF req[p].op = "list" THEN "list" ELSE "remove"
          /\ req'[p].op = req[p].op
      BY <1>4, <1>6
    <2>2. QED
      BY <1>1, <1>6, <2>1 DEF RightOp
  <1>7. Right
    <2>1. CASE \/ LogBlocked(p) \/ RaceToUnavailable(p) \/ ForeignKeyViolation(p)
               \/ DeleteFindsNothing(p)
      BY <2>1, RefuseRight
         DEF LogBlocked, RaceToUnavailable, ForeignKeyViolation, DeleteFindsNothing
    <2>2. CASE \/ Gate(p) \/ GateDid(p) \/ CheckReserved(p) \/ CheckTaken(p)
               \/ CheckBlockedDid(p) \/ CheckKeyword(p) \/ CheckVip(p)
      BY <1>1, <1>3, <2>2, RefuseRight
         DEF Gate, GateDid, CheckReserved, CheckTaken, CheckBlockedDid, CheckKeyword, CheckVip,
             RightOp
    <2>3. CASE ResolveHandle(p)
      BY <1>4, <1>5, <2>3, RefuseRight DEF ResolveHandle
    <2>4. CASE CheckBlockedPds(p)
      BY <1>4, <1>5, <2>4 DEF CheckBlockedPds
    <2>5. CASE GetDid(p)
      <3> DEFINE next == IF dids[req[p].did] = None \/ req[p].op = "assign"
                         THEN "write" ELSE "count"
      <3>1. req[p].pc = "getDid" /\ req'[p].pc = next /\ req'[p].op = req[p].op
        BY <1>1, <2>5 DEF GetDid, Request
      <3>2. QED
        BY <1>5, <3>1
    <2>6. CASE CountHandles(p)
      <3>1. req[p].pc = "count" /\ req'[p].pc = "vip" /\ req'[p].op = req[p].op
        BY <1>1, <2>6 DEF CountHandles, Request
      <3>2. QED
        BY <1>5, <3>1
    <2>7. CASE FindDidForSecret(p)
      BY <1>6, <2>7, RefuseRight DEF FindDidForSecret
    <2>8. CASE ListHandles(p)
      BY <2>8, OkOpenly DEF ListHandles, RightOp
    <2>9. QED
      BY <2>1, <2>2, <2>3, <2>4, <2>5, <2>6, <2>7, <2>8 DEF ReadStep
  <1>8. QED
    BY <1>2, <1>7, ReadStepMoves, NothingToLog DEF tables, history

LEMMA AuditClaim ==
  ASSUME IInv, AuditInv, NEW p \in Proc, RegisterNewDidWithHandle(p) \/ AddHandle(p)
  PROVE  AuditInv'
  <1>1. /\ req[p] \in Request /\ req \in [Proc -> Request] /\ handles \in [Sub -> DID \cup {None}]
        /\ req[p].did \in DID /\ req[p].sub \in Sub /\ req[p].op \in {"register", "assign"}
    BY DEF IInv, TypeOK, FieldsKnown, NamesDid, NamesSub, RegisterNewDidWithHandle, AddHandle, At,
           AuditInv, RightOp
  <1>2. /\ \A q \in Proc \ {p} : req'[q] = req[q]
        /\ req'[p].pc = "log" /\ req'[p].op = req[p].op /\ req'[p].sub = req[p].sub
    <2>1. CASE RegisterNewDidWithHandle(p)
      <3>1. PICK k : req' = [req EXCEPT ![p].secret = k, ![p].pc = "log"]
        BY <2>1 DEF RegisterNewDidWithHandle
      <3>2. QED
        BY <1>1, <3>1 DEF Request
    <2>2. CASE AddHandle(p)
      BY <1>1, <2>2 DEF AddHandle, Goto, Request
    <2>3. QED
      BY <2>1, <2>2
  <1>3. Moves(p)
    BY <1>2, RegisterNewIInv, AddHandleIInv DEF Moves, IInv, TypeOK
  <1>4. /\ ~At(p, "log") /\ UNCHANGED <<ledger, faults>>
        /\ handles[req[p].sub] = None /\ handles' = [handles EXCEPT ![req[p].sub] = req[p].did]
    BY DEF RegisterNewDidWithHandle, AddHandle, InsertHandle, At
  <1>5. ASSUME NEW s \in Sub
        PROVE  Taken(s)' = Taken(s) + Entry(req'[p], s)
    <2>1. Entry(req'[p], s) = IF req[p].sub = s THEN 1 ELSE 0
      BY <1>1, <1>2 DEF Entry
    <2>2. Taken(s)' = IF req[p].sub = s THEN 1 ELSE Taken(s)
      BY <1>1, <1>4, RegistryAssumption DEF Taken
    <2>3. req[p].sub = s => Taken(s) = 0
      BY <1>4 DEF Taken
    <2>4. QED
      BY <2>1, <2>2, <2>3 DEF Taken
  <1>6. RightOp(req'[p])
    BY <1>2 DEF RightOp
  <1>7. QED
    BY <1>2, <1>3, <1>4, <1>5, <1>6, CommitBalances

LEMMA AuditRemoval ==
  ASSUME IInv, AuditInv, NEW p \in Proc, DeleteHandleAndMaybeDid(p)
  PROVE  AuditInv'
  <1>1. /\ req[p] \in Request /\ req \in [Proc -> Request] /\ handles \in [Sub -> DID \cup {None}]
        /\ req[p].did \in DID /\ req[p].op \in {"delete", "adminDelete"}
    BY DEF IInv, TypeOK, FieldsKnown, NamesDid, DeleteHandleAndMaybeDid, At, AuditInv, RightOp
  <1>2. /\ \A q \in Proc \ {p} : req'[q] = req[q]
        /\ req'[p].pc = "log" /\ req'[p].op = req[p].op /\ req'[p].sub = req[p].sub
    BY <1>1 DEF DeleteHandleAndMaybeDid, Goto, Request
  <1>3. Moves(p)
    BY <1>2, DeleteHandleIInv DEF Moves, IInv, TypeOK
  <1>4. /\ ~At(p, "log") /\ UNCHANGED <<ledger, faults>>
        /\ handles[req[p].sub] = req[p].did /\ handles' = [handles EXCEPT ![req[p].sub] = None]
    BY DEF DeleteHandleAndMaybeDid, At, history
  <1>5. ASSUME NEW s \in Sub
        PROVE  Taken(s)' = Taken(s) + Entry(req'[p], s)
    <2>1. Entry(req'[p], s) = IF req[p].sub = s THEN -1 ELSE 0
      BY <1>1, <1>2 DEF Entry
    <2>2. Taken(s)' = IF req[p].sub = s THEN 0 ELSE Taken(s)
      BY <1>1, <1>4 DEF Taken
    <2>3. req[p].sub = s => Taken(s) = 1
      BY <1>1, <1>4, RegistryAssumption DEF Taken
    <2>4. QED
      BY <2>1, <2>2, <2>3 DEF Taken
  <1>6. RightOp(req'[p])
    BY <1>2 DEF RightOp
  <1>7. QED
    BY <1>2, <1>3, <1>4, <1>5, <1>6, CommitBalances

LEMMA AuditDrop ==
  ASSUME IInv, AuditInv, NEW p \in Proc, DeleteDidAndHandles(p)
  PROVE  AuditInv'
  <1>1. /\ req[p] \in Request /\ req \in [Proc -> Request]
        /\ req[p].did \in DID /\ req[p].op = "adminDrop"
    BY DEF IInv, TypeOK, FieldsKnown, NamesDid, DeleteDidAndHandles, At, AuditInv, RightOp
  <1>2. ~At(p, "log") /\ UNCHANGED <<ledger, faults>>
    BY DEF DeleteDidAndHandles, At, history
  <1>3. CASE dids[req[p].did] = None
    BY <1>2, <1>3, RefuseMoves, RefuseRight, NothingToLog DEF DeleteDidAndHandles, Reply
  <1>4. CASE dids[req[p].did] # None
    <2>1. /\ handles' = [s \in Sub |-> IF handles[s] = req[p].did THEN None ELSE handles[s]]
          /\ req' = [req EXCEPT ![p].gone = HandlesOf(req[p].did), ![p].pc = "log"]
      BY <1>4 DEF DeleteDidAndHandles
    <2>2. /\ \A q \in Proc \ {p} : req'[q] = req[q]
          /\ req'[p].pc = "log" /\ req'[p].op = "adminDrop"
          /\ req'[p].gone = HandlesOf(req[p].did)
      BY <1>1, <2>1 DEF Request
    <2>3. Moves(p)
      BY <2>2, DeleteDidIInv DEF Moves, IInv, TypeOK
    <2>4. ASSUME NEW s \in Sub
          PROVE  Taken(s)' = Taken(s) + Entry(req'[p], s)
      <3>1. Entry(req'[p], s) = IF handles[s] = req[p].did THEN -1 ELSE 0
        BY <2>2 DEF Entry, HandlesOf
      <3>2. QED
        BY <1>1, <2>1, <3>1, RegistryAssumption DEF Taken
    <2>5. RightOp(req'[p])
      BY <2>2 DEF RightOp
    <2>6. QED
      BY <1>2, <2>2, <2>3, <2>4, <2>5, CommitBalances
  <1>5. QED
    BY <1>3, <1>4

LEMMA AuditReceive ==
  ASSUME IInv, AuditInv, NEW p \in Proc, Receive(p)
  PROVE  AuditInv'
  <1>1. req'[p] = Idle /\ Moves(p)
    <2>1. WellFormed(Idle)
      BY DEF WellFormed, Request, Idle, PC, FieldsKnown, NamesDid, NamesSub
    <2>2. QED
      BY <2>1, UpdateMoves DEF Receive, IInv, TypeOK
  <1>2. ~At(p, "log") /\ UNCHANGED <<handles, ledger, faults>>
    BY DEF Receive, At, tables
  <1>3. QED
    BY <1>1, <1>2, NothingToLog DEF Idle, RightOp

LEMMA AuditFault ==
  ASSUME IInv, AuditInv, NEW p \in Proc, DatabaseError(p) \/ Disconnect(p)
  PROVE  AuditInv'
  <1>1. req \in [Proc -> Request] /\ faults' # 0
    BY DEF IInv, TypeOK, DatabaseError, Disconnect, Fault
  <1>2. \A q \in Proc : req'[q].pc \in {"idle", "done"} \/ req'[q] = req[q]
    <2>1. CASE DatabaseError(p)
      BY <1>1, <2>1 DEF DatabaseError, Refuse, Idle
    <2>2. CASE Disconnect(p)
      BY <1>1, <2>2 DEF Disconnect, Idle
    <2>3. QED
      BY <2>1, <2>2
  <1>3. \A q \in Proc : RightOp(req'[q])
    BY <1>2 DEF AuditInv, RightOp
  <1>4. QED
    BY <1>1, <1>3 DEF AuditInv

LEMMA AuditConfig ==
  ASSUME IInv, AuditInv, NEW c \in Listable, ConfigAdd(c[1], c[2]) \/ ConfigRemove(c[1], c[2])
  PROVE  AuditInv'
  <1>1. UNCHANGED <<handles, ledger, faults>>
    BY DEF ConfigAdd, ConfigRemove, history
  <1>2. ASSUME NEW p \in Proc
        PROVE  /\ req'[p].pc = req[p].pc /\ req'[p].op = req[p].op
               /\ req'[p].sub = req[p].sub /\ req'[p].gone = req[p].gone
    <2>1. req[p] \in Request
      BY DEF IInv, TypeOK
    <2>2. QED
      BY <2>1 DEF ConfigAdd, ConfigRemove, Request
  <1>3. \A p \in Proc : \A s : Entry(req'[p], s) = Entry(req[p], s)
    BY <1>2 DEF Entry
  <1>4. \A s : Unlogged(s)' = Unlogged(s) /\ UnloggedRemoval(s)' = UnloggedRemoval(s)
    BY <1>2, <1>3 DEF Unlogged, UnloggedRemoval, At
  <1>5. \A p \in Proc : RightOp(req'[p])
    BY <1>2 DEF AuditInv, RightOp
  <1>6. \A s \in Sub : Balanced(s)' <=> Balanced(s)
    BY <1>1, <1>4 DEF Balanced, Taken
  <1>7. QED
    BY <1>1, <1>5, <1>6 DEF AuditInv

LEMMA AuditStart == Init => AuditInv
  <1> SUFFICES ASSUME Init PROVE AuditInv
    OBVIOUS
  <1>1. \A p \in Proc : RightOp(req[p])
    BY DEF Init, Idle, RightOp
  <1>2. \A s : Unlogged(s) = {} /\ UnloggedRemoval(s) = {}
    BY DEF Init, Idle, Unlogged, UnloggedRemoval, At
  <1>3. \A s \in Sub : Balanced(s)
    BY <1>2, FS_EmptySet DEF Init, Balanced, Taken
  <1>4. QED
    BY <1>1, <1>3 DEF AuditInv

LEMMA AuditStep == IInv /\ AuditInv /\ [Next]_vars => AuditInv'
  <1> SUFFICES ASSUME IInv, AuditInv, [Next]_vars
               PROVE  AuditInv'
    OBVIOUS
  <1>1. CASE UNCHANGED vars
    <2>1. \A s : Unlogged(s)' = Unlogged(s) /\ UnloggedRemoval(s)' = UnloggedRemoval(s)
      BY <1>1 DEF vars, Unlogged, UnloggedRemoval, At
    <2>2. \A s \in Sub : Balanced(s)' <=> Balanced(s)
      BY <1>1, <2>1 DEF vars, Balanced, Taken
    <2>3. QED
      BY <1>1, <2>2 DEF vars, AuditInv
  <1>2. QED
    BY <1>1, AuditBegin, AuditRead, AuditClaim, AuditRemoval, AuditDrop, LogBalances,
       AuditReceive, AuditFault, AuditConfig DEF Next, Serve, WriteStep

(* Without a fault the activity log accounts for every handle, counting    *)
(* the events still to be written, with any number of claims and removals  *)
(* racing (the log_event calls of service.rs and handlers/admin.rs).       *)
THEOREM RegistryAuditBalance == Spec => []AuditBalance
  <1>1. AuditInv => AuditBalance
    BY DEF AuditInv, AuditBalance, Balanced, Taken
  <1>2. QED
    BY <1>1, AuditStart, AuditStep, RegistryTypes, PTL DEF Spec
=============================================================================
