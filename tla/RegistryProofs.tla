---------------------------- MODULE RegistryProofs ----------------------------
(***************************************************************************)
(* Registry's types, its refinement of HandleStore, and who holds the key. *)
(***************************************************************************)
EXTENDS Registry, TLAPS

(* What a request knows at each step: the subdomain from the start, the DID *)
(* once it is resolved, looked up or given by the administrator.            *)
NamesDid(r) ==
  r.pc \in {"blockedDid", "blockedPds", "gateDid", "reserved", "keyword", "taken",
            "getDid", "count", "vip", "write", "list", "remove", "drop", "log"}
NamesSub(r) ==
  \/ r.pc \in {"resolve", "blockedDid", "blockedPds", "gateDid", "reserved",
               "keyword", "taken", "getDid", "count", "vip", "write", "remove"}
  \/ r.pc \in {"gate", "find"} /\ r.op # "list"

FieldsKnown(r) == (NamesDid(r) => r.did \in DID) /\ (NamesSub(r) => r.sub \in Sub)

WellFormed(r) == r \in Request /\ FieldsKnown(r)

IInv == TypeOK /\ \A p \in Proc : FieldsKnown(req[p])

(* A step that touches one request, and leaves it well formed. *)
Moves(p) ==
  /\ req' \in [Proc -> Request]
  /\ \A q \in Proc \ {p} : req'[q] = req[q]
  /\ FieldsKnown(req'[p])

LEMMA InitIInv == Init => IInv
  BY RegistryAssumption
     DEF Init, IInv, TypeOK, Request, Idle, PC, FieldsKnown, NamesDid, NamesSub

LEMMA RefuseMoves ==
  ASSUME IInv, NEW p \in Proc, NEW code \in Reply, Refuse(p, code)
  PROVE  Moves(p)
  BY DEF IInv, TypeOK, Refuse, Moves, Request, Idle, PC, FieldsKnown, NamesDid, NamesSub

LEMMA GotoMoves ==
  ASSUME IInv, NEW p \in Proc, NEW label \in PC, Goto(p, label),
         FieldsKnown([req[p] EXCEPT !.pc = label])
  PROVE  Moves(p)
  BY DEF IInv, TypeOK, Goto, Moves, Request

LEMMA UpdateMoves ==
  ASSUME IInv, NEW p \in Proc, NEW r, WellFormed(r), req' = [req EXCEPT ![p] = r]
  PROVE  Moves(p)
  BY DEF IInv, TypeOK, Moves, WellFormed

LEMMA StartMoves ==
  ASSUME IInv, NEW p \in Proc, NEW r, WellFormed(r), Start(p, r)
  PROVE  Moves(p) /\ UNCHANGED <<tables, history>>
  BY UpdateMoves DEF Start, Reads

LEMMA AnswerOkMoves ==
  ASSUME IInv, NEW p \in Proc, AnswerOk(p)
  PROVE  Moves(p)
  <1> DEFINE r == [req[p] EXCEPT !.pc = "done", !.reply = "Ok"]
  <1>1. req[p] \in Request
    BY DEF IInv, TypeOK
  <1>2. r \in Request
    BY <1>1 DEF Request, PC, Reply
  <1>3. r.pc = "done"
    BY <1>1 DEF Request
  <1>4. FieldsKnown(r)
    BY <1>3 DEF FieldsKnown, NamesDid, NamesSub
  <1>5. req' = [req EXCEPT ![p] = r]
    BY DEF AnswerOk, IInv, TypeOK
  <1>6. QED
    BY <1>2, <1>4, <1>5, UpdateMoves DEF WellFormed

LEMMA BeginMoves ==
  ASSUME IInv, NEW p \in Proc, Begin(p)
  PROVE  Moves(p) /\ UNCHANGED <<tables, history>>
  <1>1. CASE Register(p)
    <2>1. ASSUME NEW s \in Sub
          PROVE  WellFormed([Idle EXCEPT !.op = "register", !.pc = "gate", !.sub = s,
                                         !.standing = config])
      BY DEF WellFormed, Request, Idle, PC, AllOps, FieldsKnown, NamesDid, NamesSub, IInv, TypeOK
    <2>2. WellFormed([Idle EXCEPT !.op = "register", !.pc = "done",
                                  !.reply = "InvalidHandleFormat"])
      BY DEF WellFormed, Request, Reply, Idle, PC, AllOps, FieldsKnown, NamesDid, NamesSub
    <2>3. QED
      BY <1>1, <2>1, <2>2, StartMoves DEF Register
  <1>2. CASE Manage(p)
    <2>1. ASSUME NEW k \in held \cup {None}
          PROVE  WellFormed([Idle EXCEPT !.op = "list", !.pc = "gate", !.secret = k])
      BY DEF WellFormed, Request, Idle, PC, AllOps, FieldsKnown, NamesDid, NamesSub, IInv, TypeOK
    <2>2. ASSUME NEW k \in held \cup {None}, NEW s \in Sub
          PROVE  WellFormed([Idle EXCEPT !.op = "delete", !.pc = "gate", !.secret = k,
                                         !.sub = s])
      BY DEF WellFormed, Request, Idle, PC, AllOps, FieldsKnown, NamesDid, NamesSub, IInv, TypeOK
    <2>3. WellFormed([Idle EXCEPT !.op = "delete", !.pc = "done",
                                  !.reply = "SecretDoesNotControlHandle"])
      BY DEF WellFormed, Request, Reply, Idle, PC, AllOps, FieldsKnown, NamesDid, NamesSub
    <2>4. QED
      BY <1>2, <2>1, <2>2, <2>3, StartMoves DEF Manage
  <1>3. CASE AdminAssignHandle(p)
    <2>1. ASSUME NEW d \in DID, NEW s \in Sub
          PROVE  WellFormed([Idle EXCEPT !.op = "assign", !.pc = "taken", !.did = d, !.sub = s])
      BY DEF WellFormed, Request, Idle, PC, AllOps, FieldsKnown, NamesDid, NamesSub
    <2>2. WellFormed([Idle EXCEPT !.op = "assign", !.pc = "done",
                                  !.reply = "InvalidHandleFormat"])
      BY DEF WellFormed, Request, Reply, Idle, PC, AllOps, FieldsKnown, NamesDid, NamesSub
    <2>3. QED
      BY <1>3, <2>1, <2>2, StartMoves DEF AdminAssignHandle
  <1>4. CASE AdminDeleteHandle(p)
    <2>1. ASSUME NEW d \in DID, NEW s \in Sub
          PROVE  WellFormed([Idle EXCEPT !.op = "adminDelete", !.pc = "remove", !.did = d,
                                         !.sub = s])
      BY DEF WellFormed, Request, Idle, PC, AllOps, FieldsKnown, NamesDid, NamesSub
    <2>2. QED
      BY <1>4, <2>1, StartMoves DEF AdminDeleteHandle
  <1>5. CASE AdminDeleteDid(p)
    <2>1. ASSUME NEW d \in DID
          PROVE  WellFormed([Idle EXCEPT !.op = "adminDrop", !.pc = "drop", !.did = d])
      BY DEF WellFormed, Request, Idle, PC, AllOps, FieldsKnown, NamesDid, NamesSub
    <2>2. QED
      BY <1>5, <2>1, StartMoves DEF AdminDeleteDid
  <1>6. QED
    BY <1>1, <1>2, <1>3, <1>4, <1>5 DEF Begin

LEMMA ReadStepMoves ==
  ASSUME IInv, NEW p \in Proc, ReadStep(p)
  PROVE  Moves(p) /\ UNCHANGED <<tables, history>>
  <1> USE DEF Reads, At, FieldsKnown, NamesDid, NamesSub
  <1>0. req[p] \in Request /\ FieldsKnown(req[p])
    BY DEF IInv, TypeOK
  <1>1. CASE Gate(p)
    BY <1>0, <1>1, RefuseMoves, GotoMoves DEF Gate, Request, PC, Reply
  <1>2. CASE ResolveHandle(p)
    <2>1. ASSUME NEW d \in DID,
                 req' = [req EXCEPT ![p].did = d, ![p].pc = "blockedDid"]
          PROVE  Moves(p)
      <3> DEFINE r == [req[p] EXCEPT !.did = d, !.pc = "blockedDid"]
      <3>1. r \in Request /\ r.did = d /\ r.sub = req[p].sub
        BY <1>0 DEF Request, PC
      <3>2. req[p].sub \in Sub
        BY <1>0, <1>2 DEF ResolveHandle
      <3>3. WellFormed(r)
        BY <3>1, <3>2 DEF WellFormed
      <3>4. req' = [req EXCEPT ![p] = r]
        BY <2>1 DEF IInv, TypeOK
      <3>5. QED
        BY <3>3, <3>4, UpdateMoves
    <2>2. QED
      BY <1>2, <2>1, RefuseMoves DEF ResolveHandle, Reply
  <1>3. CASE CheckBlockedDid(p)
    BY <1>0, <1>3, GotoMoves DEF CheckBlockedDid, Request, PC, Reply
  <1>4. CASE CheckBlockedPds(p)
    <2>1. PICK h \in Host \cup {None} :
            req' = [req EXCEPT ![p].host = h,
                               ![p].pc = IF h # None /\ Listed("blocked_pds", h)
                                         THEN "logBlocked" ELSE "gateDid"]
      BY <1>4 DEF CheckBlockedPds
    <2> DEFINE next == IF h # None /\ Listed("blocked_pds", h) THEN "logBlocked" ELSE "gateDid"
               r    == [req[p] EXCEPT !.host = h, !.pc = next]
    <2>2. next \in {"logBlocked", "gateDid"}
      OBVIOUS
    <2>3. req' = [req EXCEPT ![p] = r]
      BY <2>1 DEF IInv, TypeOK
    <2>4. req[p].pc = "blockedPds"
      BY <1>4 DEF CheckBlockedPds
    <2> HIDE DEF next
    <2>5. req[p] \in Request /\ req[p].did \in DID /\ req[p].sub \in Sub
      BY <1>0, <2>4
    <2>6. WellFormed(r)
      <3>1. r \in Request
        BY <2>2, <2>5 DEF Request, PC
      <3>2. r.did \in DID /\ r.sub \in Sub
        BY <2>5 DEF Request
      <3>3. QED
        BY <3>1, <3>2 DEF WellFormed
    <2>7. Moves(p)
      BY <2>3, <2>6, UpdateMoves
    <2>8. QED
      BY <1>4, <2>7 DEF CheckBlockedPds
  <1>5. CASE LogBlocked(p)
    BY <1>0, <1>5, RefuseMoves DEF LogBlocked, Reply
  <1>6. CASE GateDid(p)
    BY <1>0, <1>6, RefuseMoves, GotoMoves DEF GateDid, Request, PC, Reply
  <1>7. CASE CheckReserved(p)
    BY <1>0, <1>7, RefuseMoves, GotoMoves DEF CheckReserved, Request, PC, Reply
  <1>8. CASE CheckKeyword(p)
    BY <1>0, <1>8, GotoMoves DEF CheckKeyword, Request, PC, Reply
  <1>9. CASE CheckTaken(p)
    BY <1>0, <1>9, RefuseMoves, GotoMoves DEF CheckTaken, Request, PC, Reply
  <1>10. CASE GetDid(p)
    <2> DEFINE new  == dids[req[p].did] = None
               next == IF new \/ req[p].op = "assign" THEN "write" ELSE "count"
               r    == [req[p] EXCEPT !.isNew = new, !.pc = next]
    <2>1. new \in BOOLEAN /\ next \in {"write", "count"}
      OBVIOUS
    <2>2. req[p].pc = "getDid" /\ req' = [req EXCEPT ![p] = r]
      BY <1>10 DEF GetDid, IInv, TypeOK
    <2> HIDE DEF new, next
    <2>3. req[p] \in Request /\ req[p].did \in DID /\ req[p].sub \in Sub
      BY <1>0, <2>2
    <2>4. WellFormed(r)
      <3>1. r \in Request
        BY <2>1, <2>3 DEF Request, PC
      <3>2. r.did \in DID /\ r.sub \in Sub
        BY <2>3 DEF Request
      <3>3. QED
        BY <3>1, <3>2 DEF WellFormed
    <2>5. Moves(p)
      BY <2>2, <2>4, UpdateMoves
    <2>6. QED
      BY <1>10, <2>5 DEF GetDid
  <1>11. CASE CountHandles(p)
    <2> DEFINE full == Cardinality(HandlesOf(req[p].did)) >= HandleLimit
               r    == [req[p] EXCEPT !.atCap = full, !.pc = "vip"]
    <2>1. full \in BOOLEAN
      OBVIOUS
    <2>2. req[p].pc = "count" /\ req' = [req EXCEPT ![p] = r]
      BY <1>11 DEF CountHandles, IInv, TypeOK
    <2> HIDE DEF full
    <2>3. req[p] \in Request /\ req[p].did \in DID /\ req[p].sub \in Sub
      BY <1>0, <2>2
    <2>4. WellFormed(r)
      <3>1. r \in Request
        BY <2>1, <2>3 DEF Request, PC
      <3>2. r.did \in DID /\ r.sub \in Sub
        BY <2>3 DEF Request
      <3>3. QED
        BY <3>1, <3>2 DEF WellFormed
    <2>5. Moves(p)
      BY <2>2, <2>4, UpdateMoves
    <2>6. QED
      BY <1>11, <2>5 DEF CountHandles
  <1>12. CASE CheckVip(p)
    BY <1>0, <1>12, RefuseMoves, GotoMoves DEF CheckVip, Request, PC, Reply
  <1>13. CASE RaceToUnavailable(p)
    BY <1>0, <1>13, RefuseMoves DEF RaceToUnavailable, Reply
  <1>14. CASE ForeignKeyViolation(p)
    BY <1>0, <1>14, RefuseMoves DEF ForeignKeyViolation, Reply
  <1>15. CASE FindDidForSecret(p)
    <2> DEFINE next == IF req[p].op = "list" THEN "list" ELSE "remove"
    <2>0. next \in {"list", "remove"} /\ (next = "remove" => req[p].op # "list")
      OBVIOUS
    <2>1. ASSUME NEW d \in DID, req' = [req EXCEPT ![p].did = d, ![p].pc = next]
          PROVE  Moves(p)
      <3> DEFINE r == [req[p] EXCEPT !.did = d, !.pc = next]
      <3> HIDE DEF next
      <3>1. r \in Request /\ r.did \in DID /\ r.sub = req[p].sub /\ r.pc = next
        BY <1>0, <2>0 DEF Request, PC
      <3>2. r.pc = "remove" => r.sub \in Sub
        BY <1>0, <1>15, <2>0, <3>1 DEF FindDidForSecret
      <3>3. WellFormed(r)
        BY <2>0, <3>1, <3>2 DEF WellFormed
      <3>4. req' = [req EXCEPT ![p] = r]
        BY <2>1 DEF IInv, TypeOK
      <3>5. QED
        BY <3>3, <3>4, UpdateMoves
    <2>2. QED
      BY <1>15, <2>1, RefuseMoves DEF FindDidForSecret, Reply
  <1>16. CASE ListHandles(p)
    BY <1>16, AnswerOkMoves DEF ListHandles
  <1>17. CASE DeleteFindsNothing(p)
    BY <1>0, <1>17, RefuseMoves DEF DeleteFindsNothing, Reply
  <1>18. QED
    BY <1>1, <1>2, <1>3, <1>4, <1>5, <1>6, <1>7, <1>8, <1>9, <1>10, <1>11, <1>12,
       <1>13, <1>14, <1>15, <1>16, <1>17 DEF ReadStep

(***************************************************************************)
(* Every step keeps IInv.                                                  *)
(***************************************************************************)

TablesTyped ==
  /\ dids'    \in [DID -> Hash \cup {None}]
  /\ handles' \in [Sub -> DID \cup {None}]
  /\ config'  \subseteq Listable
  /\ ledger'  \in [Sub -> Int]
  /\ issued'  \in [Secret -> DID \cup {None}]
  /\ held'    \subseteq Secret
  /\ exempt'  \subseteq DID
  /\ faults'  \in Nat

LEMMA MovesKeepIInv ==
  ASSUME IInv, NEW p \in Proc, Moves(p), TablesTyped
  PROVE  IInv'
  BY DEF IInv, TypeOK, Moves, TablesTyped, FieldsKnown, NamesDid, NamesSub

LEMMA RegisterNewIInv ==
  ASSUME IInv, NEW p \in Proc, RegisterNewDidWithHandle(p)
  PROVE  IInv'
  <1>1. PICK s \in Secret :
          /\ dids'   = [dids EXCEPT ![req[p].did] = HashUserSecret(s)]
          /\ issued' = [issued EXCEPT ![s] = req[p].did]
          /\ req'    = [req EXCEPT ![p].secret = s, ![p].pc = "log"]
    BY DEF RegisterNewDidWithHandle
  <1> DEFINE r == [req[p] EXCEPT !.secret = s, !.pc = "log"]
  <1>2. req[p] \in Request /\ req[p].did \in DID
    BY DEF IInv, TypeOK, FieldsKnown, NamesDid, RegisterNewDidWithHandle, At
  <1>3. WellFormed(r)
    <2>1. r \in Request /\ r.did = req[p].did /\ r.pc = "log"
      BY <1>2 DEF Request, PC
    <2>2. QED
      BY <1>2, <2>1 DEF WellFormed, FieldsKnown, NamesSub
  <1>4. req' = [req EXCEPT ![p] = r]
    BY <1>1 DEF IInv, TypeOK
  <1>5. TablesTyped
    BY <1>1, <1>2 DEF TablesTyped, IInv, TypeOK, Hash, RegisterNewDidWithHandle, InsertHandle
  <1>6. QED
    BY <1>3, <1>4, <1>5, UpdateMoves, MovesKeepIInv

LEMMA AddHandleIInv ==
  ASSUME IInv, NEW p \in Proc, AddHandle(p)
  PROVE  IInv'
  <1>1. req[p] \in Request /\ req[p].did \in DID
    BY DEF IInv, TypeOK, FieldsKnown, NamesDid, AddHandle, At
  <1>2. Moves(p)
    BY <1>1, GotoMoves DEF AddHandle, PC, FieldsKnown, NamesDid, NamesSub, Request
  <1>3. TablesTyped
    BY <1>1 DEF TablesTyped, IInv, TypeOK, AddHandle, InsertHandle
  <1>4. QED
    BY <1>2, <1>3, MovesKeepIInv

LEMMA DeleteHandleIInv ==
  ASSUME IInv, NEW p \in Proc, DeleteHandleAndMaybeDid(p)
  PROVE  IInv'
  <1>1. req[p] \in Request /\ req[p].did \in DID
    BY DEF IInv, TypeOK, FieldsKnown, NamesDid, DeleteHandleAndMaybeDid, At
  <1>2. Moves(p)
    BY <1>1, GotoMoves DEF DeleteHandleAndMaybeDid, PC, FieldsKnown, NamesDid, NamesSub, Request
  <1>3. TablesTyped
    BY <1>1 DEF TablesTyped, IInv, TypeOK, DeleteHandleAndMaybeDid, history
  <1>4. QED
    BY <1>2, <1>3, MovesKeepIInv

LEMMA DeleteDidIInv ==
  ASSUME IInv, NEW p \in Proc, DeleteDidAndHandles(p)
  PROVE  IInv'
  <1>1. req[p] \in Request /\ req[p].did \in DID
    BY DEF IInv, TypeOK, FieldsKnown, NamesDid, DeleteDidAndHandles, At
  <1>2. TablesTyped
    BY <1>1 DEF TablesTyped, IInv, TypeOK, DeleteDidAndHandles, history
  <1>3. CASE dids[req[p].did] = None
    <2>1. Moves(p)
      BY <1>3, RefuseMoves DEF DeleteDidAndHandles, Reply
    <2>2. QED
      BY <1>2, <2>1, MovesKeepIInv
  <1>4. CASE dids[req[p].did] # None
    <2> DEFINE r == [req[p] EXCEPT !.gone = HandlesOf(req[p].did), !.pc = "log"]
    <2>1. WellFormed(r)
      <3>1. r \in Request /\ r.did = req[p].did /\ r.pc = "log"
        BY <1>1 DEF Request, PC, HandlesOf
      <3>2. QED
        BY <1>1, <3>1 DEF WellFormed, FieldsKnown, NamesSub
    <2>2. req' = [req EXCEPT ![p] = r]
      BY <1>4 DEF DeleteDidAndHandles, IInv, TypeOK
    <2>3. QED
      BY <1>2, <2>1, <2>2, UpdateMoves, MovesKeepIInv
  <1>5. QED
    BY <1>3, <1>4

LEMMA LogEventIInv ==
  ASSUME IInv, NEW p \in Proc, LogEvent(p)
  PROVE  IInv'
  <1>1. Moves(p)
    BY AnswerOkMoves DEF LogEvent
  <1>2. \A s \in Sub : Entry(req[p], s) \in Int
    BY DEF Entry
  <1>3. TablesTyped
    BY <1>2 DEF TablesTyped, IInv, TypeOK, LogEvent, history
  <1>4. QED
    BY <1>1, <1>3, MovesKeepIInv

LEMMA ConfigIInv ==
  ASSUME IInv, NEW c \in Listable, ConfigAdd(c[1], c[2]) \/ ConfigRemove(c[1], c[2])
  PROVE  IInv'
  <1>1. c = <<c[1], c[2]>> /\ (c[1] = "vip_dids" => c[2] \in DID)
    BY RegistryAssumption
  <1>2. CASE ConfigAdd(c[1], c[2])
    BY <1>1, <1>2 DEF ConfigAdd, IInv, TypeOK, FieldsKnown, NamesDid, NamesSub
  <1>3. CASE ConfigRemove(c[1], c[2])
    <2>1. \A p \in Proc : req'[p] = [req[p] EXCEPT !.standing = @ \ {<<c[1], c[2]>>}]
      BY <1>3 DEF ConfigRemove
    <2>2. \A p \in Proc : WellFormed(req[p])
      BY DEF IInv, TypeOK, WellFormed
    <2>3. ASSUME NEW p \in Proc
          PROVE  WellFormed(req'[p])
      <3> DEFINE left == req[p].standing \ {<<c[1], c[2]>>}
      <3>1. req'[p] \in Request
        <4>1. req[p] \in Request /\ left \in SUBSET Listable
          BY <2>2 DEF WellFormed, Request
        <4>2. req'[p] = [req[p] EXCEPT !.standing = left]
          BY <2>1
        <4> HIDE DEF left
        <4>3. [req[p] EXCEPT !.standing = left] \in Request
          BY <4>1 DEF Request
        <4>4. QED
          BY <4>2, <4>3
      <3>2. /\ req'[p].op = req[p].op /\ req'[p].pc = req[p].pc
            /\ req'[p].did = req[p].did /\ req'[p].sub = req[p].sub
        BY <2>1, <2>2 DEF WellFormed, Request
      <3>3. QED
        BY <2>2, <3>1, <3>2 DEF WellFormed, FieldsKnown, NamesDid, NamesSub
    <2>4. req' \in [Proc -> Request]
      BY <1>3, <2>3 DEF ConfigRemove, WellFormed
    <2>5. QED
      BY <1>3, <2>3, <2>4 DEF ConfigRemove, IInv, TypeOK, WellFormed, history,
                               FieldsKnown, NamesDid, NamesSub
  <1>4. QED
    BY <1>2, <1>3

LEMMA OutsideIInv ==
  ASSUME IInv, NEW p \in Proc, Receive(p) \/ DatabaseError(p) \/ Disconnect(p)
  PROVE  IInv'
  <1>1. WellFormed(Idle)
    BY DEF WellFormed, Request, Idle, PC, FieldsKnown, NamesDid, NamesSub
  <1>2. req[p] \in Request
    BY DEF IInv, TypeOK
  <1>3. TablesTyped
    BY <1>2 DEF TablesTyped, IInv, TypeOK, Receive, DatabaseError, Disconnect, Fault, tables,
                Request
  <1>4. Moves(p)
    BY <1>1, UpdateMoves, RefuseMoves DEF Receive, DatabaseError, Disconnect, Reply
  <1>5. QED
    BY <1>3, <1>4, MovesKeepIInv

LEMMA StepIInv == IInv /\ [Next]_vars => IInv'
  <1> SUFFICES ASSUME IInv, [Next]_vars
               PROVE  IInv'
    OBVIOUS
  <1>1. CASE UNCHANGED vars
    BY <1>1 DEF IInv, TypeOK, FieldsKnown, NamesDid, NamesSub, vars
  <1>2. ASSUME NEW p \in Proc, Begin(p) \/ ReadStep(p)
        PROVE  IInv'
    <2>1. Moves(p) /\ UNCHANGED <<tables, history>>
      BY <1>2, BeginMoves, ReadStepMoves
    <2>2. TablesTyped
      BY <2>1 DEF TablesTyped, IInv, TypeOK, tables, history
    <2>3. QED
      BY <2>1, <2>2, MovesKeepIInv
  <1>3. ASSUME NEW p \in Proc, WriteStep(p)
        PROVE  IInv'
    BY <1>3, RegisterNewIInv, AddHandleIInv, DeleteHandleIInv, DeleteDidIInv DEF WriteStep
  <1>4. QED
    BY <1>1, <1>2, <1>3, LogEventIInv, ConfigIInv, OutsideIInv DEF Next, Serve

(* Every variable has its type, and a request past the lookup of its DID    *)
(* holds a DID and a subdomain it was given.                                *)
THEOREM RegistryTypes == Spec => []IInv
  BY InitIInv, StepIInv, PTL DEF Spec

THEOREM RegistryTypeOK == Spec => []TypeOK
  BY RegistryTypes, PTL DEF IInv

-----------------------------------------------------------------------------
(* Every behaviour of Registry is one of HandleStore: whatever the          *)
(* interleaving, the failures and the constants, each request takes effect  *)
(* in one step or not at all.                                               *)

LEMMA HashInjective ==
  \A s, t \in Secret : HashUserSecret(s) = HashUserSecret(t) => s = t
  BY DEF HashUserSecret

Spent == {HashUserSecret(s) : s \in {t \in Secret : issued[t] # None}}

LEMMA Stutters ==
  UNCHANGED <<dids, handles, issued>> => UNCHANGED Store!vars
  BY DEF Store!vars

LEMMA RegisterNewRefines ==
  ASSUME IInv, NEW p \in Proc, RegisterNewDidWithHandle(p)
  PROVE  Store!Next
  <1> DEFINE d == req[p].did
             sub == req[p].sub
  <1>1. PICK s \in Secret :
          /\ issued[s] = None
          /\ dids'   = [dids EXCEPT ![d] = HashUserSecret(s)]
          /\ issued' = [issued EXCEPT ![s] = d]
    BY DEF RegisterNewDidWithHandle
  <1>2. d \in DID /\ sub \in Sub
    BY DEF IInv, FieldsKnown, NamesDid, NamesSub, RegisterNewDidWithHandle, At
  <1>3. d # None
    BY <1>2, RegistryAssumption
  <1>4. HashUserSecret(s) \in Hash /\ HashUserSecret(s) \notin Spent
    BY <1>1, HashInjective DEF Hash, Spent
  <1>5. Spent' = Spent \cup {HashUserSecret(s)}
    <2>1. {t \in Secret : issued'[t] # None} = {t \in Secret : issued[t] # None} \cup {s}
      BY <1>1, <1>3 DEF IInv, TypeOK
    <2>2. QED
      BY <2>1 DEF Spent
  <1>6. Store!FirstClaim(d, sub, HashUserSecret(s))
    BY <1>1, <1>4, <1>5
       DEF Store!FirstClaim, Spent, RegisterNewDidWithHandle, InsertHandle
  <1>7. QED
    BY <1>2, <1>4, <1>6 DEF Store!Next

LEMMA AddHandleRefines ==
  ASSUME IInv, NEW p \in Proc, AddHandle(p)
  PROVE  Store!Next
  <1>1. req[p].did \in DID /\ req[p].sub \in Sub
    BY DEF IInv, FieldsKnown, NamesDid, NamesSub, AddHandle, At
  <1>2. Store!Claim(req[p].did, req[p].sub)
    BY DEF Store!Claim, AddHandle, InsertHandle
  <1>3. QED
    BY <1>1, <1>2 DEF Store!Next

LEMMA DeleteHandleRefines ==
  ASSUME IInv, NEW p \in Proc, DeleteHandleAndMaybeDid(p)
  PROVE  Store!Next
  <1> DEFINE d == req[p].did
             s == req[p].sub
  <1>1. d \in DID /\ s \in Sub
    BY DEF IInv, FieldsKnown, NamesDid, NamesSub, DeleteHandleAndMaybeDid, At
  <1>2. d # None
    BY <1>1, RegistryAssumption
  <1>3. handles[s] = d /\ handles' = [handles EXCEPT ![s] = None]
    BY DEF DeleteHandleAndMaybeDid
  <1>4. (\E t \in Sub : handles'[t] = d) <=> Store!Holdings(d) # {s}
    BY <1>1, <1>2, <1>3 DEF Store!Holdings, IInv, TypeOK
  <1>5. Store!Release(d, s)
    BY <1>3, <1>4 DEF Store!Release, DeleteHandleAndMaybeDid, history
  <1>6. QED
    BY <1>1, <1>5 DEF Store!Next

LEMMA DeleteDidRefines ==
  ASSUME IInv, NEW p \in Proc, DeleteDidAndHandles(p)
  PROVE  Store!Next \/ UNCHANGED Store!vars
  <1>1. req[p].did \in DID
    BY DEF IInv, FieldsKnown, NamesDid, DeleteDidAndHandles, At
  <1>2. CASE dids[req[p].did] = None
    BY <1>2, Stutters DEF DeleteDidAndHandles, history
  <1>3. CASE dids[req[p].did] # None
    <2>1. Store!Drop(req[p].did)
      BY <1>3 DEF Store!Drop, DeleteDidAndHandles, history
    <2>2. QED
      BY <1>1, <2>1 DEF Store!Next
  <1>4. QED
    BY <1>2, <1>3

LEMMA InitRefines == Init => Store!Init
  BY DEF Init, Store!Init

LEMMA StepRefines == IInv /\ [Next]_vars => [Store!Next]_(Store!vars)
  <1> SUFFICES ASSUME IInv, [Next]_vars
               PROVE  Store!Next \/ UNCHANGED Store!vars
    OBVIOUS
  <1>1. CASE UNCHANGED vars
    BY <1>1, Stutters DEF vars
  <1>2. ASSUME NEW p \in Proc, Begin(p) \/ ReadStep(p)
        PROVE  UNCHANGED Store!vars
    BY <1>2, BeginMoves, ReadStepMoves, Stutters DEF tables, history
  <1>3. ASSUME NEW p \in Proc, WriteStep(p)
        PROVE  Store!Next \/ UNCHANGED Store!vars
    BY <1>3, RegisterNewRefines, AddHandleRefines, DeleteHandleRefines, DeleteDidRefines
       DEF WriteStep
  <1>4. ASSUME NEW p \in Proc,
               LogEvent(p) \/ Receive(p) \/ DatabaseError(p) \/ Disconnect(p)
        PROVE  UNCHANGED Store!vars
    BY <1>4, Stutters DEF LogEvent, Receive, DatabaseError, Disconnect, tables, history
  <1>5. ASSUME NEW c \in Listable, ConfigAdd(c[1], c[2]) \/ ConfigRemove(c[1], c[2])
        PROVE  UNCHANGED Store!vars
    BY <1>5, Stutters DEF ConfigAdd, ConfigRemove, history
  <1>6. QED
    BY <1>1, <1>2, <1>3, <1>4, <1>5 DEF Next, Serve

(* The handlers implement the one-step store.                               *)
THEOREM RegistryImplementsStore == Spec => ImplementsHandleStore
  BY InitRefines, StepRefines, RegistryTypes, PTL DEF Spec, Store!Spec, ImplementsHandleStore

StoreProofs == INSTANCE HandleStoreProofs
                 WITH cred  <- dids,
                      owner <- handles,
                      spent <- {HashUserSecret(s) : s \in {t \in Secret : issued[t] # None}}

LEMMA SameStore ==
  /\ Store!Init => StoreProofs!Init
  /\ [Store!Next]_(Store!vars) => [StoreProofs!Next]_(StoreProofs!vars)
  BY DEF Store!Init, Store!Next, Store!vars, Store!FirstClaim, Store!Claim, Store!Release,
         Store!Drop, Store!Holdings,
         StoreProofs!Init, StoreProofs!Next, StoreProofs!vars, StoreProofs!FirstClaim,
         StoreProofs!Claim, StoreProofs!Release, StoreProofs!Drop, StoreProofs!Holdings

(* The tables dids and handles agree in every state of the service: the     *)
(* store's own invariant, carried over by the refinement.                   *)
THEOREM RegistryTablesAgree == Spec => []TablesAgree
  <1>1. None \notin DID /\ None \notin Hash
    BY RegistryAssumption
  <1>2. Init => StoreProofs!IInv
    BY <1>1, InitRefines, SameStore, StoreProofs!InitIInv
  <1>3. IInv /\ [Next]_vars /\ StoreProofs!IInv => StoreProofs!IInv'
    BY <1>1, StepRefines, SameStore, StoreProofs!StepIInv
  <1>4. StoreProofs!IInv => TablesAgree
    BY DEF StoreProofs!IInv, StoreProofs!TablesAgree, StoreProofs!Holdings,
           TablesAgree, Store!TablesAgree, Store!Holdings
  <1>5. QED
    BY <1>2, <1>3, <1>4, RegistryTypes, PTL DEF Spec

(***************************************************************************)
(* Who holds the key.                                                      *)
(***************************************************************************)

(* A credential stands in the row of the DID its secret was generated for,  *)
(* and a removal carries the secret it was admitted with.                   *)
RowsKeepKeys == \A d \in DID, s \in Secret : dids[d] = HashUserSecret(s) => issued[s] = d

Removing(r) == r.op = "delete" /\ r.pc = "remove"
Admitted(r) == r.secret \in Secret /\ issued[r.secret] = r.did

KeyInv == RowsKeepKeys /\ \A p \in Proc : Removing(req[p]) => Admitted(req[p])

IssuedStands == \A s \in Secret : issued[s] \in DID => issued'[s] = issued[s]

LEMMA KeyMoves ==
  ASSUME IInv, KeyInv, NEW p \in Proc, Moves(p), IssuedStands, RowsKeepKeys',
         Removing(req'[p]) => Admitted(req[p])' 
  PROVE  KeyInv'
  <1>1. ASSUME NEW q \in Proc \ {p}, Removing(req'[q])
        PROVE  Admitted(req[q])'
    <2>1. req'[q] = req[q] /\ Removing(req[q]) /\ req[q].did \in DID
      BY <1>1 DEF Moves, IInv, FieldsKnown, NamesDid, Removing
    <2>2. QED
      BY <1>1, <2>1 DEF KeyInv, Admitted, IssuedStands
  <1>2. QED
    BY <1>1 DEF KeyInv, Removing

LEMMA KeyKept ==
  ASSUME IInv, KeyInv, NEW p \in Proc, Moves(p), UNCHANGED <<dids, issued>>,
         ~Removing(req'[p])
  PROVE  KeyInv'
  BY KeyMoves DEF KeyInv, IssuedStands, RowsKeepKeys

LEMMA RefuseDone ==
  ASSUME IInv, NEW p \in Proc, NEW code, Refuse(p, code)
  PROVE  req'[p].pc = "done"
  BY DEF IInv, TypeOK, Refuse, Idle

LEMMA IdleAgain ==
  ASSUME IInv, NEW p \in Proc, req' = [req EXCEPT ![p] = Idle]
  PROVE  req'[p].pc = "idle"
  BY DEF IInv, TypeOK, Idle

(* Only the lookup of a secret lets a request remove by /manage.            *)
LEMMA KeyBegin ==
  ASSUME IInv, KeyInv, NEW p \in Proc, Begin(p)
  PROVE  KeyInv'
  <1>1. ASSUME NEW r, Start(p, r), ~Removing(r)
        PROVE  ~Removing(req'[p])
    BY <1>1 DEF Start, IInv, TypeOK
  <1>2. ~Removing(req'[p])
    <2> USE DEF Idle, Removing
    <2>1. CASE Register(p)
      BY <1>1, <2>1 DEF Register
    <2>2. CASE Manage(p)
      BY <1>1, <2>2 DEF Manage
    <2>3. CASE AdminAssignHandle(p)
      BY <1>1, <2>3 DEF AdminAssignHandle
    <2>4. CASE AdminDeleteHandle(p) \/ AdminDeleteDid(p)
      BY <1>1, <2>4 DEF AdminDeleteHandle, AdminDeleteDid
    <2>5. QED
      BY <2>1, <2>2, <2>3, <2>4 DEF Begin
  <1>3. QED
    BY <1>2, BeginMoves, KeyKept DEF tables, history

LEMMA KeyFind ==
  ASSUME IInv, KeyInv, NEW p \in Proc, FindDidForSecret(p)
  PROVE  KeyInv'
  <1>1. req[p] \in Request /\ req \in [Proc -> Request]
    BY DEF IInv, TypeOK
  <1>2. Moves(p) /\ UNCHANGED <<dids, issued>>
    BY ReadStepMoves DEF ReadStep, tables, history
  <1>3. CASE Refuse(p, "InvalidSecret")
    <2>1. ~Removing(req'[p])
      BY <1>1, <1>3 DEF Refuse, Idle, Removing
    <2>2. QED
      BY <1>2, <2>1, KeyKept
  <1>4. CASE ~Refuse(p, "InvalidSecret")
    <2>1. PICK d \in DID :
            /\ dids[d] = HashUserSecret(req[p].secret)
            /\ req' = [req EXCEPT ![p].did = d,
                                  ![p].pc = IF req[p].op = "list" THEN "list" ELSE "remove"]
      BY <1>4 DEF FindDidForSecret
    <2>2. req'[p].secret = req[p].secret /\ req'[p].did = d
      BY <1>1, <2>1 DEF Request
    <2>3. req[p].secret \in Secret
      <3>1. dids[d] \in Hash \cup {None}
        BY DEF IInv, TypeOK
      <3>2. CASE req[p].secret = None
        <4>1. dids[d] \in Hash
          BY <2>1, <3>1, <3>2, RegistryAssumption
        <4>2. PICK s \in Secret : dids[d] = HashUserSecret(s)
          BY <4>1 DEF Hash
        <4>3. s = None
          BY <2>1, <3>2, <4>2 DEF HashUserSecret
        <4>4. QED
          BY <4>3, RegistryAssumption
      <3>3. QED
        BY <1>1, <3>2 DEF Request
    <2>4. issued[req[p].secret] = d
      BY <2>1, <2>3 DEF KeyInv, RowsKeepKeys
    <2>5. Admitted(req[p])'
      BY <1>2, <2>2, <2>3, <2>4 DEF Admitted
    <2>6. QED
      BY <1>2, <2>5, KeyMoves DEF KeyInv, IssuedStands, RowsKeepKeys
  <1>5. QED
    BY <1>3, <1>4

LEMMA KeyRead ==
  ASSUME IInv, KeyInv, NEW p \in Proc, ReadStep(p), ~FindDidForSecret(p)
  PROVE  KeyInv'
  <1> USE DEF Reads, At
  <1>1. req[p] \in Request /\ req \in [Proc -> Request]
    BY DEF IInv, TypeOK
  <1>2. UNCHANGED <<dids, issued>> /\ Moves(p)
    BY ReadStepMoves DEF tables, history
  <1>3. ASSUME NEW code, Refuse(p, code)
        PROVE  req'[p].pc # "remove"
    BY <1>1, <1>3 DEF Refuse, Idle
  <1>4. ASSUME NEW label, Goto(p, label)
        PROVE  req'[p].pc = label
    BY <1>1, <1>4 DEF Goto, Request
  <1>5. ASSUME NEW label, NEW h, NEW d, NEW b,
               \/ req' = [req EXCEPT ![p].did = d, ![p].pc = label]
               \/ req' = [req EXCEPT ![p].host = h, ![p].pc = label]
               \/ req' = [req EXCEPT ![p].isNew = b, ![p].pc = label]
               \/ req' = [req EXCEPT ![p].atCap = b, ![p].pc = label]
        PROVE  req'[p].pc = label
    BY <1>1, <1>5 DEF Request
  <1>6. req'[p].pc # "remove"
    <2>1. CASE \/ LogBlocked(p) \/ RaceToUnavailable(p) \/ ForeignKeyViolation(p)
               \/ DeleteFindsNothing(p)
      BY <1>3, <2>1
         DEF LogBlocked, RaceToUnavailable, ForeignKeyViolation, DeleteFindsNothing
    <2>2. CASE \/ Gate(p) \/ GateDid(p) \/ CheckReserved(p) \/ CheckTaken(p)
               \/ CheckBlockedDid(p) \/ CheckKeyword(p) \/ CheckVip(p)
      BY <1>3, <1>4, <2>2
         DEF Gate, GateDid, CheckReserved, CheckTaken, CheckBlockedDid, CheckKeyword, CheckVip
    <2>3. CASE ResolveHandle(p)
      BY <1>3, <1>5, <2>3 DEF ResolveHandle
    <2>4. CASE CheckBlockedPds(p) 
      BY <1>5, <2>4 DEF CheckBlockedPds
    <2>5. CASE GetDid(p)
      BY <1>5, <2>5 DEF GetDid
    <2>6. CASE CountHandles(p)
      BY <1>5, <2>6 DEF CountHandles
    <2>7. CASE ListHandles(p)
      BY <1>1, <2>7 DEF ListHandles, AnswerOk, Request
    <2>8. QED
      BY <2>1, <2>2, <2>3, <2>4, <2>5, <2>6, <2>7 DEF ReadStep
  <1>7. QED
    BY <1>2, <1>6, KeyKept DEF Removing

LEMMA KeyRegisterNew ==
  ASSUME IInv, KeyInv, NEW p \in Proc, RegisterNewDidWithHandle(p)
  PROVE  KeyInv'
  <1>1. PICK k \in Secret :
          /\ issued[k] = None
          /\ dids'   = [dids EXCEPT ![req[p].did] = HashUserSecret(k)]
          /\ issued' = [issued EXCEPT ![k] = req[p].did]
          /\ req'    = [req EXCEPT ![p].secret = k, ![p].pc = "log"]
    BY DEF RegisterNewDidWithHandle
  <1>2. req[p] \in Request /\ req \in [Proc -> Request] /\ req[p].did \in DID
    BY DEF IInv, TypeOK, FieldsKnown, NamesDid, RegisterNewDidWithHandle, At
  <1>3. /\ \A q \in Proc \ {p} : req'[q] = req[q]
        /\ ~Removing(req'[p])
    BY <1>1, <1>2 DEF Request, Removing
  <1>4. IssuedStands
    BY <1>1, RegistryAssumption DEF IssuedStands, IInv, TypeOK
  <1>5. RowsKeepKeys'
    <2>1. ASSUME NEW d \in DID, NEW s \in Secret, dids'[d] = HashUserSecret(s)
          PROVE  issued'[s] = d
      <3>1. CASE d = req[p].did
        <4>1. s = k
          BY <1>1, <2>1, <3>1, HashInjective DEF IInv, TypeOK
        <4>2. QED
          BY <1>1, <3>1, <4>1 DEF IInv, TypeOK
      <3>2. CASE d # req[p].did
        <4>1. issued[s] = d
          BY <1>1, <2>1, <3>2 DEF IInv, TypeOK, KeyInv, RowsKeepKeys
        <4>2. QED
          BY <1>4, <4>1 DEF IssuedStands
      <3>3. QED
        BY <3>1, <3>2
    <2>2. QED
      BY <2>1 DEF RowsKeepKeys
  <1>6. \A q \in Proc : Removing(req'[q]) => Admitted(req[q])'
    <2>1. ASSUME NEW q \in Proc, Removing(req'[q])
          PROVE  Admitted(req[q])'
      <3>1. req'[q] = req[q] /\ Removing(req[q]) /\ req[q].did \in DID
        BY <1>3, <2>1 DEF IInv, FieldsKnown, NamesDid, Removing
      <3>2. QED
        BY <1>4, <3>1 DEF KeyInv, Admitted, IssuedStands
    <2>2. QED
      BY <2>1
  <1>7. QED
    BY <1>5, <1>6 DEF KeyInv, Removing

LEMMA KeyWrite ==
  ASSUME IInv, KeyInv, NEW p \in Proc,
         \/ AddHandle(p) \/ DeleteHandleAndMaybeDid(p) \/ DeleteDidAndHandles(p)
         \/ LogEvent(p) \/ Receive(p) \/ DatabaseError(p) \/ Disconnect(p)
  PROVE  KeyInv'
  <1>1. req[p] \in Request /\ req \in [Proc -> Request] /\ (At(p, "remove") => req[p].did \in DID)
    BY DEF IInv, TypeOK, FieldsKnown, NamesDid, At
  <1>2. \A q \in Proc \ {p} : req'[q] = req[q]
    BY <1>1 DEF AddHandle, DeleteHandleAndMaybeDid, DeleteDidAndHandles, LogEvent, Receive,
                DatabaseError, Disconnect, Refuse, Goto, AnswerOk
  <1>3. req'[p].pc # "remove"
    <2>1. CASE AddHandle(p) \/ DeleteHandleAndMaybeDid(p)
      BY <1>1, <2>1 DEF AddHandle, DeleteHandleAndMaybeDid, Goto, Request
    <2>2. CASE DeleteDidAndHandles(p)
      <3>1. CASE Refuse(p, "Nothing")
        BY <1>1, <3>1 DEF Refuse, Idle
      <3>2. CASE req' = [req EXCEPT ![p].gone = HandlesOf(req[p].did), ![p].pc = "log"]
        BY <1>1, <3>2 DEF Request
      <3>3. QED
        BY <2>2, <3>1, <3>2 DEF DeleteDidAndHandles
    <2>3. CASE LogEvent(p)
      BY <1>1, <2>3 DEF LogEvent, AnswerOk, Request
    <2>4. CASE Receive(p) \/ DatabaseError(p) \/ Disconnect(p)
      BY <2>4, RefuseDone, IdleAgain DEF Receive, DatabaseError, Disconnect
    <2>5. QED
      BY <2>1, <2>2, <2>3, <2>4
  <1>4. issued' = issued /\ \A d \in DID : dids'[d] \in {dids[d], None}
    <2>1. dids \in [DID -> Hash \cup {None}]
      BY DEF IInv, TypeOK
    <2>2. CASE AddHandle(p)
      BY <2>2 DEF AddHandle
    <2>3. CASE DeleteHandleAndMaybeDid(p)
      BY <2>1, <2>3 DEF DeleteHandleAndMaybeDid, history
    <2>4. CASE DeleteDidAndHandles(p)
      BY <2>1, <2>4 DEF DeleteDidAndHandles, history
    <2>5. CASE LogEvent(p) \/ Receive(p) \/ DatabaseError(p) \/ Disconnect(p)
      BY <2>5 DEF LogEvent, Receive, DatabaseError, Disconnect, tables, history
    <2>6. QED
      BY <2>2, <2>3, <2>4, <2>5
  <1>5. RowsKeepKeys'
    BY <1>4, RegistryAssumption DEF KeyInv, RowsKeepKeys, Hash
  <1>6. QED
    BY <1>2, <1>3, <1>4, <1>5 DEF KeyInv, Removing, Admitted

LEMMA KeyConfig ==
  ASSUME IInv, KeyInv, NEW c \in Listable, ConfigAdd(c[1], c[2]) \/ ConfigRemove(c[1], c[2])
  PROVE  KeyInv'
  <1>1. UNCHANGED <<dids, issued>>
    BY DEF ConfigAdd, ConfigRemove, history
  <1>2. ASSUME NEW p \in Proc
        PROVE  /\ req'[p].op = req[p].op /\ req'[p].pc = req[p].pc
               /\ req'[p].secret = req[p].secret /\ req'[p].did = req[p].did
    <2>1. req[p] \in Request
      BY DEF IInv, TypeOK
    <2>2. CASE ConfigAdd(c[1], c[2])
      BY <2>2 DEF ConfigAdd
    <2>3. CASE ConfigRemove(c[1], c[2])
      BY <2>1, <2>3 DEF ConfigRemove, Request
    <2>4. QED
      BY <2>2, <2>3
  <1>3. QED
    BY <1>1, <1>2 DEF KeyInv, RowsKeepKeys, Removing, Admitted

LEMMA KeyStart == Init => KeyInv
  BY RegistryAssumption DEF Init, KeyInv, RowsKeepKeys, Removing, Idle, Hash

LEMMA KeyStep == IInv /\ KeyInv /\ [Next]_vars => KeyInv'
  <1> SUFFICES ASSUME IInv, KeyInv, [Next]_vars
               PROVE  KeyInv'
    OBVIOUS
  <1>1. CASE UNCHANGED vars
    BY <1>1 DEF vars, KeyInv, RowsKeepKeys, Removing, Admitted
  <1>2. QED
    BY <1>1, KeyBegin, KeyFind, KeyRead, KeyRegisterNew, KeyWrite, KeyConfig
       DEF Next, Serve, WriteStep

(* The only step that takes a removal to its log entry.                     *)
LEMMA RemovalStep ==
  ASSUME IInv, [Next]_vars, NEW p \in Proc, At(p, "remove"), req'[p].pc = "log"
  PROVE  DeleteHandleAndMaybeDid(p)
  <1>1. req[p] \in Request /\ req \in [Proc -> Request]
    BY DEF IInv, TypeOK
  <1>2. req'[p] # req[p]
    BY DEF At
  <1>3. ASSUME NEW q \in Proc, Begin(q) \/ ReadStep(q)
        PROVE  FALSE
    <2>1. p = q
      BY <1>2, <1>3, BeginMoves, ReadStepMoves DEF Moves
    <2>2. CASE Begin(p)
      BY <2>2 DEF Begin, Register, Manage, AdminAssignHandle, AdminDeleteHandle,
                  AdminDeleteDid, Start, Reads, At
    <2>3. CASE ReadStep(p)
      <3>1. DeleteFindsNothing(p)
        BY <2>3 DEF ReadStep, Reads, At, Gate, ResolveHandle, CheckBlockedDid, CheckBlockedPds,
              LogBlocked, GateDid, CheckReserved, CheckKeyword, CheckTaken, GetDid,
              CountHandles, CheckVip, RaceToUnavailable, ForeignKeyViolation,
              FindDidForSecret, ListHandles
      <3>2. QED
        BY <1>1, <3>1 DEF DeleteFindsNothing, Refuse, Idle
    <2>4. QED
      BY <1>3, <2>1, <2>2, <2>3
  <1>4. ASSUME NEW q \in Proc, WriteStep(q)
        PROVE  DeleteHandleAndMaybeDid(p)
    <2>1. \A r \in Proc \ {q} : req'[r] = req[r]
      BY <1>1, <1>4 DEF WriteStep, RegisterNewDidWithHandle, AddHandle,
                        DeleteHandleAndMaybeDid, DeleteDidAndHandles, Refuse, Goto
    <2>2. WriteStep(p)
      BY <1>2, <1>4, <2>1
    <2>3. QED
      BY <2>2 DEF WriteStep, RegisterNewDidWithHandle, AddHandle, DeleteDidAndHandles, At
  <1>5. ASSUME NEW q \in Proc, LogEvent(q) \/ Receive(q) \/ DatabaseError(q) \/ Disconnect(q)
        PROVE  FALSE
    <2>1. p = q
      BY <1>1, <1>2, <1>5 DEF LogEvent, Receive, DatabaseError, Disconnect, Refuse, AnswerOk
    <2>2. QED
      BY <1>5, <2>1, RefuseDone, IdleAgain DEF LogEvent, Receive, DatabaseError, Disconnect, At
  <1>6. ASSUME NEW c \in Listable, ConfigAdd(c[1], c[2]) \/ ConfigRemove(c[1], c[2])
        PROVE  FALSE
    <2>1. CASE ConfigAdd(c[1], c[2])
      BY <1>2, <2>1 DEF ConfigAdd
    <2>2. CASE ConfigRemove(c[1], c[2])
      BY <1>1, <2>2 DEF ConfigRemove, Request, At
    <2>3. QED
      BY <1>6, <2>1, <2>2
  <1>7. QED
    BY <1>2, <1>3, <1>4, <1>5, <1>6 DEF Next, Serve, vars

(* A /manage removal takes a handle of the DID that the presented secret    *)
(* was generated for, whatever happened between lookup and removal.         *)
THEOREM RegistryRemovalByHolder == Spec => RemovalByHolder
  <1>1. ASSUME IInv, KeyInv, [Next]_vars, NEW p \in Proc,
               req[p].op = "delete", At(p, "remove"), req'[p].pc = "log"
        PROVE  handles[req[p].sub] = issued[req[p].secret] /\ issued[req[p].secret] # None
    <2>1. Admitted(req[p]) /\ req[p].did \in DID
      BY <1>1 DEF KeyInv, Removing, At, IInv, FieldsKnown, NamesDid
    <2>2. handles[req[p].sub] = req[p].did
      BY <1>1, RemovalStep DEF DeleteHandleAndMaybeDid
    <2>3. QED
      BY <2>1, <2>2, RegistryAssumption DEF Admitted
  <1>2. IInv /\ KeyInv /\ [Next]_vars =>
          [\A p \in Proc :
             req[p].op = "delete" /\ At(p, "remove") /\ req'[p].pc = "log"
               => handles[req[p].sub] = issued[req[p].secret]
                    /\ issued[req[p].secret] # None]_vars
    BY <1>1
  <1>3. QED
    BY <1>2, KeyStart, KeyStep, RegistryTypes, PTL DEF Spec, RemovalByHolder
=============================================================================
