----------------------------- MODULE StoreTxProofs -----------------------------
(***************************************************************************)
(* StoreTx implements HandleStore, imports aside, for any number of        *)
(* connections, and no committed handle dangles.                           *)
(***************************************************************************)
EXTENDS StoreTx, TLAPS

(* What a transaction was begun with, until it is over.                    *)
Claims(t)   == t.did \in DID /\ t.sub \in Sub /\ t.hash \in Hash
Releases(t) == t.did \in DID /\ t.sub \in Sub /\ t.hash = None
Imports(t)  == t.did = None /\ t.hash = None

(* What each kind makes of the committed tables, when it is done.          *)
ClaimDone(t) ==
  /\ cred[t.did] = None /\ owner[t.sub] = None
  /\ work = [cred  |-> [cred EXCEPT ![t.did] = t.hash],
             owner |-> [owner EXCEPT ![t.sub] = t.did]]
ReleaseDone(t) ==
  /\ owner[t.sub] = t.did
  /\ work = [cred  |-> IF Holdings(Committed, t.did) = {t.sub}
                       THEN [cred EXCEPT ![t.did] = None] ELSE cred,
             owner |-> [owner EXCEPT ![t.sub] = None]]
ImportDone(t) == work = t.file /\ ForeignKeys(t.file)

(* What the copy is, by the statement that comes next; the tables it was   *)
(* made of stay as they are meanwhile, because the lock is held.           *)
Underway(t) ==
  /\ t.pc = "insertDid"    => Claims(t)
  /\ t.pc = "insertHandle" => /\ Claims(t) /\ cred[t.did] = None
                              /\ work = [cred  |-> [cred EXCEPT ![t.did] = t.hash],
                                         owner |-> owner]
  /\ t.pc = "deleteHandle" => Releases(t)
  /\ t.pc \in {"count", "deleteDid"} =>
       /\ Releases(t) /\ owner[t.sub] = t.did
       /\ work = [cred |-> cred, owner |-> [owner EXCEPT ![t.sub] = None]]
  /\ t.pc = "deleteDid" => Holdings(Committed, t.did) = {t.sub}
  /\ t.pc \in {"wipeHandles", "wipeDids", "insertDids", "insertHandles"} => Imports(t)
  /\ t.pc = "commit" => \/ Claims(t) /\ ClaimDone(t)
                        \/ Releases(t) /\ ReleaseDone(t)
                        \/ Imports(t) /\ ImportDone(t)

(* The lock is with the one transaction that is past its first statement.  *)
OneWriter == \A c \in Conn : tx[c].pc \in LaterPC <=> writer = c

(* A hash that is to be inserted is new, and one transaction's alone.      *)
FreshHashes ==
  /\ \A c \in Conn : tx[c].hash \notin spent
  /\ \A c, e \in Conn : tx[c].hash = tx[e].hash /\ c # e => tx[c].hash = None

(* Every hash in the tables, and in files made of them, was in dids once.  *)
Accounted ==
  /\ Values(Committed) \subseteq spent /\ Values(backup) \subseteq spent
  /\ \A c \in Conn : Values(tx[c].file) \subseteq spent

IInv == /\ TypeOK /\ OneWriter /\ FreshHashes /\ Accounted /\ HandlesHaveDids
        /\ \A c \in Conn : Underway(tx[c])

-----------------------------------------------------------------------------
LEMMA Constants ==
  /\ None \notin DID /\ None \notin Hash /\ None \notin Conn /\ None \notin Sub
  BY StoreTxAssumption

LEMMA InitIInv == Init => IInv
  <1> SUFFICES ASSUME Init PROVE IInv
    OBVIOUS
  <1>1. Empty \in Tables /\ Values(Empty) = {} /\ ForeignKeys(Empty)
    BY DEF Empty, Tables, Values, ForeignKeys
  <1>2. NoTx \in Tx
    BY <1>1 DEF NoTx, Tx, PC, FirstPC
  <1>3. TypeOK
    BY <1>1, <1>2 DEF Init, TypeOK, Tables
  <1>4. Committed = Empty
    BY DEF Init, Committed, Empty
  <1>5. OneWriter
    BY Constants DEF Init, OneWriter, NoTx, LaterPC
  <1>6. FreshHashes
    BY DEF Init, FreshHashes, NoTx
  <1>7. Accounted /\ HandlesHaveDids
    BY <1>1, <1>4 DEF Init, Accounted, HandlesHaveDids, NoTx
  <1>8. \A c \in Conn : Underway(tx[c])
    BY DEF Init, NoTx, Underway
  <1>9. QED
    BY <1>3, <1>5, <1>6, <1>7, <1>8 DEF IInv

(* Before its first statement a transaction knows nothing of the tables.   *)
LEMMA Waits ==
  ASSUME NEW t, Underway(t), t.pc \notin LaterPC
  PROVE  Underway(t)'
  BY DEF Underway, LaterPC, Claims, Releases, Imports

(* A transaction begins, makes a statement or ends; the committed tables   *)
(* stay as they are.                                                       *)
LEMMA TxStep ==
  ASSUME IInv, NEW c \in Conn, NEW t \in Tx, tx' = [tx EXCEPT ![c] = t],
         UNCHANGED <<cred, owner, spent>>, faults' \in Nat, work' \in Tables,
         backup' \in Tables, Values(backup') \subseteq spent,
         \/ writer \in {None, c} /\ writer' = IF t.pc \in LaterPC THEN c ELSE None
         \/ UNCHANGED <<writer, work>> /\ tx[c].pc \notin LaterPC /\ t.pc \notin LaterPC,
         Underway(t)', Values(t.file) \subseteq spent,
         \/ t.hash \in {None, tx[c].hash}
         \/ t.hash \notin spent /\ \A e \in Conn : tx[e].hash # t.hash
  PROVE  IInv'
  <1>1. /\ tx \in [Conn -> Tx] /\ writer \in Conn \cup {None} /\ spent \subseteq Hash
        /\ None \notin Conn /\ None \notin Hash
    BY Constants DEF IInv, TypeOK
  <1>2. tx'[c] = t /\ \A e \in Conn \ {c} : tx'[e] = tx[e]
    BY <1>1
  <1>3. TypeOK'
    BY <1>1 DEF IInv, TypeOK
  <1>4. OneWriter'
    BY <1>1, <1>2 DEF IInv, OneWriter
  <1>5. FreshHashes'
    BY <1>1, <1>2 DEF IInv, FreshHashes
  <1>6. Accounted' /\ HandlesHaveDids'
    BY <1>2 DEF IInv, Accounted, HandlesHaveDids, Committed, Values, ForeignKeys
  <1>7. ASSUME NEW e \in Conn
        PROVE  Underway(tx[e])'
    <2>1. CASE e = c
      BY <1>2, <2>1
    <2>2. CASE e # c /\ tx[e].pc \notin LaterPC
      BY <1>2, <2>2, Waits DEF IInv, Underway, Claims, Releases, Imports, LaterPC
    <2>3. CASE e # c /\ tx[e].pc \in LaterPC
      <3>1. writer = e
        BY <2>3 DEF IInv, OneWriter
      <3>2. UNCHANGED <<work, cred, owner>> /\ tx'[e] = tx[e]
        BY <1>1, <1>2, <2>3, <3>1
      <3>3. QED
        BY <3>2 DEF IInv, Underway, Claims, Releases, Imports, ClaimDone, ReleaseDone,
                    ImportDone, Holdings, Committed, ForeignKeys
    <2>4. QED
      BY <2>1, <2>2, <2>3
  <1>8. QED
    BY <1>3, <1>4, <1>5, <1>6, <1>7 DEF IInv

LEMMA NoTxKnown ==
  /\ NoTx \in Tx /\ Empty \in Tables /\ Values(Empty) = {}
  /\ Underway(NoTx)' /\ Underway([NoTx EXCEPT !.pc = "rollback"])'
  <1>1. Empty \in Tables /\ Values(Empty) = {}
    BY DEF Empty, Tables, Values
  <1>2. QED
    BY <1>1 DEF NoTx, Tx, PC, Underway

-----------------------------------------------------------------------------
LEMMA BeginTx ==
  ASSUME IInv, NEW c \in Conn, NEW t \in Tx, Begin(c, t), t.pc \notin LaterPC, Underway(t),
         Values(t.file) \subseteq spent,
         t.hash = None \/ (t.hash \notin spent /\ \A e \in Conn : tx[e].hash # t.hash)
  PROVE  IInv'
  <1>1. Underway(t)'
    BY Waits
  <1>2. tx[c].pc \notin LaterPC
    BY DEF Begin, At, LaterPC
  <1>3. /\ tx' = [tx EXCEPT ![c] = t] /\ UNCHANGED <<cred, owner, spent, writer, work, backup, faults>>
    BY DEF Begin
  <1>4. /\ work' \in Tables /\ backup' \in Tables /\ faults' \in Nat
        /\ Values(backup') \subseteq spent
    BY <1>3 DEF IInv, TypeOK, Accounted
  <1>5. QED
    BY <1>1, <1>2, <1>3, <1>4, TxStep

LEMMA StartsIInv ==
  ASSUME IInv, NEW c \in Conn, Starts(c)
  PROVE  IInv'
  <1>1. CASE RegisterNewDidWithHandle(c)
    <2>1. PICK d \in DID, s \in Sub, h \in Hash \ spent :
            /\ \A e \in Conn : tx[e].hash # h
            /\ Begin(c, [NoTx EXCEPT !.pc = "insertDid", !.did = d, !.sub = s, !.hash = h])
      BY <1>1 DEF RegisterNewDidWithHandle
    <2> DEFINE t == [NoTx EXCEPT !.pc = "insertDid", !.did = d, !.sub = s, !.hash = h]
    <2>2. /\ t \in Tx /\ t.pc = "insertDid" /\ t.did = d /\ t.sub = s /\ t.hash = h
          /\ t.file = Empty
      BY NoTxKnown DEF NoTx, Tx, PC, FirstPC
    <2>3. Underway(t) /\ t.pc \notin LaterPC
      BY <2>2 DEF Underway, Claims, LaterPC
    <2>4. Begin(c, t)
      BY <2>1
    <2> HIDE DEF t
    <2>5. QED
      BY <2>1, <2>2, <2>3, <2>4, NoTxKnown, BeginTx
  <1>2. CASE DeleteHandleAndMaybeDid(c)
    <2>1. PICK d \in DID, s \in Sub :
            Begin(c, [NoTx EXCEPT !.pc = "deleteHandle", !.did = d, !.sub = s])
      BY <1>2 DEF DeleteHandleAndMaybeDid
    <2> DEFINE t == [NoTx EXCEPT !.pc = "deleteHandle", !.did = d, !.sub = s]
    <2>2. /\ t \in Tx /\ t.pc = "deleteHandle" /\ t.did = d /\ t.sub = s /\ t.hash = None
          /\ t.file = Empty
      BY NoTxKnown DEF NoTx, Tx, PC, FirstPC
    <2>3. Underway(t) /\ t.pc \notin LaterPC
      BY <2>2 DEF Underway, Releases, LaterPC
    <2>4. Begin(c, t)
      BY <2>1
    <2> HIDE DEF t
    <2>5. QED
      BY <2>1, <2>2, <2>3, <2>4, NoTxKnown, BeginTx
  <1>3. CASE ExportDids(c)
    <2> DEFINE f == [Empty EXCEPT !.cred = cred]
               t == [NoTx EXCEPT !.pc = "dumpHandles", !.file = f]
    <2>1. f \in Tables /\ Values(f) \subseteq spent
      BY DEF Empty, Tables, Values, IInv, TypeOK, Accounted, Committed
    <2> HIDE DEF f
    <2>2. t \in Tx /\ t.pc = "dumpHandles" /\ t.hash = None /\ t.file = f
      BY <2>1, NoTxKnown DEF NoTx, Tx, PC, FirstPC
    <2>3. Underway(t) /\ t.pc \notin LaterPC
      BY <2>2 DEF Underway, LaterPC
    <2>4. Begin(c, t)
      BY <1>3 DEF ExportDids, f
    <2> HIDE DEF t
    <2>5. QED
      BY <2>1, <2>2, <2>3, <2>4, BeginTx
  <1>4. CASE ImportRegistry(c)
    <2>1. PICK f \in {backup, Empty} : Begin(c, [NoTx EXCEPT !.pc = "wipeHandles", !.file = f])
      BY <1>4 DEF ImportRegistry
    <2> DEFINE t == [NoTx EXCEPT !.pc = "wipeHandles", !.file = f]
    <2>2. f \in Tables /\ Values(f) \subseteq spent
      BY NoTxKnown DEF IInv, TypeOK, Accounted
    <2>3. t \in Tx /\ t.pc = "wipeHandles" /\ t.did = None /\ t.hash = None /\ t.file = f
      BY <2>2, NoTxKnown DEF NoTx, Tx, PC, FirstPC
    <2>4. Underway(t) /\ t.pc \notin LaterPC
      BY <2>3 DEF Underway, Imports, LaterPC
    <2>5. Begin(c, t)
      BY <2>1
    <2> HIDE DEF t
    <2>6. QED
      BY <2>2, <2>3, <2>4, <2>5, NoTxKnown, BeginTx
  <1>5. QED
    BY <1>1, <1>2, <1>3, <1>4 DEF Starts

-----------------------------------------------------------------------------
(* A statement of a transaction that has the lock, or finds it free.       *)
LEMMA WriteIInv ==
  ASSUME IInv, NEW c \in Conn, NEW v \in Tables, NEW label \in LaterPC, NEW t,
         Write(c, v, label), writer \in {None, c}, t = [tx[c] EXCEPT !.pc = label],
         Underway(t)'
  PROVE  IInv'
  <1>1. tx \in [Conn -> Tx] /\ tx[c] \in Tx
    BY DEF IInv, TypeOK
  <1>2. t \in Tx /\ t.pc = label /\ t.hash = tx[c].hash /\ t.file = tx[c].file
    BY <1>1 DEF Tx, PC
  <1>3. /\ tx' = [tx EXCEPT ![c] = t] /\ writer' = c /\ work' = v
        /\ UNCHANGED <<cred, owner, spent, backup, faults>>
    BY <1>1 DEF Write, Goto
  <1>4. /\ backup' \in Tables /\ faults' \in Nat /\ Values(backup') \subseteq spent
        /\ Values(t.file) \subseteq spent
    BY <1>2, <1>3 DEF IInv, TypeOK, Accounted
  <1>5. QED
    BY <1>2, <1>3, <1>4, TxStep

(* What the holder of the lock knows.                                      *)
LEMMA Holder ==
  ASSUME IInv, NEW c \in Conn
  PROVE  /\ Underway(tx[c]) /\ tx[c] \in Tx /\ Committed \in Tables /\ work \in Tables
         /\ tx[c].pc \in LaterPC => writer \in {None, c}
  BY DEF IInv, TypeOK, OneWriter, Committed, Tables

(* The transaction that comes out of a statement keeps what it began with. *)
LEMMA Same ==
  ASSUME IInv, NEW c \in Conn, NEW label, NEW t, t = [tx[c] EXCEPT !.pc = label]
  PROVE  /\ t.pc = label /\ t.did = tx[c].did /\ t.sub = tx[c].sub
         /\ t.hash = tx[c].hash /\ t.file = tx[c].file
  BY Holder DEF Tx

LEMMA FailedWriteIInv ==
  ASSUME IInv, NEW c \in Conn, NEW v \in Tables, Write(c, v, "rollback"), writer \in {None, c}
  PROVE  IInv'
  <1>1. PICK t : t = [tx[c] EXCEPT !.pc = "rollback"]
    OBVIOUS
  <1>2. Underway(t)'
    BY <1>1, Same DEF Underway
  <1>3. "rollback" \in LaterPC
    BY DEF LaterPC
  <1>4. QED
    BY <1>1, <1>2, <1>3, WriteIInv

LEMMA InsertDidIInv ==
  ASSUME IInv, NEW c \in Conn, InsertDid(c)
  PROVE  IInv'
  <1>1. Claims(tx[c]) /\ writer = None
    BY Holder DEF InsertDid, At, Underway
  <1>2. CASE cred[tx[c].did] # None
    BY <1>1, <1>2, Holder, FailedWriteIInv DEF InsertDid
  <1>3. CASE cred[tx[c].did] = None
    <2> DEFINE v == [Committed EXCEPT !.cred[tx[c].did] = tx[c].hash]
    <2>1. PICK t : t = [tx[c] EXCEPT !.pc = "insertHandle"]
      OBVIOUS
    <2>2. Write(c, v, "insertHandle")
      BY <1>3 DEF InsertDid
    <2>3. /\ v \in Tables
          /\ v = [cred |-> [cred EXCEPT ![tx[c].did] = tx[c].hash], owner |-> owner]
      BY <1>1, Holder DEF Committed, Tables, Claims
    <2> HIDE DEF v
    <2>4. Underway(t)'
      BY <1>1, <1>3, <2>1, <2>2, <2>3, Same DEF Underway, Claims, Write
    <2>5. "insertHandle" \in LaterPC
      BY DEF LaterPC
    <2>6. QED
      BY <1>1, <2>1, <2>2, <2>3, <2>4, <2>5, WriteIInv
  <1>4. QED
    BY <1>2, <1>3

LEMMA InsertHandleIInv ==
  ASSUME IInv, NEW c \in Conn, InsertHandle(c)
  PROVE  IInv'
  <1>1. /\ Claims(tx[c]) /\ cred[tx[c].did] = None /\ writer \in {None, c}
        /\ work = [cred  |-> [cred EXCEPT ![tx[c].did] = tx[c].hash], owner |-> owner]
    BY Holder DEF InsertHandle, At, Underway, LaterPC
  <1>2. CASE work.owner[tx[c].sub] # None
    BY <1>1, <1>2, Holder, FailedWriteIInv DEF InsertHandle
  <1>3. CASE work.owner[tx[c].sub] = None
    <2> DEFINE v == [work EXCEPT !.owner[tx[c].sub] = tx[c].did]
    <2>1. PICK t : t = [tx[c] EXCEPT !.pc = "commit"]
      OBVIOUS
    <2>2. Write(c, v, "commit") /\ owner[tx[c].sub] = None
      BY <1>1, <1>3 DEF InsertHandle
    <2>3. /\ v \in Tables
          /\ v = [cred  |-> [cred EXCEPT ![tx[c].did] = tx[c].hash],
                  owner |-> [owner EXCEPT ![tx[c].sub] = tx[c].did]]
      BY <1>1, Holder DEF Tables, Claims
    <2> HIDE DEF v
    <2>4. Underway(t)'
      BY <1>1, <2>1, <2>2, <2>3, Same DEF Underway, Claims, ClaimDone, Write
    <2>5. "commit" \in LaterPC
      BY DEF LaterPC
    <2>6. QED
      BY <1>1, <2>1, <2>2, <2>3, <2>4, <2>5, WriteIInv
  <1>4. QED
    BY <1>2, <1>3

LEMMA DeleteHandleIInv ==
  ASSUME IInv, NEW c \in Conn, DeleteHandle(c)
  PROVE  IInv'
  <1>1. Releases(tx[c]) /\ writer = None
    BY Holder DEF DeleteHandle, At, Underway
  <1>2. CASE owner[tx[c].sub] # tx[c].did
    BY <1>1, <1>2, Holder, FailedWriteIInv DEF DeleteHandle
  <1>3. CASE owner[tx[c].sub] = tx[c].did
    <2> DEFINE v == [Committed EXCEPT !.owner[tx[c].sub] = None]
    <2>1. PICK t : t = [tx[c] EXCEPT !.pc = "count"]
      OBVIOUS
    <2>2. Write(c, v, "count")
      BY <1>3 DEF DeleteHandle
    <2>3. /\ v \in Tables
          /\ v = [cred |-> cred, owner |-> [owner EXCEPT ![tx[c].sub] = None]]
      BY <1>1, Holder DEF Committed, Tables, Releases
    <2> HIDE DEF v
    <2>4. Underway(t)'
      BY <1>1, <1>3, <2>1, <2>2, <2>3, Same DEF Underway, Releases, Write
    <2>5. "count" \in LaterPC
      BY DEF LaterPC
    <2>6. QED
      BY <1>1, <2>1, <2>2, <2>3, <2>4, <2>5, WriteIInv
  <1>4. QED
    BY <1>2, <1>3

(* The copy has no other handle of the DID just when the tables had only   *)
(* the one that is being released.                                         *)
LEMMA CountRemainingIInv ==
  ASSUME IInv, NEW c \in Conn, CountRemaining(c)
  PROVE  IInv'
  <1>1. /\ Releases(tx[c]) /\ owner[tx[c].sub] = tx[c].did /\ writer \in {None, c}
        /\ work = [cred |-> cred, owner |-> [owner EXCEPT ![tx[c].sub] = None]]
    BY Holder DEF CountRemaining, At, Underway, LaterPC
  <1>2. owner \in [Sub -> DID \cup {None}] /\ tx[c].did # None
    BY <1>1, Constants DEF IInv, TypeOK, Releases
  <1>3. Holdings(work, tx[c].did) = Holdings(Committed, tx[c].did) \ {tx[c].sub}
    BY <1>1, <1>2 DEF Holdings, Committed, Releases
  <1>4. tx[c].sub \in Holdings(Committed, tx[c].did)
    BY <1>1 DEF Holdings, Committed, Releases
  <1> DEFINE label == IF Holdings(work, tx[c].did) = {} THEN "deleteDid" ELSE "commit"
  <1>5. PICK t : t = [tx[c] EXCEPT !.pc = label]
    OBVIOUS
  <1>6. Write(c, work, label) /\ label \in LaterPC
    BY DEF CountRemaining, LaterPC
  <1>7. /\ label \in {"deleteDid", "commit"}
        /\ label = "deleteDid" <=> Holdings(Committed, tx[c].did) = {tx[c].sub}
    BY <1>3, <1>4
  <1> HIDE DEF label
  <1>8. UNCHANGED <<cred, owner, work>>
    BY <1>6 DEF Write
  <1>9. Underway(t)'
    BY <1>1, <1>5, <1>7, <1>8, Same
       DEF Underway, Releases, ReleaseDone, Holdings, Committed
  <1>10. QED
    BY <1>1, <1>5, <1>6, <1>9, Holder, WriteIInv

LEMMA DeleteDidIInv ==
  ASSUME IInv, NEW c \in Conn, DeleteDid(c)
  PROVE  IInv'
  <1>1. /\ Releases(tx[c]) /\ owner[tx[c].sub] = tx[c].did /\ writer \in {None, c}
        /\ work = [cred |-> cred, owner |-> [owner EXCEPT ![tx[c].sub] = None]]
        /\ Holdings(Committed, tx[c].did) = {tx[c].sub}
    BY Holder DEF DeleteDid, At, Underway, LaterPC
  <1> DEFINE v == [work EXCEPT !.cred[tx[c].did] = None]
  <1>2. PICK t : t = [tx[c] EXCEPT !.pc = "commit"]
    OBVIOUS
  <1>3. Write(c, v, "commit") /\ "commit" \in LaterPC
    BY DEF DeleteDid, LaterPC
  <1>4. /\ v \in Tables
        /\ v = [cred  |-> [cred EXCEPT ![tx[c].did] = None],
                owner |-> [owner EXCEPT ![tx[c].sub] = None]]
    BY <1>1, Holder DEF Tables, Releases
  <1> HIDE DEF v
  <1>5. UNCHANGED <<cred, owner>> /\ work' = v
    BY <1>3 DEF Write
  <1>6. Underway(t)'
    BY <1>1, <1>2, <1>4, <1>5, Same
       DEF Underway, Releases, ReleaseDone, Holdings, Committed
  <1>7. QED
    BY <1>1, <1>2, <1>3, <1>4, <1>6, WriteIInv

LEMMA WipeHandlesIInv ==
  ASSUME IInv, NEW c \in Conn, WipeHandles(c)
  PROVE  IInv'
  <1>1. Imports(tx[c]) /\ writer = None
    BY Holder DEF WipeHandles, At, Underway
  <1> DEFINE v == [Committed EXCEPT !.owner = Empty.owner]
  <1>2. PICK t : t = [tx[c] EXCEPT !.pc = "wipeDids"]
    OBVIOUS
  <1>3. Write(c, v, "wipeDids") /\ "wipeDids" \in LaterPC
    BY DEF WipeHandles, LaterPC
  <1>4. v \in Tables
    BY Holder, NoTxKnown DEF Tables
  <1> HIDE DEF v
  <1>5. Underway(t)'
    BY <1>1, <1>2, Same DEF Underway, Imports
  <1>6. QED
    BY <1>1, <1>2, <1>3, <1>4, <1>5, WriteIInv

LEMMA WipeDidsIInv ==
  ASSUME IInv, NEW c \in Conn, WipeDids(c)
  PROVE  IInv'
  <1>1. Imports(tx[c]) /\ writer \in {None, c}
    BY Holder DEF WipeDids, At, Underway, LaterPC
  <1>2. PICK t : t = [tx[c] EXCEPT !.pc = "insertDids"]
    OBVIOUS
  <1>3. Write(c, Empty, "insertDids") /\ "insertDids" \in LaterPC
    BY DEF WipeDids, LaterPC
  <1>4. Underway(t)'
    BY <1>1, <1>2, Same DEF Underway, Imports
  <1>5. QED
    BY <1>1, <1>2, <1>3, <1>4, NoTxKnown, WriteIInv

LEMMA InsertDidsIInv ==
  ASSUME IInv, NEW c \in Conn, InsertDids(c)
  PROVE  IInv'
  <1>1. Imports(tx[c]) /\ writer \in {None, c}
    BY Holder DEF InsertDids, At, Underway, LaterPC
  <1> DEFINE v == [work EXCEPT !.cred = tx[c].file.cred]
  <1>2. PICK t : t = [tx[c] EXCEPT !.pc = "insertHandles"]
    OBVIOUS
  <1>3. Write(c, v, "insertHandles") /\ "insertHandles" \in LaterPC
    BY DEF InsertDids, LaterPC
  <1>4. v \in Tables
    BY Holder DEF Tables, Tx
  <1> HIDE DEF v
  <1>5. Underway(t)'
    BY <1>1, <1>2, Same DEF Underway, Imports
  <1>6. QED
    BY <1>1, <1>2, <1>3, <1>4, <1>5, WriteIInv

LEMMA InsertHandlesIInv ==
  ASSUME IInv, NEW c \in Conn, InsertHandles(c)
  PROVE  IInv'
  <1>1. Imports(tx[c]) /\ writer \in {None, c} /\ tx[c].file \in Tables
    BY Holder DEF InsertHandles, At, Underway, LaterPC, Tx
  <1>2. CASE ~ ForeignKeys(tx[c].file)
    BY <1>1, <1>2, Holder, FailedWriteIInv DEF InsertHandles
  <1>3. CASE ForeignKeys(tx[c].file)
    <2>1. PICK t : t = [tx[c] EXCEPT !.pc = "commit"]
      OBVIOUS
    <2>2. Write(c, tx[c].file, "commit") /\ "commit" \in LaterPC
      BY <1>3 DEF InsertHandles, LaterPC
    <2>3. work' = tx[c].file
      BY <2>2 DEF Write
    <2>4. ForeignKeys(t.file)'
      BY <1>3, <2>1, Same DEF ForeignKeys
    <2>5. Underway(t)'
      BY <1>1, <2>1, <2>3, <2>4, Same DEF Underway, Imports, ImportDone
    <2>6. QED
      BY <1>1, <2>1, <2>2, <2>5, WriteIInv
  <1>4. QED
    BY <1>2, <1>3

LEMMA ExportHandlesIInv ==
  ASSUME IInv, NEW c \in Conn, ExportHandles(c)
  PROVE  IInv'
  <1>1. tx[c].pc \notin LaterPC /\ tx[c] \in Tx
    BY Holder DEF ExportHandles, At, LaterPC
  <1>2. /\ backup' = [tx[c].file EXCEPT !.owner = owner] /\ tx' = [tx EXCEPT ![c] = NoTx]
        /\ UNCHANGED <<cred, owner, spent, writer, work, faults>>
    BY DEF ExportHandles
  <1>3. backup' \in Tables /\ Values(backup') \subseteq spent
    <2>1. backup' \in Tables /\ backup'.cred = tx[c].file.cred
      BY <1>1, <1>2 DEF IInv, TypeOK, Tx, Tables
    <2>2. Values(backup') = Values(tx[c].file)
      BY <2>1 DEF Values
    <2>3. QED
      BY <2>1, <2>2 DEF IInv, Accounted
  <1>4. /\ NoTx.pc \notin LaterPC /\ NoTx.hash = None /\ Values(NoTx.file) \subseteq spent
    BY NoTxKnown DEF NoTx, LaterPC
  <1>5. work' \in Tables /\ faults' \in Nat
    BY <1>2 DEF IInv, TypeOK
  <1>6. QED
    BY <1>1, <1>2, <1>3, <1>4, <1>5, NoTxKnown, TxStep

LEMMA StatementIInv ==
  ASSUME IInv, NEW c \in Conn, Statement(c)
  PROVE  IInv'
  BY InsertDidIInv, InsertHandleIInv, DeleteHandleIInv, CountRemainingIInv, DeleteDidIInv,
     WipeHandlesIInv, WipeDidsIInv, InsertDidsIInv, InsertHandlesIInv, ExportHandlesIInv
     DEF Statement

-----------------------------------------------------------------------------
(* A commit makes the copy the tables; the others, without the lock, know  *)
(* nothing that changes, and their hashes stay new.                        *)

(* What a commit publishes is sound, and its hashes are old or its own.    *)
LEMMA Committable ==
  ASSUME IInv, NEW c \in Conn, At(c, "commit")
  PROVE  ForeignKeys(work) /\ Values(work) \subseteq spent \cup {tx[c].hash}
  <1>1. /\ cred \in [DID -> Hash \cup {None}] /\ owner \in [Sub -> DID \cup {None}]
        /\ \A s \in Sub : owner[s] # None => cred[owner[s]] # None
        /\ \A d \in DID : cred[d] # None => cred[d] \in spent
    BY DEF IInv, TypeOK, HandlesHaveDids, ForeignKeys, Committed, Accounted, Values
  <1>2. CASE Claims(tx[c]) /\ ClaimDone(tx[c])
    BY <1>1, <1>2, Constants DEF Claims, ClaimDone, ForeignKeys, Values
  <1>3. CASE Releases(tx[c]) /\ ReleaseDone(tx[c])
    <2>1. CASE Holdings(Committed, tx[c].did) = {tx[c].sub}
      <3>1. \A s \in Sub : owner[s] = tx[c].did => s = tx[c].sub
        BY <2>1 DEF Holdings, Committed
      <3>2. QED
        BY <1>1, <1>3, <2>1, <3>1, Constants DEF Releases, ReleaseDone, ForeignKeys, Values
    <2>2. CASE Holdings(Committed, tx[c].did) # {tx[c].sub}
      BY <1>1, <1>3, <2>2, Constants DEF Releases, ReleaseDone, ForeignKeys, Values
    <2>3. QED
      BY <2>1, <2>2
  <1>4. CASE Imports(tx[c]) /\ ImportDone(tx[c])
    BY <1>4 DEF ImportDone, IInv, Accounted
  <1>5. QED
    BY <1>2, <1>3, <1>4, Holder DEF At, Underway

LEMMA CommitIInv ==
  ASSUME IInv, NEW c \in Conn, Commit(c)
  PROVE  IInv'
  <1>1. /\ tx[c].pc = "commit" /\ tx \in [Conn -> Tx]
        /\ cred' = work.cred /\ owner' = work.owner /\ spent' = spent \cup Values(work)
        /\ writer' = None /\ work' = Empty /\ tx' = [tx EXCEPT ![c] = NoTx]
        /\ UNCHANGED <<backup, faults>>
    BY DEF Commit, At, Publish, IInv, TypeOK
  <1>2. ForeignKeys(work) /\ Values(work) \subseteq spent \cup {tx[c].hash}
    BY Committable DEF Commit
  <1>3. work \in Tables /\ Values(work) \subseteq Hash
    BY DEF IInv, TypeOK, Tables, Values
  <1>4. tx'[c] = NoTx /\ \A e \in Conn \ {c} : tx'[e] = tx[e] /\ tx[e].pc \notin LaterPC
    BY <1>1 DEF IInv, OneWriter, LaterPC
  <1>5. TypeOK'
    BY <1>1, <1>3, NoTxKnown DEF IInv, TypeOK, Tables
  <1>6. OneWriter'
    BY <1>1, <1>4, Constants DEF OneWriter, NoTx, LaterPC
  <1>7. FreshHashes'
    <2>1. \A e \in Conn : tx'[e].hash = None \/ (e # c /\ tx'[e].hash = tx[e].hash)
      BY <1>4 DEF NoTx
    <2>2. None \notin Values(work)
      BY DEF Values
    <2>3. None \notin spent'
      BY <1>1, <2>2, Constants DEF IInv, TypeOK
    <2>4. QED
      BY <1>1, <1>2, <2>1, <2>2, <2>3 DEF IInv, FreshHashes
  <1>8. Accounted' /\ HandlesHaveDids'
    <2>1. Committed' = work
      BY <1>1, <1>3 DEF Committed, Tables
    <2>2. Values(Committed)' = Values(work) /\ ForeignKeys(Committed)' = ForeignKeys(work)
      BY <2>1 DEF Values, ForeignKeys
    <2>3. Values(backup)' = Values(backup)
      BY <1>1 DEF Values
    <2>4. \A e \in Conn : Values(tx[e].file)' \subseteq spent
      <3>1. \A e \in Conn : tx'[e].file = Empty \/ tx'[e].file = tx[e].file
        BY <1>4 DEF NoTx
      <3>2. \A e \in Conn : Values(tx'[e].file) \subseteq spent
        BY <3>1, NoTxKnown DEF IInv, Accounted
      <3>3. QED
        BY <3>2 DEF Values
    <2>5. QED
      BY <1>1, <1>2, <2>2, <2>3, <2>4 DEF IInv, Accounted, HandlesHaveDids
  <1>9. ASSUME NEW e \in Conn
        PROVE  Underway(tx[e])'
    <2>1. CASE e = c
      BY <1>4, <2>1, NoTxKnown DEF NoTx, Underway
    <2>2. CASE e # c
      BY <1>4, <2>2 DEF IInv, Underway, LaterPC, Claims, Releases, Imports
    <2>3. QED
      BY <2>1, <2>2
  <1>10. QED
    BY <1>5, <1>6, <1>7, <1>8, <1>9 DEF IInv

LEMMA RollbackIInv ==
  ASSUME IInv, NEW c \in Conn, Rollback(c)
  PROVE  IInv'
  <1>1. /\ writer = c
        /\ writer' = None /\ work' = Empty /\ tx' = [tx EXCEPT ![c] = NoTx]
        /\ UNCHANGED <<cred, owner, spent, backup, faults>>
    BY DEF Rollback, At, LaterPC, IInv, OneWriter
  <1>2. /\ backup' \in Tables /\ Values(backup') \subseteq spent /\ faults' \in Nat
    BY <1>1 DEF IInv, TypeOK, Accounted
  <1>3. NoTx.pc \notin LaterPC /\ NoTx.hash = None /\ NoTx.file = Empty
    BY DEF NoTx, LaterPC
  <1>4. QED
    BY <1>1, <1>2, <1>3, NoTxKnown, TxStep

LEMMA BusyTimeoutIInv ==
  ASSUME IInv, NEW c \in Conn, BusyTimeout(c)
  PROVE  IInv'
  <1>1. /\ tx[c].pc \notin LaterPC /\ tx' = [tx EXCEPT ![c] = NoTx]
        /\ UNCHANGED <<cred, owner, spent, writer, work, backup, faults>>
    BY DEF BusyTimeout, FirstPC, LaterPC
  <1>2. /\ backup' \in Tables /\ Values(backup') \subseteq spent /\ faults' \in Nat
        /\ work' \in Tables
    BY <1>1 DEF IInv, TypeOK, Accounted
  <1>3. NoTx.pc \notin LaterPC /\ NoTx.hash = None /\ NoTx.file = Empty
    BY DEF NoTx, LaterPC
  <1>4. QED
    BY <1>1, <1>2, <1>3, NoTxKnown, TxStep

(* The connection that has the lock is left with a transaction to roll     *)
(* back, any other with none.                                              *)
LEMMA InterruptIInv ==
  ASSUME IInv, NEW c \in Conn, Interrupt(c)
  PROVE  IInv'
  <1>1. /\ tx' = [tx EXCEPT ![c] = IF writer = c THEN [NoTx EXCEPT !.pc = "rollback"] ELSE NoTx]
        /\ UNCHANGED <<cred, owner, spent, writer, work, backup>>
        /\ faults' = faults + 1
    BY DEF Interrupt, Fault
  <1>2. /\ backup' \in Tables /\ Values(backup') \subseteq spent /\ faults' \in Nat
        /\ work' \in Tables
    BY <1>1 DEF IInv, TypeOK, Accounted
  <1>3. CASE writer = c
    <2>1. PICK t : t = [NoTx EXCEPT !.pc = "rollback"]
      OBVIOUS
    <2>2. /\ t \in Tx /\ t.pc = "rollback" /\ t.hash = None /\ t.file = Empty
      BY <2>1, NoTxKnown DEF NoTx, Tx, PC, LaterPC
    <2>3. Underway(t)'
      BY <2>2 DEF Underway
    <2>4. tx' = [tx EXCEPT ![c] = t] /\ t.pc \in LaterPC
      BY <1>1, <1>3, <2>1, <2>2 DEF LaterPC
    <2>5. QED
      BY <1>1, <1>2, <1>3, <2>2, <2>3, <2>4, NoTxKnown, TxStep
  <1>4. CASE writer # c
    <2>1. tx[c].pc \notin LaterPC /\ tx' = [tx EXCEPT ![c] = NoTx]
      BY <1>1, <1>4 DEF IInv, OneWriter
    <2>2. NoTx.pc \notin LaterPC /\ NoTx.hash = None /\ NoTx.file = Empty
      BY DEF NoTx, LaterPC
    <2>3. QED
      BY <1>1, <1>2, <2>1, <2>2, NoTxKnown, TxStep
  <1>5. QED
    BY <1>3, <1>4

LEMMA CrashIInv ==
  ASSUME IInv, Crash
  PROVE  IInv'
  <1>1. /\ writer' = None /\ work' = Empty /\ tx' = [c \in Conn |-> NoTx]
        /\ UNCHANGED <<cred, owner, spent, backup>> /\ faults' = faults + 1
    BY DEF Crash, Fault
  <1>2. TypeOK'
    BY <1>1, NoTxKnown DEF IInv, TypeOK
  <1>3. OneWriter'
    BY <1>1, Constants DEF OneWriter, NoTx, LaterPC
  <1>4. FreshHashes'
    BY <1>1, Constants DEF IInv, TypeOK, FreshHashes, NoTx
  <1>5. Accounted' /\ HandlesHaveDids'
    <2>1. \A c \in Conn : tx'[c].file = Empty
      BY <1>1 DEF NoTx
    <2>2. \A c \in Conn : Values(tx'[c].file) = {}
      BY <2>1, NoTxKnown
    <2>3. QED
      BY <1>1, <2>2 DEF IInv, Accounted, HandlesHaveDids, Committed, Values, ForeignKeys
  <1>6. \A c \in Conn : Underway(tx[c])'
    BY <1>1 DEF NoTx, Underway
  <1>7. QED
    BY <1>2, <1>3, <1>4, <1>5, <1>6 DEF IInv

(* add_handle and delete_did_and_handles run when nobody has the lock, so  *)
(* they change no table that an open transaction relies on.                *)
LEMMA Unlocked ==
  ASSUME IInv, writer = None, UNCHANGED <<writer, work, tx>>
  PROVE  /\ \A c \in Conn : Underway(tx[c])'
         /\ OneWriter'
  <1>1. \A c \in Conn : tx[c].pc \notin LaterPC
    BY Constants DEF IInv, OneWriter
  <1>2. QED
    BY <1>1 DEF IInv, OneWriter, Underway, LaterPC, Claims, Releases, Imports

LEMMA AddHandleIInv ==
  ASSUME IInv, NEW d \in DID, NEW s \in Sub, AddHandle(d, s)
  PROVE  IInv'
  <1>1. /\ writer = None /\ UNCHANGED <<cred, spent, writer, work, tx, backup, faults>>
        /\ cred[d] # None /\ owner' = [owner EXCEPT ![s] = d]
    BY DEF AddHandle
  <1>2. TypeOK'
    BY <1>1 DEF IInv, TypeOK
  <1>3. FreshHashes' /\ Accounted'
    BY <1>1 DEF IInv, FreshHashes, Accounted, Values, Committed
  <1>4. HandlesHaveDids'
    BY <1>1 DEF IInv, TypeOK, HandlesHaveDids, ForeignKeys, Committed
  <1>5. QED
    BY <1>1, <1>2, <1>3, <1>4, Unlocked DEF IInv

LEMMA DeleteDidAndHandlesIInv ==
  ASSUME IInv, NEW d \in DID, DeleteDidAndHandles(d)
  PROVE  IInv'
  <1>1. /\ writer = None /\ UNCHANGED <<spent, writer, work, tx, backup, faults>>
        /\ cred' = [cred EXCEPT ![d] = None]
        /\ owner' = [s \in Sub |-> IF owner[s] = d THEN None ELSE owner[s]]
    BY DEF DeleteDidAndHandles
  <1>2. TypeOK'
    BY <1>1 DEF IInv, TypeOK
  <1>3. FreshHashes' /\ Accounted'
    BY <1>1 DEF IInv, TypeOK, FreshHashes, Accounted, Values, Committed
  <1>4. HandlesHaveDids'
    BY <1>1 DEF IInv, TypeOK, HandlesHaveDids, ForeignKeys, Committed
  <1>5. QED
    BY <1>1, <1>2, <1>3, <1>4, Unlocked DEF IInv

LEMMA StutterIInv ==
  ASSUME IInv, UNCHANGED vars
  PROVE  IInv'
  BY DEF vars, IInv, TypeOK, OneWriter, FreshHashes, Accounted, HandlesHaveDids, Underway,
         Claims, Releases, Imports, ClaimDone, ReleaseDone, ImportDone, Holdings, Values,
         Committed, ForeignKeys

LEMMA NextIInv == IInv /\ [Next]_vars => IInv'
  BY StartsIInv, StatementIInv, CommitIInv, RollbackIInv, BusyTimeoutIInv, InterruptIInv,
     CrashIInv, AddHandleIInv, DeleteDidAndHandlesIInv, StutterIInv
     DEF Next, Serve

LEMMA SpecIInv == Spec => []IInv
  BY InitIInv, NextIInv, PTL DEF Spec

(* Every reachable state is well-typed: in particular nobody but an open   *)
(* connection has the lock.                                                *)
THEOREM StoreTxTypeOK == Spec => []TypeOK
  <1>1. IInv => TypeOK
    BY DEF IInv
  <1>2. QED
    BY SpecIInv, <1>1, PTL

(* No committed handle dangles, whatever statements of other connections,  *)
(* faults and torn exports come between: each transaction that commits has *)
(* kept the foreign keys, on the tables as they were when it began.        *)
THEOREM StoreTxHandlesHaveDids == Spec => []HandlesHaveDids
  <1>1. IInv => HandlesHaveDids
    BY DEF IInv
  <1>2. QED
    BY SpecIInv, <1>1, PTL

-----------------------------------------------------------------------------
(* The refinement *)

LEMMA CommitImplements ==
  ASSUME IInv, NEW c \in Conn, Commit(c)
  PROVE  (Store!Next \/ ImportCommits) /\ writer' = None
  <1>1. /\ cred' = work.cred /\ owner' = work.owner /\ spent' = spent \cup Values(work)
        /\ writer' = None /\ At(c, "commit")
    BY DEF Commit, Publish
  <1>2. /\ cred \in [DID -> Hash \cup {None}] /\ owner \in [Sub -> DID \cup {None}]
        /\ \A d \in DID : cred[d] # None => cred[d] \in spent
    BY DEF IInv, TypeOK, Accounted, Values, Committed
  <1> DEFINE t == tx[c]
  <1>3. CASE Claims(t) /\ ClaimDone(t)
    <2>1. /\ t.did \in DID /\ t.sub \in Sub /\ t.hash \in Hash /\ t.hash \notin spent
      BY <1>3 DEF Claims, IInv, FreshHashes
    <2>2. /\ cred' = [cred EXCEPT ![t.did] = t.hash] /\ owner' = [owner EXCEPT ![t.sub] = t.did]
          /\ cred[t.did] = None /\ owner[t.sub] = None
      BY <1>1, <1>3 DEF ClaimDone
    <2>3. spent \cup Values(work) = spent \cup {t.hash}
      BY <1>2, <1>3, <2>1, Constants DEF ClaimDone, Values
    <2>4. Store!FirstClaim(t.did, t.sub, t.hash)
      BY <1>1, <2>1, <2>2, <2>3 DEF Store!FirstClaim
    <2>5. QED
      BY <1>1, <2>1, <2>4 DEF Store!Next
  <1>4. CASE Releases(t) /\ ReleaseDone(t)
    <2>1. t.did \in DID /\ t.sub \in Sub /\ owner[t.sub] = t.did
      BY <1>4 DEF Releases, ReleaseDone
    <2>2. spent \cup Values(work) = spent
      BY <1>2, <1>4, <2>1 DEF ReleaseDone, Values
    <2>3. Store!Holdings(t.did) = Holdings(Committed, t.did)
      BY DEF Store!Holdings, Holdings, Committed
    <2>4. Store!Release(t.did, t.sub)
      BY <1>1, <1>4, <2>1, <2>2, <2>3 DEF ReleaseDone, Store!Release
    <2>5. QED
      BY <1>1, <2>1, <2>4 DEF Store!Next
  <1>5. CASE Imports(t) /\ ImportDone(t)
    <2>1. Committed' = work
      BY <1>1, Holder DEF Committed, Tables
    <2>2. ImportCommits
      BY <1>1, <1>5, <2>1 DEF ImportCommits, Imports, ImportDone
    <2>3. QED
      BY <1>1, <2>2
  <1>6. QED
    BY <1>1, <1>3, <1>4, <1>5, Holder DEF At, Underway

LEMMA AddHandleImplements ==
  ASSUME NEW d \in DID, NEW s \in Sub, AddHandle(d, s)
  PROVE  Store!Next /\ writer' = None
  BY DEF AddHandle, Store!Next, Store!Claim

LEMMA DeleteDidAndHandlesImplements ==
  ASSUME NEW d \in DID, DeleteDidAndHandles(d)
  PROVE  Store!Next /\ writer' = None
  BY DEF DeleteDidAndHandles, Store!Next, Store!Drop

(* The tables move as HandleStore or an import would move them, with the   *)
(* lock given back, or they do not move.                                   *)
Shown  == (Store!Next \/ ImportCommits) /\ writer' = None
Hidden == UNCHANGED <<cred, owner, spent>>

(* What is not a commit and not a single statement shows nothing.          *)
LEMMA OthersShowNothing ==
  ASSUME NEW c \in Conn,
         Starts(c) \/ Statement(c) \/ Rollback(c) \/ BusyTimeout(c) \/ Interrupt(c)
  PROVE  Hidden
  BY DEF Hidden, Starts, RegisterNewDidWithHandle, DeleteHandleAndMaybeDid, ExportDids,
         ImportRegistry, Begin, Statement, InsertDid, InsertHandle, DeleteHandle,
         CountRemaining, DeleteDid, WipeHandles, WipeDids, InsertDids, InsertHandles,
         ExportHandles, Write, Rollback, BusyTimeout, Interrupt

LEMMA ShownOrHidden ==
  ASSUME IInv, Next
  PROVE  Shown \/ Hidden
  <1>connections. ASSUME NEW c \in Conn, Starts(c) \/ Serve(c) \/ Interrupt(c)
                  PROVE  Shown \/ Hidden
    BY <1>connections, CommitImplements, OthersShowNothing DEF Serve, Shown
  <1>single. ASSUME NEW d \in DID, DeleteDidAndHandles(d) \/ \E s \in Sub : AddHandle(d, s)
             PROVE  Shown
    BY <1>single, DeleteDidAndHandlesImplements, AddHandleImplements DEF Shown
  <1>restart. Crash => Hidden
    BY DEF Crash, Hidden
  <1> QED BY <1>connections, <1>single, <1>restart DEF Next

(* A transaction shows all at once, as one step of HandleStore or as the   *)
(* import of a file, or not at all, whatever happens between its           *)
(* statements; and it has given the lock back by then.                     *)
THEOREM StoreTxImplementsHandleStore == Spec => ImplementsHandleStore
  <1>empty. Init => Store!Init
    BY DEF Init, Store!Init, Empty
  <1>step. IInv /\ [Next]_vars => [Shown]_<<cred, owner, spent>>
    BY ShownOrHidden DEF Hidden, vars
  <1> QED BY SpecIInv, <1>empty, <1>step, PTL DEF Spec, ImplementsHandleStore, Shown
=============================================================================
