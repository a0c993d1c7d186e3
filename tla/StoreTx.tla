------------------------------- MODULE StoreTx -------------------------------
(***************************************************************************)
(* The writes of src/db.rs statement by statement, and the export and      *)
(* import of the registry of src/handlers/admin.rs.                        *)
(*                                                                         *)
(* SQLite in WAL mode: a transaction takes the one write lock with its     *)
(* first write statement, works on a copy of the tables and makes it the   *)
(* committed one when it commits; readers see the committed tables.  A     *)
(* transaction that cannot get the lock for 5 s (busy_timeout) fails.  A   *)
(* failed statement, or a request dropped on the way, leaves a             *)
(* transaction that is rolled back a moment later, when sqlx gets to it.   *)
(***************************************************************************)
EXTENDS Naturals, FiniteSets

CONSTANTS
  DID, Sub, Hash,
  Conn,        \* connections of the pool
  Ops,         \* what they are used for
  MaxFaults,   \* bound: dropped requests, failed statements and crashes
  None

AllOps == {"register", "claim", "delete", "drop", "export", "import"}

ASSUME StoreTxAssumption ==
  /\ None \notin DID \cup Hash \cup Conn \cup Sub
  /\ Ops \subseteq AllOps
  /\ MaxFaults \in Nat

VARIABLES
  cred, owner,  \* the committed tables dids and handles
  spent,        \* history: hashes that were ever in dids
  writer,       \* the connection that holds the write lock, or None
  work,         \* its copy of the tables
  tx,           \* what each connection is doing
  backup,       \* the exported file
  faults        \* history: faults so far

vars == <<cred, owner, spent, writer, work, tx, backup, faults>>

Tables == [cred : [DID -> Hash \cup {None}], owner : [Sub -> DID \cup {None}]]

Committed == [cred |-> cred, owner |-> owner]
Empty     == [cred |-> [d \in DID |-> None], owner |-> [s \in Sub |-> None]]

(* The statements that take the lock, and those after them. *)
FirstPC == {"insertDid", "deleteHandle", "wipeHandles"}
LaterPC == {"insertHandle", "count", "deleteDid", "wipeDids", "insertDids",
            "insertHandles", "commit", "rollback"}
PC == {"idle", "dumpHandles"} \cup FirstPC \cup LaterPC

Tx == [pc : PC, did : DID \cup {None}, sub : Sub \cup {None},
       hash : Hash \cup {None}, file : Tables]

NoTx == [pc |-> "idle", did |-> None, sub |-> None, hash |-> None, file |-> Empty]

TypeOK ==
  /\ cred  \in [DID -> Hash \cup {None}]
  /\ owner \in [Sub -> DID \cup {None}]
  /\ spent \subseteq Hash
  /\ writer \in Conn \cup {None}
  /\ work \in Tables
  /\ tx \in [Conn -> Tx]
  /\ backup \in Tables
  /\ faults \in Nat

Init ==
  /\ cred = Empty.cred /\ owner = Empty.owner
  /\ spent = {}
  /\ writer = None
  /\ work = Empty
  /\ tx = [c \in Conn |-> NoTx]
  /\ backup = Empty
  /\ faults = 0

Holdings(t, d) == {s \in Sub : t.owner[s] = d}
Values(t)      == {t.cred[d] : d \in DID} \ {None}
ForeignKeys(t) == \A s \in Sub : t.owner[s] # None => t.cred[t.owner[s]] # None

At(c, label) == tx[c].pc = label
Goto(c, label) == tx' = [tx EXCEPT ![c].pc = label]
Begin(c, t) == At(c, "idle") /\ tx' = [tx EXCEPT ![c] = t]
               /\ UNCHANGED <<cred, owner, spent, writer, work, backup, faults>>

(* A statement: the transaction's next one, on the copy it has. *)
Write(c, t, label) ==
  /\ writer' = c /\ work' = t
  /\ Goto(c, label)
  /\ UNCHANGED <<cred, owner, spent, backup, faults>>

Publish(t) ==
  /\ cred' = t.cred /\ owner' = t.owner
  /\ spent' = spent \cup Values(t)

-----------------------------------------------------------------------------
(* register_new_did_with_handle: both inserts, or neither. *)

RegisterNewDidWithHandle(c) ==
  /\ "register" \in Ops
  /\ \E d \in DID, s \in Sub, h \in Hash \ spent :
       /\ \A e \in Conn : tx[e].hash # h
       /\ Begin(c, [NoTx EXCEPT !.pc = "insertDid", !.did = d, !.sub = s, !.hash = h])

InsertDid(c) ==
  /\ At(c, "insertDid") /\ writer = None
  /\ IF cred[tx[c].did] # None
     THEN Write(c, Committed, "rollback")
     ELSE Write(c, [Committed EXCEPT !.cred[tx[c].did] = tx[c].hash], "insertHandle")

\* Mutant: the hash is bound where the DID belongs.
InsertHandleWrongBind(c) ==
  /\ At(c, "insertHandle")
  /\ IF work.owner[tx[c].sub] # None
     THEN Write(c, work, "rollback")
     ELSE Write(c, [work EXCEPT !.owner[tx[c].sub] = tx[c].hash], "commit")

InsertHandle(c) ==
  /\ At(c, "insertHandle")
  /\ IF work.owner[tx[c].sub] # None
     THEN Write(c, work, "rollback")
     ELSE Write(c, [work EXCEPT !.owner[tx[c].sub] = tx[c].did], "commit")

(* add_handle and delete_did_and_handles are one statement. *)
AddHandle(d, s) ==
  /\ "claim" \in Ops
  /\ writer = None
  /\ cred[d] # None /\ owner[s] = None
  /\ owner' = [owner EXCEPT ![s] = d]
  /\ UNCHANGED <<cred, spent, writer, work, tx, backup, faults>>

DeleteDidAndHandles(d) ==
  /\ "drop" \in Ops
  /\ writer = None
  /\ cred[d] # None
  /\ cred'  = [cred EXCEPT ![d] = None]
  /\ owner' = [s \in Sub |-> IF owner[s] = d THEN None ELSE owner[s]]
  /\ UNCHANGED <<spent, writer, work, tx, backup, faults>>

-----------------------------------------------------------------------------
(* delete_handle_and_maybe_did *)

DeleteHandleAndMaybeDid(c) ==
  /\ "delete" \in Ops
  /\ \E d \in DID, s \in Sub :
       Begin(c, [NoTx EXCEPT !.pc = "deleteHandle", !.did = d, !.sub = s])

\* Mutant: the early return leaves the transaction open.
DeleteHandleReturnsEarly(c) ==
  /\ At(c, "deleteHandle") /\ writer = None
  /\ IF owner[tx[c].sub] # tx[c].did
     THEN Write(c, Committed, "idle")
     ELSE Write(c, [Committed EXCEPT !.owner[tx[c].sub] = None], "count")

DeleteHandle(c) ==
  /\ At(c, "deleteHandle") /\ writer = None
  /\ IF owner[tx[c].sub] # tx[c].did
     THEN Write(c, Committed, "rollback")
     ELSE Write(c, [Committed EXCEPT !.owner[tx[c].sub] = None], "count")

\* Mutant: the count includes the handle just deleted.
CountRemainingCommitted(c) ==
  /\ At(c, "count")
  /\ Write(c, work, IF Holdings(Committed, tx[c].did) = {} THEN "deleteDid" ELSE "commit")

CountRemaining(c) ==
  /\ At(c, "count")
  /\ Write(c, work, IF Holdings(work, tx[c].did) = {} THEN "deleteDid" ELSE "commit")

DeleteDid(c) ==
  /\ At(c, "deleteDid")
  /\ Write(c, [work EXCEPT !.cred[tx[c].did] = None], "commit")

-----------------------------------------------------------------------------
(* export_registry: two reads, no transaction around them. *)

ExportDids(c) ==
  /\ "export" \in Ops
  /\ Begin(c, [NoTx EXCEPT !.pc = "dumpHandles", !.file = [Empty EXCEPT !.cred = cred]])

ExportHandles(c) ==
  /\ At(c, "dumpHandles")
  /\ backup' = [tx[c].file EXCEPT !.owner = owner]
  /\ tx' = [tx EXCEPT ![c] = NoTx]
  /\ UNCHANGED <<cred, owner, spent, writer, work, faults>>

(* import_registry and replace_registry: the file an export made, or one   *)
(* without rows.  The inserts of one loop are one step.                    *)
ImportRegistry(c) ==
  /\ "import" \in Ops
  /\ \E f \in {backup, Empty} :
       Begin(c, [NoTx EXCEPT !.pc = "wipeHandles", !.file = f])

WipeHandles(c) ==
  /\ At(c, "wipeHandles") /\ writer = None
  /\ Write(c, [Committed EXCEPT !.owner = Empty.owner], "wipeDids")

\* Mutant: the wipe is not part of the transaction.
WipeDidsAutocommits(c) ==
  /\ At(c, "wipeDids")
  /\ Publish(Empty)
  /\ writer' = c /\ work' = Empty
  /\ Goto(c, "insertDids")
  /\ UNCHANGED <<backup, faults>>

WipeDids(c) ==
  /\ At(c, "wipeDids")
  /\ Write(c, Empty, "insertDids")

InsertDids(c) ==
  /\ At(c, "insertDids")
  /\ Write(c, [work EXCEPT !.cred = tx[c].file.cred], "insertHandles")

\* Mutant: the connection was opened without foreign_keys.
InsertHandlesUnchecked(c) ==
  /\ At(c, "insertHandles")
  /\ Write(c, tx[c].file, "commit")

InsertHandles(c) ==
  /\ At(c, "insertHandles")
  /\ IF ForeignKeys(tx[c].file)
     THEN Write(c, tx[c].file, "commit")
     ELSE Write(c, work, "rollback")

-----------------------------------------------------------------------------
(* The end of a transaction *)

Commit(c) ==
  /\ At(c, "commit")
  /\ Publish(work)
  /\ writer' = None /\ work' = Empty
  /\ tx' = [tx EXCEPT ![c] = NoTx]
  /\ UNCHANGED <<backup, faults>>

Rollback(c) ==
  /\ At(c, "rollback")
  /\ writer' = None /\ work' = Empty
  /\ tx' = [tx EXCEPT ![c] = NoTx]
  /\ UNCHANGED <<cred, owner, spent, backup, faults>>

BusyTimeout(c) ==
  /\ tx[c].pc \in FirstPC /\ writer # None
  /\ tx' = [tx EXCEPT ![c] = NoTx]
  /\ UNCHANGED <<cred, owner, spent, writer, work, backup, faults>>

Fault == faults < MaxFaults /\ faults' = faults + 1

(* The statement fails or the request is dropped. *)
Interrupt(c) ==
  /\ Fault
  /\ tx[c].pc \notin {"idle", "rollback"}
  /\ tx' = [tx EXCEPT ![c] = IF writer = c THEN [NoTx EXCEPT !.pc = "rollback"] ELSE NoTx]
  /\ UNCHANGED <<cred, owner, spent, writer, work, backup>>

(* The process is killed and started again: the log of an uncommitted      *)
(* transaction is ignored.                                                 *)
Crash ==
  /\ Fault
  /\ writer' = None /\ work' = Empty
  /\ tx' = [c \in Conn |-> NoTx]
  /\ UNCHANGED <<cred, owner, spent, backup>>

-----------------------------------------------------------------------------
Starts(c) ==
  \/ RegisterNewDidWithHandle(c) \/ DeleteHandleAndMaybeDid(c)
  \/ ExportDids(c) \/ ImportRegistry(c)

Statement(c) ==
  \/ InsertDid(c) \/ InsertHandle(c)
  \/ DeleteHandle(c) \/ CountRemaining(c) \/ DeleteDid(c)
  \/ WipeHandles(c) \/ WipeDids(c) \/ InsertDids(c) \/ InsertHandles(c)
  \/ ExportHandles(c)

Serve(c) == Statement(c) \/ Commit(c) \/ Rollback(c) \/ BusyTimeout(c)

Next ==
  \/ \E c \in Conn : Starts(c) \/ Serve(c) \/ Interrupt(c)
  \/ \E d \in DID : DeleteDidAndHandles(d) \/ \E s \in Sub : AddHandle(d, s)
  \/ Crash

Spec == Init /\ [][Next]_vars

(* sqlx runs every connection on a thread of its own, and a lock that is   *)
(* not free within 5 s is an error.                                        *)
FairSpec == Spec /\ \A c \in Conn : WF_vars(Serve(c))

-----------------------------------------------------------------------------
Store == INSTANCE HandleStore

(* A transaction shows all at once, as one step of HandleStore, or not at  *)
(* all, whatever happens between its statements; an import replaces both   *)
(* tables by a file as a whole, and nothing of a transaction is seen       *)
(* before it has given the lock back (db.rs register_new_did_with_handle,  *)
(* delete_handle_and_maybe_did, replace_registry).                         *)
ImportCommits ==
  \E c \in Conn : /\ At(c, "commit") /\ tx[c].did = None
                  /\ Committed' = tx[c].file

ImplementsHandleStore ==
  Store!Init /\ [][(Store!Next \/ ImportCommits) /\ writer' = None]_<<cred, owner, spent>>

(* No committed handle dangles, with imports of exports that were torn by  *)
(* writes (db.rs connect: foreign_keys, replace_registry).                 *)
HandlesHaveDids == ForeignKeys(Committed)

(* The write lock is given back, so that no transaction waits for longer   *)
(* than the others take: neither a constraint violation, a dropped         *)
(* request nor a crash keeps it.                                           *)
LockGivenBack == writer # None ~> writer = None
=============================================================================
