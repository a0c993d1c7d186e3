-------------------------------- MODULE Worker --------------------------------
(***************************************************************************)
(* The handle registry of the legacy worker                                *)
(* (reference/anarchy-worker.js): every handler that writes it, one call   *)
(* of the key-value store or of the PDS at a time.                         *)
(*                                                                         *)
(* A handle is two records, sub:<sub> (who holds it) and an entry in       *)
(* did:<did> (what a DID holds, and the hash of its secret).  The store    *)
(* has no transactions: a handler reads a record, changes its copy and     *)
(* writes it back, and anything may happen in between.  A request is its   *)
(* local variables and the calls it still has to make, in order.           *)
(*                                                                         *)
(* Names are given as the handlers have normalised them; bans, lists and   *)
(* rate limits come before any of this: see WorkerPolicy.                  *)
(***************************************************************************)
EXTENDS Naturals, FiniteSets, Sequences

CONSTANTS
  DID, Sub,
  Key,         \* secrets; the store keeps their hashes
  Proc,        \* slots for requests: how many there can be at a time
  Ops,         \* kinds of request there are
  Together,    \* bound: kinds that may overlap with each other
  Vip,         \* DIDs in config:vip
  MaxHandles,  \* MAX_HANDLES_PER_DID
  MaxFaults,   \* bound: requests cut short
  None

Public   == {"register", "delete", "manage", "list"}
Admin    == {"assign", "adminDelete", "adminDrop", "backfill", "export", "import"}
Internal == {"sync", "claim", "setHandle", "changeHandle", "accountDeleted"}
Proxied  == {"signup", "updateHandle", "deleteAccount"}
AllOps   == Public \cup Admin \cup Internal \cup Proxied

ASSUME WorkerAssumption ==
  /\ IsFiniteSet(Sub) /\ IsFiniteSet(Key) /\ IsFiniteSet(Proc)
  /\ Ops \subseteq AllOps
  /\ MaxHandles \in Nat \ {0} /\ MaxFaults \in Nat

Elsewhere == "elsewhere"   \* a handle outside BASE_DOMAIN

Record == [key : Key \cup {None}, handles : SUBSET Sub]

ASSUME NoneAssumption ==
  /\ None \notin DID \cup Sub \cup Key \cup Record \cup AllOps
  /\ Elsewhere \notin Sub /\ DID \cap Sub = {}

VARIABLES
  subs,      \* sub:<sub>: the DID, or None
  dids,      \* did:<did>: { keyHash, handles }, or None
  req,       \* the requests being served
  accounts,  \* the PDS: the handle of a DID's account, or None
  backup,    \* the exported registry
  issued,    \* history: whom a secret was made for
  held,      \* history: secrets that reached a client
  exempt,    \* history: DIDs written by handlers that know no limit
  calm,      \* history: no two requests were served at once
  cut,       \* history: what requests cut short may have left behind
  faults

vars == <<subs, dids, req, accounts, backup, issued, held, exempt, calm, cut, faults>>

NoRecord == [key |-> None, handles |-> {}]
NoFile   == [d \in DID |-> None]

Call == {"checkTaken", "grant", "putDid", "saveDid", "putSub", "deleteSub", "log",
         "find", "adminRead", "adminCheck", "readAll", "deleteAll", "deleteDid",
         "checkOther", "addHandle", "readOwn", "deleteOwn", "replace", "checkOld",
         "deleteOld", "listSubs", "fill", "listDids", "dump", "wipe", "restore",
         "restoreSubs", "pdsCreate", "session", "pdsUpdate", "pdsDelete"}

Request == [op : AllOps \cup {None}, calls : Seq(Call),
            did : DID \cup {None}, sub : Sub \cup {None, Elsewhere}, old : Sub \cup {None},
            key : Key \cup {None}, rec : Record, todo : SUBSET (DID \cup Sub),
            file : [DID -> Record \cup {None}], solo : BOOLEAN]

NoRequest == [op |-> None, calls |-> <<>>, did |-> None, sub |-> None, old |-> None,
              key |-> None, rec |-> NoRecord, todo |-> {}, file |-> NoFile, solo |-> FALSE]

TypeOK ==
  /\ subs \in [Sub -> DID \cup {None}]
  /\ dids \in [DID -> Record \cup {None}]
  /\ req \in [Proc -> Request]
  /\ accounts \in [DID -> Sub \cup {None, Elsewhere}]
  /\ backup \in [DID -> Record \cup {None}]
  /\ issued \in [Key -> DID \cup {None}]
  /\ held \subseteq Key /\ exempt \subseteq DID
  /\ calm \in BOOLEAN /\ cut \subseteq {"unlisted", "secret"} /\ faults \in Nat

Init ==
  /\ subs = [s \in Sub |-> None] /\ dids = NoFile
  /\ req = [p \in Proc |-> NoRequest]
  /\ accounts = [d \in DID |-> None]
  /\ backup = NoFile
  /\ issued = [k \in Key |-> None]
  /\ held = {} /\ exempt = {} /\ calm = TRUE /\ cut = {} /\ faults = 0

Busy  == {p \in Proc : req[p].op # None}
Quiet == Busy = {}

HandlesOf(r) == IF r = None THEN {} ELSE r.handles

-----------------------------------------------------------------------------
(* The calls of each handler, in the order it makes them.  A loop is one   *)
(* call here that is made until there is nothing left to do.               *)

\* Mutant: the handle is written before the DID's record.
HandleRegisterSubFirst    == <<"checkTaken", "grant", "putSub", "putDid", "log">>
HandleRegister            == <<"checkTaken", "grant", "putDid", "putSub", "log">>
HandleAdminAssignReserved == <<"checkTaken", "grant", "putDid", "putSub", "log">>
HandleDelete              == <<"find", "saveDid", "deleteSub", "log">>
HandleManage              == <<"find", "deleteSub", "saveDid", "log">>
HandleAdminDeleteHandle   == <<"adminRead", "adminCheck", "deleteSub", "saveDid", "log">>
HandleAdminDeleteAllForDid == <<"readAll", "deleteAll", "deleteDid", "log">>
HandleInternalDidWebSync  == <<"checkOther", "addHandle", "putSub", "putDid">>
HandleClaim               == <<"checkOther", "putSub", "addHandle", "putDid">>
SetRegistryHandle         == <<"putSub", "addHandle", "putDid">>
\* Mutant: the old handle is left to resolve.
ChangeRegistryHandleKeepsOld == <<"replace", "putDid", "putSub">>
ChangeRegistryHandle      == <<"replace", "putDid", "checkOld", "putSub">>
\* Mutant: the DID's record, with its secret, stays.
DeleteRegistryForDidKeepsRecord == <<"readOwn", "deleteOwn">>
DeleteRegistryForDid      == <<"readOwn", "deleteOwn", "deleteDid">>
HandleAdminBackfillDidRecords == <<"listSubs", "fill">>
HandleAdminExportRegistry == <<"listDids", "dump">>
HandleAdminImportRegistry == <<"listDids", "wipe", "listSubs", "wipe", "restore">>
HandleSignupRequest       == <<"pdsCreate">> \o HandleClaim
CreateAccount             == <<"pdsCreate", "checkOther", "putSub", "addHandle", "putDid">>
HandleProxyUpdateHandle   == <<"session", "pdsUpdate">>
HandleProxyDeleteAccount  == <<"pdsDelete">> \o DeleteRegistryForDid

-----------------------------------------------------------------------------
(* Requests come in *)

At(p, call)   == req[p].op # None /\ Head(req[p].calls) = call
Rest(q)       == [q EXCEPT !.calls = Tail(@)]
Then(q, more) == [q EXCEPT !.calls = more \o Tail(@)]

(* The request goes on; with nothing left to do it has been answered. *)
Go(p, q)  == req' = [req EXCEPT ![p] = IF q.calls = <<>> THEN NoRequest ELSE q]
Answer(p) == req' = [req EXCEPT ![p] = NoRequest]

World == <<accounts, backup, issued, held, exempt, calm, cut, faults>>

Receive(p, op, calls, q) ==
  /\ op \in Ops /\ req[p].op = None
  /\ \A o \in Busy : {op, req[o].op} \subseteq Together
  /\ req' = [o \in Proc |->
       IF o = p THEN [q EXCEPT !.op = op, !.calls = calls, !.solo = Quiet]
       ELSE [req[o] EXCEPT !.solo = FALSE]]
  /\ calm' = (calm /\ Quiet)
  /\ UNCHANGED <<subs, dids, backup, issued, held, exempt, cut, faults>>

Asks(d, s) == [NoRequest EXCEPT !.did = d, !.sub = s]
Shows(k, s) == [NoRequest EXCEPT !.key = k, !.sub = s]

(* Bound: a new secret is there for everyone who may need one. *)
Granting == {"register", "assign"}
KeysRemain == Cardinality({p \in Busy : req[p].op \in Granting})
                < Cardinality({k \in Key : issued[k] = None})

(* The PDS: DIDs are new, and its own handles are unique. *)
Unused(d) == /\ accounts[d] = None /\ dids[d] = None
             /\ \A s \in Sub : subs[s] # d
             /\ \A p \in Proc : req[p].did # d
Free(h, d) == h = Elsewhere \/ \A e \in DID \ {d} : accounts[e] # h

ReceivePublic(p) ==
  /\ \/ /\ KeysRemain
        /\ \E d \in DID, s \in Sub : Receive(p, "register", HandleRegister, Asks(d, s))
     \/ \E k \in held, s \in Sub : \/ Receive(p, "delete", HandleDelete, Shows(k, s))
                                   \/ Receive(p, "manage", HandleManage, Shows(k, s))
     \/ \E k \in held : Receive(p, "list", <<"find">>, Shows(k, None))
  /\ UNCHANGED accounts

ReceiveAdmin(p) ==
  /\ \/ /\ KeysRemain
        /\ \E d \in DID, s \in Sub :
             Receive(p, "assign", HandleAdminAssignReserved, Asks(d, s))
     \/ \E d \in DID, s \in Sub :
          Receive(p, "adminDelete", HandleAdminDeleteHandle, Asks(d, s))
     \/ \E d \in DID : Receive(p, "adminDrop", HandleAdminDeleteAllForDid, Asks(d, None))
     \/ Receive(p, "backfill", HandleAdminBackfillDidRecords, NoRequest)
     \/ Receive(p, "export", HandleAdminExportRegistry, NoRequest)
     \/ /\ backup # NoFile
        /\ Receive(p, "import", HandleAdminImportRegistry, [NoRequest EXCEPT !.file = backup])
  /\ UNCHANGED accounts

(* Root's did:web sync *)
ReceiveDidWebSync(p) ==
  /\ \E d \in DID, s \in Sub : Receive(p, "sync", HandleInternalDidWebSync, Asks(d, s))
  /\ UNCHANGED accounts

(* What the PDS tells after the fact *)
ReceiveClaim(p) ==
  \E d \in DID, s \in Sub :
    /\ Unused(d) /\ Free(s, d)
    /\ Receive(p, "claim", HandleClaim, Asks(d, s))
    /\ accounts' = [accounts EXCEPT ![d] = s]

ReceiveSetHandle(p) ==
  \E d \in DID, s \in Sub :
    /\ accounts[d] # None /\ Free(s, d)
    /\ Receive(p, "setHandle", SetRegistryHandle, Asks(d, s))
    /\ accounts' = [accounts EXCEPT ![d] = s]

ReceiveChangeHandle(p) ==
  \E d \in DID, s \in Sub :
    /\ accounts[d] \in Sub \ {s} /\ Free(s, d)
    /\ Receive(p, "changeHandle", ChangeRegistryHandle,
               [Asks(d, s) EXCEPT !.old = accounts[d]])
    /\ accounts' = [accounts EXCEPT ![d] = s]

ReceiveAccountDeleted(p) ==
  \E d \in DID :
    /\ accounts[d] # None
    /\ Receive(p, "accountDeleted", DeleteRegistryForDid, Asks(d, None))
    /\ accounts' = [accounts EXCEPT ![d] = None]

ReceiveInternal(p) ==
  \/ ReceiveDidWebSync(p) \/ ReceiveClaim(p) \/ ReceiveSetHandle(p)
  \/ ReceiveChangeHandle(p) \/ ReceiveAccountDeleted(p)

(* What the worker passes on to the PDS *)
ReceiveProxied(p) ==
  /\ \/ \E s \in Sub, calls \in {HandleSignupRequest, CreateAccount} :
          Receive(p, "signup", calls, Asks(None, s))
     \/ \E d \in DID, h \in Sub \cup {Elsewhere} :
          /\ accounts[d] # None
          /\ Receive(p, "updateHandle", HandleProxyUpdateHandle, Asks(d, h))
     \/ \E d \in DID :
          /\ accounts[d] # None
          /\ Receive(p, "deleteAccount", HandleProxyDeleteAccount, Asks(d, None))
  /\ UNCHANGED accounts

-----------------------------------------------------------------------------
(* One record written *)

PutSub(p) ==
  /\ At(p, "putSub")
  /\ subs' = [subs EXCEPT ![req[p].sub] = req[p].did]
  /\ Go(p, Rest(req[p]))
  /\ UNCHANGED <<dids>> /\ UNCHANGED World

DeleteSub(p) ==
  /\ At(p, "deleteSub")
  /\ subs' = [subs EXCEPT ![req[p].sub] = None]
  /\ Go(p, Rest(req[p]))
  /\ UNCHANGED <<dids>> /\ UNCHANGED World

Limited == {"register", "delete", "manage", "adminDelete"}

PutDid(p) ==
  /\ At(p, "putDid")
  /\ dids' = [dids EXCEPT ![req[p].did] = req[p].rec]
  /\ exempt' = IF req[p].op \in Limited THEN exempt ELSE exempt \cup {req[p].did}
  /\ Go(p, Rest(req[p]))
  /\ UNCHANGED <<subs, accounts, backup, issued, held, calm, cut, faults>>

(* The last handle of a record takes the record with it. *)
SaveDid(p) ==
  /\ At(p, "saveDid")
  /\ dids' = [dids EXCEPT ![req[p].did] =
                IF req[p].rec.handles = {} THEN None ELSE req[p].rec]
  /\ Go(p, Rest(req[p]))
  /\ UNCHANGED <<subs>> /\ UNCHANGED World

DeleteDid(p) ==
  /\ At(p, "deleteDid")
  /\ dids' = [dids EXCEPT ![req[p].did] = None]
  /\ Go(p, Rest(req[p]))
  /\ UNCHANGED <<subs>> /\ UNCHANGED World

\* Mutant: the console does not show the secret of an assigned handle.
LogActivityDropsKey(p) ==
  /\ At(p, "log")
  /\ held' = IF req[p].op = "register" /\ req[p].key # None
             THEN held \cup {req[p].key} ELSE held
  /\ Go(p, Rest(req[p]))
  /\ UNCHANGED <<subs, dids, accounts, backup, issued, exempt, calm, cut, faults>>

(* logActivity, the last call: then the answer, with the secret if there   *)
(* is a new one.                                                           *)
LogActivity(p) ==
  /\ At(p, "log")
  /\ held' = IF req[p].op \in Granting /\ req[p].key # None
             THEN held \cup {req[p].key} ELSE held
  /\ Go(p, Rest(req[p]))
  /\ UNCHANGED <<subs, dids, accounts, backup, issued, exempt, calm, cut, faults>>

-----------------------------------------------------------------------------
(* One record read, and what the handler makes of it *)

Reads(p) == UNCHANGED <<subs, dids>> /\ UNCHANGED World

(* handleRegister, handleAdminAssignReserved: the handle must be free. *)
CheckTaken(p) ==
  /\ At(p, "checkTaken")
  /\ IF subs[req[p].sub] = None THEN Go(p, Rest(req[p])) ELSE Answer(p)
  /\ Reads(p)

\* Mutant: the conflict is only logged.
CheckOtherWarns(p) ==
  /\ At(p, "checkOther")
  /\ Go(p, Rest(req[p]))
  /\ Reads(p)

(* The bridge and the sync: it must not be another DID's. *)
CheckOther(p) ==
  /\ At(p, "checkOther")
  /\ IF subs[req[p].sub] \in {None, req[p].did} THEN Go(p, Rest(req[p])) ELSE Answer(p)
  /\ Reads(p)

Added(r, s) == IF r = None THEN [NoRecord EXCEPT !.handles = {s}]
               ELSE [r EXCEPT !.handles = @ \cup {s}]

\* Mutant: the limit is compared with the list after the handle was added.
HasRoomOneMore(d, op) == \/ op = "assign" \/ d \in Vip
                         \/ Cardinality(HandlesOf(dids[d])) < MaxHandles + 1

(* handleRegister counts the list it has read; an assignment does not. *)
HasRoom(d, op) == \/ op = "assign" \/ d \in Vip
                  \/ Cardinality(HandlesOf(dids[d])) < MaxHandles

(* A DID that is new to the registry gets a secret with its record. *)
Grant(p) ==
  LET q == req[p] r == dids[q.did] IN
  /\ At(p, "grant")
  /\ \/ /\ r = None
        /\ \E k \in Key :
             /\ issued[k] = None
             /\ issued' = [issued EXCEPT ![k] = q.did]
             /\ Go(p, [Rest(q) EXCEPT !.key = k, !.rec = [key |-> k, handles |-> {q.sub}]])
     \/ /\ r # None /\ HasRoom(q.did, q.op)
        /\ Go(p, [Rest(q) EXCEPT !.rec = Added(r, q.sub)])
        /\ UNCHANGED issued
     \/ /\ r # None /\ ~HasRoom(q.did, q.op)
        /\ Answer(p)
        /\ UNCHANGED issued
  /\ UNCHANGED <<subs, dids, accounts, backup, held, exempt, calm, cut, faults>>

\* Mutant: the record is declared outside the backfill's loop.
AddHandleKeepsLast(p) ==
  LET r == dids[req[p].did] IN
  /\ At(p, "addHandle")
  /\ Go(p, [Rest(req[p]) EXCEPT !.rec = Added(IF r = None THEN req[p].rec ELSE r, req[p].sub)])
  /\ Reads(p)

(* The bridge, the sync and the backfill: a DID without a record gets one  *)
(* without a secret.                                                       *)
AddHandle(p) ==
  /\ At(p, "addHandle")
  /\ Go(p, [Rest(req[p]) EXCEPT !.rec = Added(dids[req[p].did], req[p].sub)])
  /\ Reads(p)

(* findDidBySecretHash goes through all records, and stops at the one with *)
(* the hash: the copy it returns is of one moment.                         *)
FindDidBySecretHash(p) ==
  LET q == req[p]
      Holders == {d \in DID : dids[d] # None /\ dids[d].key = q.key}
  IN /\ At(p, "find")
     /\ \/ \E d \in Holders :
             /\ q.op # "list" /\ q.sub \in dids[d].handles
             /\ Go(p, [Rest(q) EXCEPT !.did = d,
                         !.rec = [dids[d] EXCEPT !.handles = @ \ {q.sub}]])
        \/ /\ q.op = "list" \/ \A d \in Holders : q.sub \notin dids[d].handles
           /\ Answer(p)
     /\ Reads(p)

(* handleAdminDeleteHandle reads the record, then checks the owner. *)
AdminRead(p) ==
  LET q == req[p] r == dids[q.did] IN
  /\ At(p, "adminRead")
  /\ IF r = None
     THEN Go(p, [q EXCEPT !.calls = <<"adminCheck", "deleteSub">>])
     ELSE Go(p, [Rest(q) EXCEPT !.rec = [r EXCEPT !.handles = @ \ {q.sub}]])
  /\ Reads(p)

AdminCheck(p) ==
  /\ At(p, "adminCheck")
  /\ IF subs[req[p].sub] = req[p].did THEN Go(p, Rest(req[p])) ELSE Answer(p)
  /\ Reads(p)

(* handleAdminDeleteAllForDid: whoever the handles belong to by now. *)
ReadAll(p) ==
  /\ At(p, "readAll") \/ At(p, "readOwn")
  /\ IF dids[req[p].did] = None THEN Answer(p)
     ELSE Go(p, [Rest(req[p]) EXCEPT !.todo = dids[req[p].did].handles])
  /\ Reads(p)

DeleteAll(p) ==
  LET q == req[p] IN
  /\ At(p, "deleteAll")
  /\ \/ q.todo = {} /\ Go(p, Rest(q)) /\ UNCHANGED subs
     \/ \E s \in q.todo : /\ subs' = [subs EXCEPT ![s] = None]
                          /\ Go(p, [q EXCEPT !.todo = @ \ {s}])
  /\ UNCHANGED dids /\ UNCHANGED World

(* deleteRegistryForDid: only what still belongs to the DID. *)
DeleteOwn(p) ==
  LET q == req[p] IN
  /\ At(p, "deleteOwn")
  /\ \/ q.todo = {} /\ Go(p, Rest(q))
     \/ \E s \in q.todo \cap Sub :
          Go(p, [q EXCEPT !.todo = @ \ {s}, !.sub = s,
                   !.calls = IF subs[s] = q.did THEN <<"deleteSub">> \o @ ELSE @])
  /\ Reads(p)

(* changeRegistryHandle: the new handle is not looked at. *)
Replace(p) ==
  LET q == req[p] r == dids[q.did] IN
  /\ At(p, "replace")
  /\ IF r = None THEN Answer(p)
     ELSE Go(p, [Rest(q) EXCEPT !.rec = [r EXCEPT !.handles = (@ \ {q.old}) \cup {q.sub}]])
  /\ Reads(p)

CheckOld(p) ==
  LET q == req[p] IN
  /\ At(p, "checkOld")
  /\ Go(p, IF subs[q.old] = q.did THEN Then(q, <<"deleteOld">>) ELSE Rest(q))
  /\ Reads(p)

DeleteOld(p) ==
  /\ At(p, "deleteOld")
  /\ subs' = [subs EXCEPT ![req[p].old] = None]
  /\ Go(p, Rest(req[p]))
  /\ UNCHANGED dids /\ UNCHANGED World

-----------------------------------------------------------------------------
(* Listings, and the loops over what they found *)

ListSubs(p) ==
  /\ At(p, "listSubs")
  /\ Go(p, [Rest(req[p]) EXCEPT !.todo = {s \in Sub : subs[s] # None}])
  /\ Reads(p)

ListDids(p) ==
  /\ At(p, "listDids")
  /\ Go(p, [Rest(req[p]) EXCEPT !.todo = {d \in DID : dids[d] # None}])
  /\ Reads(p)

\* Mutant: a DID that has a record is not looked into.
FillMissingOnly(p) ==
  LET q == req[p] IN
  /\ At(p, "fill")
  /\ \/ q.todo = {} /\ Answer(p)
     \/ \E s \in q.todo \cap Sub : LET left == [q EXCEPT !.todo = @ \ {s}] IN
          Go(p, IF subs[s] = None \/ dids[subs[s]] # None THEN left
                ELSE [left EXCEPT !.did = subs[s], !.sub = s,
                                  !.calls = <<"addHandle", "putDid">> \o @])
  /\ Reads(p)

(* handleAdminBackfillDidRecords *)
Fill(p) ==
  LET q == req[p] IN
  /\ At(p, "fill")
  /\ \/ q.todo = {} /\ Answer(p)
     \/ \E s \in q.todo \cap Sub : LET left == [q EXCEPT !.todo = @ \ {s}] IN
          Go(p, IF subs[s] = None THEN left
                ELSE [left EXCEPT !.did = subs[s], !.sub = s,
                                  !.calls = <<"addHandle", "putDid">> \o @])
  /\ Reads(p)

(* handleAdminExportRegistry: from the DIDs' records alone *)
Dump(p) ==
  LET q == req[p] IN
  /\ At(p, "dump")
  /\ \/ /\ q.todo = {}
        /\ backup' = q.file /\ Go(p, Rest(q))
     \/ \E d \in q.todo :
          /\ Go(p, [q EXCEPT !.todo = @ \ {d}, !.file = [@ EXCEPT ![d] = dids[d]]])
          /\ UNCHANGED backup
  /\ UNCHANGED <<subs, dids, accounts, issued, held, exempt, calm, cut, faults>>

(* handleAdminImportRegistry: delete every key, then write the file's. *)
Wipe(p) ==
  LET q == req[p] IN
  /\ At(p, "wipe")
  /\ \/ q.todo = {} /\ Go(p, Rest(q)) /\ UNCHANGED <<subs, dids>>
     \/ \E d \in q.todo \cap DID :
          /\ dids' = [dids EXCEPT ![d] = None] /\ UNCHANGED subs
          /\ Go(p, [q EXCEPT !.todo = @ \ {d}])
     \/ \E s \in q.todo \cap Sub :
          /\ subs' = [subs EXCEPT ![s] = None] /\ UNCHANGED dids
          /\ Go(p, [q EXCEPT !.todo = @ \ {s}])
  /\ UNCHANGED World

Restore(p) ==
  LET q == req[p] IN
  /\ At(p, "restore")
  /\ \/ q.file = NoFile /\ Go(p, Rest(q))
     \/ \E d \in DID :
          /\ q.file[d] # None
          /\ Go(p, [q EXCEPT !.did = d, !.rec = q.file[d], !.todo = q.file[d].handles,
                             !.file = [@ EXCEPT ![d] = None],
                             !.calls = <<"putDid", "restoreSubs">> \o @])
  /\ Reads(p)

RestoreSubs(p) ==
  LET q == req[p] IN
  /\ At(p, "restoreSubs")
  /\ \/ q.todo = {} /\ Go(p, Rest(q)) /\ UNCHANGED subs
     \/ \E s \in q.todo : /\ subs' = [subs EXCEPT ![s] = q.did]
                          /\ Go(p, [q EXCEPT !.todo = @ \ {s}])
  /\ UNCHANGED dids /\ UNCHANGED World

-----------------------------------------------------------------------------
(* Calls of the PDS.  It refuses for reasons of its own. *)

PdsRefuses(p) ==
  /\ At(p, "pdsCreate") \/ At(p, "pdsUpdate") \/ At(p, "pdsDelete")
  /\ Answer(p)
  /\ Reads(p)

(* createAccount: the bridge is for handles of BASE_DOMAIN, and its answer *)
(* is not looked at.                                                       *)
PdsCreatesAccount(p) ==
  /\ At(p, "pdsCreate")
  /\ \E d \in DID, h \in {req[p].sub, Elsewhere} :
       /\ Unused(d) /\ Free(h, d)
       /\ accounts' = [accounts EXCEPT ![d] = h]
       /\ IF h = Elsewhere THEN Answer(p)
          ELSE Go(p, [Rest(req[p]) EXCEPT !.did = d, !.rec = NoRecord])
  /\ UNCHANGED <<subs, dids, backup, issued, held, exempt, calm, cut, faults>>

\* Mutant: the domain of the new handle is not looked at.
GetSessionAnyDomain(p) ==
  LET q == req[p] IN
  /\ At(p, "session")
  /\ \/ Go(p, Rest(q))
     \/ accounts[q.did] # None /\ Go(p, Then(q, SetRegistryHandle))
  /\ Reads(p)

(* updateHandle: a handle of BASE_DOMAIN is written before the PDS is      *)
(* asked; another one changes nothing here.  Without a session the         *)
(* request is passed on all the same.                                      *)
GetSession(p) ==
  LET q == req[p] IN
  /\ At(p, "session")
  /\ \/ Go(p, Rest(q))
     \/ /\ accounts[q.did] # None /\ q.sub \in Sub
        /\ Go(p, Then(q, SetRegistryHandle))
  /\ Reads(p)

PdsUpdatesHandle(p) ==
  LET q == req[p] IN
  /\ At(p, "pdsUpdate")
  /\ accounts[q.did] # None /\ Free(q.sub, q.did)
  /\ accounts' = [accounts EXCEPT ![q.did] = q.sub]
  /\ Go(p, Rest(q))
  /\ UNCHANGED <<subs, dids, backup, issued, held, exempt, calm, cut, faults>>

PdsDeletesAccount(p) ==
  LET q == req[p] IN
  /\ At(p, "pdsDelete")
  /\ accounts[q.did] # None
  /\ accounts' = [accounts EXCEPT ![q.did] = None]
  /\ Go(p, Rest(q))
  /\ UNCHANGED <<subs, dids, backup, issued, held, exempt, calm, cut, faults>>

(* Kinds of requests that may be left anywhere: the order of their writes  *)
(* never has a handle resolve that its DID's record does not list.         *)
SafeToCut == {"register", "assign", "manage", "list", "adminDelete", "adminDrop",
              "deleteAccount", "accountDeleted", "backfill", "export"}

LeftBehind(op) == (IF op \in SafeToCut THEN {} ELSE {"unlisted"})
                    \cup (IF op \in Granting THEN {"secret"} ELSE {})

(* A call fails, or the request is dropped, and what is left is not done;  *)
(* updateHandle catches what fails before it asks the PDS.                 *)
CutShort(p) ==
  LET q == req[p] IN
  /\ q.op # None
  /\ faults < MaxFaults /\ faults' = faults + 1
  /\ cut' = cut \cup LeftBehind(q.op)
  /\ \/ Answer(p)
     \/ /\ q.op = "updateHandle" /\ ~At(p, "pdsUpdate")
        /\ Go(p, [q EXCEPT !.calls = <<"pdsUpdate">>])
  /\ UNCHANGED <<subs, dids, accounts, backup, issued, held, exempt, calm>>

Serve(p) ==
  \/ PutSub(p) \/ DeleteSub(p) \/ PutDid(p) \/ SaveDid(p) \/ DeleteDid(p) \/ LogActivity(p)
  \/ CheckTaken(p) \/ CheckOther(p) \/ Grant(p) \/ AddHandle(p) \/ FindDidBySecretHash(p)
  \/ AdminRead(p) \/ AdminCheck(p) \/ ReadAll(p) \/ DeleteAll(p) \/ DeleteOwn(p)
  \/ Replace(p) \/ CheckOld(p) \/ DeleteOld(p)
  \/ ListSubs(p) \/ ListDids(p) \/ Fill(p) \/ Dump(p) \/ Wipe(p) \/ Restore(p) \/ RestoreSubs(p)
  \/ GetSession(p) \/ PdsRefuses(p)
  \/ PdsCreatesAccount(p) \/ PdsUpdatesHandle(p) \/ PdsDeletesAccount(p)

Next ==
  \E p \in Proc :
    \/ ReceivePublic(p) \/ ReceiveAdmin(p) \/ ReceiveInternal(p) \/ ReceiveProxied(p)
    \/ Serve(p) \/ CutShort(p)

Spec == Init /\ [][Next]_vars

-----------------------------------------------------------------------------
(* The DID a handle resolves to, or None *)
HandleWellKnown(s) == subs[s]

Listed(s) == HandleWellKnown(s) # None => s \in HandlesOf(dids[HandleWellKnown(s)])

(* As long as requests come one by one, every handle that resolves is in   *)
(* the record of the DID it resolves to, so that its holder can list and   *)
(* delete it, whatever the bridge took from whom, and also when requests   *)
(* of the kinds above were cut short between two writes                    *)
(* (anarchy-worker.js handleRegister, handleManage, deleteRegistryForDid). *)
ListedWhileSerial ==
  calm /\ Quiet /\ "unlisted" \notin cut => \A s \in Sub : Listed(s)

(* A record's secret was made for that record's DID, whatever races, stale *)
(* copies, restored backups and requests cut short do to it                *)
(* (anarchy-worker.js handleRegister, handleAdminAssignReserved,           *)
(* handleAdminImportRegistry).                                             *)
KeyCustody ==
  \A d \in DID : dids[d] # None /\ dids[d].key # None => issued[dids[d].key] = d

(* The list in a DID's record stays within the limit, also when            *)
(* registrations race: each writes the list it checked, with one more.     *)
(* DIDs that a handler without a limit has written (assignment, bridge,    *)
(* backfill) are excepted, and those of the VIP list                       *)
(* (anarchy-worker.js handleRegister).                                     *)
RecordWithinCap ==
  \A d \in DID \ (Vip \cup exempt) : Cardinality(HandlesOf(dids[d])) <= MaxHandles

(* However requests overlap, when they have all been answered a record's   *)
(* secret is known to a client, unless the request that made it was cut    *)
(* short (anarchy-worker.js handleRegister, handleAdminAssignReserved).    *)
KeysReachClients ==
  Quiet /\ "secret" \notin cut =>
    \A d \in DID : dids[d] # None => dids[d].key \in held \cup {None}

Ended(p, ops) == req[p].op \in ops /\ req'[p].op = None /\ faults' = faults

(* A backfill that ran alone leaves no handle unlisted, whatever races and *)
(* requests cut short left behind (handleAdminBackfillDidRecords).         *)
BackfillRepairs ==
  [][\A p \in Proc : Ended(p, {"backfill"}) /\ req[p].solo
       => \A s \in Sub : Listed(s)']_vars

(* When an account's deletion has been answered nothing resolves to it and *)
(* its record and secret are gone, as long as requests come one by one     *)
(* (deleteRegistryForDid, handleAdminDeleteAllForDid).                     *)
DeletedAccountGone ==
  [][\A p \in Proc :
       /\ Ended(p, {"deleteAccount", "accountDeleted", "adminDrop"}) /\ ~At(p, "pdsDelete")
       /\ calm /\ "unlisted" \notin cut
       => dids'[req[p].did] = None /\ \A s \in Sub : HandleWellKnown(s)' # req[p].did]_vars

(* One by one, a handle goes from one DID to another only by the handlers  *)
(* that do not look: the PDS's handle changes, and an import               *)
(* (setRegistryHandle, changeRegistryHandle, handleAdminImportRegistry).   *)
Overwriting == {"setHandle", "changeHandle", "updateHandle", "import"}

NoTakeoverWhileSerial ==
  [][\A s \in Sub : calm' /\ subs[s] # None /\ subs'[s] \notin {None, subs[s]}
       => \E p \in Busy : req[p].op \in Overwriting]_vars
=============================================================================
