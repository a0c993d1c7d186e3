------------------------------- MODULE Registry -------------------------------
(***************************************************************************)
(* The registry service: the request handlers of src/service.rs and the    *)
(* mutating handlers of src/handlers/admin.rs over the tables of           *)
(* migrations/0001_init.sql.                                               *)
(*                                                                         *)
(* Requests run concurrently.  Between two `.await`s on the database a     *)
(* request sees the tables as they are at that moment, and any other       *)
(* request may run in between, so each database call is one action.  A     *)
(* transaction of db.rs is one action too (StoreTx.tla takes it apart).    *)
(* What a request carries from one call to the next is its record in       *)
(* `req`.  A request may lose its client at any moment (the handler's      *)
(* future is dropped) and any database call may fail.                      *)
(***************************************************************************)
EXTENDS Naturals, Integers, FiniteSets

CONSTANTS
  DID, Sub, Host, Keyword,   \* valid normalised values
  Hits,          \* the subdomains a blocked keyword matches
  Secret,        \* 24-character user secrets
  Proc,          \* slots for concurrent requests
  Ops,           \* the kinds of request sent
  Listable,      \* <<list, value>> pairs the administrator adds and removes
  HandleLimit,   \* HANDLE_LIMIT_PER_DID
  Faults,        \* what may go wrong: "database", "disconnect"
  MaxFaults,     \* bound: how often it goes wrong
  None           \* absent

AllOps == {"register", "assign", "list", "delete", "adminDelete", "adminDrop"}

(* auth.rs hashes with SHA-256: injective for our purposes, and no hash is *)
(* itself a secret.                                                        *)
HashUserSecret(s) == <<"sha256", s>>
Hash == {HashUserSecret(s) : s \in Secret}

ASSUME RegistryAssumption ==
  /\ HandleLimit \in Nat \ {0}
  /\ MaxFaults \in Nat
  /\ Ops \subseteq AllOps
  /\ Hits \in [Keyword -> SUBSET Sub]
  /\ None \notin DID \cup Sub \cup Host \cup Secret \cup Hash \cup {HashUserSecret(None)}
  /\ IsFiniteSet(Sub) /\ IsFiniteSet(Proc) /\ IsFiniteSet(Secret)
  /\ Listable \subseteq {"blocked_dids", "vip_dids"} \X DID
                    \cup {"blocked_pds"} \X Host
                    \cup {"blocked_keywords"} \X Keyword
                    \cup {"reserved_handles"} \X Sub

VARIABLES
  dids,     \* table dids: the secret hash of a DID's row, or None
  handles,  \* table handles: the DID of a subdomain's row, or None
  config,   \* the five config tables: <<list, value>> pairs
  ledger,   \* per subdomain: claims minus removals in activity_log
  req,      \* the requests in flight
  issued,   \* history: the DID each secret was generated for, or None
  held,     \* history: secrets that reached a client
  exempt,   \* history: DIDs that were VIP or were assigned a handle
  faults    \* history: faults so far

vars == <<dids, handles, config, ledger, req, issued, held, exempt, faults>>

-----------------------------------------------------------------------------
(* Requests *)

PC == {"idle", "gate", "resolve", "blockedDid", "blockedPds", "logBlocked",
       "gateDid", "reserved", "keyword", "taken", "getDid", "count", "vip",
       "write", "find", "list", "remove", "drop", "log", "done"}

(* The steps that call the database. *)
DbPC == PC \ {"idle", "resolve", "done"}

Reply == {"Ok", "NotFound", "InvalidHandleFormat", "UnresolvableBlueskyHandle",
          "HandleUnavailable", "HandleLimitReached", "InvalidSecret",
          "SecretDoesNotControlHandle", "Database", "Nothing"}

Request == [op: AllOps \cup {"none"}, pc: PC, reply: Reply \cup {None},
            did: DID \cup {None}, sub: Sub \cup {None}, host: Host \cup {None},
            secret: Secret \cup {None},  \* presented, or generated
            isNew: BOOLEAN,              \* get_did found no row
            atCap: BOOLEAN,              \* the count read was at the limit
            gone: SUBSET Sub,            \* handles that went with a DID
            standing: SUBSET Listable]   \* history: listed ever since it began

Idle == [op |-> "none", pc |-> "idle", reply |-> None, did |-> None,
         sub |-> None, host |-> None, secret |-> None, isNew |-> FALSE,
         atCap |-> FALSE, gone |-> {}, standing |-> {}]

TypeOK ==
  /\ dids    \in [DID -> Hash \cup {None}]
  /\ handles \in [Sub -> DID \cup {None}]
  /\ config  \subseteq Listable
  /\ ledger  \in [Sub -> Int]
  /\ req     \in [Proc -> Request]
  /\ issued  \in [Secret -> DID \cup {None}]
  /\ held    \subseteq Secret
  /\ exempt  \subseteq DID
  /\ faults  \in Nat

Init ==
  /\ dids    = [d \in DID |-> None]
  /\ handles = [s \in Sub |-> None]
  /\ config  = {}
  /\ ledger  = [s \in Sub |-> 0]
  /\ req     = [p \in Proc |-> Idle]
  /\ issued  = [s \in Secret |-> None]
  /\ held    = {}
  /\ exempt  = {}
  /\ faults  = 0

tables  == <<dids, handles, config, ledger>>
history == <<issued, held, exempt, faults>>

At(p, label) == req[p].pc = label
Reads(p, label) == At(p, label) /\ UNCHANGED <<tables, history>>
Goto(p, label) == req' = [req EXCEPT ![p].pc = label]

(* An error answer leaves nothing behind; an Ok answer is built from what  *)
(* the request learned.                                                    *)
Refuse(p, code) == req' = [req EXCEPT ![p] = [Idle EXCEPT !.pc = "done", !.reply = code]]
AnswerOk(p) == req' = [req EXCEPT ![p].pc = "done", ![p].reply = "Ok"]

HandlesOf(d) == {s \in Sub : handles[s] = d}
Listed(list, value) == <<list, value>> \in config

(* Bound: secrets are never reused, so a request that may generate one     *)
(* only starts while there is a secret left for it.                        *)
SecretsRemain ==
  Cardinality({p \in Proc : req[p].op \in {"register", "assign"} /\ ~At(p, "done")})
    < Cardinality({s \in Secret : issued[s] = None})

Start(p, r) ==
  /\ Reads(p, "idle")
  /\ r.op \in Ops
  /\ req' = [req EXCEPT ![p] = r]

-----------------------------------------------------------------------------
(* POST /register *)

Register(p) ==
  \/ SecretsRemain /\ \E s \in Sub :
       Start(p, [Idle EXCEPT !.op = "register", !.pc = "gate", !.sub = s,
                             !.standing = config])
  \/ Start(p, [Idle EXCEPT !.op = "register", !.pc = "done",
                           !.reply = "InvalidHandleFormat"])

(* The per-IP limits, not modelled here (RateLimit.tla): either answer is  *)
(* possible.                                                               *)
Gate(p) ==
  /\ Reads(p, "gate")
  /\ \/ Refuse(p, "NotFound")
     \/ Goto(p, IF req[p].op = "register" THEN "resolve" ELSE "find")

ResolveHandle(p) ==
  /\ Reads(p, "resolve")
  /\ \/ Refuse(p, "UnresolvableBlueskyHandle")
     \/ \E d \in DID : req' = [req EXCEPT ![p].did = d, ![p].pc = "blockedDid"]

CheckBlockedDid(p) ==
  /\ Reads(p, "blockedDid")
  /\ Goto(p, IF Listed("blocked_dids", req[p].did) THEN "logBlocked" ELSE "blockedPds")

(* An unresolved PDS (None) is not checked. *)
CheckBlockedPds(p) ==
  /\ Reads(p, "blockedPds")
  /\ \E h \in Host \cup {None} :
       req' = [req EXCEPT ![p].host = h,
                          ![p].pc = IF h # None /\ Listed("blocked_pds", h)
                                    THEN "logBlocked" ELSE "gateDid"]

LogBlocked(p) ==
  /\ Reads(p, "logBlocked")
  /\ Refuse(p, "HandleUnavailable")

(* The per-DID and per-PDS limits. *)
GateDid(p) ==
  /\ Reads(p, "gateDid")
  /\ Refuse(p, "NotFound") \/ Goto(p, "reserved")

\* Mutant: the reserved list is not consulted.
CheckReservedSkipped(p) == Reads(p, "reserved") /\ Goto(p, "keyword")

CheckReserved(p) ==
  /\ Reads(p, "reserved")
  /\ IF Listed("reserved_handles", req[p].sub)
     THEN Refuse(p, "HandleUnavailable") ELSE Goto(p, "keyword")

HasBlockedKeyword(s, lists) ==
  \E k \in Keyword : <<"blocked_keywords", k>> \in lists /\ s \in Hits[k]

CheckKeyword(p) ==
  /\ Reads(p, "keyword")
  /\ Goto(p, IF HasBlockedKeyword(req[p].sub, config) THEN "logBlocked" ELSE "taken")

CheckTaken(p) ==
  /\ Reads(p, "taken")
  /\ IF handles[req[p].sub] # None
     THEN Refuse(p, "HandleUnavailable") ELSE Goto(p, "getDid")

GetDid(p) ==
  LET new == dids[req[p].did] = None IN
  /\ Reads(p, "getDid")
  /\ req' = [req EXCEPT ![p].isNew = new,
                        ![p].pc = IF new \/ req[p].op = "assign" THEN "write" ELSE "count"]

\* Mutant: > for >=.
CountHandlesOffByOne(p) ==
  /\ Reads(p, "count")
  /\ req' = [req EXCEPT ![p].atCap = Cardinality(HandlesOf(req[p].did)) > HandleLimit,
                        ![p].pc = "vip"]

CountHandles(p) ==
  /\ Reads(p, "count")
  /\ req' = [req EXCEPT ![p].atCap = Cardinality(HandlesOf(req[p].did)) >= HandleLimit,
                        ![p].pc = "vip"]

CheckVip(p) ==
  /\ Reads(p, "vip")
  /\ IF ~Listed("vip_dids", req[p].did) /\ req[p].atCap
     THEN Refuse(p, "HandleLimitReached") ELSE Goto(p, "write")

-----------------------------------------------------------------------------
(* The write of a claim: the constraints of the two tables decide. *)

InsertHandle(p) ==
  /\ handles' = [handles EXCEPT ![req[p].sub] = req[p].did]
  /\ exempt'  = IF req[p].op = "assign" THEN exempt \cup {req[p].did} ELSE exempt
  /\ UNCHANGED <<config, ledger, held, faults>>

RegisterNewDidWithHandle(p) ==
  LET d == req[p].did IN
  /\ At(p, "write") /\ req[p].isNew
  /\ dids[d] = None /\ handles[req[p].sub] = None
  /\ \E s \in Secret :
       /\ issued[s] = None
       /\ dids'   = [dids EXCEPT ![d] = HashUserSecret(s)]
       /\ issued' = [issued EXCEPT ![s] = d]
       /\ req'    = [req EXCEPT ![p].secret = s, ![p].pc = "log"]
  /\ InsertHandle(p)

AddHandle(p) ==
  /\ At(p, "write") /\ ~req[p].isNew
  /\ handles[req[p].sub] = None /\ dids[req[p].did] # None
  /\ Goto(p, "log")
  /\ InsertHandle(p)
  /\ UNCHANGED <<dids, issued>>

\* Mutant: a conflict is retried instead of answered.
RaceRetried(p) ==
  /\ Reads(p, "write")
  /\ handles[req[p].sub] # None \/ (req[p].isNew /\ dids[req[p].did] # None)
  /\ Goto(p, "getDid")

(* Unique and primary-key violations become HandleUnavailable; the foreign *)
(* key's does not.                                                         *)
RaceToUnavailable(p) ==
  /\ Reads(p, "write")
  /\ handles[req[p].sub] # None \/ (req[p].isNew /\ dids[req[p].did] # None)
  /\ Refuse(p, "HandleUnavailable")

ForeignKeyViolation(p) ==
  /\ Reads(p, "write") /\ ~req[p].isNew
  /\ handles[req[p].sub] = None /\ dids[req[p].did] = None
  /\ Refuse(p, "Database")

-----------------------------------------------------------------------------
(* POST /manage *)

(* A client presents a secret it was given, or one that was never issued.  *)
Manage(p) ==
  \/ \E k \in held \cup {None} :
       \/ Start(p, [Idle EXCEPT !.op = "list", !.pc = "gate", !.secret = k])
       \/ \E s \in Sub :
            Start(p, [Idle EXCEPT !.op = "delete", !.pc = "gate", !.secret = k, !.sub = s])
  \/ Start(p, [Idle EXCEPT !.op = "delete", !.pc = "done",
                           !.reply = "SecretDoesNotControlHandle"])

FindDidForSecret(p) ==
  LET owners == {d \in DID : dids[d] = HashUserSecret(req[p].secret)} IN
  /\ Reads(p, "find")
  /\ IF owners = {}
     THEN Refuse(p, "InvalidSecret")
     ELSE \E d \in owners :
            req' = [req EXCEPT ![p].did = d,
                               ![p].pc = IF req[p].op = "list" THEN "list" ELSE "remove"]

ListHandles(p) ==
  /\ Reads(p, "list")
  /\ AnswerOk(p)

-----------------------------------------------------------------------------
(* POST {ADMIN_PATH}/assign-handle, delete-handle, delete-did *)

AdminAssignHandle(p) ==
  \/ SecretsRemain /\ \E d \in DID, s \in Sub :
       Start(p, [Idle EXCEPT !.op = "assign", !.pc = "taken", !.did = d, !.sub = s])
  \/ Start(p, [Idle EXCEPT !.op = "assign", !.pc = "done",
                           !.reply = "InvalidHandleFormat"])

AdminDeleteHandle(p) ==
  \E d \in DID, s \in Sub :
    Start(p, [Idle EXCEPT !.op = "adminDelete", !.pc = "remove", !.did = d, !.sub = s])

AdminDeleteDid(p) ==
  \E d \in DID : Start(p, [Idle EXCEPT !.op = "adminDrop", !.pc = "drop", !.did = d])

-----------------------------------------------------------------------------
(* The two removals, and the activity log *)

\* Mutant: the row of a DID without handles stays.
DeleteHandleOnly(p) ==
  /\ At(p, "remove")
  /\ handles[req[p].sub] = req[p].did
  /\ handles' = [handles EXCEPT ![req[p].sub] = None]
  /\ Goto(p, "log")
  /\ UNCHANGED <<dids, config, ledger, history>>

\* Mutant: the handle is deleted by subdomain alone.
DeleteAnyones(p) ==
  /\ At(p, "remove")
  /\ handles[req[p].sub] # None
  /\ handles' = [handles EXCEPT ![req[p].sub] = None]
  /\ dids'    = IF \E t \in Sub : handles'[t] = req[p].did
                THEN dids ELSE [dids EXCEPT ![req[p].did] = None]
  /\ Goto(p, "log")
  /\ UNCHANGED <<config, ledger, history>>

DeleteHandleAndMaybeDid(p) ==
  LET d == req[p].did
      s == req[p].sub
  IN
  /\ At(p, "remove")
  /\ handles[s] = d
  /\ handles' = [handles EXCEPT ![s] = None]
  /\ dids'    = IF \E t \in Sub : handles'[t] = d THEN dids ELSE [dids EXCEPT ![d] = None]
  /\ Goto(p, "log")
  /\ UNCHANGED <<config, ledger, history>>

\* Mutant: a removal that removed nothing is logged.
DeleteLogsNothing(p) ==
  /\ Reads(p, "remove")
  /\ handles[req[p].sub] # req[p].did
  /\ Goto(p, "log")

DeleteFindsNothing(p) ==
  /\ Reads(p, "remove")
  /\ handles[req[p].sub] # req[p].did
  /\ Refuse(p, IF req[p].op = "delete" THEN "SecretDoesNotControlHandle" ELSE "Nothing")

\* Mutant: foreign keys are not enforced.
DeleteDidOnly(p) ==
  LET d == req[p].did IN
  /\ At(p, "drop")
  /\ IF dids[d] = None
     THEN Refuse(p, "Nothing") /\ UNCHANGED dids
     ELSE /\ dids' = [dids EXCEPT ![d] = None]
          /\ req'  = [req EXCEPT ![p].gone = HandlesOf(d), ![p].pc = "log"]
  /\ UNCHANGED <<handles, config, ledger, history>>

(* The handles go by ON DELETE CASCADE. *)
DeleteDidAndHandles(p) ==
  LET d == req[p].did IN
  /\ At(p, "drop")
  /\ IF dids[d] = None
     THEN Refuse(p, "Nothing") /\ UNCHANGED <<dids, handles>>
     ELSE /\ dids'    = [dids EXCEPT ![d] = None]
          /\ handles' = [s \in Sub |-> IF handles[s] = d THEN None ELSE handles[s]]
          /\ req'     = [req EXCEPT ![p].gone = HandlesOf(d), ![p].pc = "log"]
  /\ UNCHANGED <<config, ledger, history>>

(* What the event of a finished change adds to the ledger.  An             *)
(* admin_delete_all stands for the removal of every handle that went.      *)
Entry(r, s) ==
  CASE r.op \in {"register", "assign"}    -> IF r.sub = s THEN 1 ELSE 0
    [] r.op \in {"delete", "adminDelete"} -> IF r.sub = s THEN -1 ELSE 0
    [] OTHER                              -> IF s \in r.gone THEN -1 ELSE 0

\* Mutant: the answer is rebuilt after logging, without the secret.
LogEventForgets(p) ==
  /\ At(p, "log")
  /\ ledger' = [s \in Sub |-> ledger[s] + Entry(req[p], s)]
  /\ Refuse(p, "Ok")
  /\ UNCHANGED <<dids, handles, config, history>>

LogEvent(p) ==
  /\ At(p, "log")
  /\ ledger' = [s \in Sub |-> ledger[s] + Entry(req[p], s)]
  /\ AnswerOk(p)
  /\ UNCHANGED <<dids, handles, config, history>>

-----------------------------------------------------------------------------
(* POST {ADMIN_PATH}/config: one statement, nothing to interleave with.    *)

ConfigAdd(list, value) ==
  /\ config' = config \cup {<<list, value>>}
  /\ exempt' = IF list = "vip_dids" THEN exempt \cup {value} ELSE exempt
  /\ UNCHANGED <<dids, handles, ledger, req, issued, held, faults>>

ConfigRemove(list, value) ==
  /\ Listed(list, value)
  /\ config' = config \ {<<list, value>>}
  /\ req'    = [p \in Proc |-> [req[p] EXCEPT !.standing = @ \ {<<list, value>>}]]
  /\ UNCHANGED <<dids, handles, ledger, history>>

-----------------------------------------------------------------------------
(* The client and what may go wrong *)

\* Mutant: every answer is taken to carry a secret.
ReceiveBlindly(p) ==
  /\ At(p, "done")
  /\ held' = held \cup {req[p].secret}
  /\ req'  = [req EXCEPT ![p] = Idle]
  /\ UNCHANGED <<tables, issued, exempt, faults>>

Receive(p) ==
  /\ At(p, "done")
  /\ held' = IF req[p].reply = "Ok" /\ req[p].secret # None
             THEN held \cup {req[p].secret} ELSE held
  /\ req'  = [req EXCEPT ![p] = Idle]
  /\ UNCHANGED <<tables, issued, exempt, faults>>

Fault(kind) ==
  /\ kind \in Faults
  /\ faults < MaxFaults
  /\ faults' = faults + 1

(* A failed call changes nothing (a transaction is rolled back) and `?`    *)
(* ends the request.                                                       *)
DatabaseError(p) ==
  /\ req[p].pc \in DbPC
  /\ Fault("database")
  /\ Refuse(p, "Database")
  /\ UNCHANGED <<tables, issued, held, exempt>>

(* The connection goes away, or the process is killed: the request stops   *)
(* where it is, or its answer is lost.                                     *)
Disconnect(p) ==
  /\ ~At(p, "idle")
  /\ Fault("disconnect")
  /\ req' = [req EXCEPT ![p] = Idle]
  /\ UNCHANGED <<tables, issued, held, exempt>>

-----------------------------------------------------------------------------
Begin(p) ==
  \/ Register(p) \/ Manage(p)
  \/ AdminAssignHandle(p) \/ AdminDeleteHandle(p) \/ AdminDeleteDid(p)

(* The write steps, and all the steps the server takes on its own. *)
WriteStep(p) ==
  \/ RegisterNewDidWithHandle(p) \/ AddHandle(p)
  \/ DeleteHandleAndMaybeDid(p) \/ DeleteDidAndHandles(p)

ReadStep(p) ==
  \/ Gate(p) \/ ResolveHandle(p) \/ CheckBlockedDid(p) \/ CheckBlockedPds(p)
  \/ LogBlocked(p) \/ GateDid(p) \/ CheckReserved(p) \/ CheckKeyword(p)
  \/ CheckTaken(p) \/ GetDid(p) \/ CountHandles(p) \/ CheckVip(p)
  \/ RaceToUnavailable(p) \/ ForeignKeyViolation(p)
  \/ FindDidForSecret(p) \/ ListHandles(p) \/ DeleteFindsNothing(p)

Serve(p) == WriteStep(p) \/ ReadStep(p) \/ LogEvent(p)

Next ==
  \/ \E p \in Proc : \/ Begin(p) \/ Serve(p) \/ Receive(p)
                     \/ DatabaseError(p) \/ Disconnect(p)
  \/ \E c \in Listable : ConfigAdd(c[1], c[2]) \/ ConfigRemove(c[1], c[2])

Spec == Init /\ [][Next]_vars

(* Tokio polls every ready task; the resolver times out after 10 s         *)
(* (atproto.rs), a busy database after 5 s (db.rs).  Nothing obliges a     *)
(* client or the administrator to do anything.                             *)
FairSpec == Spec /\ \A p \in Proc : WF_vars(Serve(p))

-----------------------------------------------------------------------------
(* Properties that hold *)

Store == INSTANCE HandleStore
           WITH cred  <- dids,
                owner <- handles,
                spent <- {HashUserSecret(s) : s \in {t \in Secret : issued[t] # None}}

(* However requests interleave, fail or are cut off, the two tables only   *)
(* ever change as HandleStore says: each handler is atomic in effect.      *)
ImplementsHandleStore == Store!Spec

(* A committed row of handles has its row of dids and the other way round, *)
(* with register, manage and the admin removals racing (db.rs              *)
(* register_new_did_with_handle, add_handle, delete_handle_and_maybe_did,  *)
(* delete_did_and_handles).                                                *)
TablesAgree == Store!TablesAgree

(* A registration that was committed broke no ban that had been in force   *)
(* since the request came in (service.rs register, steps 4, 5 and 7), and  *)
(* bans added or lifted on the way are no excuse.                          *)
BansRespected ==
  \A p \in Proc :
    LET r == req[p] IN
    r.op = "register" /\ At(p, "log") =>
      /\ <<"blocked_dids", r.did>> \notin r.standing
      /\ <<"blocked_pds", r.host>> \notin r.standing
      /\ <<"reserved_handles", r.sub>> \notin r.standing
      /\ ~HasBlockedKeyword(r.sub, r.standing)

(* The cap is checked before the insert and not enforced by it (service.rs *)
(* register, steps 8 and 9): it can be exceeded, but only by what the      *)
(* other requests in flight can add.                                       *)
CapOvershootBounded ==
  \A d \in DID \ exempt :
    Cardinality(HandlesOf(d)) <= HandleLimit - 1 + Cardinality(Proc)

(* Claims and removals of a handle in the activity log add up to whether   *)
(* the handle is taken, counting the events still to be written by         *)
(* requests past their commit; nothing is logged twice, for nothing, or    *)
(* not at all (the log_event calls of service.rs and handlers/admin.rs).   *)
Unlogged(s) == {p \in Proc : At(p, "log") /\ Entry(req[p], s) = 1}
UnloggedRemoval(s) == {p \in Proc : At(p, "log") /\ Entry(req[p], s) = -1}

AuditBalance ==
  faults = 0 =>
    \A s \in Sub :
      ledger[s] + Cardinality(Unlogged(s)) - Cardinality(UnloggedRemoval(s))
        = IF handles[s] = None THEN 0 ELSE 1

(* While nothing fails, the secret behind every row of dids is known to a  *)
(* client or on its way to one (service.rs register step 10).              *)
OnItsWay(s) == \E p \in Proc : req[p].pc \in {"log", "done"} /\ req[p].secret = s

KeysReachClients ==
  faults = 0 => \A s \in Secret :
    (\E d \in DID : dids[d] = HashUserSecret(s)) => s \in held \/ OnItsWay(s)

(* A /manage removal takes a handle of the DID that the presented secret   *)
(* was generated for, also when that DID was dropped and claimed anew      *)
(* after the lookup (service.rs delete_handle).                            *)
RemovalByHolder ==
  [][\A p \in Proc :
       req[p].op = "delete" /\ At(p, "remove") /\ req'[p].pc = "log"
         => handles[req[p].sub] = issued[req[p].secret] /\ issued[req[p].secret] # None]_vars

(* Every request that was accepted is answered. *)
RequestsAnswered ==
  \A p \in Proc : ~At(p, "idle") ~> req[p].pc \in {"done", "idle"}

-----------------------------------------------------------------------------
(* What the documentation says and the code does not do *)

(* DESIGN.md: "first claim for a DID returns a 24-char secret key": a DID  *)
(* that has a row has a client who can manage it, or is about to.          *)
FirstClaimReturnsSecret ==
  \A s \in Secret :
    (\E d \in DID : dids[d] = HashUserSecret(s)) => s \in held \/ OnItsWay(s)
=============================================================================
