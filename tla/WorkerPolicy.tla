----------------------------- MODULE WorkerPolicy -----------------------------
(***************************************************************************)
(* What the legacy worker (reference/anarchy-worker.js) keeps beside the   *)
(* registry, and what a request meets on its way there: the lists of       *)
(* config:vip, config:block and config:reserved and the console that edits *)
(* them, the counters of the rate limits, the activity log, the            *)
(* administrator's session.                                                *)
(*                                                                         *)
(* Each of these is a document of the key-value store that is read,        *)
(* changed in memory and written back whole; a request is the calls it     *)
(* still has to make, one by one.  What it does to the registry is in      *)
(* Worker: here it ends where it gets there, and with its log entry.       *)
(***************************************************************************)
EXTENDS Integers, Sequences, FiniteSets

CONSTANTS
  Applicant,    \* a DID, with its PDS's host and the handle it asks for
  Proc,         \* slots for requests
  Ops,          \* kinds of request there are
  Together,     \* bound: kinds that may overlap with each other
  Change,       \* changes the administrator makes
  StartLists,   \* the lists to begin with
  Limit,        \* maxCount of each guard
  VipLimit,     \* that of the per-DID guard for VIPs
  MaxEvents,    \* MAX_ACTIVITY_EVENTS
  MaxRequests,  \* bound: requests in all
  MaxFaults,    \* bound: calls that fail
  None

List  == {"vipDids", "blockDids", "blockPds", "blockedKeywords", "reservedHandles"}
Bans  == List \ {"vipDids"}
Guard == {"global", "burst", "hour", "did", "pds", "ops"}
AllOps == {"register", "remove", "assign", "login", "logout", "post", "export", "import"}

Lists == [List -> SUBSET Applicant]
NoLists == [l \in List |-> {}]

(* The lists that share a document, by the call that loads or saves it. *)
Loads == {"loadVip", "loadBlock", "loadReserved"}
Saves == {"saveVip", "saveBlock", "saveReserved"}
In(call) == IF call \in {"loadVip", "saveVip"} THEN {"vipDids"}
            ELSE IF call \in {"loadBlock", "saveBlock"} THEN Bans \ {"reservedHandles"}
            ELSE {"reservedHandles"}

(* The calls of a request; "bump" is the second half of a guard. *)
Call == Loads \cup Saves \cup Guard
          \cup {"login", "logout", "view", "show", "dump", "resolveDid", "resolvePds",
                "bump", "register", "readLog", "writeLog"}

Changes == {"add", "remove"} \X List \X Applicant

ASSUME PolicyAssumption ==
  /\ Ops \subseteq AllOps /\ Change \subseteq Changes /\ StartLists \subseteq Lists
  /\ Limit \in [Guard -> Nat] /\ VipLimit \in Nat /\ MaxEvents \in Nat \ {0}
  /\ None \notin Applicant \cup Changes \cup Lists \cup Guard \cup AllOps

VARIABLES
  config,    \* the stored lists
  screen,    \* the lists the console shows, None when it is not open
  file,      \* the exported lists, or None
  session,   \* the browser has the cookie anarchy_admin
  counts,    \* the counters of the current windows
  log,       \* activity:recent: the events' numbers
  req,
  attempts,  \* history: calls of incrementGuard in the current windows
  logged,    \* history: events written
  calm,      \* history: no two requests were served at once
  requests, faults

vars == <<config, screen, file, session, counts, log, req, attempts, logged, calm,
          requests, faults>>

(* Guards of the IP address, and those of the DID and its PDS. *)
Counter == ((Guard \ {"did", "pds"}) \X {None}) \cup ({"did", "pds"} \X Applicant)

Request == [op : AllOps \cup {None}, calls : Seq(Call),
            who : Applicant \cup {None}, change : Changes \cup {None},
            lists : Lists, guard : Guard \cup {None}, late : BOOLEAN, pds : BOOLEAN,
            seen : Nat, copy : Seq(Nat), bans : SUBSET Bans, alone : BOOLEAN]

NoRequest == [op |-> None, calls |-> <<>>, who |-> None, change |-> None,
              lists |-> NoLists, guard |-> None, late |-> FALSE, pds |-> FALSE,
              seen |-> 0, copy |-> <<>>, bans |-> {}, alone |-> FALSE]

(* The log never outgrows MAX_ACTIVITY_EVENTS (logActivity). *)
TypeOK ==
  /\ config \in Lists /\ screen \in Lists \cup {None} /\ file \in Lists \cup {None}
  /\ session \in BOOLEAN
  /\ counts \in [Counter -> Nat] /\ attempts \in [Counter -> Nat]
  /\ log \in Seq(Nat) /\ Len(log) <= MaxEvents
  /\ req \in [Proc -> Request]
  /\ logged \in Nat /\ calm \in BOOLEAN /\ requests \in Nat /\ faults \in Nat

Init ==
  /\ config \in StartLists
  /\ session \in BOOLEAN
  /\ screen = IF session THEN config ELSE None
  /\ file = None
  /\ counts = [c \in Counter |-> 0] /\ attempts = counts
  /\ log = <<>> /\ logged = 0
  /\ req = [p \in Proc |-> NoRequest]
  /\ calm = TRUE /\ requests = 0 /\ faults = 0

Busy  == {p \in Proc : req[p].op # None}
Quiet == Busy = {}

-----------------------------------------------------------------------------
(* The calls of each handler, in the order it makes them, after the global *)
(* limit of the router.  A browser sends the administrator's cookie to     *)
(* /gg alone, not to /register, /m or /delete; a client that sends it      *)
(* there anyway is let past the limits as a trusted address is.            *)

Tiers == {"plain", "trusted", "noIp"}

GlobalLimit(tier) == IF tier = "plain" THEN <<"global">> ELSE <<>>

RegisterLimits(tier) ==
  IF tier = "plain" THEN <<"burst", "hour", "did", "pds">>
  ELSE IF tier = "noIp" THEN <<"did", "pds">> ELSE <<>>

\* Mutant: only assignments look at the reserved handles.
HandleRegisterUnreserved(tier) ==
  <<"loadBlock", "resolveDid", "resolvePds", "loadVip">>
    \o RegisterLimits(tier) \o <<"register", "readLog", "writeLog">>

HandleRegister(tier) ==
  <<"loadBlock", "loadReserved", "resolveDid", "resolvePds", "loadVip">>
    \o RegisterLimits(tier) \o <<"register", "readLog", "writeLog">>

(* handleDelete, handleManage; and the console's deletions, unlimited *)
HandleDelete(tier) ==
  (IF tier = "plain" THEN <<"ops">> ELSE <<>>) \o <<"register", "readLog", "writeLog">>

\* Mutant: the console's lists come without the reserved handles.
LoadPolicyUnreserved == <<"view", "loadVip", "loadBlock", "show">>

LoadPolicy == <<"view", "loadVip", "loadBlock", "loadReserved", "show">>

HandleAdminConfigPost ==
  <<"loadVip", "loadBlock", "loadReserved", "saveVip", "saveBlock", "saveReserved">>
HandleAdminImportConfig == <<"saveVip", "saveBlock", "saveReserved">>
HandleAdminExportConfig == <<"loadVip", "loadBlock", "loadReserved", "dump">>
HandleAdminAssignReserved == <<"loadReserved", "register", "readLog", "writeLog">>

-----------------------------------------------------------------------------
(* Requests come in *)

At(p, call)   == req[p].op # None /\ Head(req[p].calls) = call
Rest(q)       == [q EXCEPT !.calls = Tail(@)]
Go(p, q)      == req' = [req EXCEPT ![p] = IF q.calls = <<>> THEN NoRequest ELSE q]
Answer(p)     == req' = [req EXCEPT ![p] = NoRequest]

Writers == {"post", "import"}

(* Bans an applicant falls under *)
Against(a) == {l \in Bans : a \in config[l]}

NoWriter == \A o \in Busy : req[o].op \notin Writers

Entering(op, calls, q) == [q EXCEPT !.op = op, !.calls = calls, !.bans = Against(q.who),
                                    !.alone = NoWriter]
Joined(op, q) == IF op \in Writers THEN [q EXCEPT !.alone = FALSE] ELSE q

Receive(p, op, calls, q) ==
  /\ op \in Ops /\ req[p].op = None
  /\ requests < MaxRequests /\ requests' = requests + 1
  /\ \A o \in Busy : {op, req[o].op} \subseteq Together
  /\ req' = [o \in Proc |-> IF o = p THEN Entering(op, calls, q) ELSE Joined(op, req[o])]
  /\ calm' = (calm /\ Quiet)
  /\ UNCHANGED <<config, screen, file, session, counts, log, attempts, logged, faults>>

Asks(a) == [NoRequest EXCEPT !.who = a]

ReceiveVisitor(p) ==
  \E tier \in Tiers :
    \/ \E a \in Applicant :
         Receive(p, "register", GlobalLimit(tier) \o HandleRegister(tier), Asks(a))
    \/ Receive(p, "remove", GlobalLimit(tier) \o HandleDelete(tier), NoRequest)
    \/ Receive(p, "login", GlobalLimit(tier) \o <<"login">>, NoRequest)

(* The console's buttons.  Each posts one change and then loads the lists, *)
(* and nothing keeps the next one from being pressed meanwhile.            *)
PostConfig(p) ==
  \E c \in Change : Receive(p, "post", HandleAdminConfigPost \o LoadPolicy,
                            [NoRequest EXCEPT !.change = c])

ImportConfigFromFile(p) ==
  /\ file # None
  /\ Receive(p, "import", HandleAdminImportConfig \o LoadPolicy,
             [NoRequest EXCEPT !.lists = file])

AssignReservedHandle(p) ==
  \E a \in Applicant :
    Receive(p, "assign", HandleAdminAssignReserved \o LoadPolicy, Asks(a))

(* Bound: nobody logs out while the console waits for an answer. *)
ReceiveConsole(p) ==
  /\ session
  /\ \/ PostConfig(p) \/ ImportConfigFromFile(p) \/ AssignReservedHandle(p)
     \/ Receive(p, "export", HandleAdminExportConfig, NoRequest)
     \/ /\ \A o \in Busy : req[o].op \in {"register", "remove"}
        /\ Receive(p, "logout", <<"logout">>, NoRequest)

-----------------------------------------------------------------------------
(* The administrator's session *)

(* handleAdminPost: the right token or a wrong one; the page that answers  *)
(* loads the lists.                                                        *)
Login(p) ==
  /\ At(p, "login")
  /\ \/ /\ session' = TRUE
        /\ screen' = IF screen = None THEN NoLists ELSE screen
        /\ Go(p, [req[p] EXCEPT !.calls = LoadPolicy])
     \/ Answer(p) /\ UNCHANGED <<session, screen>>
  /\ UNCHANGED <<config, file, counts, log, attempts, logged, calm, requests, faults>>

HandleAdminLogout(p) ==
  /\ At(p, "logout")
  /\ session' = FALSE /\ screen' = None
  /\ Answer(p)
  /\ UNCHANGED <<config, file, counts, log, attempts, logged, calm, requests, faults>>

-----------------------------------------------------------------------------
(* The lists *)

(* What the rest of a request needs of what it has read: nothing *)
Forgetting(q) == [NoRequest EXCEPT !.op = q.op, !.calls = Tail(q.calls)]

Blocked(q) == [Forgetting(q) EXCEPT !.calls = <<"readLog", "writeLog">>]

Local == UNCHANGED <<config, screen, file, session, counts, log, attempts, logged, calm,
                     requests, faults>>

Read(q, call) == [l \in List |-> IF l \in In(call) THEN config[l] ELSE q.lists[l]]

(* What a handler refuses right after it read a document: a keyword or a   *)
(* reserved handle, and the assignment of one that is not reserved.        *)
Refused(q, call) ==
  \/ q.op = "register" /\ call = "loadBlock" /\ q.who \in config["blockedKeywords"]
  \/ q.op = "register" /\ call = "loadReserved" /\ q.who \in config["reservedHandles"]
  \/ /\ q.op = "assign" /\ "register" \in {q.calls[i] : i \in 1 .. Len(q.calls)}
     /\ q.who \notin config["reservedHandles"]

(* loadVipConfig, loadBlockConfig, loadReservedConfig *)
LoadConfig(p) ==
  \E call \in Loads :
    /\ At(p, call)
    /\ IF Refused(req[p], call) THEN Answer(p)
       ELSE Go(p, [Rest(req[p]) EXCEPT !.lists = Read(req[p], call)])
    /\ Local

Edited(lists, c) ==
  IF c = None THEN lists
  ELSE [lists EXCEPT ![c[2]] = IF c[1] = "add" THEN @ \cup {c[3]} ELSE @ \ {c[3]}]

\* Mutant: a document the request does not change is saved empty.
SavedFromScratch(q, call) ==
  [l \in List |-> IF l \in In(call) THEN Edited(NoLists, q.change)[l] ELSE config[l]]

Saved(q, call) ==
  [l \in List |-> IF l \in In(call) THEN Edited(q.lists, q.change)[l] ELSE config[l]]

(* saveVipConfig, saveBlockConfig, saveReservedConfig: whole documents.    *)
(* A ban has not been in force throughout once it was lifted.              *)
SaveConfig(p) ==
  \E call \in Saves :
    /\ At(p, call)
    /\ config' = Saved(req[p], call)
    /\ req' = [o \in Proc |-> IF o = p THEN Rest(req[p])
         ELSE [req[o] EXCEPT !.bans = {l \in @ : req[o].who \in config'[l]}]]
    /\ UNCHANGED <<screen, file, session, counts, log, attempts, logged, calm, requests,
                   faults>>

(* The export leaves the keywords out. *)
ExportConfig(p) ==
  /\ At(p, "dump")
  /\ file' = [req[p].lists EXCEPT !["blockedKeywords"] = {}]
  /\ Answer(p)
  /\ UNCHANGED <<config, screen, session, counts, log, attempts, logged, calm, requests,
                 faults>>

(* handleAdminConfigGet asks for the cookie again. *)
ViewConfig(p) ==
  /\ At(p, "view")
  /\ IF session THEN Go(p, Forgetting(req[p])) ELSE Answer(p)
  /\ Local

(* loadPolicy *)
ShowPolicy(p) ==
  /\ At(p, "show")
  /\ screen' = req[p].lists
  /\ Answer(p)
  /\ UNCHANGED <<config, file, session, counts, log, attempts, logged, calm, requests,
                 faults>>

-----------------------------------------------------------------------------
(* On the way to the registry *)

(* resolveDidFromHandle, then the blocked DIDs of the lists read before;   *)
(* a refusal is logged.                                                    *)
ResolveDid(p) ==
  LET q == req[p] IN
  /\ At(p, "resolveDid")
  /\ \/ Answer(p)
     \/ Go(p, IF q.who \in q.lists["blockDids"]
              THEN Blocked(q) ELSE Rest(q))
  /\ Local

(* resolvePdsHostForDid finds a host or none; without one there is neither *)
(* a ban nor, later, a limit.                                              *)
ResolvePdsHost(p) ==
  LET q == req[p] IN
  /\ At(p, "resolvePds")
  /\ \E found \in BOOLEAN :
       Go(p, IF found /\ q.who \in q.lists["blockPds"]
             THEN Blocked(q) ELSE [Rest(q) EXCEPT !.pds = found])
  /\ Local

SkipPdsGuard(p) ==
  /\ At(p, "pds") /\ ~req[p].pds
  /\ Go(p, Rest(req[p]))
  /\ Local

CounterOf(q, g) == <<g, IF g \in {"did", "pds"} THEN q.who ELSE None>>

MaxCount(q) == IF q.guard = "did" /\ q.who \in q.lists["vipDids"]
               THEN VipLimit ELSE Limit[q.guard]

Counting(q, g) == [q EXCEPT !.guard = g, !.seen = counts[CounterOf(q, g)],
                            !.late = FALSE, !.calls[1] = "bump"]

(* incrementGuard picks the counter of the window and reads it... *)
ReadGuard(p) ==
  \E g \in Guard :
    /\ At(p, g)
    /\ g = "pds" => req[p].pds
    /\ attempts' = [attempts EXCEPT ![CounterOf(req[p], g)] = @ + 1]
    /\ Go(p, Counting(req[p], g))
    /\ UNCHANGED <<config, screen, file, session, counts, log, logged, calm, requests,
                   faults>>

(* ...and writes it back: nobody reads the counter of a window that ended. *)
BumpGuard(p) ==
  LET q == req[p] IN
  /\ At(p, "bump")
  /\ counts' = IF q.late THEN counts
               ELSE [counts EXCEPT ![CounterOf(q, q.guard)] = q.seen + 1]
  /\ IF q.seen + 1 > MaxCount(q) THEN Answer(p)
     ELSE Go(p, [Rest(q) EXCEPT !.guard = None, !.seen = 0, !.late = FALSE])
  /\ UNCHANGED <<config, screen, file, session, log, attempts, logged, calm, requests,
                 faults>>

(* The registry: it refuses, or does what it is asked. *)
Registry(p) ==
  /\ At(p, "register")
  /\ Answer(p) \/ Go(p, Forgetting(req[p]))
  /\ Local

ReadLog(p) ==
  /\ At(p, "readLog")
  /\ Go(p, [Rest(req[p]) EXCEPT !.copy = log])
  /\ Local

Last(s, n) == SubSeq(s, IF Len(s) > n THEN Len(s) - n + 1 ELSE 1, Len(s))

\* Mutant: the log is cut before the new event is added.
LogActivityCutsFirst(s, e) == Append(Last(s, MaxEvents), e)

\* Mutant: the new event goes in front, and the front is cut off.
LogActivityUnshifts(s, e) == Last(<<e>> \o s, MaxEvents)

LogActivity(s, e) == Last(Append(s, e), MaxEvents)

WriteLog(p) ==
  /\ At(p, "writeLog")
  /\ logged' = logged + 1
  /\ log' = LogActivity(req[p].copy, logged')
  /\ Go(p, Forgetting(req[p]))
  /\ UNCHANGED <<config, screen, file, session, counts, attempts, calm, requests, faults>>

-----------------------------------------------------------------------------
(* Time, and calls that fail *)

Began(gs) == {c \in Counter : c[1] \in gs}

\* Mutant: the counter's key has no window in it.
NewWindowSameKey(gs) ==
  /\ attempts' = [c \in Counter |-> IF c \in Began(gs) THEN 0 ELSE attempts[c]]
  /\ UNCHANGED <<counts, req>>

(* A new window of these guards: a new key.  A call of incrementGuard that *)
(* has chosen its key already keeps it.                                    *)
NewWindow(gs) ==
  /\ counts' = [c \in Counter |-> IF c \in Began(gs) THEN 0 ELSE counts[c]]
  /\ attempts' = [c \in Counter |-> IF c \in Began(gs) THEN 0 ELSE attempts[c]]
  /\ req' = [p \in Proc |-> IF req[p].guard \in gs /\ At(p, "bump")
                            THEN [req[p] EXCEPT !.late = TRUE] ELSE req[p]]

Tick ==
  /\ \E gs \in {{"burst"}, Guard} : NewWindow(gs)
  /\ UNCHANGED <<config, screen, file, session, log, logged, calm, requests, faults>>

(* A call fails and the request with it; /m and /delete go on without      *)
(* their limit.                                                            *)
CutShort(p) ==
  LET q == req[p] IN
  /\ q.op # None
  /\ faults < MaxFaults /\ faults' = faults + 1
  /\ IF At(p, "ops") \/ (At(p, "bump") /\ q.guard = "ops") THEN Go(p, Rest(q)) ELSE Answer(p)
  /\ UNCHANGED <<config, screen, file, session, counts, log, attempts, logged, calm,
                 requests>>

Next ==
  \/ \E p \in Proc :
       \/ ReceiveVisitor(p) \/ ReceiveConsole(p)
       \/ Login(p) \/ HandleAdminLogout(p)
       \/ LoadConfig(p) \/ SaveConfig(p) \/ ExportConfig(p) \/ ViewConfig(p) \/ ShowPolicy(p)
       \/ ResolveDid(p) \/ ResolvePdsHost(p) \/ SkipPdsGuard(p) \/ ReadGuard(p) \/ BumpGuard(p)
       \/ Registry(p) \/ ReadLog(p) \/ WriteLog(p)
       \/ CutShort(p)
  \/ Tick

Spec == Init /\ [][Next]_vars

-----------------------------------------------------------------------------
(* A registration that gets to the registry broke no ban that was in force *)
(* ever since it came in: keyword, reserved handle, DID, and PDS as far as *)
(* it could be found out.  The block lists are read once, before two       *)
(* resolvers are asked (handleRegister).                                   *)
BansRespected ==
  \A p \in Proc : req[p].op = "register" /\ At(p, "register")
    => req[p].bans \subseteq (IF req[p].pds THEN {} ELSE {"blockPds"})

(* A counter never says more than the attempts of its window, so nobody is *)
(* refused below the limit, whatever reads and writes of it cross; as long *)
(* as requests come one by one and no call fails it says exactly how many  *)
(* there were (incrementGuard).                                            *)
GuardsHonest ==
  \A c \in Counter :
    /\ counts[c] <= attempts[c]
    /\ calm /\ Quiet /\ faults = 0 => counts[c] = attempts[c]

(* The log shows the event written last, and before it others in the order *)
(* they were written, none twice; one by one, it misses none of the latest *)
(* (logActivity).                                                          *)
LogInWriteOrder ==
  /\ \A i, j \in DOMAIN log : i < j => log[i] < log[j]
  /\ logged > 0 => log # <<>> /\ log[Len(log)] = logged
  /\ calm => \A n \in 1 .. logged : n > logged - MaxEvents => \E i \in DOMAIN log : log[i] = n

(* An entry leaves its list only by its removal or by an import, as long   *)
(* as no two changes of the lists overlap: each saves all three documents  *)
(* from its copies (handleAdminConfigPost, handleAdminImportConfig).       *)
EntriesStay ==
  [][\A l \in List : \A a \in config[l] \ config'[l] :
       \E p \in Busy : \/ req[p].op = "import" \/ req[p].change = <<"remove", l, a>>
                       \/ req[p].op \in Writers /\ ~req[p].alone]_vars

(* When all is answered the console, which is the only one, shows the      *)
(* stored lists, as long as its requests came one by one and none failed   *)
(* (postConfig, loadPolicy, importConfigFromFile).                         *)
ScreenUpToDate ==
  calm /\ Quiet /\ faults = 0 /\ session => screen = config
=============================================================================
