------------------------------ MODULE RateLimit ------------------------------
(***************************************************************************)
(* The rate limits: policy of src/rate_limit.rs, buckets of src/db.rs,     *)
(* the order of the gates in src/service.rs and handlers/admin.rs, and the *)
(* sweep main.rs runs every 15 minutes.                                    *)
(*                                                                         *)
(* A gate reads the clock, names the bucket after the window the time is   *)
(* in, and counts the attempt some time later: bucket_incr may have to     *)
(* wait for the write lock, while the window ends and a sweep goes by.     *)
(***************************************************************************)
EXTENDS Integers, FiniteSets

CONSTANTS
  Req,          \* requests in flight at a time
  Ip, Trusted,  \* clients' addresses; those of TRUSTED_IPS
  Did, Host,    \* what handles resolve to, and the PDS hosts
  Kinds,        \* kinds of request: "register", "manage", "login"
  Window,       \* length of each gate's window
  Limit,        \* attempts per window
  VipLimit,     \* of the gate "did", for VIPs
  MaxTime, MaxRequests, MaxFaults,  \* bounds
  None

Gate == {"global", "burst", "did", "pds", "login"}

GatesOf == [register |-> {"global", "burst", "did", "pds"},
            manage   |-> {"global"},
            login    |-> {"login"}]

Time == 0 .. MaxTime

Scopes(g) == CASE g = "did" -> Did [] g = "pds" -> Host [] OTHER -> Ip

Key == UNION {[gate : {g}, id : Scopes(g), window : Time] :
                g \in UNION {GatesOf[kind] : kind \in Kinds}}

ASSUME RateLimitAssumption ==
  /\ IsFiniteSet(Req)
  /\ Trusted \subseteq Ip
  /\ None \notin Host \cup Did
  /\ Kinds \subseteq DOMAIN GatesOf
  /\ Window \in [Gate -> Nat \ {0}]
  /\ Limit \in [Gate -> Nat]
  /\ VipLimit \in Nat /\ Limit["did"] <= VipLimit
  /\ MaxTime \in Nat
  /\ None \notin Key

VARIABLES
  clock,
  bucket,    \* rate_limit_buckets: the count of every key, 0 for no row
  vip,       \* vip_dids
  req,       \* the requests
  sweeping,  \* the time the running sweep read, or -1
  tries,     \* history: attempts counted under a key
  passed,    \* history: those among them that were let through
  upstream,  \* history: resolutions made for an address
  begun,     \* history: requests so far
  faults     \* history: failures so far

vars == <<clock, bucket, vip, req, sweeping, tries, passed, upstream, begun, faults>>

Request == [pc : Gate \cup {"resolve", "vip", "done", "notFound", "loginPage",
                            "rejected", "failed"},
            kind : DOMAIN GatesOf, ip : Ip \cup {None}, did : Did \cup {None}, host : Host \cup {None},
            vip : BOOLEAN, key : Key \cup {None}]

NewRequest(pc, kind, ip) ==
  [pc |-> pc, kind |-> kind, ip |-> ip,
   did |-> None, host |-> None, vip |-> FALSE, key |-> None]

NoRequest == NewRequest("done", "manage", None)

Ended == {"done", "notFound", "loginPage", "rejected", "failed"}

TypeOK ==
  /\ clock \in Time
  /\ bucket \in [Key -> Nat] /\ tries \in [Key -> Nat] /\ passed \in [Key -> Nat]
  /\ vip \subseteq Did
  /\ req \in [Req -> Request]
  /\ sweeping \in {-1} \cup Time
  /\ upstream \in [Ip -> Nat]
  /\ begun \in Nat /\ faults \in Nat

Init ==
  /\ clock = 0
  /\ bucket = [k \in Key |-> 0] /\ tries = bucket /\ passed = bucket
  /\ vip = {}
  /\ req = [r \in Req |-> NoRequest]
  /\ sweeping = -1
  /\ upstream = [i \in Ip |-> 0]
  /\ begun = 0 /\ faults = 0

(* hour_stamp, minute_stamp, ten_minute_stamp *)
Stamped(g, id) == [gate |-> g, id |-> id, window |-> clock \div Window[g]]
Expires(k)     == (k.window + 1) * Window[k.gate]

-----------------------------------------------------------------------------
(* The gates a request passes, in their order *)

IsTrusted(ip) == ip \in Trusted

\* Mutant: the handle is resolved before the address is counted.
FirstGateResolves(kind, ip) ==
  CASE kind = "register" -> "resolve"
    [] ~IsTrusted(ip) /\ kind = "login" -> "login"
    [] ~IsTrusted(ip) /\ kind = "manage" -> "global"
    [] OTHER -> "done"

FirstGate(kind, ip) ==
  CASE ~IsTrusted(ip) /\ kind = "login" -> "login"
    [] ~IsTrusted(ip) /\ kind # "login" -> "global"
    [] IsTrusted(ip) /\ kind = "register" -> "resolve"
    [] OTHER -> "done"

After(q) ==
  CASE q.pc = "global" /\ q.kind = "register" -> "burst"
    [] q.pc = "burst" -> "resolve"
    [] q.pc = "did" /\ q.host # None -> "pds"
    [] OTHER -> "done"

Scope(q) ==
  CASE q.pc = "did" -> q.did
    [] q.pc = "pds" -> q.host
    [] OTHER -> q.ip

LimitFor(q) == IF q.pc = "did" /\ q.vip THEN VipLimit ELSE Limit[q.pc]

(* Rate-limited requests are told NotFound; the login page is shown again. *)
Denied(q) == IF q.kind = "login" THEN "loginPage" ELSE "notFound"

Receive(r) ==
  /\ req[r].pc \in Ended
  /\ begun < MaxRequests /\ begun' = begun + 1
  /\ \E kind \in Kinds, ip \in Ip :
       req' = [req EXCEPT ![r] = NewRequest(FirstGate(kind, ip), kind, ip)]
  /\ UNCHANGED <<clock, bucket, vip, sweeping, tries, passed, upstream, faults>>

(* allow_global and its siblings, up to the await. *)
Stamp(r) ==
  /\ req[r].pc \in Gate /\ req[r].key = None
  /\ req' = [req EXCEPT ![r].key = Stamped(req[r].pc, Scope(req[r]))]
  /\ UNCHANGED <<clock, bucket, vip, sweeping, tries, passed, upstream, begun, faults>>

\* Mutant: the count is compared before it is incremented.
CheckBeforeCounting(r) ==
  LET q == req[r] k == q.key pass == bucket[k] <= LimitFor(q) IN
  /\ q.key # None
  /\ bucket' = [bucket EXCEPT ![k] = @ + 1]
  /\ tries'  = [tries EXCEPT ![k] = @ + 1]
  /\ passed' = IF pass THEN [passed EXCEPT ![k] = @ + 1] ELSE passed
  /\ req'    = [req EXCEPT ![r] = [q EXCEPT !.key = None,
                                   !.pc = IF pass THEN After(q) ELSE Denied(q)]]
  /\ UNCHANGED <<clock, vip, sweeping, upstream, begun, faults>>

(* check and bucket_incr, one transaction *)
Check(r) ==
  LET q == req[r] k == q.key pass == bucket[k] + 1 <= LimitFor(q) IN
  /\ q.key # None
  /\ bucket' = [bucket EXCEPT ![k] = @ + 1]
  /\ tries'  = [tries EXCEPT ![k] = @ + 1]
  /\ passed' = IF pass THEN [passed EXCEPT ![k] = @ + 1] ELSE passed
  /\ req'    = [req EXCEPT ![r] = [q EXCEPT !.key = None,
                                   !.pc = IF pass THEN After(q) ELSE Denied(q)]]
  /\ UNCHANGED <<clock, vip, sweeping, upstream, begun, faults>>

(* The network calls of register and the two blocklists behind them. *)
Resolve(r) ==
  /\ req[r].pc = "resolve"
  /\ upstream' = [upstream EXCEPT ![req[r].ip] = @ + 1]
  /\ \/ req' = [req EXCEPT ![r].pc = "rejected"]
     \/ \E d \in Did, h \in Host \cup {None} :
          req' = [req EXCEPT ![r] = [@ EXCEPT !.did = d, !.host = h,
                                       !.pc = IF IsTrusted(req[r].ip) THEN "done" ELSE "vip"]]
  /\ UNCHANGED <<clock, bucket, vip, sweeping, tries, passed, begun, faults>>

IsVip(r) ==
  /\ req[r].pc = "vip"
  /\ req' = [req EXCEPT ![r].vip = req[r].did \in vip, ![r].pc = "did"]
  /\ UNCHANGED <<clock, bucket, vip, sweeping, tries, passed, upstream, begun, faults>>

(* A database call fails: an error, or for a login the login page. *)
Fail(r) ==
  /\ req[r].pc \notin Ended
  /\ faults < MaxFaults /\ faults' = faults + 1
  /\ req' = [req EXCEPT ![r].key = None,
                        ![r].pc = IF req[r].kind = "login" THEN "loginPage" ELSE "failed"]
  /\ UNCHANGED <<clock, bucket, vip, sweeping, tries, passed, upstream, begun>>

-----------------------------------------------------------------------------
(* The sweep, the administrator and the clock *)

SweepBegin ==
  /\ sweeping = -1
  /\ sweeping' = clock
  /\ UNCHANGED <<clock, bucket, vip, req, tries, passed, upstream, begun, faults>>

\* Mutant: the bucket goes in the second it expires in.
SweepExpiring ==
  /\ sweeping \in Time
  /\ bucket' = [k \in Key |-> IF Expires(k) <= sweeping THEN 0 ELSE bucket[k]]
  /\ sweeping' = -1
  /\ UNCHANGED <<clock, vip, req, tries, passed, upstream, begun, faults>>

\* Mutant: buckets go once their window has begun.
SweepByStart ==
  /\ sweeping \in Time
  /\ bucket' = [k \in Key |-> IF Expires(k) - Window[k.gate] < sweeping THEN 0 ELSE bucket[k]]
  /\ sweeping' = -1
  /\ UNCHANGED <<clock, vip, req, tries, passed, upstream, begun, faults>>

\* Mutant: only the rows that expired since the last tick go.
SweepRecent ==
  /\ sweeping \in Time
  /\ bucket' = [k \in Key |-> IF Expires(k) = sweeping - 1 THEN 0 ELSE bucket[k]]
  /\ sweeping' = -1
  /\ UNCHANGED <<clock, vip, req, tries, passed, upstream, begun, faults>>

SweepExpiredBuckets ==
  /\ sweeping \in Time
  /\ bucket' = [k \in Key |-> IF Expires(k) < sweeping THEN 0 ELSE bucket[k]]
  /\ sweeping' = -1
  /\ UNCHANGED <<clock, vip, req, tries, passed, upstream, begun, faults>>

(* The error is logged and the next tick tries again. *)
SweepFails ==
  /\ sweeping \in Time
  /\ faults < MaxFaults /\ faults' = faults + 1
  /\ sweeping' = -1
  /\ UNCHANGED <<clock, bucket, vip, req, tries, passed, upstream, begun>>

ConfigVip(d) ==
  /\ vip' = IF d \in vip THEN vip \ {d} ELSE vip \cup {d}
  /\ UNCHANGED <<clock, bucket, req, sweeping, tries, passed, upstream, begun, faults>>

Tick ==
  /\ clock < MaxTime /\ clock' = clock + 1
  /\ UNCHANGED <<bucket, vip, req, sweeping, tries, passed, upstream, begun, faults>>

Next ==
  \/ \E r \in Req : \/ Receive(r) \/ Stamp(r) \/ Check(r)
                    \/ Resolve(r) \/ IsVip(r) \/ Fail(r)
  \/ SweepBegin \/ SweepExpiredBuckets \/ SweepFails
  \/ \E d \in Did : ConfigVip(d)
  \/ Tick

Spec == Init /\ [][Next]_vars

(* The task of main.rs loops for as long as the process lives. *)
FairSpec == Spec /\ WF_vars(SweepBegin) /\ WF_vars(SweepExpiredBuckets)

-----------------------------------------------------------------------------
Live(k) == clock <= Expires(k)

Highest(k) == IF k.gate = "did" THEN VipLimit ELSE Limit[k.gate]

Least(m, n) == IF m <= n THEN m ELSE n

(* While a window lasts, and in the second it ends, the row shows every    *)
(* attempt counted under its key: increments are not lost to each other or *)
(* to a sweep (rate_limit.rs check: "the counter-visible value honest").   *)
HonestCounter == \A k \in Key : Live(k) => bucket[k] = tries[k]

(* The call that sees count = limit is the last one let through, and none  *)
(* before it is denied; a DID whose VIP status changes falls in between    *)
(* (rate_limit.rs check, allow_register_did).                              *)
NthCallIsLast ==
  \A k \in Key : Live(k) => /\ Least(tries[k], Limit[k.gate]) <= passed[k]
                            /\ passed[k] <= Least(tries[k], Highest(k))

(* Once the window is over a sweep restarts the count for requests that    *)
(* took their key in time and count late; they are those that were in      *)
(* flight then, so no window ever lets more than that many through on top  *)
(* of its limit (service.rs register, db.rs sweep_expired_buckets).        *)
OverrunBounded == \A k \in Key : passed[k] <= Highest(k) + Cardinality(Req)

(* An address makes the registry call upstream only as often as its own    *)
(* limits let it through, and charges DIDs and hosts no more often than    *)
(* that (service.rs register: "IP rate limits before network calls").      *)
Each(count, K) == UNION {{k} \X (1 .. count[k]) : k \in K}   \* what was counted, one by one

BurstOf(i) == {k \in Key : k.gate = "burst" /\ k.id = i}
Under(g)   == {k \in Key : k.gate = g}

PassedBy(i)  == Cardinality(Each(passed, BurstOf(i)))
ChargedTo(g) == Cardinality(Each(tries, Under(g)))

UpstreamRationed ==
  /\ \A i \in Ip \ Trusted : upstream[i] <= PassedBy(i)
  /\ ChargedTo("pds") <= ChargedTo("did")
  /\ ChargedTo("did") <= Cardinality(Each(upstream, Ip \ Trusted))

(* A row whose window is over is deleted some time, also one that a late   *)
(* increment brought back and after sweeps that failed (main.rs).          *)
ExpiredSwept == \A k \in Key : (bucket[k] > 0 /\ ~Live(k)) ~> bucket[k] = 0
=============================================================================
