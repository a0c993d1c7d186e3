# TLA+ models of anarchy-registry

The registry hands out subdomains of one domain as Bluesky handles. This
directory holds TLA+ models of the Rust service in `src/` (with its SQL schema
in `migrations/`) and of the Cloudflare worker it replaces
(`reference/anarchy-worker.js`, the *legacy worker*), the TLC configurations
that check them and the TLAPS proofs of what matters most. `PROJECT.json` lists runs, mutants, the map from
definitions to source lines, findings, hazards and theorems.

    tlc -workers 2 -config <run>.cfg <MC module>.tla
    tlapm <module with proofs>.tla

## 1. The system

| component | state | operations | modelled by |
|---|---|---|---|
| registry service (`service.rs`, handlers in `handlers/`) | what a request carries between calls: DID, subdomain, flags, a new secret | `register`, `list_handles`, `delete_handle`, `admin_assign_handle`, admin `delete_handle`, `delete_did` | `Registry` |
| handle store (`db.rs`, `0001_init.sql`) | tables `dids`, `handles` | four writes, lookups | `HandleStore` (what they promise), `StoreTx` (how) |
| database transactions (`db.rs` on SQLite/WAL) | committed tables, one write lock, a transaction's copy | statements, commit, rollback, busy timeout, export, import | `StoreTx` |
| activity log (`db.rs`) | table `activity_log`, 1000 rows | `log_event`, `recent_activity` | `ActivityLog` |
| rate limiter (`rate_limit.rs`, `db.rs`, task in `main.rs`) | table `rate_limit_buckets` | five gates, `bucket_incr`, `sweep` | `RateLimit` |
| config lists (`db.rs`, `0002_config_tables.sql`, `admin.rs`) | five tables: VIPs, blocked DIDs, PDSs and keywords, reserved handles | add, remove, bulk keywords, preview, import, export | partly: actions of `Registry` and `RateLimit` |
| admin session (`auth.rs`, `admin.rs`) | a signed cookie with an expiry; CSRF token derived from it | login, console, logout, the two extractors | partly: the login gate in `RateLimit` |
| secrets and passwords (`auth.rs`) | none | generate, hash, verify | values in `Registry` |
| validation (`validate.rs`) | none | normalise and check subdomain, DID, host, keyword | not yet |
| ATProto resolver (`atproto.rs`) | none (HTTP client, 10 s timeout) | `resolve_handle`, `resolve_pds_host` | outcomes of steps of `Registry` and `RateLimit` |
| public pages, `/.well-known/atproto-did` | none (caches outside, 300 s) | lookups | not yet |
| admin metrics, resolve, preview | none | read-only | no |
| themes, word list, templates, browser scripts | none | rendering | no |
| startup (`main.rs`) | none | environment, integrity check, sweep task | sweep in `RateLimit` |
| legacy worker: registry (`reference/anarchy-worker.js`) | key-value records `sub:<handle>` and `did:<did>`, no transactions; the PDS's accounts beside them | `/register`, `/m`, `/delete`, the administrator's handlers, export, import, backfill, the PDS bridge, the did:web sync, signup and the proxied `updateHandle` and `deleteAccount` | `Worker` |
| legacy worker: lists, guards, log, session | documents `config:vip`, `config:block`, `config:reserved`, `activity:recent`, the counters of `incrementGuard`, the cookie, what the console shows | registration's checks, configuration, its export and import, login, logout, the console's script | `WorkerPolicy` |
| legacy worker: read-only handlers and pages | none | listings, metrics, resolve, markup | no |

How they interact. A handler runs as a task of its own on a multi-threaded
executor. It calls the service, which awaits the rate limiter, the resolver
(network) and the database one after the other; between two awaits anything
else may run. All shared state is in SQLite: a pool of ten connections, many
readers, one writer at a time, 5 s of patience for the lock. A handler whose
client goes away is dropped at its next await, and with it its transaction. The
only task that is not a request is the sweep of expired buckets.

The legacy worker is one `fetch` function. Every request runs in an isolate of
its own; all they share is a key-value store with `get`, `put`, `delete` and
`list`, and between any two of these calls other requests make theirs. A handle
is two records, written one after the other, and every document (a DID's list of
handles, a configuration, the log, a counter) is read, changed in memory and
written back whole. On the PDS's host the worker sits in front of the PDS: it
passes requests on, and the PDS calls `/internal/pds/*` when accounts change.

What is hard about it:

* a registration makes about a dozen calls; what an early one read (bans, VIP
  status, the DID's row, the number of handles) may be stale when the last one
  writes, and only the schema's constraints are checked again;
* the write and its log entry are two transactions, and the secret of a first
  claim exists only in the handler between them;
* a secret is looked up in one call and used in another;
* a transaction can stop between any two statements;
* keys of rate limits are taken before the write lock is;
* time: windows that end, rows that expire, timestamps taken early;
* in the worker, everything at once: two records for one fact, stale copies
  written back, requests that stop between two writes, a PDS that is told before
  or after, and loops over listings that change meanwhile.

What makes each correct:

* *service*: every request has the effect of one step on the two tables or
  none; a registration breaks no ban that held all along; the cap is exceeded
  by no more than what is in flight; a row's secret reaches a client; log and
  tables add up; every request is answered;
* *store*: a DID has a row iff it owns a handle; handles and credentials change
  hands only through being free; no two DIDs share a credential;
* *transactions*: all or nothing whatever stops them; the lock comes back;
* *log*: exactly the latest rows;
* *limiter*: the limit is exact while a window lasts and nearly so ever after;
  nothing is charged to others before one's own limits; old rows go;
* *worker, registry*: whatever overlaps, a record's secret was made for its DID
  and reaches a client, and lists stay within the limit; one by one, a handle that
  resolves is listed by its holder's record, handlers that check never take a
  handle from another DID, a deleted account leaves nothing; a backfill repairs
  the rest;
* *worker, policy*: no ban in force all along is broken, a guard never counts
  more than there was, the log keeps the order of writing, list entries leave
  only when somebody removes them, the console ends up showing what is stored.

## 2. Modules

    HandleStore  <---- refined by ---- Registry        (requests, call by call)
         ^------------ refined by ---- StoreTx         (transactions, statement by statement)
    ActivityLog                                        (the log's table)
    RateLimit                                          (the gates, the buckets, the sweep)

    WorkerPolicy  -- a registration gets past it to -->  Worker
    (lists, guards, log, console)                        (records, bridge, PDS)

| module | what it is |
|---|---|
| `HandleStore` | abstract specification of the tables: first claim, claim, release, drop |
| `Registry` | the handlers; `Store == INSTANCE HandleStore` maps `dids`, `handles` and the hashes issued |
| `StoreTx` | the writes of `db.rs` with lock, copy, rollback, crash; export and import; also an instance of `HandleStore` |
| `ActivityLog` | stamps, appends, the prune |
| `RateLimit` | gates, buckets, windows, sweep |
| `Worker` | the legacy worker's writes of its registry, call by call, with the PDS's accounts |
| `WorkerPolicy` | what the legacy worker asks before it gets there, and what it keeps beside it |
| `MC<M>` | values of the constants and symmetry for TLC, nothing else |
| `HandleStoreProofs`, `RegistryProofs`, `RegistrySafety`, `StoreTxProofs`, `ActivityLogProofs`, `RateLimitProofs`, `WorkerProofs`, `WorkerPolicyProofs` | theorems |

The operators called *Mutant* in a comment are not part of the
specifications: each is a definition with a plausible bug, and `PROJECT.json`
says which property notices it.

### HandleStore

`cred[d]` is the `secret_hash` of a DID's row, `owner[s]` the `did` of a
handle's row, `None` stands for no row; `spent` remembers every hash, so that a
first claim's is a new one: secrets are random, no table enforces it. The steps
are `register_new_did_with_handle`, `add_handle`,
`delete_handle_and_maybe_did` and `delete_did_and_handles`. Hashes are finite
in a run, so the store may come to a stop and deadlock is not checked there.

### Registry

`req[p]` is a request: its `pc` names the call it will make next, the other
fields are the handler's local variables. One action is one call: the reads of
`service.rs` 197-344 in their order (`CheckBlockedDid`, `CheckBlockedPds`,
`GateDid`, `CheckReserved`, `CheckKeyword`, `CheckTaken`, `GetDid`,
`CountHandles`, `CheckVip`), the two writes, `LogEvent`, and the same for the
other handlers. The write steps have the constraints as guards;
`RaceToUnavailable` and `ForeignKeyViolation` are what happens when they do not
hold. `Receive` is the client taking the answer. `DatabaseError` ends a request
at any call with a 500, `Disconnect` drops it or loses its answer. Values are
already valid and normalised; an invalid one is the answer
`InvalidHandleFormat`. The rate gates may say either thing here, and so may the
resolver. The history variables `issued`, `held`, `exempt` and `standing` are
read by properties only, except that a secret is not generated twice.

### StoreTx

A connection's `tx` says which statement comes next. The first write statement
waits for `writer = None`, as SQLite takes the lock there (the `BEGIN` is
deferred); `work` is the copy, `Commit` publishes it. A violated constraint or
an interrupted request leads to `rollback`, a separate step, because sqlx rolls
back when it next uses the connection: until then the lock is held.
`BusyTimeout` gives up. `Crash` forgets all but the committed tables. The
export is two reads without a transaction; the import wipes and inserts in one.
The inserts of one loop of `replace_registry` are one step: no one can see
between them, and they fail as one.

### ActivityLog

A request takes its timestamp (`Stamp`), later gets the lock and appends and
prunes in one transaction (`Append`) or fails (`GiveUp`). `DropUpTo` is the
`OFFSET cap` query with its `COALESCE`.

### RateLimit

A key is a gate, an address, DID or host, and a window; `bucket[k] = 0` is no
row. `Stamp` takes the key at the time it is, `Check` counts under it some time
later and decides; both in the order of the gates in `register`, `manage` and
`login`. `SweepBegin` reads the clock, `SweepExpiredBuckets` deletes what was
expired then. The clock never goes back. `expires_at` is always the end of the
key's window, so it is computed (`Expires`), not stored.

### Worker

A request `req[p]` is a handler's local variables and `calls`, the key-value and
PDS calls it still has to make. Each handler is the sequence of its calls
(`HandleRegister`, `HandleClaim`, ...), each call an action (`PutSub`, `Grant`,
`CheckOther`, ...), so that handlers which do the same share an action and the
order of their writes is in one place. A loop is a call that is made until its
list `todo` is empty; what the loop's body calls is put in front of it. `rec` is
the copy of the DID's record a handler has in memory. `Answer` ends a request at
once (an early return), `CutShort` ends it anywhere: a call threw, or the isolate
is gone. `updateHandle` alone catches what fails before it asks the PDS.

`subs[s]` is the DID in `sub:<s>`, `dids[d]` the record in `did:<d>`. The PDS is
external: new accounts get new DIDs, its handles are unique, it refuses for
reasons of its own, and what it reports to the bridge is true when it does
(`accounts`). `issued`, `held`, `exempt`, `calm` and `cut` are histories;
`req[p].solo` says that nothing else was served while `p` was.

What is abstracted: a record's list of handles is a set (handlers never look at
its order; a repeated entry counts as one); JSON that does not parse is not in
the store, as only the worker writes it; `deleteAccount` always names its DID;
`handleSignupRequest` reaches the bridge by a request to its own host, which
here is the bridge's calls in place. Which function runs: those at lines
7154-7703 are declared in the body of `fetch` and so hide the ones of the same
name above, and of two there the last one counts; lines 54-93, 235-299, 301-436,
7049-7114, 7211-7266 and 7594-7640 never run.

### WorkerPolicy

An `Applicant` is a DID with its PDS's host and the handle it asks for, so that
one value can fall under every list. Requests are again the calls to come; the
registry's own work is the one call `register`, after which the log entry is
written. Documents are loaded and saved whole (`LoadConfig`, `SaveConfig` with
`In` for which lists share one). `ReadGuard` and `BumpGuard` are the two halves
of `incrementGuard`; a `Tick` begins new windows, whose counters are other keys,
and a guard under way keeps the key it has (`late`). A DID whose PDS has no host
skips that guard and that list (`SkipPdsGuard`). The console is `screen`:
its buttons post a change and then load the lists, and nothing stops the next
press meanwhile. There is one browser behind the login: `isAdmin` (5922) looks at an
unsigned cookie, so a second console, or a request posted without one, is
possible, and leaves the first out of date. The cookie has `Path=/gg`, so from a
browser only the console's requests carry it, and an administrator's `/register`
is a visitor's. A client that sends it to `/register` itself is treated there
like a trusted address (`tier = "trusted"`).

## 3. Runs

| run | constants | shows |
|---|---|---|
| `store` | 2 DIDs, 3 subdomains, 3 hashes | the store's own promises |
| `reg_claims` | 1 DID, 4 subdomains, 2 requests, cap 2, VIP toggled | the overshoot of the cap is bounded; types |
| `reg_requests` | 2 DIDs, 2 subdomains, 2 requests of five kinds, 1 fault of either kind | refinement of `HandleStore`; tables agree; log and tables balance; keys reach clients; a removal takes only what its secret was made for |
| `reg_bans` | 1 DID, 1 subdomain, every kind of ban, added and lifted at any time, 1 fault, weak fairness of the server | bans are respected; every request is answered |
| `tx` | 2 connections, 1 DID, 2 subdomains, 2 hashes, every transaction with export and import, 1 fault, weak fairness of the connections | transactions refine `HandleStore`, or replace it as a whole; imports never dangle; the lock comes back |
| `log` | cap 4, 6 rows, 3 writers, 3 instants | the latest rows, unchanged, nearly in order |
| `rl_window` | 2 requests, windows of 2 ticks, limit 1, 5 requests, 5 instants, 1 failed sweep, weak fairness of the sweep | counts are honest; overrun is bounded; expired rows go |
| `rl_register` | a trusted address and another, registrations and logins, different limits per gate, 1 fault | the limit is exact; upstream calls are rationed |
| `worker_registry` | 2 DIDs, 2 handles, 2 secrets, limit 1, 2 requests of ten kinds; registrations and deletions overlap, 1 request cut short | secrets stay with their DIDs and reach clients, lists stay within the limit, handles stay listed, a backfill repairs |
| `worker_bridge` | 2 DIDs, 2 handles, 1 secret, 2 requests of ten kinds; removals and handle changes overlap, 1 request cut short | types; handles stay listed; deleted accounts leave nothing; who takes a handle from whom |
| `worker_policy` | 1 applicant under any list, 3 requests, 2 at a time; registrations and changes overlap, log of 2, windows at any moment, 1 failed call | bans, counters, log, lists and console |
| `viol_lost_secret` | a registration, 1 fault | the one violation, below |

The worker's kinds of request are split over two runs, and `Together` names
those that overlap with each other, because every one of them with every other
is out of TLC's reach; all others come one by one, which is what half of the
properties are about, in any order and as often as they like. All of them are
proved for every kind of request at once (section 4).

Bounds, and why they are enough. Two requests at a time are what every race of
this code needs: the properties relate one request to the tables, and the other
request does what the rest of the world could do in between, as often as it
likes, since a slot is used again once its answer is received. A cap of 2 with
four subdomains leaves room for the overshoot to exceed its bound if it could. In
`worker_registry` the limit is 1 and there are two handles: a DID gets its first,
and is refused its second, whatever overlaps; a list that grows below a higher
limit is beyond a run of that many kinds of request, and is covered by
`WorkerRecordWithinCap`, which is for every limit. Secrets, hashes, ids,
requests of `RateLimit` and clocks are bounded because histories of them would
otherwise grow for ever; each bound lets the interesting thing happen more than
once: as many first claims as one DID's fall and return need, rows past the log's cap, two ends of a window. One
fault can strike at any step; the theorems do not bound faults.
Symmetry is used for safety runs only, over interchangeable model values.

Deadlock is checked in every run but `store` and `worker_policy`, whose
requests are bounded (`MaxRequests`).

Fairness. `Registry!FairSpec` is weak fairness of the server's own steps: tokio
polls ready tasks, the resolver has a timeout and so has a busy database.
`StoreTx!FairSpec` is weak fairness of each connection, which sqlx runs on a
thread of its own. `RateLimit!FairSpec` is weak fairness of the sweep task,
whose interval ticks for as long as the process lives. Clients, the
administrator, faults and the clock are under no obligation. The legacy worker
gets no fairness: an isolate may be dropped at any call, so nothing says that
what it began is ever finished, and its properties are about what it leaves.

### Disagreements with the documentation

One is a run that TLC answers with a counterexample; `PROJECT.json` quotes the
sentence it contradicts. `viol_lost_secret`: the log entry fails after a first
claim, and the only copy of the secret is gone.

Others, noticed while modelling, that the models show but no run states:

* `DESIGN.md` 529 has a DID hold at most the limit; two registrations that read
  a count under it (`service.rs` 302) go past it, by as much as
  `CapOvershootBounded` says;
* two first claims of one DID: the loser is told its subdomain is taken when it
  is free (`service.rs` 461-472 takes every unique violation for one of the
  subdomain);
* a deletion may go through with a secret that was withdrawn after it was looked
  up, if the same DID was claimed anew and owns that handle again
  (`RemovalByHolder` is what does hold);
* the activity list is ordered by id, not by time (`DisorderBounded`);
* an export torn by a release brings back, when imported, a DID without handles;
* a login over the limit is answered with the login page, and an administrator's
  session does not lift any limit (`DESIGN.md` 552 and 589);
* legacy worker, `updateHandle`: the registry is written before the PDS is asked
  (7501), so a refusal leaves the handle written and `NoTakeoverWhileSerial` has
  to except it; the comment at 7469-7472 has a change away from the domain
  delete the registry's entry, but the code returns before (`GetSession`);
* legacy worker: exporting the lists and importing the file empties the keywords
  (6285-6328);
* legacy worker: the login cookie's path keeps a browser from sending it to
  `/register` and `/m`, so the exemptions for an administrator there apply only
  to a client that sends the cookie itself.

## 4. Theorems

All constants are arbitrary, within the named assumptions of the modules (sets
of requests, subdomains and secrets are finite; `None` is nothing else; a
limit is a number).

* `HandleStoreProofs`. The store's three properties. `TablesAgree`,
  `OneKeyPerDid` and "a live credential has been spent" are inductive together.
* `RegistryProofs`: `RegistryTypeOK`. Types alone are not inductive, as a write
  uses the request's DID as an index; `IInv` adds what a request past each
  point knows.
  `RegistryImplementsStore`: with `IInv` a write has the DID and subdomain it
  needs, and a first claim picks a secret that was never issued, whose hash is
  therefore not spent; so every action is a step of `HandleStore` under the
  mapping, or leaves its variables alone. `RegistryTablesAgree` follows without
  another induction. `RegistryRemovalByHolder` rests on `KeyInv`: the credential
  in a DID's row was issued to that DID, and a `/manage` removal in flight
  carries a secret issued to the DID it was admitted for. It needs no check at
  removal time, because `issued` never changes once set.
* `RegistrySafety`, four results on top of `IInv`:
  * `RegistryBansRespected`. `BansInv`: a request past a check had the ban
    lifted, or never in force, at some time since it began; `standing` only
    shrinks.
  * `RegistryCapOvershootBounded`. The bound itself is not inductive. `CapInv`
    counts a DID's handles together with the registrations past the check that
    may still insert for it, and knows that the request that counted below the
    cap is one of them.
  * `RegistryKeysReachClients`. Between the commit of its row and the client a
    secret is in the request alone, at "log" or "done". `KeysInv` adds that a
    request that answers with a secret answers Ok, so that only a fault, which
    the property excepts, loses it.
  * `RegistryAuditBalance`. `AuditInv` adds to the balance that only the kinds
    of request that log a claim, or a removal, get to the step that makes one
    (`RightOp`). With that each step changes at most one of the four numbers'
    sets by one request, and the sum stays.
* `StoreTxProofs`, for any number of connections that may stop between any two
  statements: `StoreTxTypeOK`, `StoreTxHandlesHaveDids`, and
  `StoreTxImplementsHandleStore` (every step but an import's commit is a step
  of `HandleStore` or leaves the committed tables alone). `IInv` says that one
  transaction at most is past its first statement and that it has the lock
  (`OneWriter`), so the tables its copy was made of are still there when it
  commits; what the copy is at each statement (`Underway`); and that a hash
  about to be inserted is new and one transaction's alone (`FreshHashes`), with
  `Accounted` to rule out that it came back with a backup.
* `ActivityLogProofs`: the ids in the table are an interval that ends at the
  last one given, so the row at the offset is the one the interval's length
  says. `LogDisorderBounded` needs `OrderInv`: the older rows above a row and
  the older events still waiting are together fewer than the requests, as no
  new event is older than a row already written.
* `RateLimitProofs`. `LimitInv`: no request takes the key of a window that is
  over and the sweep's time is past, so live rows are exact; once a window is
  over, `passed` plus the requests that hold its key stay under limit plus
  requests, since counting gives the key up. `RateTypeOK` follows from the
  same invariant. `RateUpstreamRationed` adds `RationInv`: the resolutions made
  for an address and the requests of it that stand at one are together no more
  than its gates let through, and the same for the charges to DIDs and hosts.
  What is summed over windows is counted as one set of attempts (`Each`), which
  every step changes by one member, so no induction over the windows is needed.

* `WorkerProofs`, for any number of DIDs, handles, secrets and requests of all
  kinds at a time, all overlapping, with any number of them cut short:
  `WorkerTypeOK`, `WorkerKeyCustody`, `WorkerRecordWithinCap`. None is inductive,
  because what will be written is in the requests. `IInv` adds, for every
  request, what it knows by the calls it still has to make: the DID, before it
  reads or writes that DID's record, and a handle of the domain, before it puts
  one into a record (`Sound`); that the copy it holds has no secret or that DID's
  (`RecKnown`), except in a backfill between two rounds, where the copy is the
  last round's; that a copy with a limited handler fits the limit (`RecFits`);
  and that a file, in hand or stored, has every secret with its DID (`Known`).
  A request only ever drops calls from the front or puts known ones there, so
  one lemma (`KeepsFine`) covers most steps.

  The other five need to know more exactly where a request is. `Scripted` says
  that the calls it still has to make are an end of its handler's, or of one
  round of its handler's loop, and `Courses` lists, for each kind of request, the
  pairs of a next call and the one after it; `Named` says which names are known
  by then. `WInv` is these with `IInv`, one request at a time under `calm`, and
  `solo` for one request at most. `Onward` and `Carries` say of a step of one
  request that it keeps them, and there is one lemma per action
  (`GrantGoes`, `WipeGoes`, ...). On top of it come two invariants:
  * `SInv`, for `WorkerListedWhileSerial`, `WorkerDeletedAccountGone`,
    `WorkerBackfillRepairs` and `WorkerNoTakeoverWhileSerial`. None of these
    holds in the middle of a request, so `Fit` says what does: which handles may
    be unlisted before the next call (`Loose`: a bridge's handle before its
    record is written, everything while an import wipes), that the copy in hand
    lists what the record does but for the handle it drops (`CopyFit`), what has
    been written (`WrittenFit`), that whatever still resolves to a DID being
    deleted is left in the request's list (`DropFit`), and that an import has yet
    to write only DIDs nothing resolves to (`ImportFit`). `Checked` is that a
    handle found free, or its DID's, still is. `SoloFit` is about a backfill: a
    handle that is not listed is in its list or in hand. A request cut short
    keeps `Fit` when it is one of `SafeToCut`, whose `Loose` is always empty.
  * `KInv`, for `WorkerKeysReachClients`: every secret in a record, a copy or a
    file is with a client, or with a registration or assignment that has not been
    answered (`Keys`). It needs no `calm`: only those two kinds make secrets, and
    from `Grant` on each keeps its own until `LogActivity` hands it over.

* `WorkerPolicyProofs`, for any applicants, list sizes and numbers of requests:
  all of that module's safety and action properties. They share `AInv`, which
  says in what order a request's calls are still to be made (`Ordered`: each
  list is loaded before it is looked at or saved, each guard read before it is
  bumped) and which kinds of request make which (`Allowed`). Each property has
  a layer of its own on top, phrased with `Due(s, a, b)`: in the calls `s`, `a`
  comes before any `b`.
  * `WorkerPolicyBansRespected` (`BanFit`): a ban in force since the request
    began is still to be looked at; between loading a list and looking at it
    the copy has the ban.
  * `WorkerPolicyGuardsHonest` (`GuardInv`): a request between the halves of a
    guard has counted itself among the attempts, so writing back what it saw
    plus one never passes them; where requests come one by one and none fails,
    the counter equals the attempts unless such a request is about to write it.
  * `WorkerPolicyLogInWriteOrder` (`LogInv`): the log and every copy of it are
    increasing and leave room for the events written since (`Spaced`); one by
    one, the copy is the log.
  * `WorkerPolicyScreenUpToDate` (`ScreenInv`): the screen shows what is stored
    or a request is about to have it shown, whose lists are loaded later than
    they are saved.
  * `WorkerPolicyEntriesStay` (`EditInv`): a change of the lists that overlaps
    no other saves the document it loaded, changed by its own edit only.

  That requests come one by one (`calm`), that none was cut short
  (`faults = 0`) or that a change overlaps no other (`alone`) are hypotheses of
  the properties, recorded by history variables, and the runs reach states on
  both sides of each.

Only model-checked: the liveness properties (`RequestsAnswered`,
`LockGivenBack`, `ExpiredSwept`), as fairness is beyond the prover.

## 5. Not modelled, and why

* strings: normalisation and the validators, so far; keywords are the set of
  subdomains they match;
* cryptography: a hash is an injective function, a secret never repeats;
* the integrity check, migrations and environment at startup: they precede
  every request;
* the wall clock going back;
* pages, themes, metrics and the browser scripts, except the part of the legacy
  console that edits the lists: no shared state. Of the worker these are the
  larger half of the file;
* the legacy worker's read-only handlers (listings 5996-6055, metrics 6559-6639,
  resolve, debug, the override for did:web documents), its functions that never
  run, and its name validators;
* key-value reads that are out of date: Cloudflare's store is eventually
  consistent across locations, and nothing in the code says more; the models
  read what was last written;
* the resolver's and the caches' inner workings (planned).

## 6. Plan

Done: the modules above, in the order of the table in section 2 (the tables
and who changes them first, as everything else protects them; then the legacy
worker, which is most of the repository's code).

Next, models not begun: the service's configuration lists with their import and
export, the signed session cookie, the caches in front of
`/.well-known/atproto-did`, the resolver's order of lookups, the validators over
abstract characters.
