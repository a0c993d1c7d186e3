----------------------------- MODULE ActivityLog -----------------------------
(***************************************************************************)
(* The activity log: table activity_log of migrations/0001_init.sql,       *)
(* written by log_event and read by recent_activity (src/db.rs).           *)
(*                                                                         *)
(* A request takes its timestamp, waits for the database's write lock and  *)
(* then, in one transaction, appends a row under the next id and prunes    *)
(* the oldest rows.  The order of the rows is the order of the             *)
(* transactions, which need not be that of the timestamps.                 *)
(***************************************************************************)
EXTENDS Naturals, FiniteSets

CONSTANTS Proc,      \* requests that log
          Event,     \* kinds of event
          Cap,       \* ACTIVITY_LOG_CAP
          MaxTime,   \* bound: the clock
          MaxId,     \* bound: rows ever written
          None       \* no timestamp taken

ASSUME LogAssumption ==
  Cap \in Nat \ {0} /\ MaxTime \in Nat /\ MaxId \in Nat /\ IsFiniteSet(Proc)

VARIABLES clock,    \* the wall clock
          log,      \* the rows: [id, ts, event]
          next,     \* the id AUTOINCREMENT gives next
          pending   \* the row a request is about to append, or None

vars == <<clock, log, next, pending>>

Row == [id : Nat, ts : Nat, event : Event]

TypeOK ==
  /\ clock \in Nat
  /\ log \subseteq Row
  /\ next \in Nat \ {0}
  /\ pending \in [Proc -> [ts : Nat, event : Event] \cup {None}]

Init ==
  /\ clock = 0
  /\ log = {}
  /\ next = 1
  /\ pending = [p \in Proc |-> None]

Ids == {r.id : r \in log}

(* `SELECT id ... ORDER BY id DESC LIMIT 1 OFFSET cap`, or 0 if there are   *)
(* not so many rows.                                                        *)
DropUpTo(ids) ==
  IF \E i \in ids : Cardinality({j \in ids : j > i}) = Cap
  THEN CHOOSE i \in ids : Cardinality({j \in ids : j > i}) = Cap
  ELSE 0

Stamp(p) ==
  /\ pending[p] = None
  /\ \E e \in Event : pending' = [pending EXCEPT ![p] = [ts |-> clock, event |-> e]]
  /\ UNCHANGED <<clock, log, next>>

\* Mutant: ids are given by the number of rows.
AppendByCount(p) ==
  LET row == [id |-> Cardinality(log) + 1, ts |-> pending[p].ts, event |-> pending[p].event]
      all == log \cup {row}
  IN
  /\ pending[p] # None
  /\ next <= MaxId
  /\ log' = {r \in all : r.id > DropUpTo({q.id : q \in all})}
  /\ next' = next + 1
  /\ pending' = [pending EXCEPT ![p] = None]
  /\ UNCHANGED clock

\* Mutant: the row at the offset is kept.
AppendKeepsOneMore(p) ==
  LET row == [id |-> next, ts |-> pending[p].ts, event |-> pending[p].event]
      all == log \cup {row}
  IN
  /\ pending[p] # None
  /\ next <= MaxId
  /\ log' = {r \in all : r.id >= DropUpTo({q.id : q \in all})}
  /\ next' = next + 1
  /\ pending' = [pending EXCEPT ![p] = None]
  /\ UNCHANGED clock

\* Mutant: the event is logged again under its old timestamp.
AppendRetried(p) ==
  LET row == [id |-> next, ts |-> pending[p].ts, event |-> pending[p].event]
      all == log \cup {row}
  IN
  /\ pending[p] # None
  /\ next <= MaxId
  /\ log' = {r \in all : r.id > DropUpTo({q.id : q \in all})}
  /\ next' = next + 1
  /\ UNCHANGED <<clock, pending>>

Append(p) ==
  LET row == [id |-> next, ts |-> pending[p].ts, event |-> pending[p].event]
      all == log \cup {row}
  IN
  /\ pending[p] # None
  /\ next <= MaxId
  /\ log' = {r \in all : r.id > DropUpTo({q.id : q \in all})}
  /\ next' = next + 1
  /\ pending' = [pending EXCEPT ![p] = None]
  /\ UNCHANGED clock

(* The transaction fails or is never reached, and is rolled back.          *)
GiveUp(p) ==
  /\ pending[p] # None
  /\ pending' = [pending EXCEPT ![p] = None]
  /\ UNCHANGED <<clock, log, next>>

Tick ==
  /\ clock < MaxTime
  /\ clock' = clock + 1
  /\ UNCHANGED <<log, next, pending>>

Next == Tick \/ \E p \in Proc : Stamp(p) \/ Append(p) \/ GiveUp(p)

Spec == Init /\ [][Next]_vars

-----------------------------------------------------------------------------
(* The log holds the latest Cap events, every one of them and nothing      *)
(* else: the prune of log_event_with_cap never takes one too many or       *)
(* leaves one behind, from the first rows on.                              *)
Oldest == IF next > Cap THEN next - Cap ELSE 1

LatestKept == Ids = Oldest .. (next - 1)

(* A row is never rewritten, and once pruned it does not come back.        *)
OnlyForgets ==
  [][\A r \in log' : r \in log \/ r.id = next]_vars

(* Rows are listed by id, and a request that waited for the lock is listed *)
(* above events newer than its own.  No event has more such rows above it  *)
(* than there were other requests waiting (db.rs log_event_with_cap,       *)
(* recent_activity).                                                       *)
DisorderBounded ==
  \A q \in log : Cardinality({r \in log : r.id > q.id /\ r.ts < q.ts}) < Cardinality(Proc)
=============================================================================
