----------------------------- MODULE WorkerProofs -----------------------------
(***************************************************************************)
(* What holds of the legacy worker's registry for any number of DIDs,      *)
(* handles and requests.  Whatever overlaps and wherever requests are cut  *)
(* short: its types, whose secret a record holds, how long a list grows,   *)
(* who knows a secret.  And one by one: what is listed, what a deletion    *)
(* and a backfill leave, and who takes a handle from whom.                 *)
(***************************************************************************)
EXTENDS Worker, FiniteSetTheorems, SequenceTheorems, TLAPS

Left(calls) == {calls[i] : i \in DOMAIN calls}

(* Calls that read or write the record of the request's DID, and those     *)
(* that put its handle into a record.                                      *)
NeedDid == {"grant", "addHandle", "replace", "putDid", "adminRead", "readAll", "readOwn",
            "session"}
NeedSub == {"grant", "addHandle", "replace"}

(* Calls of handlers that know no limit, except an assignment's *)
Unlimited == {"addHandle", "replace", "restore", "fill", "session", "pdsCreate"}

(* What a request knows by the calls it still has to make *)
Sound(q) ==
  /\ q.calls # <<>>
  /\ \/ q.did \in DID \/ Head(q.calls) = "pdsCreate"
     \/ Left(q.calls) \cap NeedDid = {}
  /\ q.sub \in Sub \/ Left(q.calls) \cap NeedSub = {}
  /\ "saveDid" \in Left(q.calls) => q.op \in Limited
  /\ "fill" \in Left(q.calls) => q.op = "backfill"
  /\ q.op \in Limited => Left(q.calls) \cap Unlimited = {}

(* The record it is going to write is its DID's.  Of the loop of the       *)
(* backfill the record of the last round is left until it reads anew.      *)
RecKnown(q, iss) ==
  \/ q.op = "backfill" /\ Head(q.calls) \in {"fill", "addHandle"}
  \/ q.rec.key # None => q.did \in DID /\ iss[q.rec.key] = q.did

RecFits(q, ex) ==
  q.op \in Limited /\ q.did \notin Vip \cup ex => Cardinality(q.rec.handles) <= MaxHandles

(* The records of a file are of their DIDs. *)
Known(file, iss) ==
  \A d \in DID : file[d] # None /\ file[d].key # None => iss[file[d].key] = d

Fine(q, iss, ex) ==
  /\ q.op # None => Sound(q) /\ RecKnown(q, iss) /\ RecFits(q, ex)
  /\ Known(q.file, iss)

Files == [DID -> Record \cup {None}]

Scene ==
  /\ accounts \in [DID -> Sub \cup {None, Elsewhere}]
  /\ held \subseteq Key
  /\ calm \in BOOLEAN /\ cut \subseteq {"unlisted", "secret"} /\ faults \in Nat

Stores ==
  /\ subs \in [Sub -> DID \cup {None}]
  /\ dids \in Files /\ backup \in Files
  /\ issued \in [Key -> DID \cup {None}] /\ exempt \subseteq DID

IInv ==
  /\ Scene /\ Stores
  /\ req \in [Proc -> Request]
  /\ \A p \in Proc : Fine(req[p], issued, exempt)
  /\ Known(dids, issued) /\ Known(backup, issued)
  /\ RecordWithinCap

(* Secrets stay whose they are, and who was exempt is. *)
Steady ==
  /\ \A k \in Key : issued[k] # None => issued'[k] = issued[k]
  /\ exempt \subseteq exempt'

-----------------------------------------------------------------------------
(* Sequences of calls *)

LEMMA TailLeft ==
  ASSUME NEW s \in Seq(Call), s # <<>>
  PROVE  /\ Tail(s) \in Seq(Call) /\ Head(s) \in Left(s)
         /\ Left(Tail(s)) \subseteq Left(s)
  <1>1. /\ Tail(s) \in Seq(Call) /\ Len(s) \in Nat /\ Len(s) > 0
        /\ DOMAIN s = 1 .. Len(s) /\ Head(s) = s[1]
        /\ DOMAIN Tail(s) = 1 .. Len(s) - 1
        /\ \A i \in 1 .. Len(s) - 1 : Tail(s)[i] = s[i + 1]
    OBVIOUS
  <1>2. QED
    BY <1>1 DEF Left

LEMMA ConcatLeft ==
  ASSUME NEW s \in Seq(Call), NEW t \in Seq(Call)
  PROVE  /\ s \o t \in Seq(Call)
         /\ Left(s \o t) \subseteq Left(s) \cup Left(t)
         /\ s # <<>> => s \o t # <<>> /\ Head(s \o t) = Head(s)
  <1>1. /\ s \o t \in Seq(Call)
        /\ DOMAIN s = 1 .. Len(s) /\ DOMAIN t = 1 .. Len(t)
        /\ DOMAIN (s \o t) = 1 .. Len(s) + Len(t)
        /\ Len(s) \in Nat /\ Len(t) \in Nat
        /\ \A i \in 1 .. Len(s) : (s \o t)[i] = s[i]
        /\ \A i \in 1 .. Len(s) + Len(t) : i > Len(s) => (s \o t)[i] = t[i - Len(s)]
    OBVIOUS
  <1>2. Left(s \o t) \subseteq Left(s) \cup Left(t)
    <2> SUFFICES ASSUME NEW i \in 1 .. Len(s) + Len(t)
                 PROVE  (s \o t)[i] \in Left(s) \cup Left(t)
      BY <1>1 DEF Left
    <2>1. CASE i \in 1 .. Len(s)
      BY <1>1, <2>1 DEF Left
    <2>2. CASE i > Len(s)
      <3>1. i - Len(s) \in 1 .. Len(t)
        BY <1>1, <2>2
      <3>2. QED
        BY <1>1, <2>2, <3>1 DEF Left
    <2>3. QED
      BY <1>1, <2>1, <2>2
  <1>3. s # <<>> => s \o t # <<>> /\ Head(s \o t) = Head(s)
    BY <1>1
  <1>4. QED
    BY <1>1, <1>2, <1>3

LEMMA Prefixes ==
  /\ \A c \in Call : <<c>> \in Seq(Call) /\ <<c>> # <<>> /\ Head(<<c>>) = c /\ Left(<<c>>) = {c}
  /\ \A c, e \in Call : /\ <<c, e>> \in Seq(Call) /\ <<c, e>> # <<>> /\ Head(<<c, e>>) = c
                        /\ Left(<<c, e>>) = {c, e}
  <1>1. ASSUME NEW c \in Call
        PROVE  <<c>> \in Seq(Call) /\ <<c>> # <<>> /\ Head(<<c>>) = c /\ Left(<<c>>) = {c}
    <2>1. DOMAIN <<c>> = {1} /\ <<c>>[1] = c
      OBVIOUS
    <2>2. QED
      BY <2>1 DEF Left
  <1>2. ASSUME NEW c \in Call, NEW e \in Call
        PROVE  /\ <<c, e>> \in Seq(Call) /\ <<c, e>> # <<>> /\ Head(<<c, e>>) = c
               /\ Left(<<c, e>>) = {c, e}
    <2>1. DOMAIN <<c, e>> = {1, 2} /\ <<c, e>>[1] = c /\ <<c, e>>[2] = e
      OBVIOUS
    <2>2. QED
      BY <2>1 DEF Left
  <1>3. QED
    BY <1>1, <1>2

LEMMA Push ==
  ASSUME NEW s \in Seq(Call), NEW c \in Call
  PROVE  /\ <<c>> \o s \in Seq(Call) /\ <<c>> \o s # <<>> /\ Head(<<c>> \o s) = c
         /\ Left(<<c>> \o s) \subseteq Left(s) \cup {c}
  <1> DEFINE a == <<c>>
  <1>1. a \in Seq(Call) /\ a # <<>> /\ Head(a) = c /\ Left(a) = {c}
    BY Prefixes
  <1> HIDE DEF a
  <1>2. /\ a \o s \in Seq(Call) /\ a \o s # <<>> /\ Head(a \o s) = c
        /\ Left(a \o s) \subseteq Left(s) \cup {c}
    BY <1>1, ConcatLeft
  <1>3. QED
    BY <1>2 DEF a

LEMMA PushTwo ==
  ASSUME NEW s \in Seq(Call), NEW c \in Call, NEW e \in Call
  PROVE  /\ <<c, e>> \o s \in Seq(Call) /\ <<c, e>> \o s # <<>> /\ Head(<<c, e>> \o s) = c
         /\ Left(<<c, e>> \o s) \subseteq Left(s) \cup {c, e}
  <1> DEFINE a == <<c, e>>
  <1>1. a \in Seq(Call) /\ a # <<>> /\ Head(a) = c /\ Left(a) = {c, e}
    BY Prefixes
  <1> HIDE DEF a
  <1>2. /\ a \o s \in Seq(Call) /\ a \o s # <<>> /\ Head(a \o s) = c
        /\ Left(a \o s) \subseteq Left(s) \cup {c, e}
    BY <1>1, ConcatLeft
  <1>3. QED
    BY <1>2 DEF a

-----------------------------------------------------------------------------
(* Requests with one field changed *)

LEMMA WithCalls ==
  ASSUME NEW q \in Request, NEW c \in Seq(Call)
  PROVE  LET n == [q EXCEPT !.calls = c] IN
         /\ n \in Request /\ n.calls = c
         /\ n.solo = q.solo /\ n.op = q.op
         /\ n.did = q.did /\ n.sub = q.sub /\ n.old = q.old /\ n.key = q.key
         /\ n.rec = q.rec /\ n.todo = q.todo /\ n.file = q.file
  BY DEF Request

LEMMA WithDid ==
  ASSUME NEW q \in Request, NEW d \in DID \cup {None}
  PROVE  LET n == [q EXCEPT !.did = d] IN
         /\ n \in Request /\ n.did = d
         /\ n.solo = q.solo /\ n.op = q.op
         /\ n.calls = q.calls /\ n.sub = q.sub /\ n.old = q.old /\ n.key = q.key
         /\ n.rec = q.rec /\ n.todo = q.todo /\ n.file = q.file
  BY DEF Request

LEMMA WithSub ==
  ASSUME NEW q \in Request, NEW s \in Sub
  PROVE  LET n == [q EXCEPT !.sub = s] IN
         /\ n \in Request /\ n.sub = s
         /\ n.solo = q.solo /\ n.op = q.op
         /\ n.calls = q.calls /\ n.did = q.did /\ n.old = q.old /\ n.key = q.key
         /\ n.rec = q.rec /\ n.todo = q.todo /\ n.file = q.file
  BY DEF Request

LEMMA WithKey ==
  ASSUME NEW q \in Request, NEW k \in Key
  PROVE  LET n == [q EXCEPT !.key = k] IN
         /\ n \in Request /\ n.key = k
         /\ n.solo = q.solo /\ n.op = q.op
         /\ n.calls = q.calls /\ n.did = q.did /\ n.sub = q.sub /\ n.old = q.old
         /\ n.rec = q.rec /\ n.todo = q.todo /\ n.file = q.file
  BY DEF Request

LEMMA WithRec ==
  ASSUME NEW q \in Request, NEW r \in Record
  PROVE  LET n == [q EXCEPT !.rec = r] IN
         /\ n \in Request /\ n.rec = r
         /\ n.solo = q.solo /\ n.op = q.op
         /\ n.calls = q.calls /\ n.did = q.did /\ n.sub = q.sub /\ n.old = q.old
         /\ n.key = q.key /\ n.todo = q.todo /\ n.file = q.file
  BY DEF Request

LEMMA WithTodo ==
  ASSUME NEW q \in Request, NEW t \in SUBSET (DID \cup Sub)
  PROVE  LET n == [q EXCEPT !.todo = t] IN
         /\ n \in Request /\ n.todo = t
         /\ n.solo = q.solo /\ n.op = q.op
         /\ n.calls = q.calls /\ n.did = q.did /\ n.sub = q.sub /\ n.old = q.old
         /\ n.key = q.key /\ n.rec = q.rec /\ n.file = q.file
  BY DEF Request

LEMMA WithFile ==
  ASSUME NEW q \in Request, NEW f \in Files
  PROVE  LET n == [q EXCEPT !.file = f] IN
         /\ n \in Request /\ n.file = f
         /\ n.solo = q.solo /\ n.op = q.op
         /\ n.calls = q.calls /\ n.did = q.did /\ n.sub = q.sub /\ n.old = q.old
         /\ n.key = q.key /\ n.rec = q.rec /\ n.todo = q.todo
  BY DEF Request, Files

-----------------------------------------------------------------------------
(* One request goes on *)

LEMMA IdleFine ==
  ASSUME NEW iss, NEW ex
  PROVE  NoRequest \in Request /\ NoRequest.op = None /\ Fine(NoRequest, iss, ex)
  <1>1. NoFile \in Files /\ NoRecord \in Record /\ \A d \in DID : NoFile[d] = None
    BY DEF NoFile, Files, NoRecord, Record
  <1>2. <<>> \in Seq(Call)
    OBVIOUS
  <1>3. NoRequest \in Request
    BY <1>1, <1>2 DEF NoRequest, Request, Files
  <1>4. NoRequest.op = None /\ NoRequest.file = NoFile
    BY DEF NoRequest
  <1>5. QED
    BY <1>1, <1>3, <1>4 DEF Fine, Known

LEMMA StillFine ==
  ASSUME IInv, Steady, NEW o \in Proc
  PROVE  Fine(req[o], issued', exempt')
  <1> DEFINE q == req[o]
  <1>1. q \in Request /\ Fine(q, issued, exempt)
    BY DEF IInv
  <1>2. q.rec \in Record /\ q.file \in Files
    BY <1>1 DEF Request, Files
  <1>3. \A r \in Record, d \in DID : r.key # None /\ issued[r.key] = d => issued'[r.key] = d
    BY NoneAssumption DEF Steady, Record
  <1>4. Known(q.file, issued')
    BY <1>1, <1>2, <1>3 DEF Fine, Known, Files
  <1>5. RecKnown(q, issued) => RecKnown(q, issued')
    BY <1>2, <1>3 DEF RecKnown
  <1>6. RecFits(q, exempt) => RecFits(q, exempt')
    BY DEF RecFits, Steady
  <1>7. QED
    BY <1>1, <1>4, <1>5, <1>6 DEF Fine

LEMMA Going ==
  ASSUME IInv, Steady, NEW p \in Proc, NEW n \in Request, Go(p, n),
         n.calls = <<>> \/ Fine(n, issued', exempt'),
         Scene', Stores', Known(dids', issued'), Known(backup', issued'), RecordWithinCap'
  PROVE  IInv'
  <1>1. /\ req' \in [Proc -> Request]
        /\ \A o \in Proc \ {p} : req'[o] = req[o]
        /\ req'[p] = NoRequest \/ (req'[p] = n /\ n.calls # <<>>)
    <2>1. NoRequest \in Request
      BY IdleFine
    <2>2. req \in [Proc -> Request]
      BY DEF IInv
    <2>3. req' = [req EXCEPT ![p] = IF n.calls = <<>> THEN NoRequest ELSE n]
      BY DEF Go
    <2>4. QED
      BY <2>1, <2>2, <2>3
  <1>2. ASSUME NEW o \in Proc
        PROVE  Fine(req'[o], issued', exempt')
    BY <1>1, IdleFine, StillFine
  <1>3. QED
    BY <1>1, <1>2 DEF IInv

(* Nothing changes but handles and what the requests do. *)
Aside == UNCHANGED <<dids, backup, issued, exempt>>

LEMMA GoingAside ==
  ASSUME IInv, Aside, NEW p \in Proc, NEW n \in Request, Go(p, n),
         n.calls = <<>> \/ Fine(n, issued, exempt),
         Scene', subs' \in [Sub -> DID \cup {None}]
  PROVE  IInv'
  <1>1. Steady /\ Stores' /\ Known(dids', issued') /\ Known(backup', issued')
    BY DEF IInv, Aside, Steady, Stores
  <1>2. RecordWithinCap'
    BY DEF IInv, Aside, RecordWithinCap
  <1>3. issued' = issued /\ exempt' = exempt
    BY DEF Aside
  <1>4. n.calls = <<>> \/ Fine(n, issued', exempt')
    BY <1>3
  <1>5. QED
    BY <1>1, <1>2, <1>4, Going

LEMMA AnsweringAside ==
  ASSUME IInv, Aside, NEW p \in Proc, Answer(p), Scene', subs' \in [Sub -> DID \cup {None}]
  PROVE  IInv'
  <1>1. NoRequest.calls = <<>>
    BY DEF NoRequest
  <1>2. Go(p, NoRequest)
    BY <1>1 DEF Go, Answer
  <1>3. QED
    BY <1>1, <1>2, IdleFine, GoingAside

(* Calls that ask nothing of a request *)
Harmless == {"putSub", "deleteSub", "deleteOld", "restoreSubs", "pdsUpdate", "adminCheck"}

LEMMA Served ==
  ASSUME IInv, NEW p \in Proc, NEW c, At(p, c)
  PROVE  LET q == req[p] IN
         /\ q \in Request /\ q.op # None /\ q.op \in AllOps
         /\ q.calls \in Seq(Call) /\ q.calls # <<>> /\ Head(q.calls) = c /\ c \in Left(q.calls)
         /\ Sound(q) /\ RecKnown(q, issued) /\ RecFits(q, exempt) /\ Known(q.file, issued)
         /\ Tail(q.calls) \in Seq(Call) /\ Left(Tail(q.calls)) \subseteq Left(q.calls)
         /\ Rest(q) = [q EXCEPT !.calls = Tail(q.calls)]
         /\ q.rec \in Record /\ q.file \in Files /\ q.todo \in SUBSET (DID \cup Sub)
  <1> DEFINE q == req[p]
  <1>1. q \in Request /\ q.op # None /\ Head(q.calls) = c /\ Fine(q, issued, exempt)
    BY DEF IInv, At
  <1>2. /\ q.op \in AllOps /\ q.calls \in Seq(Call)
        /\ q.rec \in Record /\ q.file \in Files /\ q.todo \in SUBSET (DID \cup Sub)
    BY <1>1 DEF Request, Files
  <1>3. Sound(q) /\ RecKnown(q, issued) /\ RecFits(q, exempt) /\ Known(q.file, issued)
    BY <1>1 DEF Fine
  <1>4. q.calls # <<>>
    BY <1>3 DEF Sound
  <1>5. Rest(q) = [q EXCEPT !.calls = Tail(q.calls)]
    BY <1>1 DEF Rest, Request
  <1>6. QED
    BY <1>1, <1>2, <1>3, <1>4, <1>5, TailLeft

(* A request that keeps its DID and its record stays fine. *)
LEMMA KeepsFine ==
  ASSUME IInv, NEW p \in Proc, NEW c, At(p, c), c \notin {"fill", "addHandle", "pdsCreate"},
         NEW n \in Request, n.calls # <<>>,
         n.op = req[p].op, n.did = req[p].did, n.rec = req[p].rec, n.file = req[p].file,
         n.sub = req[p].sub \/ n.sub \in Sub,
         Left(n.calls) \subseteq Left(req[p].calls) \cup Harmless
  PROVE  Fine(n, issued, exempt)
  <1> DEFINE q == req[p]
  <1>1. /\ q.op # None /\ Head(q.calls) = c
        /\ Sound(q) /\ RecKnown(q, issued) /\ RecFits(q, exempt) /\ Known(q.file, issued)
    BY Served
  <1>2. Sound(n)
    BY <1>1 DEF Sound, NeedDid, NeedSub, Unlimited, Harmless
  <1>3. RecKnown(n, issued) /\ RecFits(n, exempt)
    BY <1>1 DEF RecKnown, RecFits
  <1>4. QED
    BY <1>1, <1>2, <1>3 DEF Fine

-----------------------------------------------------------------------------
(* Calls that write no record of a DID *)

LEMMA GoesOn ==
  ASSUME IInv, Aside, NEW p \in Proc, NEW c, At(p, c),
         c \notin {"fill", "addHandle", "pdsCreate"},
         Go(p, Rest(req[p])), Scene', subs' \in [Sub -> DID \cup {None}]
  PROVE  IInv'
  <1> DEFINE q == req[p]
             n == [q EXCEPT !.calls = Tail(q.calls)]
  <1>1. /\ q \in Request /\ Tail(q.calls) \in Seq(Call)
        /\ Left(Tail(q.calls)) \subseteq Left(q.calls) /\ Rest(q) = n
    BY Served
  <1> HIDE DEF q
  <1>2. /\ n \in Request /\ n.calls = Tail(q.calls)
        /\ n.op = q.op /\ n.did = q.did /\ n.sub = q.sub /\ n.rec = q.rec /\ n.file = q.file
    BY <1>1, WithCalls
  <1> USE DEF q
  <1>3. Left(n.calls) \subseteq Left(q.calls)
    BY <1>1, <1>2
  <1>4. Go(p, n)
    BY <1>1
  <1> HIDE DEF n
  <1>5. n.calls = <<>> \/ Fine(n, issued, exempt)
    BY <1>2, <1>3, KeepsFine
  <1> HIDE DEF q
  <1>6. QED
    BY <1>2, <1>4, <1>5, GoingAside

LEMMA SameScene ==
  ASSUME IInv, UNCHANGED World
  PROVE  Scene' /\ Steady /\ issued' = issued /\ exempt' = exempt /\ backup' = backup
  BY DEF World, IInv, Scene, Steady

LEMMA PutSubStep ==
  ASSUME IInv, NEW p \in Proc, PutSub(p)
  PROVE  IInv'
  <1>1. Scene' /\ Aside
    BY SameScene DEF PutSub, Aside
  <1>2. At(p, "putSub") /\ Go(p, Rest(req[p]))
    BY DEF PutSub
  <1>3. req[p].did \in DID \cup {None}
    BY DEF IInv, Request
  <1>4. subs' \in [Sub -> DID \cup {None}]
    BY <1>3 DEF PutSub, IInv, Stores
  <1>5. QED
    BY <1>1, <1>2, <1>4, GoesOn

LEMMA DeleteSubStep ==
  ASSUME IInv, NEW p \in Proc, DeleteSub(p)
  PROVE  IInv'
  <1>1. Scene' /\ Aside
    BY SameScene DEF DeleteSub, Aside
  <1>2. At(p, "deleteSub") /\ Go(p, Rest(req[p]))
    BY DEF DeleteSub
  <1>3. subs' \in [Sub -> DID \cup {None}]
    BY DEF DeleteSub, IInv, Stores
  <1>4. QED
    BY <1>1, <1>2, <1>3, GoesOn

LEMMA DeleteOldStep ==
  ASSUME IInv, NEW p \in Proc, DeleteOld(p)
  PROVE  IInv'
  <1>1. Scene' /\ Aside
    BY SameScene DEF DeleteOld, Aside
  <1>2. At(p, "deleteOld") /\ Go(p, Rest(req[p]))
    BY DEF DeleteOld
  <1>3. subs' \in [Sub -> DID \cup {None}]
    BY DEF DeleteOld, IInv, Stores
  <1>4. QED
    BY <1>1, <1>2, <1>3, GoesOn

LEMMA LogActivityStep ==
  ASSUME IInv, NEW p \in Proc, LogActivity(p)
  PROVE  IInv'
  <1>1. req[p].key \in Key \cup {None}
    BY DEF IInv, Request
  <1>2. Scene' /\ Aside
    BY <1>1 DEF LogActivity, IInv, Scene, Aside
  <1>3. At(p, "log") /\ Go(p, Rest(req[p])) /\ subs' \in [Sub -> DID \cup {None}]
    BY DEF LogActivity, IInv, Stores
  <1>4. QED
    BY <1>2, <1>3, GoesOn

LEMMA ReadingAside ==
  ASSUME IInv, NEW p \in Proc, Reads(p)
  PROVE  Scene' /\ Aside /\ subs' \in [Sub -> DID \cup {None}]
  BY SameScene DEF Reads, Aside, IInv, Stores

LEMMA CheckStep ==
  ASSUME IInv, NEW p \in Proc, CheckTaken(p) \/ CheckOther(p) \/ AdminCheck(p)
  PROVE  IInv'
  <1>1. Reads(p)
    BY DEF CheckTaken, CheckOther, AdminCheck
  <1>2. /\ At(p, "checkTaken") \/ At(p, "checkOther") \/ At(p, "adminCheck")
        /\ Go(p, Rest(req[p])) \/ Answer(p)
    BY DEF CheckTaken, CheckOther, AdminCheck
  <1>3. CASE Answer(p)
    BY <1>1, <1>3, ReadingAside, AnsweringAside
  <1>4. CASE Go(p, Rest(req[p]))
    BY <1>1, <1>2, <1>4, ReadingAside, GoesOn
  <1>5. QED
    BY <1>2, <1>3, <1>4

LEMMA PdsRefusesStep ==
  ASSUME IInv, NEW p \in Proc, PdsRefuses(p)
  PROVE  IInv'
  BY ReadingAside, AnsweringAside DEF PdsRefuses

LEMMA PdsAccountStep ==
  ASSUME IInv, NEW p \in Proc, PdsUpdatesHandle(p) \/ PdsDeletesAccount(p)
  PROVE  IInv'
  <1>1. Aside /\ subs' \in [Sub -> DID \cup {None}]
    BY DEF PdsUpdatesHandle, PdsDeletesAccount, Aside, IInv, Stores
  <1>2. req[p].sub \in Sub \cup {None, Elsewhere}
    BY DEF IInv, Request
  <1>3. Scene'
    BY <1>2 DEF PdsUpdatesHandle, PdsDeletesAccount, IInv, Scene
  <1>4. /\ At(p, "pdsUpdate") \/ At(p, "pdsDelete")
        /\ Go(p, Rest(req[p]))
    BY DEF PdsUpdatesHandle, PdsDeletesAccount
  <1>5. QED
    BY <1>1, <1>3, <1>4, GoesOn

LEMMA GoesWith ==
  ASSUME IInv, Aside, NEW p \in Proc, NEW c, At(p, c),
         c \notin {"fill", "addHandle", "pdsCreate"}, NEW n \in Request, Go(p, n),
         n.op = req[p].op, n.did = req[p].did, n.rec = req[p].rec, n.file = req[p].file,
         n.sub = req[p].sub \/ n.sub \in Sub,
         Left(n.calls) \subseteq Left(req[p].calls) \cup Harmless,
         Scene', subs' \in [Sub -> DID \cup {None}]
  PROVE  IInv'
  <1>1. n.calls = <<>> \/ Fine(n, issued, exempt)
    BY KeepsFine
  <1>2. QED
    BY <1>1, GoingAside

LEMMA RestOf ==
  ASSUME IInv, NEW p \in Proc, NEW c, At(p, c)
  PROVE  LET q == req[p] n == Rest(q) IN
         /\ n \in Request /\ n.calls = Tail(q.calls)
         /\ n.solo = q.solo /\ n.op = q.op
         /\ n.did = q.did /\ n.sub = q.sub /\ n.old = q.old /\ n.key = q.key
         /\ n.rec = q.rec /\ n.todo = q.todo /\ n.file = q.file
         /\ Left(n.calls) \subseteq Left(q.calls)
  <1> DEFINE q == req[p]
  <1>1. /\ q \in Request /\ Tail(q.calls) \in Seq(Call)
        /\ Left(Tail(q.calls)) \subseteq Left(q.calls)
        /\ Rest(q) = [q EXCEPT !.calls = Tail(q.calls)]
    BY Served
  <1> DEFINE n == [q EXCEPT !.calls = Tail(q.calls)]
  <1>2. /\ n \in Request /\ n.calls = Tail(q.calls)
        /\ n.solo = q.solo /\ n.op = q.op
        /\ n.did = q.did /\ n.sub = q.sub /\ n.old = q.old /\ n.key = q.key
        /\ n.rec = q.rec /\ n.todo = q.todo /\ n.file = q.file
    BY <1>1, WithCalls
  <1>3. Rest(q) = n
    BY <1>1
  <1> HIDE DEF n
  <1>4. QED
    BY <1>1, <1>2, <1>3

LEMMA ListStep ==
  ASSUME IInv, NEW p \in Proc, ReadAll(p) \/ ListSubs(p) \/ ListDids(p)
  PROVE  IInv'
  <1>1. Scene' /\ Aside /\ subs' \in [Sub -> DID \cup {None}]
    <2>1. Reads(p)
      BY DEF ReadAll, ListSubs, ListDids
    <2>2. QED
      BY <2>1, ReadingAside
  <1>2. PICK c \in {"readAll", "readOwn", "listSubs", "listDids"} : At(p, c)
    BY DEF ReadAll, ListSubs, ListDids
  <1> DEFINE q == req[p] r == Rest(q)
  <1>3. /\ r \in Request
        /\ r.op = q.op /\ r.did = q.did /\ r.sub = q.sub /\ r.rec = q.rec /\ r.file = q.file
        /\ Left(r.calls) \subseteq Left(q.calls)
    BY <1>2, RestOf
  <1>4. \/ Answer(p)
        \/ \E t \in SUBSET (DID \cup Sub) : Go(p, [r EXCEPT !.todo = t])
    <2>1. CASE ReadAll(p)
      <3>1. CASE dids[q.did] = None
        BY <2>1, <3>1 DEF ReadAll
      <3>2. CASE dids[q.did] # None
        <4>1. q.did \in DID
          <5>1. PICK e \in {"readAll", "readOwn"} : At(p, e)
            BY <2>1 DEF ReadAll
          <5>2. Sound(q) /\ Head(q.calls) = e /\ e \in Left(q.calls)
            BY <5>1, Served
          <5>3. QED
            BY <5>2 DEF Sound, NeedDid
        <4>2. dids[q.did].handles \in SUBSET (DID \cup Sub)
          BY <3>2, <4>1 DEF IInv, Stores, Files, Record
        <4>3. Go(p, [r EXCEPT !.todo = dids[q.did].handles])
          BY <2>1, <3>2 DEF ReadAll
        <4>4. QED
          BY <4>2, <4>3
      <3>3. QED
        BY <3>1, <3>2
    <2>2. CASE ListSubs(p)
      <3>1. {s \in Sub : subs[s] # None} \in SUBSET (DID \cup Sub)
        OBVIOUS
      <3>2. QED
        BY <2>2, <3>1 DEF ListSubs
    <2>3. CASE ListDids(p)
      <3>1. {d \in DID : dids[d] # None} \in SUBSET (DID \cup Sub)
        OBVIOUS
      <3>2. QED
        BY <2>3, <3>1 DEF ListDids
    <2>4. QED
      BY <2>1, <2>2, <2>3
  <1>5. CASE Answer(p)
    BY <1>1, <1>5, AnsweringAside
  <1>6. ASSUME NEW t \in SUBSET (DID \cup Sub), Go(p, [r EXCEPT !.todo = t])
        PROVE  IInv'
    <2> DEFINE n == [r EXCEPT !.todo = t]
    <2>1. /\ n \in Request /\ n.calls = r.calls
          /\ n.op = r.op /\ n.did = r.did /\ n.sub = r.sub /\ n.rec = r.rec /\ n.file = r.file
      BY <1>3, WithTodo
    <2>2. Go(p, n)
      BY <1>6
    <2> HIDE DEF n, r
    <2>3. QED
      BY <1>1, <1>2, <1>3, <2>1, <2>2, GoesWith
  <1>7. QED
    BY <1>4, <1>5, <1>6

(* A loop takes one name off its list. *)
LEMMA LoopStep ==
  ASSUME IInv, NEW p \in Proc, NEW c, At(p, c), c \notin {"fill", "addHandle", "pdsCreate"},
         NEW x, Go(p, [req[p] EXCEPT !.todo = @ \ {x}]),
         Aside, Scene', subs' \in [Sub -> DID \cup {None}]
  PROVE  IInv'
  <1> DEFINE q == req[p]
             n == [q EXCEPT !.todo = q.todo \ {x}]
  <1>1. q \in Request /\ q.todo \in SUBSET (DID \cup Sub)
    BY Served
  <1>2. q.todo \ {x} \in SUBSET (DID \cup Sub)
    BY <1>1
  <1>3. /\ n \in Request /\ n.calls = q.calls
        /\ n.op = q.op /\ n.did = q.did /\ n.sub = q.sub /\ n.rec = q.rec /\ n.file = q.file
    BY <1>1, <1>2, WithTodo
  <1>4. Go(p, n)
    BY <1>1 DEF Request
  <1> HIDE DEF n, q
  <1>5. QED
    BY <1>3, <1>4, GoesWith DEF q

LEMMA LoopsStep ==
  ASSUME IInv, NEW p \in Proc, DeleteAll(p) \/ RestoreSubs(p)
  PROVE  IInv'
  <1> DEFINE q == req[p]
  <1>1. Scene' /\ Aside
    <2>1. UNCHANGED dids /\ UNCHANGED World
      BY DEF DeleteAll, RestoreSubs
    <2>2. QED
      BY <2>1, SameScene DEF Aside
  <1>2. PICK c \in {"deleteAll", "restoreSubs"} : At(p, c)
    BY DEF DeleteAll, RestoreSubs
  <1>3. q.did \in DID \cup {None}
    BY DEF IInv, Request
  <1>4. /\ subs' \in [Sub -> DID \cup {None}]
        /\ Go(p, Rest(q)) \/ \E x \in q.todo : Go(p, [q EXCEPT !.todo = @ \ {x}])
    <2>1. subs \in [Sub -> DID \cup {None}]
      BY DEF IInv, Stores
    <2>2. CASE DeleteAll(p)
      BY <2>1, <2>2 DEF DeleteAll
    <2>3. CASE RestoreSubs(p)
      BY <1>3, <2>1, <2>3 DEF RestoreSubs
    <2>4. QED
      BY <2>2, <2>3
  <1>5. CASE Go(p, Rest(q))
    BY <1>1, <1>2, <1>4, <1>5, GoesOn
  <1>6. ASSUME NEW x \in q.todo, Go(p, [q EXCEPT !.todo = @ \ {x}])
        PROVE  IInv'
    BY <1>1, <1>2, <1>4, <1>6, LoopStep
  <1>7. QED
    BY <1>4, <1>5, <1>6

LEMMA DeleteOwnStep ==
  ASSUME IInv, NEW p \in Proc, DeleteOwn(p)
  PROVE  IInv'
  <1> DEFINE q == req[p]
  <1>1. Scene' /\ Aside /\ subs' \in [Sub -> DID \cup {None}]
    <2>1. Reads(p)
      BY DEF DeleteOwn
    <2>2. QED
      BY <2>1, ReadingAside
  <1>2. At(p, "deleteOwn")
    BY DEF DeleteOwn
  <1>3. /\ q \in Request /\ q.calls \in Seq(Call) /\ q.todo \in SUBSET (DID \cup Sub)
        /\ <<"deleteSub">> \o q.calls \in Seq(Call)
        /\ Left(<<"deleteSub">> \o q.calls) \subseteq Left(q.calls) \cup Harmless
    <2>1. q \in Request /\ q.calls \in Seq(Call) /\ q.todo \in SUBSET (DID \cup Sub)
      BY <1>2, Served
    <2>2. "deleteSub" \in Call
      BY DEF Call
    <2>3. /\ <<"deleteSub">> \o q.calls \in Seq(Call)
          /\ Left(<<"deleteSub">> \o q.calls) \subseteq Left(q.calls) \cup {"deleteSub"}
      BY <2>1, <2>2, Push
    <2>4. QED
      BY <2>1, <2>3 DEF Harmless
  <1>4. CASE Go(p, Rest(q))
    BY <1>1, <1>2, <1>4, GoesOn
  <1>5. ASSUME NEW s \in q.todo \cap Sub, NEW c \in {q.calls, <<"deleteSub">> \o q.calls},
               Go(p, [q EXCEPT !.todo = @ \ {s}, !.sub = s, !.calls = c])
        PROVE  IInv'
    <2> DEFINE t == [q EXCEPT !.todo = q.todo \ {s}]
               u == [t EXCEPT !.sub = s]
               n == [u EXCEPT !.calls = c]
    <2>1. q.todo \ {s} \in SUBSET (DID \cup Sub) /\ s \in Sub /\ c \in Seq(Call)
          /\ Left(c) \subseteq Left(q.calls) \cup Harmless
      BY <1>3
    <2>2. /\ t \in Request
          /\ t.op = q.op /\ t.did = q.did /\ t.rec = q.rec /\ t.file = q.file
      BY <1>3, <2>1, WithTodo
    <2>3. [q EXCEPT !.todo = @ \ {s}, !.sub = s, !.calls = c] = n
      BY <1>3 DEF Request
    <2> HIDE DEF t
    <2>4. /\ u \in Request /\ u.sub = s
          /\ u.op = t.op /\ u.did = t.did /\ u.rec = t.rec /\ u.file = t.file
      BY <2>1, <2>2, WithSub
    <2> HIDE DEF u
    <2>5. /\ n \in Request /\ n.calls = c /\ n.sub = u.sub
          /\ n.op = u.op /\ n.did = u.did /\ n.rec = u.rec /\ n.file = u.file
      BY <2>1, <2>4, WithCalls
    <2>6. Go(p, n)
      BY <1>5, <2>3
    <2> HIDE DEF n
    <2>7. /\ n.op = q.op /\ n.did = q.did /\ n.rec = q.rec /\ n.file = q.file
          /\ n.sub \in Sub /\ Left(n.calls) \subseteq Left(q.calls) \cup Harmless
      BY <2>1, <2>2, <2>4, <2>5
    <2>8. QED
      BY <1>1, <1>2, <2>5, <2>6, <2>7, GoesWith
  <1>6. \/ Go(p, Rest(q))
        \/ \E s \in q.todo \cap Sub, c \in {q.calls, <<"deleteSub">> \o q.calls} :
             Go(p, [q EXCEPT !.todo = @ \ {s}, !.sub = s, !.calls = c])
    BY DEF DeleteOwn
  <1>7. QED
    BY <1>4, <1>5, <1>6

(* A request that is left with other calls *)
LEMMA CallsStep ==
  ASSUME IInv, Aside, NEW p \in Proc, NEW c \in Seq(Call), Go(p, [req[p] EXCEPT !.calls = c]),
         NEW e, At(p, e), e \notin {"fill", "addHandle", "pdsCreate"},
         Left(c) \subseteq Left(req[p].calls) \cup Harmless,
         Scene', subs' \in [Sub -> DID \cup {None}]
  PROVE  IInv'
  <1> DEFINE q == req[p]
             n == [q EXCEPT !.calls = c]
  <1>1. q \in Request
    BY Served
  <1>2. /\ n \in Request /\ n.calls = c
        /\ n.op = q.op /\ n.did = q.did /\ n.sub = q.sub /\ n.rec = q.rec /\ n.file = q.file
    BY <1>1, WithCalls
  <1>3. Go(p, n)
    OBVIOUS
  <1> HIDE DEF n
  <1>4. QED
    BY <1>2, <1>3, GoesWith

LEMMA CheckOldStep ==
  ASSUME IInv, NEW p \in Proc, CheckOld(p)
  PROVE  IInv'
  <1> DEFINE q == req[p]
  <1>1. Scene' /\ Aside /\ subs' \in [Sub -> DID \cup {None}]
    <2>1. Reads(p)
      BY DEF CheckOld
    <2>2. QED
      BY <2>1, ReadingAside
  <1>2. At(p, "checkOld") /\ "checkOld" \notin {"fill", "addHandle", "pdsCreate"}
    BY DEF CheckOld
  <1>3. /\ q \in Request /\ Tail(q.calls) \in Seq(Call)
        /\ Left(Tail(q.calls)) \subseteq Left(q.calls)
    BY <1>2, Served
  <1> DEFINE c == <<"deleteOld">> \o Tail(q.calls)
  <1>4. c \in Seq(Call) /\ Left(c) \subseteq Left(q.calls) \cup Harmless
    <2>1. "deleteOld" \in Call /\ "deleteOld" \in Harmless
      BY DEF Call, Harmless
    <2>2. /\ c \in Seq(Call)
          /\ Left(c) \subseteq Left(Tail(q.calls)) \cup {"deleteOld"}
      BY <1>3, <2>1, Push
    <2> HIDE DEF c
    <2>3. QED
      BY <1>3, <2>1, <2>2
  <1>5. CASE subs[q.old] # q.did
    <2>1. Go(p, Rest(q))
      BY <1>5 DEF CheckOld
    <2>2. QED
      BY <1>1, <1>2, <2>1, GoesOn
  <1>6. CASE subs[q.old] = q.did
    <2>1. Go(p, [q EXCEPT !.calls = c])
      <3>1. Go(p, Then(q, <<"deleteOld">>))
        BY <1>6 DEF CheckOld
      <3>2. Then(q, <<"deleteOld">>) = [q EXCEPT !.calls = c]
        BY <1>3 DEF Then, Request
      <3>3. QED
        BY <3>1, <3>2
    <2> HIDE DEF c
    <2>2. QED
      BY <1>1, <1>2, <1>4, <2>1, CallsStep
  <1>7. QED
    BY <1>5, <1>6

LEMMA GetSessionStep ==
  ASSUME IInv, NEW p \in Proc, GetSession(p)
  PROVE  IInv'
  <1> DEFINE q == req[p]
             c == SetRegistryHandle \o Tail(q.calls)
             n == [q EXCEPT !.calls = c]
  <1>1. Scene' /\ Aside /\ subs' \in [Sub -> DID \cup {None}]
    <2>1. Reads(p)
      BY DEF GetSession
    <2>2. QED
      BY <2>1, ReadingAside
  <1>2. At(p, "session") /\ "session" \notin {"fill", "addHandle", "pdsCreate"}
    BY DEF GetSession
  <1>3. /\ q \in Request /\ Tail(q.calls) \in Seq(Call) /\ q.op # None
        /\ Head(q.calls) = "session" /\ "session" \in Left(q.calls)
        /\ Sound(q) /\ RecKnown(q, issued) /\ RecFits(q, exempt) /\ Known(q.file, issued)
        /\ Left(Tail(q.calls)) \subseteq Left(q.calls)
    BY <1>2, Served
  <1>4. CASE Go(p, Rest(q))
    BY <1>1, <1>2, <1>4, GoesOn
  <1>5. CASE q.sub \in Sub /\ Go(p, Then(q, SetRegistryHandle))
    <2>1. /\ SetRegistryHandle \in Seq(Call) /\ SetRegistryHandle # <<>>
          /\ Head(SetRegistryHandle) = "putSub"
          /\ Left(SetRegistryHandle) = {"putSub", "addHandle", "putDid"}
      <3>1. /\ DOMAIN SetRegistryHandle = {1, 2, 3} /\ Len(SetRegistryHandle) = 3
            /\ SetRegistryHandle[1] = "putSub" /\ SetRegistryHandle[2] = "addHandle"
            /\ SetRegistryHandle[3] = "putDid"
        BY DEF SetRegistryHandle
      <3>2. SetRegistryHandle \in Seq(Call)
        BY DEF SetRegistryHandle, Call
      <3>3. QED
        BY <3>1, <3>2 DEF Left
    <2>2. /\ c \in Seq(Call) /\ c # <<>> /\ Head(c) = "putSub"
          /\ Left(c) \subseteq Left(q.calls) \cup {"putSub", "addHandle", "putDid"}
      BY <1>3, <2>1, ConcatLeft
    <2>3. Go(p, n)
      BY <1>3, <1>5 DEF Then, Request
    <2> HIDE DEF c
    <2>4. /\ n \in Request /\ n.calls = c
          /\ n.op = q.op /\ n.did = q.did /\ n.sub = q.sub /\ n.rec = q.rec /\ n.file = q.file
      BY <1>3, <2>2, WithCalls
    <2> HIDE DEF n
    <2>5. q.did \in DID /\ q.op \notin Limited
      BY <1>3 DEF Sound, NeedDid, Unlimited
    <2>6. Sound(n)
      BY <1>3, <1>5, <2>2, <2>4, <2>5 DEF Sound
    <2>7. RecKnown(n, issued) /\ RecFits(n, exempt)
      BY <1>3, <2>4, <2>5 DEF RecKnown, RecFits
    <2>8. Fine(n, issued, exempt)
      BY <1>3, <2>4, <2>6, <2>7 DEF Fine
    <2>9. QED
      BY <1>1, <2>3, <2>4, <2>8, GoingAside
  <1>6. QED
    BY <1>4, <1>5 DEF GetSession

LEMMA CutShortStep ==
  ASSUME IInv, NEW p \in Proc, CutShort(p)
  PROVE  IInv'
  <1> DEFINE q == req[p]
             n == [q EXCEPT !.calls = <<"pdsUpdate">>]
  <1>1. Aside /\ subs' \in [Sub -> DID \cup {None}]
    BY DEF CutShort, Aside, IInv, Stores
  <1>2. Scene'
    <2>1. LeftBehind(q.op) \subseteq {"unlisted", "secret"}
      BY DEF LeftBehind
    <2>2. QED
      BY <2>1 DEF CutShort, IInv, Scene
  <1>3. CASE Answer(p)
    BY <1>1, <1>2, <1>3, AnsweringAside
  <1>4. CASE q.op = "updateHandle" /\ Go(p, n)
    <2>1. /\ q \in Request /\ Fine(q, issued, exempt) /\ q.file \in Files
      BY DEF IInv, Request, Files
    <2>2. q.op # None
      BY DEF CutShort
    <2>3. "pdsUpdate" \in Call
      BY DEF Call
    <2>4. <<"pdsUpdate">> \in Seq(Call) /\ Left(<<"pdsUpdate">>) = {"pdsUpdate"}
          /\ <<"pdsUpdate">> # <<>> /\ Head(<<"pdsUpdate">>) = "pdsUpdate"
      BY <2>3, Prefixes
    <2>5. /\ n \in Request /\ n.calls = <<"pdsUpdate">>
          /\ n.op = q.op /\ n.did = q.did /\ n.sub = q.sub /\ n.rec = q.rec /\ n.file = q.file
      BY <2>1, <2>4, WithCalls
    <2> HIDE DEF n
    <2>6. q.op \notin Limited
      BY <1>4 DEF Limited
    <2>7. Sound(n)
      BY <2>4, <2>5, <2>6 DEF Sound, NeedDid, NeedSub
    <2>8. RecFits(n, exempt) /\ Known(n.file, issued)
      BY <2>1, <2>5, <2>6 DEF RecFits, Fine
    <2>9. RecKnown(n, issued)
      BY <1>4, <2>1, <2>2, <2>5 DEF RecKnown, Fine
    <2>10. Fine(n, issued, exempt)
      BY <2>7, <2>8, <2>9 DEF Fine
    <2>11. QED
      BY <1>1, <1>2, <1>4, <2>5, <2>10, GoingAside
  <1>5. QED
    BY <1>3, <1>4 DEF CutShort

-----------------------------------------------------------------------------
(* Calls that write the record of a DID *)

LEMMA Writing ==
  ASSUME IInv, Scene', subs' \in [Sub -> DID \cup {None}],
         UNCHANGED <<backup, issued>>, exempt \subseteq exempt', exempt' \subseteq DID,
         NEW d, NEW r \in Record \cup {None}, dids' = [dids EXCEPT ![d] = r],
         r # None /\ r.key # None => issued[r.key] = d,
         r # None /\ d \notin Vip \cup exempt' => Cardinality(r.handles) <= MaxHandles,
         NEW p \in Proc, NEW n \in Request, Go(p, n),
         n.calls = <<>> \/ Fine(n, issued, exempt)
  PROVE  IInv'
  <1>1. dids \in Files /\ Known(dids, issued) /\ Known(backup, issued) /\ RecordWithinCap
    BY DEF IInv, Stores
  <1>2. /\ dids' \in Files
        /\ \A e \in DID : dids'[e] = IF e = d THEN r ELSE dids[e]
    BY <1>1 DEF Files
  <1>3. Steady /\ Stores'
    BY <1>2 DEF IInv, Steady, Stores
  <1>4. Known(dids', issued') /\ Known(backup', issued')
    BY <1>1, <1>2 DEF Known
  <1>5. RecordWithinCap'
    <2> SUFFICES ASSUME NEW e \in DID, e \notin Vip \cup exempt'
                 PROVE  Cardinality(HandlesOf(dids'[e])) <= MaxHandles
      BY DEF RecordWithinCap
    <2>1. CASE e # d
      <3>1. e \in DID \ (Vip \cup exempt) /\ dids'[e] = dids[e]
        BY <1>2, <2>1
      <3>2. QED
        BY <1>1, <3>1 DEF RecordWithinCap
    <2>2. CASE e = d /\ r # None
      <3>1. HandlesOf(dids'[e]) = r.handles
        BY <1>2, <2>2 DEF HandlesOf
      <3>2. Cardinality(r.handles) <= MaxHandles
        BY <2>2
      <3>3. QED
        BY <3>1, <3>2
    <2>3. CASE e = d /\ r = None
      <3>1. HandlesOf(dids'[e]) = {}
        BY <1>2, <2>3 DEF HandlesOf
      <3>2. Cardinality({}) = 0
        BY FS_EmptySet
      <3>3. 0 <= MaxHandles
        BY WorkerAssumption
      <3>4. QED
        BY <3>1, <3>2, <3>3
    <2>4. QED
      BY <2>1, <2>2, <2>3
  <1>6. Fine(n, issued, exempt) => Fine(n, issued', exempt')
    BY DEF Fine, RecFits
  <1>7. QED
    BY <1>3, <1>4, <1>5, <1>6, Going

LEMMA RestFine ==
  ASSUME IInv, NEW p \in Proc, NEW c, At(p, c), c \notin {"fill", "addHandle", "pdsCreate"}
  PROVE  LET n == Rest(req[p]) IN n \in Request /\ (n.calls = <<>> \/ Fine(n, issued, exempt))
  <1> DEFINE q == req[p] n == Rest(q)
  <1>1. /\ n \in Request
        /\ n.op = q.op /\ n.did = q.did /\ n.sub = q.sub /\ n.rec = q.rec /\ n.file = q.file
        /\ Left(n.calls) \subseteq Left(q.calls)
    BY RestOf
  <1> HIDE DEF n
  <1>2. n.calls = <<>> \/ Fine(n, issued, exempt)
    BY <1>1, KeepsFine
  <1>3. QED
    BY <1>1, <1>2 DEF n

LEMMA PutDidStep ==
  ASSUME IInv, NEW p \in Proc, PutDid(p)
  PROVE  IInv'
  <1> DEFINE q == req[p] n == Rest(q)
  <1>1. At(p, "putDid") /\ "putDid" \notin {"fill", "addHandle", "pdsCreate"} /\ Go(p, n)
    BY DEF PutDid
  <1>2. /\ q.op # None /\ Head(q.calls) = "putDid" /\ "putDid" \in Left(q.calls)
        /\ Sound(q) /\ RecKnown(q, issued) /\ RecFits(q, exempt) /\ q.rec \in Record
    BY <1>1, Served
  <1>3. q.did \in DID
    BY <1>2 DEF Sound, NeedDid
  <1>4. q.rec.key # None => issued[q.rec.key] = q.did
    BY <1>2 DEF RecKnown
  <1>5. q.did \notin Vip \cup exempt' => Cardinality(q.rec.handles) <= MaxHandles
    BY <1>2 DEF RecFits, PutDid
  <1>6. /\ exempt \subseteq exempt' /\ exempt' \subseteq DID
        /\ UNCHANGED <<backup, issued>> /\ dids' = [dids EXCEPT ![q.did] = q.rec]
        /\ Scene' /\ subs' \in [Sub -> DID \cup {None}]
    BY <1>3 DEF PutDid, IInv, Stores, Scene
  <1>7. n \in Request /\ (n.calls = <<>> \/ Fine(n, issued, exempt))
    BY <1>1, RestFine
  <1> HIDE DEF n, q
  <1>8. QED
    BY <1>1, <1>2, <1>4, <1>5, <1>6, <1>7, Writing

LEMMA SaveDidStep ==
  ASSUME IInv, NEW p \in Proc, SaveDid(p)
  PROVE  IInv'
  <1> DEFINE q == req[p] n == Rest(q)
             r == IF q.rec.handles = {} THEN None ELSE q.rec
  <1>1. At(p, "saveDid") /\ "saveDid" \notin {"fill", "addHandle", "pdsCreate"} /\ Go(p, n)
    BY DEF SaveDid
  <1>2. /\ q.op # None /\ Head(q.calls) = "saveDid" /\ "saveDid" \in Left(q.calls)
        /\ Sound(q) /\ RecKnown(q, issued) /\ RecFits(q, exempt) /\ q.rec \in Record
    BY <1>1, Served
  <1>3. q.op \in Limited
    BY <1>2 DEF Sound
  <1>4. r # None /\ r.key # None => issued[r.key] = q.did
    BY <1>2 DEF RecKnown
  <1>5. Scene' /\ UNCHANGED <<backup, issued>> /\ exempt' = exempt
    <2>1. UNCHANGED World
      BY DEF SaveDid
    <2>2. QED
      BY <2>1, SameScene
  <1>6. r # None /\ q.did \notin Vip \cup exempt' => Cardinality(r.handles) <= MaxHandles
    BY <1>2, <1>3, <1>5 DEF RecFits
  <1>7. /\ exempt \subseteq exempt' /\ exempt' \subseteq DID
        /\ r \in Record \cup {None} /\ dids' = [dids EXCEPT ![q.did] = r]
        /\ subs' \in [Sub -> DID \cup {None}]
    BY <1>2, <1>5 DEF SaveDid, IInv, Stores
  <1>8. n \in Request /\ (n.calls = <<>> \/ Fine(n, issued, exempt))
    BY <1>1, RestFine
  <1> HIDE DEF n, q, r
  <1>9. QED
    BY <1>1, <1>4, <1>5, <1>6, <1>7, <1>8, Writing

LEMMA DeleteDidStep ==
  ASSUME IInv, NEW p \in Proc, DeleteDid(p)
  PROVE  IInv'
  <1> DEFINE q == req[p] n == Rest(q)
  <1>1. At(p, "deleteDid") /\ "deleteDid" \notin {"fill", "addHandle", "pdsCreate"} /\ Go(p, n)
    BY DEF DeleteDid
  <1>2. Scene' /\ UNCHANGED <<backup, issued>> /\ exempt' = exempt
    <2>1. UNCHANGED World
      BY DEF DeleteDid
    <2>2. QED
      BY <2>1, SameScene
  <1>3. /\ exempt \subseteq exempt' /\ exempt' \subseteq DID
        /\ dids' = [dids EXCEPT ![q.did] = None] /\ subs' \in [Sub -> DID \cup {None}]
    BY <1>2 DEF DeleteDid, IInv, Stores
  <1>4. n \in Request /\ (n.calls = <<>> \/ Fine(n, issued, exempt))
    BY <1>1, RestFine
  <1> HIDE DEF n, q
  <1>5. QED
    BY <1>1, <1>2, <1>3, <1>4, Writing

LEMMA WipeStep ==
  ASSUME IInv, NEW p \in Proc, Wipe(p)
  PROVE  IInv'
  <1> DEFINE q == req[p]
  <1>1. At(p, "wipe") /\ "wipe" \notin {"fill", "addHandle", "pdsCreate"} /\ UNCHANGED World
    BY DEF Wipe
  <1>2. Scene' /\ UNCHANGED <<backup, issued>> /\ exempt' = exempt
    BY <1>1, SameScene
  <1>3. /\ q \in Request /\ q.todo \in SUBSET (DID \cup Sub)
        /\ subs \in [Sub -> DID \cup {None}] /\ exempt \subseteq DID
    BY <1>1, Served DEF IInv, Stores
  <1>4. CASE Go(p, Rest(q)) /\ UNCHANGED <<subs, dids>>
    BY <1>1, <1>2, <1>3, <1>4, GoesOn DEF Aside
  <1>5. ASSUME NEW s \in q.todo \cap Sub, subs' = [subs EXCEPT ![s] = None], UNCHANGED dids,
               Go(p, [q EXCEPT !.todo = @ \ {s}])
        PROVE  IInv'
    <2>1. Aside /\ subs' \in [Sub -> DID \cup {None}]
      BY <1>2, <1>3, <1>5 DEF Aside
    <2>2. QED
      BY <1>1, <1>2, <1>5, <2>1, LoopStep
  <1>6. ASSUME NEW d \in q.todo \cap DID, dids' = [dids EXCEPT ![d] = None], UNCHANGED subs,
               Go(p, [q EXCEPT !.todo = @ \ {d}])
        PROVE  IInv'
    <2> DEFINE n == [q EXCEPT !.todo = q.todo \ {d}]
    <2>1. q.todo \ {d} \in SUBSET (DID \cup Sub)
      BY <1>3
    <2>2. /\ n \in Request /\ n.calls = q.calls
          /\ n.op = q.op /\ n.did = q.did /\ n.sub = q.sub /\ n.rec = q.rec /\ n.file = q.file
      BY <1>3, <2>1, WithTodo
    <2>3. Go(p, n)
      BY <1>3, <1>6 DEF Request
    <2> HIDE DEF n
    <2>4. n.calls = <<>> \/ Fine(n, issued, exempt)
      BY <1>1, <2>2, KeepsFine
    <2>5. subs' \in [Sub -> DID \cup {None}] /\ exempt \subseteq exempt' /\ exempt' \subseteq DID
      BY <1>2, <1>3, <1>6
    <2>6. QED
      BY <1>2, <1>6, <2>2, <2>3, <2>4, <2>5, Writing
  <1>7. QED
    BY <1>4, <1>5, <1>6 DEF Wipe

-----------------------------------------------------------------------------
(* Calls that make a record to be written *)

LEMMA DumpStep ==
  ASSUME IInv, NEW p \in Proc, Dump(p)
  PROVE  IInv'
  <1> DEFINE q == req[p]
  <1>1. At(p, "dump") /\ "dump" \notin {"fill", "addHandle", "pdsCreate"}
        /\ UNCHANGED <<subs, dids, accounts, issued, held, exempt, calm, cut, faults>>
    BY DEF Dump
  <1>2. /\ q \in Request /\ q.file \in Files /\ q.todo \in SUBSET (DID \cup Sub) /\ q.op # None
        /\ Head(q.calls) = "dump"
        /\ Sound(q) /\ RecKnown(q, issued) /\ RecFits(q, exempt) /\ Known(q.file, issued)
    BY <1>1, Served
  <1>3. /\ Scene' /\ subs' \in [Sub -> DID \cup {None}] /\ Steady
        /\ Known(dids', issued') /\ RecordWithinCap'
        /\ dids \in Files /\ backup \in Files /\ Known(dids, issued) /\ Known(backup, issued)
    BY <1>1 DEF IInv, Stores, Scene, Steady, RecordWithinCap
  <1>4. CASE backup' = q.file /\ Go(p, Rest(q))
    <2>1. Stores' /\ Known(backup', issued')
      BY <1>1, <1>2, <1>3, <1>4 DEF IInv, Stores
    <2> DEFINE n == Rest(q)
    <2>2. n \in Request /\ (n.calls = <<>> \/ Fine(n, issued, exempt))
      BY <1>1, RestFine
    <2>3. Go(p, n) /\ issued' = issued /\ exempt' = exempt
      BY <1>1, <1>4
    <2> HIDE DEF n
    <2>4. QED
      BY <1>3, <2>1, <2>2, <2>3, Going
  <1>5. ASSUME NEW d \in q.todo, UNCHANGED backup,
               Go(p, [q EXCEPT !.todo = @ \ {d}, !.file = [@ EXCEPT ![d] = dids[d]]])
        PROVE  IInv'
    <2> DEFINE f == [q.file EXCEPT ![d] = dids[d]]
               t == [q EXCEPT !.todo = q.todo \ {d}]
               n == [t EXCEPT !.file = f]
    <2>1. f \in Files /\ Known(f, issued)
      BY <1>2, <1>3 DEF Files, Known
    <2>2. q.todo \ {d} \in SUBSET (DID \cup Sub)
      BY <1>2
    <2>3. [q EXCEPT !.todo = @ \ {d}, !.file = [@ EXCEPT ![d] = dids[d]]] = n
      BY <1>2 DEF Request
    <2> HIDE DEF f
    <2>4. /\ t \in Request /\ t.calls = q.calls
          /\ t.op = q.op /\ t.did = q.did /\ t.sub = q.sub /\ t.rec = q.rec
      BY <1>2, <2>2, WithTodo
    <2> HIDE DEF t
    <2>5. /\ n \in Request /\ n.calls = t.calls /\ n.file = f
          /\ n.op = t.op /\ n.did = t.did /\ n.sub = t.sub /\ n.rec = t.rec
      BY <2>1, <2>4, WithFile
    <2>6. Go(p, n)
      BY <1>5, <2>3
    <2> HIDE DEF n
    <2>7. Sound(n) /\ RecKnown(n, issued) /\ RecFits(n, exempt)
      BY <1>2, <2>4, <2>5 DEF Sound, RecKnown, RecFits
    <2>8. Fine(n, issued, exempt) /\ Aside
      BY <1>1, <1>5, <2>1, <2>5, <2>7 DEF Fine, Aside
    <2>9. QED
      BY <1>3, <2>5, <2>6, <2>8, GoingAside
  <1>6. QED
    BY <1>4, <1>5 DEF Dump

LEMMA RestoreStep ==
  ASSUME IInv, NEW p \in Proc, Restore(p)
  PROVE  IInv'
  <1> DEFINE q == req[p]
  <1>1. At(p, "restore") /\ "restore" \notin {"fill", "addHandle", "pdsCreate"}
    BY DEF Restore
  <1>2. Scene' /\ Aside /\ subs' \in [Sub -> DID \cup {None}]
    <2>1. Reads(p)
      BY DEF Restore
    <2>2. QED
      BY <2>1, ReadingAside
  <1>3. /\ q \in Request /\ q.file \in Files /\ q.op # None /\ q.calls \in Seq(Call)
        /\ Head(q.calls) = "restore" /\ "restore" \in Left(q.calls)
        /\ Sound(q) /\ Known(q.file, issued)
    BY <1>1, Served
  <1>4. CASE Go(p, Rest(q))
    BY <1>1, <1>2, <1>4, GoesOn
  <1>5. ASSUME NEW d \in DID, q.file[d] # None,
               Go(p, [q EXCEPT !.did = d, !.rec = q.file[d], !.todo = q.file[d].handles,
                               !.file = [@ EXCEPT ![d] = None],
                               !.calls = <<"putDid", "restoreSubs">> \o @])
        PROVE  IInv'
    <2> DEFINE r == q.file[d]
               f == [q.file EXCEPT ![d] = None]
               c == <<"putDid", "restoreSubs">> \o q.calls
               a == [q EXCEPT !.did = d]
               b == [a EXCEPT !.rec = r]
               t == [b EXCEPT !.todo = r.handles]
               u == [t EXCEPT !.file = f]
               n == [u EXCEPT !.calls = c]
    <2>1. r \in Record /\ r.handles \in SUBSET (DID \cup Sub)
          /\ (r.key # None => issued[r.key] = d)
      BY <1>3, <1>5 DEF Files, Record, Known
    <2>2. f \in Files /\ Known(f, issued)
      BY <1>3 DEF Files, Known
    <2>3. /\ c \in Seq(Call) /\ c # <<>> /\ Head(c) = "putDid"
          /\ Left(c) \subseteq Left(q.calls) \cup {"putDid", "restoreSubs"}
      <3>1. "putDid" \in Call /\ "restoreSubs" \in Call
        BY DEF Call
      <3>2. QED
        BY <1>3, <3>1, PushTwo
    <2>4. Go(p, n)
      <3>1. [q EXCEPT !.did = d, !.rec = q.file[d], !.todo = q.file[d].handles,
                      !.file = [@ EXCEPT ![d] = None],
                      !.calls = <<"putDid", "restoreSubs">> \o @] = n
        BY <1>3 DEF Request
      <3>2. QED
        BY <1>5, <3>1
    <2> HIDE DEF r, f, c
    <2>5. a \in Request /\ a.did = d /\ a.op = q.op /\ a.sub = q.sub
      BY <1>3, WithDid
    <2> HIDE DEF a
    <2>6. b \in Request /\ b.rec = r /\ b.did = a.did /\ b.op = a.op /\ b.sub = a.sub
      BY <2>1, <2>5, WithRec
    <2> HIDE DEF b
    <2>7. /\ t \in Request /\ t.rec = b.rec /\ t.did = b.did /\ t.op = b.op /\ t.sub = b.sub
      BY <2>1, <2>6, WithTodo
    <2> HIDE DEF t
    <2>8. /\ u \in Request /\ u.file = f
          /\ u.rec = t.rec /\ u.did = t.did /\ u.op = t.op /\ u.sub = t.sub
      BY <2>2, <2>7, WithFile
    <2> HIDE DEF u
    <2>9. /\ n \in Request /\ n.calls = c /\ n.file = u.file
          /\ n.rec = u.rec /\ n.did = u.did /\ n.op = u.op /\ n.sub = u.sub
      BY <2>3, <2>8, WithCalls
    <2> HIDE DEF n
    <2>10. /\ n.op = q.op /\ n.sub = q.sub /\ n.did = d /\ n.rec = r /\ n.file = f
      BY <2>5, <2>6, <2>7, <2>8, <2>9
    <2>11. q.op \notin Limited
      BY <1>3 DEF Sound, Unlimited
    <2>12. Sound(n)
      BY <1>3, <2>3, <2>9, <2>10, <2>11 DEF Sound, NeedSub
    <2>13. RecKnown(n, issued) /\ RecFits(n, exempt)
      BY <2>1, <2>10, <2>11 DEF RecKnown, RecFits
    <2>14. Fine(n, issued, exempt)
      BY <2>2, <2>10, <2>12, <2>13 DEF Fine
    <2>15. QED
      BY <1>2, <2>4, <2>9, <2>14, GoingAside
  <1>6. QED
    BY <1>4, <1>5 DEF Restore

(* A record with one handle more *)
LEMMA AddedRecord ==
  ASSUME NEW r \in Record \cup {None}, NEW s \in Sub
  PROVE  /\ Added(r, s) \in Record
         /\ Added(r, s).key # None => r # None /\ Added(r, s).key = r.key
         /\ Added(r, s).handles = HandlesOf(r) \cup {s}
  <1>1. None \notin Record
    BY NoneAssumption
  <1>2. NoRecord \in Record /\ NoRecord.key = None /\ NoRecord.handles = {}
    BY DEF NoRecord, Record
  <1>3. CASE r = None
    BY <1>2, <1>3 DEF Added, HandlesOf, Record
  <1>4. CASE r # None
    <2>1. r \in Record
      BY <1>4
    <2>2. Added(r, s) = [r EXCEPT !.handles = r.handles \cup {s}]
      BY <1>4, <2>1 DEF Added, Record
    <2>3. QED
      BY <1>4, <2>1, <2>2 DEF HandlesOf, Record
  <1>5. QED
    BY <1>3, <1>4

LEMMA OneMore ==
  ASSUME NEW S \in SUBSET Sub, NEW s \in Sub, Cardinality(S) < MaxHandles
  PROVE  Cardinality(S \cup {s}) <= MaxHandles
  <1>1. IsFiniteSet(S) /\ Cardinality(S) \in Nat /\ MaxHandles \in Nat
    BY WorkerAssumption, FS_Subset, FS_CardinalityType
  <1>2. Cardinality(S \cup {s}) = IF s \in S THEN Cardinality(S) ELSE Cardinality(S) + 1
    BY <1>1, FS_AddElement
  <1>3. QED
    BY <1>1, <1>2

LEMMA NoMore ==
  ASSUME NEW S \in SUBSET Sub, NEW T, T \subseteq S, Cardinality(S) <= MaxHandles
  PROVE  Cardinality(T) <= MaxHandles
  <1>1. IsFiniteSet(S) /\ MaxHandles \in Nat
    BY WorkerAssumption, FS_Subset
  <1>2. /\ IsFiniteSet(T) /\ Cardinality(T) <= Cardinality(S)
        /\ Cardinality(S) \in Nat /\ Cardinality(T) \in Nat
    BY <1>1, FS_Subset, FS_CardinalityType
  <1>3. QED
    BY <1>1, <1>2

(* The request goes on with a new record of its DID. *)
LEMMA WithRecord ==
  ASSUME IInv, NEW p \in Proc, NEW c, At(p, c), c \notin {"fill", "pdsCreate"},
         NEW r \in Record, NEW iss,
         r.key # None => req[p].did \in DID /\ iss[r.key] = req[p].did,
         req[p].op \in Limited /\ req[p].did \notin Vip \cup exempt
           => Cardinality(r.handles) <= MaxHandles,
         Known(req[p].file, iss)
  PROVE  LET n == [Rest(req[p]) EXCEPT !.rec = r] IN
         n \in Request /\ (n.calls = <<>> \/ Fine(n, iss, exempt))
  <1> DEFINE q == req[p] t == Rest(q) n == [t EXCEPT !.rec = r]
  <1>1. /\ t \in Request
        /\ t.op = q.op /\ t.did = q.did /\ t.sub = q.sub /\ t.file = q.file
        /\ Left(t.calls) \subseteq Left(q.calls)
    BY RestOf
  <1>2. Sound(q) /\ q.op # None /\ Head(q.calls) = c
    BY Served
  <1> HIDE DEF t
  <1>3. /\ n \in Request /\ n.rec = r /\ n.calls = t.calls
        /\ n.op = t.op /\ n.did = t.did /\ n.sub = t.sub /\ n.file = t.file
    BY <1>1, WithRec
  <1> HIDE DEF n
  <1>4. CASE n.calls # <<>>
    <2>1. Sound(n)
      BY <1>1, <1>2, <1>3, <1>4 DEF Sound
    <2>2. RecKnown(n, iss) /\ RecFits(n, exempt) /\ Known(n.file, iss)
      BY <1>1, <1>3 DEF RecKnown, RecFits
    <2>3. QED
      BY <1>3, <2>1, <2>2 DEF Fine, n, t
  <1>5. QED
    BY <1>3, <1>4 DEF n, t

LEMMA AddHandleStep ==
  ASSUME IInv, NEW p \in Proc, AddHandle(p)
  PROVE  IInv'
  <1> DEFINE q == req[p] r == Added(dids[q.did], q.sub) n == [Rest(q) EXCEPT !.rec = r]
  <1>1. At(p, "addHandle") /\ "addHandle" \notin {"fill", "pdsCreate"} /\ Go(p, n)
    BY DEF AddHandle
  <1>2. Scene' /\ Aside /\ subs' \in [Sub -> DID \cup {None}]
    <2>1. Reads(p)
      BY DEF AddHandle
    <2>2. QED
      BY <2>1, ReadingAside
  <1>3. /\ Head(q.calls) = "addHandle" /\ "addHandle" \in Left(q.calls) /\ Sound(q)
        /\ Known(q.file, issued)
    BY <1>1, Served
  <1>4. q.did \in DID /\ q.sub \in Sub /\ q.op \notin Limited
    BY <1>3 DEF Sound, NeedDid, NeedSub, Unlimited
  <1>5. dids[q.did] \in Record \cup {None} /\ Known(dids, issued)
    BY <1>4 DEF IInv, Stores, Files
  <1>6. r \in Record /\ (r.key # None => issued[r.key] = q.did)
    BY <1>4, <1>5, AddedRecord DEF Known
  <1> HIDE DEF r
  <1>7. n \in Request /\ (n.calls = <<>> \/ Fine(n, issued, exempt))
    BY <1>1, <1>3, <1>4, <1>6, WithRecord
  <1> HIDE DEF n
  <1>8. QED
    BY <1>1, <1>2, <1>7, GoingAside

LEMMA ReplaceStep ==
  ASSUME IInv, NEW p \in Proc, Replace(p)
  PROVE  IInv'
  <1> DEFINE q == req[p] o == dids[q.did]
             r == [o EXCEPT !.handles = (@ \ {q.old}) \cup {q.sub}]
             n == [Rest(q) EXCEPT !.rec = r]
  <1>1. At(p, "replace") /\ "replace" \notin {"fill", "pdsCreate"}
    BY DEF Replace
  <1>2. Scene' /\ Aside /\ subs' \in [Sub -> DID \cup {None}]
    <2>1. Reads(p)
      BY DEF Replace
    <2>2. QED
      BY <2>1, ReadingAside
  <1>3. /\ Head(q.calls) = "replace" /\ "replace" \in Left(q.calls) /\ Sound(q)
        /\ Known(q.file, issued)
    BY <1>1, Served
  <1>4. q.did \in DID /\ q.sub \in Sub /\ q.op \notin Limited
    BY <1>3 DEF Sound, NeedDid, NeedSub, Unlimited
  <1>5. o \in Record \cup {None} /\ Known(dids, issued)
    BY <1>4 DEF IInv, Stores, Files
  <1>6. CASE o = None
    <2>1. Answer(p)
      BY <1>6 DEF Replace
    <2>2. QED
      BY <1>2, <2>1, AnsweringAside
  <1>7. CASE o # None
    <2>1. Go(p, n)
      BY <1>7 DEF Replace
    <2>2. o.key # None => issued[o.key] = q.did
      BY <1>4, <1>5, <1>7 DEF Known
    <2>3. r \in Record /\ r.key = o.key
      BY <1>4, <1>5, <1>7 DEF Record
    <2> HIDE DEF r
    <2>4. n \in Request /\ (n.calls = <<>> \/ Fine(n, issued, exempt))
      BY <1>1, <1>3, <1>4, <2>2, <2>3, WithRecord
    <2> HIDE DEF n
    <2>5. QED
      BY <1>2, <2>1, <2>4, GoingAside
  <1>8. QED
    BY <1>6, <1>7

LEMMA AdminReadStep ==
  ASSUME IInv, NEW p \in Proc, AdminRead(p)
  PROVE  IInv'
  <1> DEFINE q == req[p] o == dids[q.did] r == [o EXCEPT !.handles = @ \ {q.sub}]
  <1>1. At(p, "adminRead") /\ "adminRead" \notin {"fill", "addHandle", "pdsCreate"}
    BY DEF AdminRead
  <1>2. Scene' /\ Aside /\ subs' \in [Sub -> DID \cup {None}]
    <2>1. Reads(p)
      BY DEF AdminRead
    <2>2. QED
      BY <2>1, ReadingAside
  <1>3. /\ Head(q.calls) = "adminRead" /\ "adminRead" \in Left(q.calls) /\ Sound(q)
        /\ Known(q.file, issued)
    BY <1>1, Served
  <1>4. q.did \in DID
    BY <1>3 DEF Sound, NeedDid
  <1>5. o \in Record \cup {None} /\ Known(dids, issued) /\ RecordWithinCap
    BY <1>4 DEF IInv, Stores, Files
  <1>6. CASE o = None
    <2> DEFINE c == <<"adminCheck", "deleteSub">>
    <2>1. "adminCheck" \in Call /\ "deleteSub" \in Call
          /\ {"adminCheck", "deleteSub"} \subseteq Harmless
      BY DEF Call, Harmless
    <2>2. c \in Seq(Call) /\ Left(c) \subseteq Harmless
      BY <2>1, Prefixes
    <2>3. Go(p, [req[p] EXCEPT !.calls = c])
      BY <1>6 DEF AdminRead
    <2> HIDE DEF c
    <2>4. QED
      BY <1>1, <1>2, <2>2, <2>3, CallsStep
  <1>7. CASE o # None
    <2> DEFINE n == [Rest(q) EXCEPT !.rec = r]
    <2>1. Go(p, n)
      BY <1>7 DEF AdminRead
    <2>2. o.key # None => issued[o.key] = q.did
      BY <1>4, <1>5, <1>7 DEF Known
    <2>3. /\ r \in Record /\ r.key = o.key /\ r.handles \subseteq o.handles
          /\ o.handles \in SUBSET Sub
      BY <1>5, <1>7 DEF Record
    <2>4. q.did \notin Vip \cup exempt => Cardinality(r.handles) <= MaxHandles
      <3> SUFFICES ASSUME q.did \notin Vip \cup exempt
                   PROVE  Cardinality(r.handles) <= MaxHandles
        OBVIOUS
      <3>1. Cardinality(o.handles) <= MaxHandles
        BY <1>4, <1>5, <1>7 DEF RecordWithinCap, HandlesOf
      <3> HIDE DEF r, o
      <3>2. QED
        BY <2>3, <3>1, NoMore
    <2> HIDE DEF r
    <2>5. n \in Request /\ (n.calls = <<>> \/ Fine(n, issued, exempt))
      BY <1>1, <1>3, <1>4, <2>2, <2>3, <2>4, WithRecord
    <2> HIDE DEF n
    <2>6. QED
      BY <1>2, <2>1, <2>5, GoingAside
  <1>8. QED
    BY <1>6, <1>7

LEMMA FindDidStep ==
  ASSUME IInv, NEW p \in Proc, FindDidBySecretHash(p)
  PROVE  IInv'
  <1> DEFINE q == req[p]
  <1>1. At(p, "find")
    BY DEF FindDidBySecretHash
  <1>2. Scene' /\ Aside /\ subs' \in [Sub -> DID \cup {None}]
    <2>1. Reads(p)
      BY DEF FindDidBySecretHash
    <2>2. QED
      BY <2>1, ReadingAside
  <1>3. CASE Answer(p)
    BY <1>2, <1>3, AnsweringAside
  <1>4. ASSUME NEW d \in DID, dids[d] # None,
               Go(p, [Rest(q) EXCEPT !.did = d, !.rec = [dids[d] EXCEPT !.handles = @ \ {q.sub}]])
        PROVE  IInv'
    <2> DEFINE o == dids[d] r == [o EXCEPT !.handles = @ \ {q.sub}]
               t == Rest(q) u == [t EXCEPT !.did = d] n == [u EXCEPT !.rec = r]
    <2>1. /\ t \in Request
          /\ t.op = q.op /\ t.sub = q.sub /\ t.file = q.file
          /\ Left(t.calls) \subseteq Left(q.calls)
      BY <1>1, RestOf
    <2>2. /\ Sound(q) /\ q.op # None /\ Known(q.file, issued)
      BY <1>1, Served
    <2>3. o \in Record /\ Known(dids, issued) /\ RecordWithinCap
      BY <1>4 DEF IInv, Stores, Files
    <2>4. o.key # None => issued[o.key] = d
      BY <1>4, <2>3 DEF Known
    <2>5. /\ r \in Record /\ r.key = o.key /\ r.handles \subseteq o.handles
          /\ o.handles \in SUBSET Sub
      BY <2>3 DEF Record
    <2>6. d \notin Vip \cup exempt => Cardinality(r.handles) <= MaxHandles
      <3> SUFFICES ASSUME d \notin Vip \cup exempt
                   PROVE  Cardinality(r.handles) <= MaxHandles
        OBVIOUS
      <3>1. Cardinality(o.handles) <= MaxHandles
        BY <1>4, <2>3 DEF RecordWithinCap, HandlesOf
      <3> HIDE DEF r, o
      <3>2. QED
        BY <2>5, <3>1, NoMore
    <2>7. Go(p, n)
      <3>1. [t EXCEPT !.did = d, !.rec = r] = n
        BY <2>1 DEF Request
      <3>2. QED
        BY <1>4, <3>1
    <2> HIDE DEF r, t
    <2>8. /\ u \in Request /\ u.did = d /\ u.calls = t.calls
          /\ u.op = t.op /\ u.sub = t.sub /\ u.file = t.file
      BY <2>1, WithDid
    <2> HIDE DEF u
    <2>9. /\ n \in Request /\ n.rec = r /\ n.did = u.did /\ n.calls = u.calls
          /\ n.op = u.op /\ n.sub = u.sub /\ n.file = u.file
      BY <2>5, <2>8, WithRec
    <2> HIDE DEF n
    <2>10. /\ n.did = d /\ n.rec = r /\ n.op = q.op /\ n.sub = q.sub /\ n.file = q.file
           /\ Left(n.calls) \subseteq Left(q.calls)
      BY <2>1, <2>8, <2>9
    <2>11. CASE n.calls # <<>>
      <3>1. Sound(n)
        BY <2>2, <2>10, <2>11 DEF Sound
      <3>2. RecKnown(n, issued) /\ RecFits(n, exempt) /\ Known(n.file, issued)
        BY <2>2, <2>4, <2>5, <2>6, <2>10 DEF RecKnown, RecFits
      <3>3. Fine(n, issued, exempt)
        BY <3>1, <3>2 DEF Fine
      <3>4. QED
        BY <1>2, <2>7, <2>9, <3>3, GoingAside
    <2>12. CASE n.calls = <<>>
      BY <1>2, <2>7, <2>9, <2>12, GoingAside
    <2>13. QED
      BY <2>11, <2>12
  <1>5. QED
    BY <1>3, <1>4 DEF FindDidBySecretHash

LEMMA FillStep ==
  ASSUME IInv, NEW p \in Proc, Fill(p)
  PROVE  IInv'
  <1> DEFINE q == req[p]
  <1>1. At(p, "fill")
    BY DEF Fill
  <1>2. Scene' /\ Aside /\ subs' \in [Sub -> DID \cup {None}]
    <2>1. Reads(p)
      BY DEF Fill
    <2>2. QED
      BY <2>1, ReadingAside
  <1>3. /\ q \in Request /\ q.op # None /\ q.calls \in Seq(Call)
        /\ Head(q.calls) = "fill" /\ "fill" \in Left(q.calls)
        /\ Sound(q) /\ Known(q.file, issued) /\ q.todo \in SUBSET (DID \cup Sub)
    BY <1>1, Served
  <1>4. q.op = "backfill" /\ q.op \notin Limited
    BY <1>3 DEF Sound, Limited
  <1>5. CASE Answer(p)
    BY <1>2, <1>5, AnsweringAside
  <1>6. ASSUME NEW s \in q.todo \cap Sub, Go(p, [q EXCEPT !.todo = @ \ {s}])
        PROVE  IInv'
    <2> DEFINE n == [q EXCEPT !.todo = q.todo \ {s}]
    <2>1. q.todo \ {s} \in SUBSET (DID \cup Sub)
      BY <1>3
    <2>2. /\ n \in Request /\ n.calls = q.calls
          /\ n.op = q.op /\ n.did = q.did /\ n.sub = q.sub /\ n.rec = q.rec /\ n.file = q.file
      BY <1>3, <2>1, WithTodo
    <2>3. Go(p, n)
      BY <1>3, <1>6 DEF Request
    <2> HIDE DEF n
    <2>4. Sound(n)
      BY <1>3, <2>2 DEF Sound
    <2>5. RecKnown(n, issued) /\ RecFits(n, exempt)
      BY <1>3, <1>4, <2>2 DEF RecKnown, RecFits
    <2>6. Fine(n, issued, exempt)
      BY <1>3, <2>2, <2>4, <2>5 DEF Fine
    <2>7. QED
      BY <1>2, <2>2, <2>3, <2>6, GoingAside
  <1>7. ASSUME NEW s \in q.todo \cap Sub, subs[s] # None,
               Go(p, [[q EXCEPT !.todo = @ \ {s}]
                        EXCEPT !.did = subs[s], !.sub = s,
                               !.calls = <<"addHandle", "putDid">> \o @])
        PROVE  IInv'
    <2> DEFINE d == subs[s]
               c == <<"addHandle", "putDid">> \o q.calls
               t == [q EXCEPT !.todo = q.todo \ {s}]
               u == [t EXCEPT !.did = d]
               v == [u EXCEPT !.sub = s]
               n == [v EXCEPT !.calls = c]
    <2>1. q.todo \ {s} \in SUBSET (DID \cup Sub) /\ d \in DID
      BY <1>3, <1>7 DEF IInv, Stores
    <2>2. /\ c \in Seq(Call) /\ c # <<>> /\ Head(c) = "addHandle"
          /\ Left(c) \subseteq Left(q.calls) \cup {"addHandle", "putDid"}
      <3>1. "addHandle" \in Call /\ "putDid" \in Call
        BY DEF Call
      <3>2. QED
        BY <1>3, <3>1, PushTwo
    <2>3. Go(p, n)
      <3>1. [[q EXCEPT !.todo = @ \ {s}]
               EXCEPT !.did = subs[s], !.sub = s, !.calls = <<"addHandle", "putDid">> \o @] = n
        BY <1>3 DEF Request
      <3>2. QED
        BY <1>7, <3>1
    <2> HIDE DEF c, d
    <2>4. t \in Request /\ t.op = q.op /\ t.file = q.file
      BY <1>3, <2>1, WithTodo
    <2> HIDE DEF t
    <2>5. u \in Request /\ u.did = d /\ u.op = t.op /\ u.file = t.file
      BY <2>1, <2>4, WithDid
    <2> HIDE DEF u
    <2>6. v \in Request /\ v.sub = s /\ v.did = u.did /\ v.op = u.op /\ v.file = u.file
      BY <2>5, WithSub
    <2> HIDE DEF v
    <2>7. /\ n \in Request /\ n.calls = c
          /\ n.sub = v.sub /\ n.did = v.did /\ n.op = v.op /\ n.file = v.file
      BY <2>2, <2>6, WithCalls
    <2> HIDE DEF n
    <2>8. n.op = q.op /\ n.file = q.file /\ n.did = d /\ n.sub = s
      BY <2>4, <2>5, <2>6, <2>7
    <2>9. Sound(n)
      BY <1>3, <1>4, <2>1, <2>2, <2>7, <2>8 DEF Sound
    <2>10. RecKnown(n, issued) /\ RecFits(n, exempt)
      BY <1>4, <2>2, <2>7, <2>8 DEF RecKnown, RecFits
    <2>11. Fine(n, issued, exempt)
      BY <1>3, <2>8, <2>9, <2>10 DEF Fine
    <2>12. QED
      BY <1>2, <2>3, <2>7, <2>11, GoingAside
  <1>8. QED
    BY <1>5, <1>6, <1>7 DEF Fill

LEMMA PdsCreatesStep ==
  ASSUME IInv, NEW p \in Proc, PdsCreatesAccount(p)
  PROVE  IInv'
  <1> DEFINE q == req[p]
  <1>1. /\ At(p, "pdsCreate") /\ Aside /\ subs' \in [Sub -> DID \cup {None}]
    BY DEF PdsCreatesAccount, Aside, IInv, Stores
  <1>2. PICK d \in DID, h \in {q.sub, Elsewhere} :
          /\ accounts' = [accounts EXCEPT ![d] = h]
          /\ \/ Answer(p)
             \/ Go(p, [Rest(q) EXCEPT !.did = d, !.rec = NoRecord])
    BY DEF PdsCreatesAccount
  <1>3. Scene'
    <2>1. q.sub \in Sub \cup {None, Elsewhere}
      BY DEF IInv, Request
    <2>2. QED
      BY <1>2, <2>1 DEF PdsCreatesAccount, IInv, Scene
  <1>4. CASE Answer(p)
    BY <1>1, <1>3, <1>4, AnsweringAside
  <1>5. CASE Go(p, [Rest(q) EXCEPT !.did = d, !.rec = NoRecord])
    <2> DEFINE t == Rest(q) u == [t EXCEPT !.did = d] n == [u EXCEPT !.rec = NoRecord]
    <2>1. /\ t \in Request
          /\ t.op = q.op /\ t.sub = q.sub /\ t.file = q.file
          /\ Left(t.calls) \subseteq Left(q.calls)
      BY <1>1, RestOf
    <2>2. /\ Sound(q) /\ q.op # None /\ Known(q.file, issued)
          /\ Head(q.calls) = "pdsCreate" /\ "pdsCreate" \in Left(q.calls)
      BY <1>1, Served
    <2>3. Go(p, n)
      <3>1. [t EXCEPT !.did = d, !.rec = NoRecord] = n
        BY <2>1 DEF Request
      <3>2. QED
        BY <1>5, <3>1
    <2>4. NoRecord \in Record /\ NoRecord.key = None
      BY DEF NoRecord, Record
    <2> HIDE DEF t
    <2>5. /\ u \in Request /\ u.did = d /\ u.calls = t.calls
          /\ u.op = t.op /\ u.sub = t.sub /\ u.file = t.file
      BY <2>1, WithDid
    <2> HIDE DEF u
    <2>6. /\ n \in Request /\ n.rec = NoRecord /\ n.did = u.did /\ n.calls = u.calls
          /\ n.op = u.op /\ n.sub = u.sub /\ n.file = u.file
      BY <2>4, <2>5, WithRec
    <2> HIDE DEF n
    <2>7. /\ n.did = d /\ n.op = q.op /\ n.sub = q.sub /\ n.file = q.file
          /\ Left(n.calls) \subseteq Left(q.calls)
      BY <2>1, <2>5, <2>6
    <2>8. q.op \notin Limited
      BY <2>2 DEF Sound, Unlimited
    <2>9. CASE n.calls # <<>>
      <3>1. Sound(n)
        BY <2>2, <2>7, <2>9 DEF Sound
      <3>2. RecKnown(n, issued) /\ RecFits(n, exempt) /\ Known(n.file, issued)
        BY <2>2, <2>4, <2>6, <2>7, <2>8 DEF RecKnown, RecFits
      <3>3. Fine(n, issued, exempt)
        BY <3>1, <3>2 DEF Fine
      <3>4. QED
        BY <1>1, <1>3, <2>3, <2>6, <3>3, GoingAside
    <2>10. CASE n.calls = <<>>
      BY <1>1, <1>3, <2>3, <2>6, <2>10, GoingAside
    <2>11. QED
      BY <2>9, <2>10
  <1>6. QED
    BY <1>2, <1>4, <1>5

(* What is known of a file stays known. *)
LEMMA StaysKnown ==
  ASSUME Steady, NEW file \in Files, Known(file, issued)
  PROVE  Known(file, issued')
  BY NoneAssumption DEF Steady, Known, Files, Record

LEMMA GrantStep ==
  ASSUME IInv, NEW p \in Proc, Grant(p)
  PROVE  IInv'
  <1> DEFINE q == req[p] o == dids[q.did]
  <1>1. At(p, "grant") /\ "grant" \notin {"fill", "pdsCreate"}
        /\ UNCHANGED <<subs, dids, accounts, backup, held, exempt, calm, cut, faults>>
    BY DEF Grant
  <1>2. /\ Head(q.calls) = "grant" /\ "grant" \in Left(q.calls) /\ Sound(q)
        /\ Known(q.file, issued) /\ q.file \in Files /\ q \in Request
    BY <1>1, Served
  <1>3. q.did \in DID /\ q.sub \in Sub
    BY <1>2 DEF Sound, NeedDid, NeedSub
  <1>4. /\ o \in Record \cup {None} /\ Known(dids, issued) /\ RecordWithinCap
        /\ dids \in Files /\ backup \in Files /\ Known(backup, issued)
        /\ issued \in [Key -> DID \cup {None}]
    BY <1>3 DEF IInv, Stores, Files
  <1>5. Scene' /\ subs' \in [Sub -> DID \cup {None}] /\ RecordWithinCap'
    BY <1>1 DEF IInv, Scene, Stores, RecordWithinCap
  <1>6. ASSUME NEW k \in Key, issued[k] = None, issued' = [issued EXCEPT ![k] = q.did],
               Go(p, [Rest(q) EXCEPT !.key = k, !.rec = [key |-> k, handles |-> {q.sub}]])
        PROVE  IInv'
    <2> DEFINE t == Rest(q) r == [key |-> k, handles |-> {q.sub}]
               u == [t EXCEPT !.rec = r] n == [u EXCEPT !.key = k]
    <2>1. t \in Request
      BY <1>1, RestOf
    <2>2. Go(p, n)
      <3>1. [t EXCEPT !.key = k, !.rec = r] = n
        BY <2>1 DEF Request
      <3>2. QED
        BY <1>6, <3>1
    <2>3. Steady
      BY <1>1, <1>4, <1>6 DEF Steady
    <2>4. Stores'
      BY <1>1, <1>3, <1>4, <1>5, <1>6 DEF Stores, IInv
    <2>5. Known(q.file, issued') /\ Known(dids', issued') /\ Known(backup', issued')
      <3>1. Known(q.file, issued') /\ Known(dids, issued') /\ Known(backup, issued')
        BY <1>2, <1>4, <2>3, StaysKnown
      <3>2. QED
        BY <1>1, <3>1
    <2>6. r \in Record /\ issued'[r.key] = q.did
      BY <1>3, <1>4, <1>6 DEF Record
    <2>7. Cardinality(r.handles) <= MaxHandles
      <3>1. Cardinality({q.sub}) = 1
        BY FS_Singleton
      <3>2. 1 <= MaxHandles
        BY WorkerAssumption
      <3>3. QED
        BY <3>1, <3>2
    <2> HIDE DEF r
    <2>8. u \in Request /\ (u.calls = <<>> \/ Fine(u, issued', exempt))
      BY <1>1, <1>3, <2>5, <2>6, <2>7, WithRecord
    <2> HIDE DEF u, t
    <2>9. /\ n \in Request /\ n.calls = u.calls /\ n.rec = u.rec
          /\ n.op = u.op /\ n.did = u.did /\ n.sub = u.sub /\ n.file = u.file
      BY <2>8, WithKey
    <2> HIDE DEF n
    <2>10. n.calls = <<>> \/ Fine(n, issued', exempt')
      <3>1. exempt' = exempt
        BY <1>1
      <3>2. QED
        BY <2>8, <2>9, <3>1 DEF Fine, Sound, RecKnown, RecFits
    <2>11. QED
      BY <1>5, <2>2, <2>3, <2>4, <2>5, <2>9, <2>10, Going
  <1>7. CASE o # None /\ HasRoom(q.did, q.op) /\ UNCHANGED issued
             /\ Go(p, [Rest(q) EXCEPT !.rec = Added(o, q.sub)])
    <2> DEFINE r == Added(o, q.sub) n == [Rest(q) EXCEPT !.rec = r]
    <2>1. Go(p, n) /\ Aside
      BY <1>1, <1>7 DEF Aside
    <2>2. o \in Record /\ (o.key # None => issued[o.key] = q.did)
      BY <1>3, <1>4, <1>7 DEF Known
    <2>3. /\ r \in Record /\ (r.key # None => issued[r.key] = q.did)
          /\ r.handles = HandlesOf(o) \cup {q.sub} /\ HandlesOf(o) \in SUBSET Sub
      <3>1. HandlesOf(o) \in SUBSET Sub
        BY <1>7, <2>2 DEF HandlesOf, Record
      <3> HIDE DEF o
      <3>2. QED
        BY <1>3, <1>4, <2>2, <3>1, AddedRecord
    <2>4. q.op \in Limited /\ q.did \notin Vip \cup exempt => Cardinality(r.handles) <= MaxHandles
      <3> SUFFICES ASSUME q.op \in Limited, q.did \notin Vip \cup exempt
                   PROVE  Cardinality(r.handles) <= MaxHandles
        OBVIOUS
      <3>1. Cardinality(HandlesOf(o)) < MaxHandles
        BY <1>7 DEF HasRoom, Limited
      <3> HIDE DEF r, o
      <3>2. QED
        BY <1>3, <2>3, <3>1, OneMore
    <2> HIDE DEF r
    <2>5. n \in Request /\ (n.calls = <<>> \/ Fine(n, issued, exempt))
      BY <1>1, <1>2, <1>3, <2>3, <2>4, WithRecord
    <2> HIDE DEF n
    <2>6. QED
      BY <1>5, <2>1, <2>5, GoingAside
  <1>8. CASE Answer(p) /\ UNCHANGED issued
    <2>1. Aside
      BY <1>1, <1>8 DEF Aside
    <2>2. QED
      BY <1>5, <1>8, <2>1, AnsweringAside
  <1>9. QED
    BY <1>6, <1>7, <1>8 DEF Grant

-----------------------------------------------------------------------------
(* Requests come in *)

LEMMA LeftOfThree ==
  ASSUME NEW a, NEW b, NEW c
  PROVE  <<a, b, c>> # <<>> /\ Left(<<a, b, c>>) = {a, b, c}
  <1>1. DOMAIN <<a, b, c>> = {1, 2, 3}
    OBVIOUS
  <1>2. QED
    BY <1>1 DEF Left

LEMMA LeftOfFour ==
  ASSUME NEW a, NEW b, NEW c, NEW d
  PROVE  <<a, b, c, d>> # <<>> /\ Left(<<a, b, c, d>>) = {a, b, c, d}
  <1>1. DOMAIN <<a, b, c, d>> = {1, 2, 3, 4}
    OBVIOUS
  <1>2. QED
    BY <1>1 DEF Left

LEMMA LeftOfFive ==
  ASSUME NEW a, NEW b, NEW c, NEW d, NEW e
  PROVE  /\ <<a, b, c, d, e>> # <<>> /\ Head(<<a, b, c, d, e>>) = a
         /\ Left(<<a, b, c, d, e>>) = {a, b, c, d, e}
  <1>1. DOMAIN <<a, b, c, d, e>> = {1, 2, 3, 4, 5} /\ Head(<<a, b, c, d, e>>) = a
    OBVIOUS
  <1>2. QED
    BY <1>1 DEF Left

LEMMA PublicHandlers ==
  /\ HandleRegister \in Seq(Call) /\ HandleRegister # <<>>
  /\ Left(HandleRegister) = {"checkTaken", "grant", "putDid", "putSub", "log"}
  /\ HandleDelete \in Seq(Call) /\ HandleDelete # <<>>
  /\ Left(HandleDelete) = {"find", "saveDid", "deleteSub", "log"}
  /\ HandleManage \in Seq(Call) /\ HandleManage # <<>>
  /\ Left(HandleManage) = {"find", "deleteSub", "saveDid", "log"}
  /\ <<"find">> \in Seq(Call) /\ <<"find">> # <<>> /\ Left(<<"find">>) = {"find"}
  <1>1. /\ HandleRegister \in Seq(Call) /\ HandleDelete \in Seq(Call)
        /\ HandleManage \in Seq(Call) /\ "find" \in Call
    BY DEF HandleRegister, HandleDelete, HandleManage, Call
  <1>2. /\ HandleRegister # <<>>
        /\ Left(HandleRegister) = {"checkTaken", "grant", "putDid", "putSub", "log"}
    BY LeftOfFive DEF HandleRegister
  <1>3. HandleDelete # <<>> /\ Left(HandleDelete) = {"find", "saveDid", "deleteSub", "log"}
    BY LeftOfFour DEF HandleDelete
  <1>4. HandleManage # <<>> /\ Left(HandleManage) = {"find", "deleteSub", "saveDid", "log"}
    BY LeftOfFour DEF HandleManage
  <1>5. <<"find">> \in Seq(Call) /\ <<"find">> # <<>> /\ Left(<<"find">>) = {"find"}
    BY <1>1, Prefixes
  <1>6. QED
    BY <1>1, <1>2, <1>3, <1>4, <1>5

(* A request as it comes in *)
Starts(op, calls, q) ==
  /\ op \in AllOps /\ calls \in Seq(Call) /\ calls # <<>>
  /\ q \in Request /\ q.rec = NoRecord /\ Known(q.file, issued)
  /\ \/ q.did \in DID \/ Head(calls) = "pdsCreate"
     \/ Left(calls) \cap NeedDid = {}
  /\ q.sub \in Sub \/ Left(calls) \cap NeedSub = {}
  /\ "saveDid" \in Left(calls) => op \in Limited
  /\ "fill" \in Left(calls) => op = "backfill"
  /\ op \in Limited => Left(calls) \cap Unlimited = {}

LEMMA ReceiveStep ==
  ASSUME IInv, NEW p \in Proc, NEW op, NEW calls, NEW q, Receive(p, op, calls, q),
         Starts(op, calls, q), accounts' \in [DID -> Sub \cup {None, Elsewhere}]
  PROVE  IInv'
  <1> DEFINE n == [q EXCEPT !.op = op, !.calls = calls, !.solo = Quiet]
             m(o) == [req[o] EXCEPT !.solo = FALSE]
  <1>1. req \in [Proc -> Request]
    BY DEF IInv
  <1>2. /\ n \in Request /\ n.op = op /\ n.calls = calls
        /\ n.did = q.did /\ n.sub = q.sub /\ n.rec = NoRecord /\ n.file = q.file
    <2>1. Quiet \in BOOLEAN
      BY DEF Quiet
    <2>2. QED
      BY <2>1 DEF Starts, Request
  <1>3. Fine(n, issued, exempt)
    <2> HIDE DEF n
    <2>1. Sound(n)
      BY <1>2 DEF Starts, Sound
    <2>2. NoRecord.key = None /\ Cardinality(NoRecord.handles) <= MaxHandles
      <3>1. NoRecord.handles = {} /\ Cardinality({}) = 0
        BY FS_EmptySet DEF NoRecord
      <3>2. 0 <= MaxHandles
        BY WorkerAssumption
      <3>3. QED
        BY <3>1, <3>2 DEF NoRecord
    <2>3. RecKnown(n, issued) /\ RecFits(n, exempt)
      BY <1>2, <2>2 DEF RecKnown, RecFits
    <2>4. QED
      BY <1>2, <2>1, <2>3 DEF Starts, Fine
  <1>4. ASSUME NEW o \in Proc
        PROVE  m(o) \in Request /\ Fine(m(o), issued, exempt)
    <2>1. req[o] \in Request /\ Fine(req[o], issued, exempt)
      BY DEF IInv
    <2>2. /\ m(o) \in Request /\ m(o).op = req[o].op /\ m(o).calls = req[o].calls
          /\ m(o).did = req[o].did /\ m(o).sub = req[o].sub /\ m(o).rec = req[o].rec
          /\ m(o).file = req[o].file
      BY <2>1 DEF Request
    <2> HIDE DEF m
    <2>3. QED
      BY <2>1, <2>2 DEF Fine, Sound, RecKnown, RecFits
  <1>5. \A o \in Proc : req'[o] = IF o = p THEN n ELSE m(o)
    BY DEF Receive
  <1>6. req' \in [Proc -> Request] /\ \A o \in Proc : Fine(req'[o], issued, exempt)
    <2>1. req' = [o \in Proc |-> IF o = p THEN n ELSE m(o)]
      BY DEF Receive
    <2> HIDE DEF n, m
    <2>2. QED
      BY <1>2, <1>3, <1>4, <1>5, <2>1
  <1>7. /\ issued' = issued /\ exempt' = exempt /\ dids' = dids /\ backup' = backup
        /\ subs' = subs
    BY DEF Receive
  <1>8. Scene'
    <2>1. calm' \in BOOLEAN
      BY DEF Receive
    <2>2. QED
      BY <2>1 DEF Receive, IInv, Scene
  <1>9. Stores' /\ Known(dids', issued') /\ Known(backup', issued') /\ RecordWithinCap'
    BY <1>7 DEF IInv, Stores, RecordWithinCap
  <1>10. QED
    BY <1>6, <1>7, <1>8, <1>9 DEF IInv

LEMMA Asked ==
  ASSUME NEW d \in DID \cup {None}, NEW s \in Sub \cup {None, Elsewhere}
  PROVE  LET q == Asks(d, s) IN
         /\ q \in Request /\ q.sub = s /\ q.did = d /\ q.rec = NoRecord /\ Known(q.file, issued)
  <1>1. /\ NoRequest \in Request /\ NoRequest.rec = NoRecord /\ NoRequest.file = NoFile
        /\ Known(NoFile, issued)
    BY IdleFine DEF NoRequest, Known, NoFile
  <1>2. QED
    BY <1>1 DEF Asks, Request

LEMMA Shown ==
  ASSUME NEW k \in Key, NEW s \in Sub \cup {None}
  PROVE  LET q == Shows(k, s) IN
         q \in Request /\ q.rec = NoRecord /\ Known(q.file, issued)
  <1>1. /\ NoRequest \in Request /\ NoRequest.rec = NoRecord /\ NoRequest.file = NoFile
        /\ Known(NoFile, issued)
    BY IdleFine DEF NoRequest, Known, NoFile
  <1>2. QED
    BY <1>1 DEF Shows, Request

LEMMA ReceivePublicStep ==
  ASSUME IInv, NEW p \in Proc, ReceivePublic(p)
  PROVE  IInv'
  <1>1. accounts' \in [DID -> Sub \cup {None, Elsewhere}] /\ held \subseteq Key
    BY DEF ReceivePublic, IInv, Scene
  <1>2. ASSUME NEW d \in DID, NEW s \in Sub,
               Receive(p, "register", HandleRegister, Asks(d, s))
        PROVE  IInv'
    <2>1. Starts("register", HandleRegister, Asks(d, s))
      BY Asked, PublicHandlers DEF Starts, AllOps, Public, Unlimited, Limited
    <2>2. QED
      BY <1>1, <1>2, <2>1, ReceiveStep
  <1>3. ASSUME NEW k \in Key, NEW s \in Sub \cup {None},
               NEW op \in {"delete", "manage", "list"}, NEW calls,
               Receive(p, op, calls, Shows(k, s)),
               \/ op \in Limited /\ calls \in {HandleDelete, HandleManage}
               \/ calls = <<"find">>
        PROVE  IInv'
    <2>1. /\ calls \in Seq(Call) /\ calls # <<>>
          /\ Left(calls) \subseteq {"find", "saveDid", "deleteSub", "log"}
          /\ "saveDid" \in Left(calls) => op \in Limited
      BY <1>3, PublicHandlers
    <2>2. /\ Shows(k, s) \in Request /\ Shows(k, s).rec = NoRecord
          /\ Known(Shows(k, s).file, issued)
      BY Shown
    <2>3. Starts(op, calls, Shows(k, s))
      BY <2>1, <2>2 DEF Starts, AllOps, Public, Unlimited, NeedDid, NeedSub
    <2>4. QED
      BY <1>1, <1>3, <2>3, ReceiveStep
  <1>4. QED
    BY <1>1, <1>2, <1>3 DEF ReceivePublic, Limited

LEMMA AdminHandlers ==
  /\ HandleAdminAssignReserved \in Seq(Call) /\ HandleAdminAssignReserved # <<>>
  /\ Left(HandleAdminAssignReserved) = {"checkTaken", "grant", "putDid", "putSub", "log"}
  /\ HandleAdminDeleteHandle \in Seq(Call) /\ HandleAdminDeleteHandle # <<>>
  /\ Left(HandleAdminDeleteHandle) = {"adminRead", "adminCheck", "deleteSub", "saveDid", "log"}
  /\ HandleAdminDeleteAllForDid \in Seq(Call) /\ HandleAdminDeleteAllForDid # <<>>
  /\ Left(HandleAdminDeleteAllForDid) = {"readAll", "deleteAll", "deleteDid", "log"}
  /\ HandleAdminBackfillDidRecords \in Seq(Call) /\ HandleAdminBackfillDidRecords # <<>>
  /\ Left(HandleAdminBackfillDidRecords) = {"listSubs", "fill"}
  /\ HandleAdminExportRegistry \in Seq(Call) /\ HandleAdminExportRegistry # <<>>
  /\ Left(HandleAdminExportRegistry) = {"listDids", "dump"}
  /\ HandleAdminImportRegistry \in Seq(Call) /\ HandleAdminImportRegistry # <<>>
  /\ Left(HandleAdminImportRegistry) = {"listDids", "wipe", "listSubs", "restore"}
  <1>1. /\ HandleAdminAssignReserved \in Seq(Call) /\ HandleAdminDeleteHandle \in Seq(Call)
        /\ HandleAdminDeleteAllForDid \in Seq(Call)
        /\ HandleAdminImportRegistry \in Seq(Call)
        /\ {"listSubs", "fill", "listDids", "dump"} \subseteq Call
    BY DEF HandleAdminAssignReserved, HandleAdminDeleteHandle, HandleAdminDeleteAllForDid,
           HandleAdminImportRegistry, Call
  <1>2. /\ HandleAdminAssignReserved # <<>>
        /\ Left(HandleAdminAssignReserved) = {"checkTaken", "grant", "putDid", "putSub", "log"}
    BY LeftOfFive DEF HandleAdminAssignReserved
  <1>3. /\ HandleAdminDeleteHandle # <<>>
        /\ Left(HandleAdminDeleteHandle)
             = {"adminRead", "adminCheck", "deleteSub", "saveDid", "log"}
    BY LeftOfFive DEF HandleAdminDeleteHandle
  <1>4. /\ HandleAdminDeleteAllForDid # <<>>
        /\ Left(HandleAdminDeleteAllForDid) = {"readAll", "deleteAll", "deleteDid", "log"}
    BY LeftOfFour DEF HandleAdminDeleteAllForDid
  <1>5. /\ HandleAdminBackfillDidRecords \in Seq(Call) /\ HandleAdminBackfillDidRecords # <<>>
        /\ Left(HandleAdminBackfillDidRecords) = {"listSubs", "fill"}
    BY <1>1, Prefixes DEF HandleAdminBackfillDidRecords
  <1>6. /\ HandleAdminExportRegistry \in Seq(Call) /\ HandleAdminExportRegistry # <<>>
        /\ Left(HandleAdminExportRegistry) = {"listDids", "dump"}
    BY <1>1, Prefixes DEF HandleAdminExportRegistry
  <1>7. /\ HandleAdminImportRegistry # <<>>
        /\ Left(HandleAdminImportRegistry) = {"listDids", "wipe", "listSubs", "restore"}
    BY LeftOfFive DEF HandleAdminImportRegistry
  <1>8. QED
    BY <1>1, <1>2, <1>3, <1>4, <1>5, <1>6, <1>7

LEMMA ReceiveAdminStep ==
  ASSUME IInv, NEW p \in Proc, ReceiveAdmin(p)
  PROVE  IInv'
  <1>1. /\ accounts' \in [DID -> Sub \cup {None, Elsewhere}]
        /\ backup \in Files /\ Known(backup, issued)
    BY DEF ReceiveAdmin, IInv, Scene, Stores
  <1>2. ASSUME NEW d \in DID, NEW s \in Sub,
               \/ Receive(p, "assign", HandleAdminAssignReserved, Asks(d, s))
               \/ Receive(p, "adminDelete", HandleAdminDeleteHandle, Asks(d, s))
        PROVE  IInv'
    <2>1. Starts("assign", HandleAdminAssignReserved, Asks(d, s))
      BY Asked, AdminHandlers DEF Starts, AllOps, Admin, Limited
    <2>2. Starts("adminDelete", HandleAdminDeleteHandle, Asks(d, s))
      BY Asked, AdminHandlers DEF Starts, AllOps, Admin, Limited, Unlimited
    <2>3. QED
      BY <1>1, <1>2, <2>1, <2>2, ReceiveStep
  <1>3. ASSUME NEW d \in DID,
               Receive(p, "adminDrop", HandleAdminDeleteAllForDid, Asks(d, None))
        PROVE  IInv'
    <2>1. Starts("adminDrop", HandleAdminDeleteAllForDid, Asks(d, None))
      BY Asked, AdminHandlers DEF Starts, AllOps, Admin, Limited, NeedSub
    <2>2. QED
      BY <1>1, <1>3, <2>1, ReceiveStep
  <1>4. CASE \/ Receive(p, "backfill", HandleAdminBackfillDidRecords, NoRequest)
             \/ Receive(p, "export", HandleAdminExportRegistry, NoRequest)
    <2>1. /\ NoRequest \in Request /\ NoRequest.rec = NoRecord
          /\ Known(NoRequest.file, issued)
      BY IdleFine DEF NoRequest, Known, NoFile
    <2>2. Starts("backfill", HandleAdminBackfillDidRecords, NoRequest)
      BY <2>1, AdminHandlers DEF Starts, AllOps, Admin, Limited, NeedDid, NeedSub
    <2>3. Starts("export", HandleAdminExportRegistry, NoRequest)
      BY <2>1, AdminHandlers DEF Starts, AllOps, Admin, Limited, NeedDid, NeedSub
    <2>4. QED
      BY <1>1, <1>4, <2>2, <2>3, ReceiveStep
  <1>5. CASE Receive(p, "import", HandleAdminImportRegistry, [NoRequest EXCEPT !.file = backup])
    <2> DEFINE q == [NoRequest EXCEPT !.file = backup]
    <2>1. q \in Request /\ q.rec = NoRecord /\ Known(q.file, issued)
      <3>1. NoRequest \in Request /\ NoRequest.rec = NoRecord
        BY IdleFine DEF NoRequest
      <3>2. QED
        BY <1>1, <3>1 DEF Request, Files
    <2>2. Receive(p, "import", HandleAdminImportRegistry, q)
      BY <1>5
    <2> HIDE DEF q
    <2>3. Starts("import", HandleAdminImportRegistry, q)
      BY <2>1, AdminHandlers DEF Starts, AllOps, Admin, Limited, NeedDid, NeedSub
    <2>4. QED
      BY <1>1, <2>2, <2>3, ReceiveStep
  <1>6. QED
    BY <1>2, <1>3, <1>4, <1>5 DEF ReceiveAdmin

LEMMA BridgeHandlers ==
  /\ HandleInternalDidWebSync \in Seq(Call) /\ HandleInternalDidWebSync # <<>>
  /\ Left(HandleInternalDidWebSync) = {"checkOther", "addHandle", "putSub", "putDid"}
  /\ HandleClaim \in Seq(Call) /\ HandleClaim # <<>>
  /\ Left(HandleClaim) = {"checkOther", "putSub", "addHandle", "putDid"}
  /\ SetRegistryHandle \in Seq(Call) /\ SetRegistryHandle # <<>>
  /\ Left(SetRegistryHandle) = {"putSub", "addHandle", "putDid"}
  /\ ChangeRegistryHandle \in Seq(Call) /\ ChangeRegistryHandle # <<>>
  /\ Left(ChangeRegistryHandle) = {"replace", "putDid", "checkOld", "putSub"}
  /\ DeleteRegistryForDid \in Seq(Call) /\ DeleteRegistryForDid # <<>>
  /\ Left(DeleteRegistryForDid) = {"readOwn", "deleteOwn", "deleteDid"}
  <1>1. /\ HandleInternalDidWebSync \in Seq(Call) /\ HandleClaim \in Seq(Call)
        /\ SetRegistryHandle \in Seq(Call) /\ ChangeRegistryHandle \in Seq(Call)
        /\ DeleteRegistryForDid \in Seq(Call)
    BY DEF HandleInternalDidWebSync, HandleClaim, SetRegistryHandle, ChangeRegistryHandle,
           DeleteRegistryForDid, Call
  <1>2. /\ HandleInternalDidWebSync # <<>>
        /\ Left(HandleInternalDidWebSync) = {"checkOther", "addHandle", "putSub", "putDid"}
    BY LeftOfFour DEF HandleInternalDidWebSync
  <1>3. /\ HandleClaim # <<>>
        /\ Left(HandleClaim) = {"checkOther", "putSub", "addHandle", "putDid"}
    BY LeftOfFour DEF HandleClaim
  <1>4. SetRegistryHandle # <<>> /\ Left(SetRegistryHandle) = {"putSub", "addHandle", "putDid"}
    BY LeftOfThree DEF SetRegistryHandle
  <1>5. /\ ChangeRegistryHandle # <<>>
        /\ Left(ChangeRegistryHandle) = {"replace", "putDid", "checkOld", "putSub"}
    BY LeftOfFour DEF ChangeRegistryHandle
  <1>6. /\ DeleteRegistryForDid # <<>>
        /\ Left(DeleteRegistryForDid) = {"readOwn", "deleteOwn", "deleteDid"}
    BY LeftOfThree DEF DeleteRegistryForDid
  <1>7. QED
    BY <1>1, <1>2, <1>3, <1>4, <1>5, <1>6

LEMMA ReceiveInternalStep ==
  ASSUME IInv, NEW p \in Proc, ReceiveInternal(p)
  PROVE  IInv'
  <1>1. accounts' \in [DID -> Sub \cup {None, Elsewhere}] /\ None \notin Sub
    <2>1. \/ accounts' = accounts
          \/ \E d \in DID, h \in Sub \cup {None} : accounts' = [accounts EXCEPT ![d] = h]
      BY DEF ReceiveInternal, ReceiveDidWebSync, ReceiveClaim, ReceiveSetHandle,
             ReceiveChangeHandle, ReceiveAccountDeleted
    <2>2. accounts \in [DID -> Sub \cup {None, Elsewhere}]
      BY DEF IInv, Scene
    <2>3. QED
      BY <2>1, <2>2, NoneAssumption
  <1>2. ASSUME NEW d \in DID, NEW s \in Sub,
               \/ Receive(p, "sync", HandleInternalDidWebSync, Asks(d, s))
               \/ Receive(p, "claim", HandleClaim, Asks(d, s))
               \/ Receive(p, "setHandle", SetRegistryHandle, Asks(d, s))
        PROVE  IInv'
    <2>1. Starts("sync", HandleInternalDidWebSync, Asks(d, s))
      BY Asked, BridgeHandlers DEF Starts, AllOps, Internal, Limited
    <2>2. Starts("claim", HandleClaim, Asks(d, s))
      BY Asked, BridgeHandlers DEF Starts, AllOps, Internal, Limited
    <2>3. Starts("setHandle", SetRegistryHandle, Asks(d, s))
      BY Asked, BridgeHandlers DEF Starts, AllOps, Internal, Limited
    <2>4. QED
      BY <1>1, <1>2, <2>1, <2>2, <2>3, ReceiveStep
  <1>3. ASSUME NEW d \in DID, NEW s \in Sub, NEW o \in Sub,
               Receive(p, "changeHandle", ChangeRegistryHandle, [Asks(d, s) EXCEPT !.old = o])
        PROVE  IInv'
    <2> DEFINE q == [Asks(d, s) EXCEPT !.old = o]
    <2>1. q \in Request /\ q.did = d /\ q.sub = s /\ q.rec = NoRecord /\ Known(q.file, issued)
      <3> DEFINE a == Asks(d, s)
      <3>1. a \in Request /\ a.did = d /\ a.sub = s /\ a.rec = NoRecord /\ Known(a.file, issued)
        BY Asked
      <3> HIDE DEF a
      <3>2. LET b == [a EXCEPT !.old = o] IN
            b \in Request /\ b.did = d /\ b.sub = s /\ b.rec = NoRecord /\ Known(b.file, issued)
        BY <3>1 DEF Request
      <3>3. QED
        BY <3>2 DEF a
    <2>2. Receive(p, "changeHandle", ChangeRegistryHandle, q)
      BY <1>3
    <2> HIDE DEF q
    <2>3. Starts("changeHandle", ChangeRegistryHandle, q)
      BY <2>1, BridgeHandlers DEF Starts, AllOps, Internal, Limited
    <2>4. QED
      BY <1>1, <2>2, <2>3, ReceiveStep
  <1>4. ASSUME NEW d \in DID,
               Receive(p, "accountDeleted", DeleteRegistryForDid, Asks(d, None))
        PROVE  IInv'
    <2>1. Starts("accountDeleted", DeleteRegistryForDid, Asks(d, None))
      BY Asked, BridgeHandlers DEF Starts, AllOps, Internal, Limited, NeedSub
    <2>2. QED
      BY <1>1, <1>4, <2>1, ReceiveStep
  <1>5. QED
    BY <1>2, <1>3, <1>4
       DEF ReceiveInternal, ReceiveDidWebSync, ReceiveClaim, ReceiveSetHandle,
           ReceiveChangeHandle, ReceiveAccountDeleted

LEMMA ProxiedHandlers ==
  /\ \A calls \in {HandleSignupRequest, CreateAccount} :
       /\ calls \in Seq(Call) /\ calls # <<>> /\ Head(calls) = "pdsCreate"
       /\ Left(calls) \subseteq {"pdsCreate", "checkOther", "putSub", "addHandle", "putDid"}
  /\ HandleProxyUpdateHandle \in Seq(Call) /\ HandleProxyUpdateHandle # <<>>
  /\ Left(HandleProxyUpdateHandle) = {"session", "pdsUpdate"}
  /\ HandleProxyDeleteAccount \in Seq(Call) /\ HandleProxyDeleteAccount # <<>>
  /\ Left(HandleProxyDeleteAccount) \subseteq {"pdsDelete", "readOwn", "deleteOwn", "deleteDid"}
  <1>1. {"pdsCreate", "pdsDelete", "session", "pdsUpdate"} \subseteq Call
    BY DEF Call
  <1>2. /\ HandleSignupRequest \in Seq(Call) /\ HandleSignupRequest # <<>>
        /\ Head(HandleSignupRequest) = "pdsCreate"
        /\ Left(HandleSignupRequest) \subseteq Left(HandleClaim) \cup {"pdsCreate"}
    BY <1>1, Push, BridgeHandlers DEF HandleSignupRequest
  <1>3. /\ CreateAccount \in Seq(Call)
    BY DEF CreateAccount, Call
  <1>4. /\ CreateAccount # <<>> /\ Head(CreateAccount) = "pdsCreate"
        /\ Left(CreateAccount) = {"pdsCreate", "checkOther", "putSub", "addHandle", "putDid"}
    BY LeftOfFive DEF CreateAccount
  <1>5. /\ HandleProxyUpdateHandle \in Seq(Call) /\ HandleProxyUpdateHandle # <<>>
        /\ Left(HandleProxyUpdateHandle) = {"session", "pdsUpdate"}
    BY <1>1, Prefixes DEF HandleProxyUpdateHandle
  <1>6. /\ HandleProxyDeleteAccount \in Seq(Call) /\ HandleProxyDeleteAccount # <<>>
        /\ Left(HandleProxyDeleteAccount) \subseteq Left(DeleteRegistryForDid) \cup {"pdsDelete"}
    BY <1>1, Push, BridgeHandlers DEF HandleProxyDeleteAccount
  <1>7. QED
    BY <1>2, <1>3, <1>4, <1>5, <1>6, BridgeHandlers

LEMMA ReceiveProxiedStep ==
  ASSUME IInv, NEW p \in Proc, ReceiveProxied(p)
  PROVE  IInv'
  <1>1. accounts' \in [DID -> Sub \cup {None, Elsewhere}]
    BY DEF ReceiveProxied, IInv, Scene
  <1>2. ASSUME NEW s \in Sub, NEW calls \in {HandleSignupRequest, CreateAccount},
               Receive(p, "signup", calls, Asks(None, s))
        PROVE  IInv'
    <2>1. Starts("signup", calls, Asks(None, s))
      BY Asked, ProxiedHandlers DEF Starts, AllOps, Proxied, Limited
    <2>2. QED
      BY <1>1, <1>2, <2>1, ReceiveStep
  <1>3. ASSUME NEW d \in DID, NEW h \in Sub \cup {Elsewhere},
               Receive(p, "updateHandle", HandleProxyUpdateHandle, Asks(d, h))
        PROVE  IInv'
    <2>1. Starts("updateHandle", HandleProxyUpdateHandle, Asks(d, h))
      BY Asked, ProxiedHandlers DEF Starts, AllOps, Proxied, Limited, NeedSub
    <2>2. QED
      BY <1>1, <1>3, <2>1, ReceiveStep
  <1>4. ASSUME NEW d \in DID,
               Receive(p, "deleteAccount", HandleProxyDeleteAccount, Asks(d, None))
        PROVE  IInv'
    <2>1. Starts("deleteAccount", HandleProxyDeleteAccount, Asks(d, None))
      BY Asked, ProxiedHandlers DEF Starts, AllOps, Proxied, Limited, NeedSub
    <2>2. QED
      BY <1>1, <1>4, <2>1, ReceiveStep
  <1>5. QED
    BY <1>2, <1>3, <1>4 DEF ReceiveProxied

-----------------------------------------------------------------------------
(* The invariant *)

LEMMA InitIInv == Init => IInv
  <1> SUFFICES ASSUME Init
               PROVE  IInv
    OBVIOUS
  <1>1. NoFile \in Files /\ \A d \in DID : NoFile[d] = None
    BY DEF NoFile, Files
  <1>2. Scene
    BY DEF Init, Scene
  <1>3. Stores /\ Known(dids, issued) /\ Known(backup, issued)
    BY <1>1 DEF Init, Stores, Known
  <1>4. \A p \in Proc : Fine(req[p], issued, exempt)
    BY IdleFine DEF Init
  <1>5. req \in [Proc -> Request]
    BY IdleFine DEF Init
  <1>6. RecordWithinCap
    <2>1. \A d \in DID : HandlesOf(dids[d]) = {}
      BY <1>1 DEF Init, HandlesOf
    <2>2. Cardinality({}) = 0
      BY FS_EmptySet
    <2>3. 0 <= MaxHandles
      BY WorkerAssumption
    <2>4. QED
      BY <2>1, <2>2, <2>3 DEF RecordWithinCap
  <1>7. QED
    BY <1>2, <1>3, <1>4, <1>5, <1>6 DEF IInv

LEMMA ServeStep ==
  ASSUME IInv, NEW p \in Proc, Serve(p)
  PROVE  IInv'
  <1>1. CASE \/ PutSub(p) \/ DeleteSub(p) \/ PutDid(p) \/ SaveDid(p) \/ DeleteDid(p)
             \/ LogActivity(p) \/ CheckTaken(p) \/ CheckOther(p) \/ AdminCheck(p)
    BY <1>1, PutSubStep, DeleteSubStep, PutDidStep, SaveDidStep, DeleteDidStep,
       LogActivityStep, CheckStep
  <1>2. CASE \/ Grant(p) \/ AddHandle(p) \/ FindDidBySecretHash(p) \/ AdminRead(p)
             \/ ReadAll(p) \/ DeleteAll(p) \/ DeleteOwn(p) \/ Replace(p) \/ CheckOld(p)
             \/ DeleteOld(p)
    BY <1>2, GrantStep, AddHandleStep, FindDidStep, AdminReadStep, ListStep, LoopsStep,
       DeleteOwnStep, ReplaceStep, CheckOldStep, DeleteOldStep
  <1>3. CASE \/ ListSubs(p) \/ ListDids(p) \/ Fill(p) \/ Dump(p) \/ Wipe(p) \/ Restore(p)
             \/ RestoreSubs(p) \/ GetSession(p) \/ PdsRefuses(p) \/ PdsCreatesAccount(p)
             \/ PdsUpdatesHandle(p) \/ PdsDeletesAccount(p)
    BY <1>3, ListStep, FillStep, DumpStep, WipeStep, RestoreStep, LoopsStep, GetSessionStep,
       PdsRefusesStep, PdsCreatesStep, PdsAccountStep
  <1>4. QED
    BY <1>1, <1>2, <1>3 DEF Serve

LEMMA NextIInv == IInv /\ [Next]_vars => IInv'
  <1> SUFFICES ASSUME IInv, [Next]_vars
               PROVE  IInv'
    OBVIOUS
  <1>1. ASSUME NEW p \in Proc,
               \/ ReceivePublic(p) \/ ReceiveAdmin(p) \/ ReceiveInternal(p)
               \/ ReceiveProxied(p) \/ Serve(p) \/ CutShort(p)
        PROVE  IInv'
    BY <1>1, ReceivePublicStep, ReceiveAdminStep, ReceiveInternalStep, ReceiveProxiedStep,
       ServeStep, CutShortStep
  <1>2. CASE UNCHANGED vars
    BY <1>2 DEF vars, IInv, Scene, Stores, RecordWithinCap
  <1>3. QED
    BY <1>1, <1>2 DEF Next

LEMMA AlwaysIInv == Spec => []IInv
  BY InitIInv, NextIInv, PTL DEF Spec

(* Whatever the requests do to each other, every record, request and backup *)
(* keeps its shape (anarchy-worker.js).                                     *)
THEOREM WorkerTypeOK == Spec => []TypeOK
  <1>1. IInv => TypeOK
    BY DEF IInv, Scene, Stores, Files, TypeOK
  <1>2. QED
    BY <1>1, AlwaysIInv, PTL

(* A record's secret was made for that record's DID, for any number of     *)
(* overlapping requests, stale copies, imports and requests cut short      *)
(* (anarchy-worker.js handleRegister, handleAdminAssignReserved,           *)
(* handleAdminImportRegistry).                                             *)
THEOREM WorkerKeyCustody == Spec => []KeyCustody
  <1>1. IInv => KeyCustody
    BY DEF IInv, Known, KeyCustody
  <1>2. QED
    BY <1>1, AlwaysIInv, PTL

(* However many registrations of a DID race, the list each of them writes  *)
(* is within the limit (anarchy-worker.js handleRegister).                 *)
THEOREM WorkerRecordWithinCap == Spec => []RecordWithinCap
  <1>1. IInv => RecordWithinCap
    BY DEF IInv
  <1>2. QED
    BY <1>1, AlwaysIInv, PTL

-----------------------------------------------------------------------------
(* Where in its handler a request is: the calls it still has to make are   *)
(* an end of the handler's, or of one round of its loop.                   *)
From(s) == {SubSeq(s, i, Len(s)) : i \in 1 .. Len(s)}

(* The call after the next one *)
After(s) == IF Tail(s) = <<>> THEN "end" ELSE Head(Tail(s))

FillRound    == <<"addHandle", "putDid", "fill">>
RestoreRound == <<"putDid", "restoreSubs", "restore">>
DeleteRound  == <<"deleteSub", "deleteOwn", "deleteDid">>
UpdateRound  == <<"putSub", "addHandle", "putDid", "pdsUpdate">>
OldRound     == <<"deleteOld", "putSub">>
NoRecordLeft == <<"adminCheck", "deleteSub">>

Scripted(q) ==
  LET s == q.calls IN
  /\ q.op \in Granting        => s \in From(HandleRegister)
  /\ q.op = "delete"          => s \in From(HandleDelete)
  /\ q.op = "manage"          => s \in From(HandleManage)
  /\ q.op = "list"            => s \in From(<<"find">>)
  /\ q.op = "adminDelete"     => s \in From(HandleAdminDeleteHandle) \cup From(NoRecordLeft)
  /\ q.op = "adminDrop"       => s \in From(HandleAdminDeleteAllForDid)
  /\ q.op = "backfill"        => s \in From(HandleAdminBackfillDidRecords) \cup From(FillRound)
  /\ q.op = "export"          => s \in From(HandleAdminExportRegistry)
  /\ q.op = "import"          => s \in From(HandleAdminImportRegistry) \cup From(RestoreRound)
  /\ q.op = "sync"            => s \in From(HandleInternalDidWebSync)
  /\ q.op = "claim"           => s \in From(HandleClaim)
  /\ q.op = "signup"          => s \in From(CreateAccount)
  /\ q.op = "setHandle"       => s \in From(SetRegistryHandle)
  /\ q.op = "changeHandle"    => s \in From(ChangeRegistryHandle) \cup From(OldRound)
  /\ q.op = "updateHandle"    => s \in From(HandleProxyUpdateHandle) \cup From(UpdateRound)
  /\ q.op = "accountDeleted"  => s \in From(DeleteRegistryForDid) \cup From(DeleteRound)
  /\ q.op = "deleteAccount"   => s \in From(HandleProxyDeleteAccount) \cup From(DeleteRound)

LEMMA FromAt ==
  ASSUME NEW s \in Seq(Call), NEW u \in From(s)
  PROVE  \E i \in 1 .. Len(s) :
           /\ u \in Seq(Call) /\ u # <<>> /\ Head(u) = s[i] /\ Len(u) = Len(s) - i + 1
           /\ i = Len(s) => Tail(u) = <<>> /\ After(u) = "end"
           /\ i # Len(s) => /\ Tail(u) # <<>> /\ Tail(u) \in From(s)
                            /\ Head(Tail(u)) = s[i + 1] /\ After(u) = s[i + 1]
  <1>1. PICK i \in 1 .. Len(s) : u = SubSeq(s, i, Len(s))
    BY DEF From
  <1>2. Len(s) \in Nat /\ \A j \in 1 .. Len(s) : s[j] \in Call
    BY ElementOfSeq
  <1>3. u \in Seq(Call) /\ Len(u) = Len(s) - i + 1
    BY <1>1, <1>2, SubSeqProperties
  <1>4. u # <<>>
    BY <1>2, <1>3
  <1>5. Head(u) = s[i] /\ Tail(u) = SubSeq(s, i + 1, Len(s))
    BY <1>1, <1>2, HeadTailOfSubSeq
  <1>6. CASE i = Len(s)
    <2>1. Tail(u) = <<>>
      BY <1>2, <1>5, <1>6, SubSeqEmpty
    <2>2. QED
      BY <1>3, <1>4, <1>5, <1>6, <2>1 DEF After
  <1>7. CASE i # Len(s)
    <2>1. i + 1 \in 1 .. Len(s)
      BY <1>2, <1>7
    <2>2. Tail(u) \in From(s)
      BY <1>5, <2>1 DEF From
    <2>3. Len(Tail(u)) = Len(u) - 1
      BY <1>3, <1>4, HeadTailProperties
    <2>4. Tail(u) # <<>>
      <3>1. Len(u) - 1 # 0
        BY <1>2, <1>3, <1>7
      <3>2. Len(<<>>) = 0
        OBVIOUS
      <3>3. QED
        BY <2>3, <3>1, <3>2
    <2>5. Head(Tail(u)) = s[i + 1]
      BY <1>2, <1>5, <2>1, HeadTailOfSubSeq
    <2>6. QED
      BY <1>3, <1>4, <1>5, <1>7, <2>2, <2>4, <2>5 DEF After
  <1>8. QED
    BY <1>6, <1>7

LEMMA WholeFrom ==
  ASSUME NEW s \in Seq(Call), s # <<>>
  PROVE  s \in From(s)
  <1>1. Len(s) \in Nat /\ Len(s) # 0
    BY LenProperties
  <1>2. s = SubSeq(s, 1, Len(s))
    BY SubSeqFull
  <1>3. QED
    BY <1>1, <1>2 DEF From

Goes(s, c, e) == Head(s) = c /\ After(s) = e

LEMMA CourseOfOne ==
  ASSUME NEW a \in Call,
         NEW u \in From(<<a>>)
  PROVE  Goes(u, a, "end") /\ Len(u) = 1
  <1> DEFINE s == <<a>>
  <1>1. /\ s \in Seq(Call) /\ Len(s) = 1
        /\ s[1] = a
    OBVIOUS
  <1> HIDE DEF s
  <1>2. PICK i \in 1 .. 1 : /\ Head(u) = s[i] /\ Len(u) = 1 - i + 1
                            /\ i = 1 => After(u) = "end"
                            /\ i # 1 => After(u) = s[i + 1]
    <2>1. u \in From(s)
      BY DEF s
    <2>2. QED
      BY <1>1, <2>1, FromAt
  <1>3. i = 1
    OBVIOUS
  <1>4. QED
    BY <1>1, <1>2, <1>3 DEF Goes

LEMMA CourseOfTwo ==
  ASSUME NEW a \in Call, NEW b \in Call,
         NEW u \in From(<<a, b>>)
  PROVE  \/ Goes(u, a, b) /\ Len(u) = 2
         \/ Goes(u, b, "end") /\ Len(u) = 1
  <1> DEFINE s == <<a, b>>
  <1>1. /\ s \in Seq(Call) /\ Len(s) = 2
        /\ s[1] = a /\ s[2] = b
    OBVIOUS
  <1> HIDE DEF s
  <1>2. PICK i \in 1 .. 2 : /\ Head(u) = s[i] /\ Len(u) = 2 - i + 1
                            /\ i = 2 => After(u) = "end"
                            /\ i # 2 => After(u) = s[i + 1]
    <2>1. u \in From(s)
      BY DEF s
    <2>2. QED
      BY <1>1, <2>1, FromAt
  <1>3. i = 1 \/ i = 2
    OBVIOUS
  <1>4. QED
    BY <1>1, <1>2, <1>3 DEF Goes

LEMMA CourseOfThree ==
  ASSUME NEW a \in Call, NEW b \in Call, NEW c \in Call,
         NEW u \in From(<<a, b, c>>)
  PROVE  \/ Goes(u, a, b) /\ Len(u) = 3
         \/ Goes(u, b, c) /\ Len(u) = 2
         \/ Goes(u, c, "end") /\ Len(u) = 1
  <1> DEFINE s == <<a, b, c>>
  <1>1. /\ s \in Seq(Call) /\ Len(s) = 3
        /\ s[1] = a /\ s[2] = b /\ s[3] = c
    OBVIOUS
  <1> HIDE DEF s
  <1>2. PICK i \in 1 .. 3 : /\ Head(u) = s[i] /\ Len(u) = 3 - i + 1
                            /\ i = 3 => After(u) = "end"
                            /\ i # 3 => After(u) = s[i + 1]
    <2>1. u \in From(s)
      BY DEF s
    <2>2. QED
      BY <1>1, <2>1, FromAt
  <1>3. i = 1 \/ i = 2 \/ i = 3
    OBVIOUS
  <1>4. QED
    BY <1>1, <1>2, <1>3 DEF Goes

LEMMA CourseOfFour ==
  ASSUME NEW a \in Call, NEW b \in Call, NEW c \in Call, NEW d \in Call,
         NEW u \in From(<<a, b, c, d>>)
  PROVE  \/ Goes(u, a, b) /\ Len(u) = 4
         \/ Goes(u, b, c) /\ Len(u) = 3
         \/ Goes(u, c, d) /\ Len(u) = 2
         \/ Goes(u, d, "end") /\ Len(u) = 1
  <1> DEFINE s == <<a, b, c, d>>
  <1>1. /\ s \in Seq(Call) /\ Len(s) = 4
        /\ s[1] = a /\ s[2] = b /\ s[3] = c /\ s[4] = d
    OBVIOUS
  <1> HIDE DEF s
  <1>2. PICK i \in 1 .. 4 : /\ Head(u) = s[i] /\ Len(u) = 4 - i + 1
                            /\ i = 4 => After(u) = "end"
                            /\ i # 4 => After(u) = s[i + 1]
    <2>1. u \in From(s)
      BY DEF s
    <2>2. QED
      BY <1>1, <2>1, FromAt
  <1>3. i = 1 \/ i = 2 \/ i = 3 \/ i = 4
    OBVIOUS
  <1>4. QED
    BY <1>1, <1>2, <1>3 DEF Goes

LEMMA CourseOfFive ==
  ASSUME NEW a \in Call, NEW b \in Call, NEW c \in Call, NEW d \in Call, NEW e \in Call,
         NEW u \in From(<<a, b, c, d, e>>)
  PROVE  \/ Goes(u, a, b) /\ Len(u) = 5
         \/ Goes(u, b, c) /\ Len(u) = 4
         \/ Goes(u, c, d) /\ Len(u) = 3
         \/ Goes(u, d, e) /\ Len(u) = 2
         \/ Goes(u, e, "end") /\ Len(u) = 1
  <1> DEFINE s == <<a, b, c, d, e>>
  <1>1. /\ s \in Seq(Call) /\ Len(s) = 5
        /\ s[1] = a /\ s[2] = b /\ s[3] = c /\ s[4] = d /\ s[5] = e
    OBVIOUS
  <1> HIDE DEF s
  <1>2. PICK i \in 1 .. 5 : /\ Head(u) = s[i] /\ Len(u) = 5 - i + 1
                            /\ i = 5 => After(u) = "end"
                            /\ i # 5 => After(u) = s[i + 1]
    <2>1. u \in From(s)
      BY DEF s
    <2>2. QED
      BY <1>1, <2>1, FromAt
  <1>3. i = 1 \/ i = 2 \/ i = 3 \/ i = 4 \/ i = 5
    OBVIOUS
  <1>4. QED
    BY <1>1, <1>2, <1>3 DEF Goes

LEMMA TailFrom ==
  ASSUME NEW s \in Seq(Call), NEW u \in From(s)
  PROVE  /\ u \in Seq(Call) /\ u # <<>> /\ Tail(u) \in Seq(Call)
         /\ Tail(u) = <<>> <=> After(u) = "end"
         /\ Tail(u) # <<>> => Tail(u) \in From(s) /\ Head(Tail(u)) = After(u)
                              /\ Len(Tail(u)) = Len(u) - 1
  <1>1. /\ u \in Seq(Call) /\ u # <<>>
        /\ Tail(u) # <<>> => Tail(u) \in From(s)
    BY FromAt
  <1>2. /\ Tail(u) \in Seq(Call) /\ Len(Tail(u)) = Len(u) - 1
    BY <1>1, HeadTailProperties
  <1>3. Tail(u) # <<>> => Head(Tail(u)) \in Call
    BY <1>2, HeadTailProperties
  <1>4. "end" \notin Call
    BY DEF Call
  <1>5. QED
    BY <1>1, <1>2, <1>3, <1>4 DEF After

LEMMA Rounds ==
  /\ FillRound \in Seq(Call) /\ RestoreRound \in Seq(Call) /\ DeleteRound \in Seq(Call)
  /\ UpdateRound \in Seq(Call) /\ OldRound \in Seq(Call) /\ NoRecordLeft \in Seq(Call)
  BY DEF FillRound, RestoreRound, DeleteRound, UpdateRound, OldRound, NoRecordLeft, Call

LEMMA Joined ==
  /\ HandleSignupRequest = CreateAccount
  /\ HandleProxyDeleteAccount = <<"pdsDelete", "readOwn", "deleteOwn", "deleteDid">>
  /\ <<"addHandle", "putDid">> \o <<"fill">> = FillRound
  /\ <<"putDid", "restoreSubs">> \o <<"restore">> = RestoreRound
  /\ <<"deleteSub">> \o <<"deleteOwn", "deleteDid">> = DeleteRound
  /\ SetRegistryHandle \o <<"pdsUpdate">> = UpdateRound
  /\ <<"deleteOld">> \o <<"putSub">> = OldRound
  <1>1. ASSUME NEW s \in Seq(Call), NEW t \in Seq(Call), NEW u \in Seq(Call),
               Len(u) = Len(s) + Len(t),
               \A i \in 1 .. Len(s) : s[i] = u[i],
               \A i \in 1 .. Len(t) : t[i] = u[Len(s) + i]
        PROVE  s \o t = u
    <2>1. Len(s \o t) = Len(u) /\ \A i \in 1 .. Len(u) : (s \o t)[i] = u[i]
      <3>1. Len(s) \in Nat /\ Len(t) \in Nat
        BY LenProperties
      <3>2. ASSUME NEW i \in 1 .. Len(u), i > Len(s)
            PROVE  t[i - Len(s)] = u[i]
        <4>1. i - Len(s) \in 1 .. Len(t) /\ Len(s) + (i - Len(s)) = i
          BY <1>1, <3>1, <3>2
        <4>2. QED
          BY <1>1, <4>1
      <3>3. QED
        BY <1>1, <3>1, <3>2, ConcatProperties
    <2>2. s \o t \in Seq(Call)
      BY <1>1, ConcatProperties
    <2>3. QED
      BY <2>1, <2>2, <1>1, SeqEqual
  <1>2. HandleSignupRequest = CreateAccount
    <2> DEFINE s == <<"pdsCreate">>
               t == HandleClaim
               u == CreateAccount
    <2>1. /\ s \in Seq(Call) /\ t \in Seq(Call) /\ u \in Seq(Call)
          /\ Len(s) = 1 /\ Len(t) = 4 /\ Len(u) = 5
          /\ s[1] = u[1] /\ t[1] = u[2] /\ t[2] = u[3] /\ t[3] = u[4] /\ t[4] = u[5]
      BY DEF HandleClaim, CreateAccount, Call
    <2> HIDE DEF s, t, u
    <2>2. \A i \in 1 .. Len(s) : s[i] = u[i]
      BY <2>1
    <2>3. \A i \in 1 .. Len(t) : t[i] = u[Len(s) + i]
      <3>1. \A i \in 1 .. 4 : i = 1 \/ i = 2 \/ i = 3 \/ i = 4
        OBVIOUS
      <3>2. QED
        BY <2>1, <3>1
    <2>4. Len(u) = Len(s) + Len(t)
      BY <2>1
    <2>5. s \o t = u
      BY <2>1, <2>2, <2>3, <2>4, <1>1, Zenon
    <2>6. QED
      BY <2>5 DEF s, t, u, HandleSignupRequest
  <1>3. HandleProxyDeleteAccount = <<"pdsDelete", "readOwn", "deleteOwn", "deleteDid">>
    <2> DEFINE s == <<"pdsDelete">>
               t == DeleteRegistryForDid
               u == <<"pdsDelete", "readOwn", "deleteOwn", "deleteDid">>
    <2>1. /\ s \in Seq(Call) /\ t \in Seq(Call) /\ u \in Seq(Call)
          /\ Len(s) = 1 /\ Len(t) = 3 /\ Len(u) = 4
          /\ s[1] = u[1] /\ t[1] = u[2] /\ t[2] = u[3] /\ t[3] = u[4]
      BY DEF DeleteRegistryForDid, Call
    <2> HIDE DEF s, t, u
    <2>2. \A i \in 1 .. Len(s) : s[i] = u[i]
      BY <2>1
    <2>3. \A i \in 1 .. Len(t) : t[i] = u[Len(s) + i]
      <3>1. \A i \in 1 .. 3 : i = 1 \/ i = 2 \/ i = 3
        OBVIOUS
      <3>2. QED
        BY <2>1, <3>1
    <2>4. Len(u) = Len(s) + Len(t)
      BY <2>1
    <2>5. s \o t = u
      BY <2>1, <2>2, <2>3, <2>4, <1>1, Zenon
    <2>6. QED
      BY <2>5 DEF s, t, u, HandleProxyDeleteAccount
  <1>4. <<"addHandle", "putDid">> \o <<"fill">> = FillRound
    <2> DEFINE s == <<"addHandle", "putDid">>
               t == <<"fill">>
               u == FillRound
    <2>1. /\ s \in Seq(Call) /\ t \in Seq(Call) /\ u \in Seq(Call)
          /\ Len(s) = 2 /\ Len(t) = 1 /\ Len(u) = 3
          /\ s[1] = u[1] /\ s[2] = u[2] /\ t[1] = u[3]
      BY DEF FillRound, Call
    <2> HIDE DEF s, t, u
    <2>2. \A i \in 1 .. Len(s) : s[i] = u[i]
      BY <2>1
    <2>3. \A i \in 1 .. Len(t) : t[i] = u[Len(s) + i]
      <3>1. \A i \in 1 .. 1 : i = 1
        OBVIOUS
      <3>2. QED
        BY <2>1, <3>1
    <2>4. Len(u) = Len(s) + Len(t)
      BY <2>1
    <2>5. s \o t = u
      BY <2>1, <2>2, <2>3, <2>4, <1>1, Zenon
    <2>6. QED
      BY <2>5 DEF s, t, u
  <1>5. <<"putDid", "restoreSubs">> \o <<"restore">> = RestoreRound
    <2> DEFINE s == <<"putDid", "restoreSubs">>
               t == <<"restore">>
               u == RestoreRound
    <2>1. /\ s \in Seq(Call) /\ t \in Seq(Call) /\ u \in Seq(Call)
          /\ Len(s) = 2 /\ Len(t) = 1 /\ Len(u) = 3
          /\ s[1] = u[1] /\ s[2] = u[2] /\ t[1] = u[3]
      BY DEF RestoreRound, Call
    <2> HIDE DEF s, t, u
    <2>2. \A i \in 1 .. Len(s) : s[i] = u[i]
      BY <2>1
    <2>3. \A i \in 1 .. Len(t) : t[i] = u[Len(s) + i]
      <3>1. \A i \in 1 .. 1 : i = 1
        OBVIOUS
      <3>2. QED
        BY <2>1, <3>1
    <2>4. Len(u) = Len(s) + Len(t)
      BY <2>1
    <2>5. s \o t = u
      BY <2>1, <2>2, <2>3, <2>4, <1>1, Zenon
    <2>6. QED
      BY <2>5 DEF s, t, u
  <1>6. <<"deleteSub">> \o <<"deleteOwn", "deleteDid">> = DeleteRound
    <2> DEFINE s == <<"deleteSub">>
               t == <<"deleteOwn", "deleteDid">>
               u == DeleteRound
    <2>1. /\ s \in Seq(Call) /\ t \in Seq(Call) /\ u \in Seq(Call)
          /\ Len(s) = 1 /\ Len(t) = 2 /\ Len(u) = 3
          /\ s[1] = u[1] /\ t[1] = u[2] /\ t[2] = u[3]
      BY DEF DeleteRound, Call
    <2> HIDE DEF s, t, u
    <2>2. \A i \in 1 .. Len(s) : s[i] = u[i]
      BY <2>1
    <2>3. \A i \in 1 .. Len(t) : t[i] = u[Len(s) + i]
      <3>1. \A i \in 1 .. 2 : i = 1 \/ i = 2
        OBVIOUS
      <3>2. QED
        BY <2>1, <3>1
    <2>4. Len(u) = Len(s) + Len(t)
      BY <2>1
    <2>5. s \o t = u
      BY <2>1, <2>2, <2>3, <2>4, <1>1, Zenon
    <2>6. QED
      BY <2>5 DEF s, t, u
  <1>7. SetRegistryHandle \o <<"pdsUpdate">> = UpdateRound
    <2> DEFINE s == SetRegistryHandle
               t == <<"pdsUpdate">>
               u == UpdateRound
    <2>1. /\ s \in Seq(Call) /\ t \in Seq(Call) /\ u \in Seq(Call)
          /\ Len(s) = 3 /\ Len(t) = 1 /\ Len(u) = 4
          /\ s[1] = u[1] /\ s[2] = u[2] /\ s[3] = u[3] /\ t[1] = u[4]
      BY DEF SetRegistryHandle, UpdateRound, Call
    <2> HIDE DEF s, t, u
    <2>2. \A i \in 1 .. Len(s) : s[i] = u[i]
      BY <2>1
    <2>3. \A i \in 1 .. Len(t) : t[i] = u[Len(s) + i]
      <3>1. \A i \in 1 .. 1 : i = 1
        OBVIOUS
      <3>2. QED
        BY <2>1, <3>1
    <2>4. Len(u) = Len(s) + Len(t)
      BY <2>1
    <2>5. s \o t = u
      BY <2>1, <2>2, <2>3, <2>4, <1>1, Zenon
    <2>6. QED
      BY <2>5 DEF s, t, u
  <1>8. <<"deleteOld">> \o <<"putSub">> = OldRound
    <2> DEFINE s == <<"deleteOld">>
               t == <<"putSub">>
               u == OldRound
    <2>1. /\ s \in Seq(Call) /\ t \in Seq(Call) /\ u \in Seq(Call)
          /\ Len(s) = 1 /\ Len(t) = 1 /\ Len(u) = 2
          /\ s[1] = u[1] /\ t[1] = u[2]
      BY DEF OldRound, Call
    <2> HIDE DEF s, t, u
    <2>2. \A i \in 1 .. Len(s) : s[i] = u[i]
      BY <2>1
    <2>3. \A i \in 1 .. Len(t) : t[i] = u[Len(s) + i]
      <3>1. \A i \in 1 .. 1 : i = 1
        OBVIOUS
      <3>2. QED
        BY <2>1, <3>1
    <2>4. Len(u) = Len(s) + Len(t)
      BY <2>1
    <2>5. s \o t = u
      BY <2>1, <2>2, <2>3, <2>4, <1>1, Zenon
    <2>6. QED
      BY <2>5 DEF s, t, u
  <1>9. QED
    BY <1>2, <1>3, <1>4, <1>5, <1>6, <1>7, <1>8

LEMMA Short ==
  ASSUME NEW s \in Seq(Call)
  PROVE  /\ Len(s) = 1 => s = <<Head(s)>>
         /\ Len(s) = 2 => s = <<Head(s), After(s)>>
  <1>1. Len(s) = 1 => s = <<Head(s)>>
    OBVIOUS
  <1>2. ASSUME Len(s) = 2
        PROVE  s = <<Head(s), After(s)>>
    <2>1. Tail(s) # <<>> /\ Head(s) = s[1] /\ Head(Tail(s)) = s[2]
      <3>1. Len(Tail(s)) = 1 /\ Tail(s)[1] = s[2] /\ Head(s) = s[1] /\ Tail(s) \in Seq(Call)
        BY <1>2
      <3>2. Len(<<>>) = 0
        OBVIOUS
      <3>3. Tail(s) # <<>>
        BY <3>1, <3>2
      <3>4. QED
        BY <3>1, <3>3
    <2>2. s = <<s[1], s[2]>>
      <3> DEFINE u == <<s[1], s[2]>>
      <3>1. s[1] \in Call /\ s[2] \in Call
        BY <1>2
      <3>2. u \in Seq(Call) /\ Len(u) = 2 /\ u[1] = s[1] /\ u[2] = s[2]
        BY <3>1
      <3> HIDE DEF u
      <3>3. \A i \in 1 .. Len(s) : s[i] = u[i]
        <4>1. \A i \in 1 .. 2 : i = 1 \/ i = 2
          OBVIOUS
        <4>2. QED
          BY <1>2, <3>2, <4>1
      <3>4. s = u
        BY <1>2, <3>2, <3>3, SeqEqual
      <3>5. QED
        BY <3>4 DEF u
    <2>3. QED
      BY <2>1, <2>2 DEF After
  <1>3. QED
    BY <1>1, <1>2

LEMMA Courses ==
  ASSUME NEW q, q.op \in AllOps, Scripted(q)
  PROVE  LET s == q.calls IN
         /\ q.op \in Granting =>
              \/ Goes(s, "checkTaken", "grant") \/ Goes(s, "grant", "putDid")
              \/ Goes(s, "putDid", "putSub") \/ Goes(s, "putSub", "log") \/ Goes(s, "log", "end")
         /\ q.op = "delete" =>
              \/ Goes(s, "find", "saveDid") \/ Goes(s, "saveDid", "deleteSub")
              \/ Goes(s, "deleteSub", "log") \/ Goes(s, "log", "end")
         /\ q.op = "manage" =>
              \/ Goes(s, "find", "deleteSub") \/ Goes(s, "deleteSub", "saveDid")
              \/ Goes(s, "saveDid", "log") \/ Goes(s, "log", "end")
         /\ q.op = "list" => Goes(s, "find", "end")
         /\ q.op = "adminDelete" =>
              \/ Goes(s, "adminRead", "adminCheck") \/ Goes(s, "adminCheck", "deleteSub")
              \/ Goes(s, "deleteSub", "saveDid") \/ Goes(s, "saveDid", "log")
              \/ Goes(s, "log", "end") \/ Goes(s, "deleteSub", "end")
         /\ q.op = "adminDrop" =>
              \/ Goes(s, "readAll", "deleteAll") \/ Goes(s, "deleteAll", "deleteDid")
              \/ Goes(s, "deleteDid", "log") \/ Goes(s, "log", "end")
         /\ q.op = "backfill" =>
              \/ Goes(s, "listSubs", "fill") \/ (Goes(s, "fill", "end") /\ Len(s) = 1)
              \/ Goes(s, "addHandle", "putDid") \/ Goes(s, "putDid", "fill")
         /\ q.op = "export" => Goes(s, "listDids", "dump") \/ Goes(s, "dump", "end")
         /\ q.op = "import" =>
              \/ (Goes(s, "listDids", "wipe") /\ Len(s) = 5)
               \/ (Goes(s, "wipe", "listSubs") /\ Len(s) = 4)
              \/ Goes(s, "listSubs", "wipe") /\ Len(s) = 3
              \/ Goes(s, "wipe", "restore") /\ Len(s) = 2
              \/ Goes(s, "restore", "end") /\ Len(s) = 1
              \/ Goes(s, "putDid", "restoreSubs") \/ Goes(s, "restoreSubs", "restore")
         /\ q.op = "sync" =>
              \/ Goes(s, "checkOther", "addHandle") \/ Goes(s, "addHandle", "putSub")
              \/ Goes(s, "putSub", "putDid") \/ Goes(s, "putDid", "end")
         /\ q.op \in {"claim", "signup"} =>
              \/ Goes(s, "pdsCreate", "checkOther") /\ q.op = "signup"
              \/ Goes(s, "checkOther", "putSub") \/ Goes(s, "putSub", "addHandle")
              \/ Goes(s, "addHandle", "putDid") \/ Goes(s, "putDid", "end")
         /\ q.op = "setHandle" =>
              \/ Goes(s, "putSub", "addHandle") \/ Goes(s, "addHandle", "putDid")
              \/ Goes(s, "putDid", "end")
         /\ q.op = "changeHandle" =>
              \/ Goes(s, "replace", "putDid") \/ Goes(s, "putDid", "checkOld")
              \/ (Goes(s, "checkOld", "putSub") /\ Len(s) = 2) \/ Goes(s, "putSub", "end")
              \/ Goes(s, "deleteOld", "putSub")
         /\ q.op = "updateHandle" =>
              \/ (Goes(s, "session", "pdsUpdate") /\ Len(s) = 2) \/ Goes(s, "pdsUpdate", "end")
              \/ Goes(s, "putSub", "addHandle") \/ Goes(s, "addHandle", "putDid")
              \/ Goes(s, "putDid", "pdsUpdate")
         /\ q.op \in {"accountDeleted", "deleteAccount"} =>
              \/ Goes(s, "pdsDelete", "readOwn") /\ q.op = "deleteAccount"
              \/ Goes(s, "readOwn", "deleteOwn")
              \/ Goes(s, "deleteOwn", "deleteDid") /\ Len(s) = 2
              \/ Goes(s, "deleteSub", "deleteOwn") \/ Goes(s, "deleteDid", "end")
  <1> DEFINE s == q.calls
  <1>1. ASSUME q.op \in Granting
        PROVE  \/ Goes(s, "checkTaken", "grant") \/ Goes(s, "grant", "putDid")
               \/ Goes(s, "putDid", "putSub") \/ Goes(s, "putSub", "log") \/ Goes(s, "log", "end")
    <2>1. {"checkTaken", "grant", "log", "putDid", "putSub"} \subseteq Call
      BY DEF Call
    <2>2. s \in From(<<"checkTaken", "grant", "putDid", "putSub", "log">>)
      BY <1>1 DEF Scripted, HandleRegister
    <2>3. QED
      BY <2>1, <2>2, CourseOfFive
  <1>2. ASSUME q.op = "delete"
        PROVE  \/ Goes(s, "find", "saveDid") \/ Goes(s, "saveDid", "deleteSub")
               \/ Goes(s, "deleteSub", "log") \/ Goes(s, "log", "end")
    <2>1. {"deleteSub", "find", "log", "saveDid"} \subseteq Call
      BY DEF Call
    <2>2. s \in From(<<"find", "saveDid", "deleteSub", "log">>)
      BY <1>2 DEF Scripted, HandleDelete
    <2>3. QED
      BY <2>1, <2>2, CourseOfFour
  <1>3. ASSUME q.op = "manage"
        PROVE  \/ Goes(s, "find", "deleteSub") \/ Goes(s, "deleteSub", "saveDid")
               \/ Goes(s, "saveDid", "log") \/ Goes(s, "log", "end")
    <2>1. {"deleteSub", "find", "log", "saveDid"} \subseteq Call
      BY DEF Call
    <2>2. s \in From(<<"find", "deleteSub", "saveDid", "log">>)
      BY <1>3 DEF Scripted, HandleManage
    <2>3. QED
      BY <2>1, <2>2, CourseOfFour
  <1>4. ASSUME q.op = "list"
        PROVE  Goes(s, "find", "end")
    <2>1. {"find"} \subseteq Call
      BY DEF Call
    <2>2. s \in From(<<"find">>)
      BY <1>4 DEF Scripted
    <2>3. QED
      BY <2>1, <2>2, CourseOfOne
  <1>5. ASSUME q.op = "adminDelete"
        PROVE  \/ Goes(s, "adminRead", "adminCheck") \/ Goes(s, "adminCheck", "deleteSub")
               \/ Goes(s, "deleteSub", "saveDid") \/ Goes(s, "saveDid", "log")
               \/ Goes(s, "log", "end") \/ Goes(s, "deleteSub", "end")
    <2>1. {"adminCheck", "adminRead", "deleteSub", "log", "saveDid"} \subseteq Call
      BY DEF Call
    <2>2. \/ s \in From(<<"adminRead", "adminCheck", "deleteSub", "saveDid", "log">>)
          \/ s \in From(<<"adminCheck", "deleteSub">>)
      BY <1>5 DEF Scripted, HandleAdminDeleteHandle, NoRecordLeft
    <2>3. QED
      BY <2>1, <2>2, CourseOfFive, CourseOfTwo
  <1>6. ASSUME q.op = "adminDrop"
        PROVE  \/ Goes(s, "readAll", "deleteAll") \/ Goes(s, "deleteAll", "deleteDid")
               \/ Goes(s, "deleteDid", "log") \/ Goes(s, "log", "end")
    <2>1. {"deleteAll", "deleteDid", "log", "readAll"} \subseteq Call
      BY DEF Call
    <2>2. s \in From(<<"readAll", "deleteAll", "deleteDid", "log">>)
      BY <1>6 DEF Scripted, HandleAdminDeleteAllForDid
    <2>3. QED
      BY <2>1, <2>2, CourseOfFour
  <1>7. ASSUME q.op = "backfill"
        PROVE  \/ Goes(s, "listSubs", "fill") \/ (Goes(s, "fill", "end") /\ Len(s) = 1)
               \/ Goes(s, "addHandle", "putDid") \/ Goes(s, "putDid", "fill")
    <2>1. {"addHandle", "fill", "listSubs", "putDid"} \subseteq Call
      BY DEF Call
    <2>2. \/ s \in From(<<"listSubs", "fill">>)
          \/ s \in From(<<"addHandle", "putDid", "fill">>)
      BY <1>7 DEF Scripted, HandleAdminBackfillDidRecords, FillRound
    <2>3. CASE s \in From(<<"listSubs", "fill">>)
      BY <2>1, <2>3, CourseOfTwo
    <2>4. CASE s \in From(<<"addHandle", "putDid", "fill">>)
      BY <2>1, <2>4, CourseOfThree
    <2>5. QED
      BY <2>2, <2>3, <2>4
  <1>8. ASSUME q.op = "export"
        PROVE  Goes(s, "listDids", "dump") \/ Goes(s, "dump", "end")
    <2>1. {"dump", "listDids"} \subseteq Call
      BY DEF Call
    <2>2. s \in From(<<"listDids", "dump">>)
      BY <1>8 DEF Scripted, HandleAdminExportRegistry
    <2>3. QED
      BY <2>1, <2>2, CourseOfTwo
  <1>9. ASSUME q.op = "import"
        PROVE  \/ (Goes(s, "listDids", "wipe") /\ Len(s) = 5)
               \/ (Goes(s, "wipe", "listSubs") /\ Len(s) = 4)
               \/ Goes(s, "listSubs", "wipe") /\ Len(s) = 3
               \/ Goes(s, "wipe", "restore") /\ Len(s) = 2
               \/ Goes(s, "restore", "end") /\ Len(s) = 1
               \/ Goes(s, "putDid", "restoreSubs") \/ Goes(s, "restoreSubs", "restore")
    <2>1. {"listDids", "listSubs", "putDid", "restore", "restoreSubs", "wipe"} \subseteq Call
      BY DEF Call
    <2>2. \/ s \in From(<<"listDids", "wipe", "listSubs", "wipe", "restore">>)
          \/ s \in From(<<"putDid", "restoreSubs", "restore">>)
      BY <1>9 DEF Scripted, HandleAdminImportRegistry, RestoreRound
    <2>3. CASE s \in From(<<"listDids", "wipe", "listSubs", "wipe", "restore">>)
      BY <2>1, <2>3, CourseOfFive
    <2>4. CASE s \in From(<<"putDid", "restoreSubs", "restore">>)
      BY <2>1, <2>4, CourseOfThree
    <2>5. QED
      BY <2>2, <2>3, <2>4
  <1>10. ASSUME q.op = "sync"
        PROVE  \/ Goes(s, "checkOther", "addHandle") \/ Goes(s, "addHandle", "putSub")
               \/ Goes(s, "putSub", "putDid") \/ Goes(s, "putDid", "end")
    <2>1. {"addHandle", "checkOther", "putDid", "putSub"} \subseteq Call
      BY DEF Call
    <2>2. s \in From(<<"checkOther", "addHandle", "putSub", "putDid">>)
      BY <1>10 DEF Scripted, HandleInternalDidWebSync
    <2>3. QED
      BY <2>1, <2>2, CourseOfFour
  <1>11. ASSUME q.op \in {"claim", "signup"}
        PROVE  \/ (Goes(s, "pdsCreate", "checkOther") /\ q.op = "signup")
               \/ Goes(s, "checkOther", "putSub") \/ Goes(s, "putSub", "addHandle")
               \/ Goes(s, "addHandle", "putDid") \/ Goes(s, "putDid", "end")
    <2>1. {"addHandle", "checkOther", "pdsCreate", "putDid", "putSub"} \subseteq Call
      BY DEF Call
    <2>2. \/ s \in From(<<"checkOther", "putSub", "addHandle", "putDid">>)
          \/ s \in From(<<"pdsCreate", "checkOther", "putSub", "addHandle", "putDid">>) /\ q.op = "signup"
      BY <1>11 DEF Scripted, HandleClaim, CreateAccount
    <2>3. QED
      BY <2>1, <2>2, CourseOfFour, CourseOfFive
  <1>12. ASSUME q.op = "setHandle"
        PROVE  \/ Goes(s, "putSub", "addHandle") \/ Goes(s, "addHandle", "putDid")
               \/ Goes(s, "putDid", "end")
    <2>1. {"addHandle", "putDid", "putSub"} \subseteq Call
      BY DEF Call
    <2>2. s \in From(<<"putSub", "addHandle", "putDid">>)
      BY <1>12 DEF Scripted, SetRegistryHandle
    <2>3. QED
      BY <2>1, <2>2, CourseOfThree
  <1>13. ASSUME q.op = "changeHandle"
        PROVE  \/ Goes(s, "replace", "putDid") \/ Goes(s, "putDid", "checkOld")
               \/ (Goes(s, "checkOld", "putSub") /\ Len(s) = 2) \/ Goes(s, "putSub", "end")
               \/ Goes(s, "deleteOld", "putSub")
    <2>1. {"checkOld", "deleteOld", "putDid", "putSub", "replace"} \subseteq Call
      BY DEF Call
    <2>2. \/ s \in From(<<"replace", "putDid", "checkOld", "putSub">>)
          \/ s \in From(<<"deleteOld", "putSub">>)
      BY <1>13 DEF Scripted, ChangeRegistryHandle, OldRound
    <2>3. QED
      BY <2>1, <2>2, CourseOfFour, CourseOfTwo
  <1>14. ASSUME q.op = "updateHandle"
        PROVE  \/ (Goes(s, "session", "pdsUpdate") /\ Len(s) = 2) \/ Goes(s, "pdsUpdate", "end")
               \/ Goes(s, "putSub", "addHandle") \/ Goes(s, "addHandle", "putDid")
               \/ Goes(s, "putDid", "pdsUpdate")
    <2>1. {"addHandle", "pdsUpdate", "putDid", "putSub", "session"} \subseteq Call
      BY DEF Call
    <2>2. \/ s \in From(<<"session", "pdsUpdate">>)
          \/ s \in From(<<"putSub", "addHandle", "putDid", "pdsUpdate">>)
      BY <1>14 DEF Scripted, HandleProxyUpdateHandle, UpdateRound
    <2>3. QED
      BY <2>1, <2>2, CourseOfTwo, CourseOfFour
  <1>15. ASSUME q.op \in {"accountDeleted", "deleteAccount"}
        PROVE  \/ (Goes(s, "pdsDelete", "readOwn") /\ q.op = "deleteAccount")
               \/ Goes(s, "readOwn", "deleteOwn")
               \/ Goes(s, "deleteOwn", "deleteDid") /\ Len(s) = 2
               \/ Goes(s, "deleteSub", "deleteOwn") \/ Goes(s, "deleteDid", "end")
    <2>1. {"deleteDid", "deleteOwn", "deleteSub", "pdsDelete", "readOwn"} \subseteq Call
      BY DEF Call
    <2>2. \/ s \in From(<<"readOwn", "deleteOwn", "deleteDid">>)
          \/ s \in From(<<"deleteSub", "deleteOwn", "deleteDid">>)
          \/ s \in From(<<"pdsDelete", "readOwn", "deleteOwn", "deleteDid">>) /\ q.op = "deleteAccount"
      BY <1>15, Joined DEF Scripted, DeleteRegistryForDid, DeleteRound
    <2>3. QED
      BY <2>1, <2>2, CourseOfThree, CourseOfFour
  <1>16. QED
    BY <1>1, <1>2, <1>3, <1>4, <1>5, <1>6, <1>7, <1>8, <1>9, <1>10, <1>11, <1>12, <1>13, <1>14, <1>15

-----------------------------------------------------------------------------
(* What names a request has when it makes a call that needs them *)
Named(q) ==
  LET c == Head(q.calls) IN
  /\ q.op \in {"register", "assign", "adminDelete", "adminDrop", "sync", "claim", "setHandle",
               "changeHandle", "updateHandle", "accountDeleted", "deleteAccount"} => q.did \in DID
  /\ q.op \in {"delete", "manage"} /\ c # "find" => q.did \in DID
  /\ q.op = "signup" /\ c # "pdsCreate" => q.did \in DID
  /\ q.op = "import" /\ c \in {"putDid", "restoreSubs"} => q.did \in DID
  /\ q.op = "backfill" /\ c \in {"addHandle", "putDid"} => q.did \in DID /\ q.sub \in Sub
  /\ q.op \in {"register", "assign", "delete", "manage", "adminDelete", "sync", "claim", "signup",
               "setHandle", "changeHandle"} => q.sub \in Sub
  /\ c \in {"deleteSub", "putSub", "addHandle"} => q.sub \in Sub
  /\ q.op = "changeHandle" => q.old \in Sub

Placed(q) == q.op # None => Scripted(q) /\ Named(q)

OneByOne  == calm => \A p, o \in Busy : p = o
SoloAlone == \A p, o \in Busy : req[p].solo => p = o

WInv == IInv /\ OneByOne /\ SoloAlone /\ \A p \in Proc : Placed(req[p])

LEMMA NamedStays ==
  ASSUME NEW q, NEW n, q.op \in AllOps, Scripted(q), Named(q), n.op = q.op, n.did = q.did,
         n.sub = q.sub, n.old = q.old, Head(n.calls) = After(q.calls),
         Head(q.calls) \notin {"find", "pdsCreate"}
  PROVE  Named(n)
  <1> DEFINE c == Head(q.calls) e == After(q.calls)
  <1>1. CASE q.op \in {"register", "assign", "delete", "manage", "adminDelete", "sync", "claim",
                       "signup", "setHandle", "changeHandle"}
    BY <1>1 DEF Named
  <1>2. CASE q.op \in {"list", "adminDrop", "backfill", "export", "import"}
    BY <1>2, Courses DEF Goes, Named
  <1>3. CASE q.op = "updateHandle"
    BY <1>3, Courses DEF Goes, Named
  <1>4. CASE q.op \in {"accountDeleted", "deleteAccount"}
    BY <1>4, Courses DEF Goes, Named
  <1>5. QED
    BY <1>1, <1>2, <1>3, <1>4 DEF AllOps, Public, Admin, Internal, Proxied

LEMMA InSeq ==
  /\ HandleRegister \in Seq(Call) /\ HandleDelete \in Seq(Call) /\ HandleManage \in Seq(Call)
  /\ <<"find">> \in Seq(Call) /\ HandleAdminDeleteHandle \in Seq(Call)
  /\ HandleAdminDeleteAllForDid \in Seq(Call) /\ HandleAdminBackfillDidRecords \in Seq(Call)
  /\ HandleAdminExportRegistry \in Seq(Call) /\ HandleAdminImportRegistry \in Seq(Call)
  /\ HandleInternalDidWebSync \in Seq(Call) /\ HandleClaim \in Seq(Call)
  /\ CreateAccount \in Seq(Call) /\ SetRegistryHandle \in Seq(Call)
  /\ ChangeRegistryHandle \in Seq(Call) /\ HandleProxyUpdateHandle \in Seq(Call)
  /\ DeleteRegistryForDid \in Seq(Call) /\ HandleProxyDeleteAccount \in Seq(Call)
  BY PublicHandlers, AdminHandlers, BridgeHandlers, ProxiedHandlers

LEMMA ScriptedStays ==
  ASSUME NEW q, q.op \in AllOps, Scripted(q)
  PROVE  /\ q.calls \in Seq(Call) /\ q.calls # <<>> /\ Tail(q.calls) \in Seq(Call)
         /\ Tail(q.calls) = <<>> <=> After(q.calls) = "end"
         /\ Tail(q.calls) # <<>> => /\ Head(Tail(q.calls)) = After(q.calls)
                                    /\ Len(Tail(q.calls)) = Len(q.calls) - 1
         /\ \A n : n.op = q.op /\ n.calls = Tail(q.calls) /\ n.calls # <<>> => Scripted(n)
  <1> DEFINE u == q.calls
  <1>1. \E s \in Seq(Call) : u \in From(s)
    BY InSeq, Rounds DEF Scripted, AllOps, Public, Admin, Internal, Proxied, Granting
  <1>2. ASSUME NEW n, n.op = q.op, n.calls = Tail(u), n.calls # <<>>
        PROVE  Scripted(n)
    <2> DEFINE F(s) == From(s)
    <2>1. \A s \in Seq(Call) : q.calls \in F(s) => n.calls \in F(s)
      BY <1>2, TailFrom
    <2> HIDE DEF F
    <2>2. \A s : From(s) = F(s)
      BY DEF F
    <2> DEFINE List == <<"find">>
    <2>3. List \in Seq(Call)
      BY InSeq
    <2>4. q.op = "list" => q.calls \in F(List)
      BY <2>2 DEF Scripted
    <2>5. n.op = "list" => n.calls \in F(List)
      BY <1>2, <2>1, <2>3, <2>4
    <2>6. n.op = "list" => n.calls \in F(<<"find">>)
      BY <2>5
    <2> HIDE DEF List
    <2>7. QED
      BY <1>2, <2>1, <2>2, <2>6, InSeq, Rounds, SMTT(30) DEF Scripted
  <1>3. QED
    BY <1>1, <1>2, TailFrom

LEMMA Turn ==
  ASSUME WInv, NEW p \in Proc, NEW c, At(p, c)
  PROVE  LET q == req[p] n == Rest(q) IN
         /\ q \in Request /\ q.op # None /\ q.op \in AllOps /\ Head(q.calls) = c
         /\ Scripted(q) /\ Named(q)
         /\ q.calls \in Seq(Call) /\ q.calls # <<>> /\ Tail(q.calls) \in Seq(Call)
         /\ q.rec \in Record /\ q.file \in Files /\ q.todo \in SUBSET (DID \cup Sub)
         /\ n \in Request /\ n.calls = Tail(q.calls)
         /\ n.solo = q.solo /\ n.op = q.op
         /\ n.did = q.did /\ n.sub = q.sub /\ n.old = q.old /\ n.key = q.key
         /\ n.rec = q.rec /\ n.todo = q.todo /\ n.file = q.file
         /\ n.calls = <<>> <=> After(q.calls) = "end"
         /\ n.calls # <<>> => /\ Head(n.calls) = After(q.calls)
                              /\ Len(n.calls) = Len(q.calls) - 1
                              /\ Scripted(n)
                              /\ c \notin {"find", "pdsCreate"} => Named(n)
  <1> DEFINE q == req[p] n == Rest(q)
  <1>1. IInv /\ Placed(req[p])
    BY DEF WInv
  <1>2. /\ q \in Request /\ q.op # None /\ q.op \in AllOps /\ Head(q.calls) = c
        /\ q.rec \in Record /\ q.file \in Files /\ q.todo \in SUBSET (DID \cup Sub)
    BY <1>1, Served
  <1>3. Scripted(q) /\ Named(q)
    BY <1>1, <1>2 DEF Placed
  <1>4. /\ n \in Request /\ n.calls = Tail(q.calls)
        /\ n.solo = q.solo /\ n.op = q.op
        /\ n.did = q.did /\ n.sub = q.sub /\ n.old = q.old /\ n.key = q.key
        /\ n.rec = q.rec /\ n.todo = q.todo /\ n.file = q.file
    BY <1>1, RestOf
  <1> HIDE DEF q, n
  <1>5. /\ q.calls \in Seq(Call) /\ q.calls # <<>> /\ Tail(q.calls) \in Seq(Call)
        /\ Tail(q.calls) = <<>> <=> After(q.calls) = "end"
        /\ Tail(q.calls) # <<>> => /\ Head(Tail(q.calls)) = After(q.calls)
                                   /\ Len(Tail(q.calls)) = Len(q.calls) - 1
        /\ n.calls # <<>> => Scripted(n)
    BY <1>2, <1>3, <1>4, ScriptedStays
  <1>6. n.calls # <<>> /\ c \notin {"find", "pdsCreate"} => Named(n)
    BY <1>2, <1>3, <1>4, <1>5, NamedStays
  <1> USE DEF q, n
  <1>7. QED
    BY <1>2, <1>3, <1>4, <1>5, <1>6

-----------------------------------------------------------------------------
(* Requests that come one by one: what a request knows of the tables, by   *)
(* the calls it still has to make.                                         *)
Found(s, sb, ds) == sb[s] # None => s \in HandlesOf(ds[sb[s]])

(* The handles that need not be listed just now *)
Loose(q) ==
  LET c == Head(q.calls) IN
  {s \in Sub :
     \/ s = q.sub /\ \/ q.op = "delete" /\ c = "deleteSub"
                     \/ q.op = "sync" /\ c = "putDid"
                     \/ /\ q.op \in {"claim", "signup", "setHandle", "updateHandle"}
                        /\ c \in {"addHandle", "putDid"}
     \/ s = q.old /\ q.op = "changeHandle" /\ c \in {"checkOld", "deleteOld"}
     \/ q.op = "import" /\ c \notin {"restore", "putDid", "restoreSubs"}}

(* The copy it is going to write has every handle but the one it drops. *)
Removing == {"delete", "manage", "adminDelete"}
Dropping == {"adminDrop", "accountDeleted", "deleteAccount"}

Dropped(q) == {s \in Sub : \/ q.op \in Removing /\ s = q.sub
                           \/ q.op = "changeHandle" /\ s = q.old}

CopyFit(q, ds) ==
  LET c == Head(q.calls) IN
  /\ \/ c = "saveDid"
     \/ q.op \in {"manage", "adminDelete"} /\ c \in {"adminCheck", "deleteSub"}
     \/ q.op = "sync" /\ c = "putSub"
     \/ q.op # "import" /\ c = "putDid"
     => HandlesOf(ds[q.did]) \subseteq q.rec.handles \cup Dropped(q)
  /\ \/ q.op = "sync" /\ c = "putSub"
     \/ q.op # "import" /\ c = "putDid"
     => q.sub \in q.rec.handles

(* What it has written, and what it has looked at *)
WrittenFit(q, sb, ds) ==
  LET c == Head(q.calls) IN
  /\ \/ q.op \in Granting /\ c = "putSub"
     \/ q.op = "changeHandle" /\ c \in {"checkOld", "deleteOld", "putSub"}
     => q.sub \in HandlesOf(ds[q.did])
  /\ q.op = "changeHandle" /\ c = "checkOld" => Found(q.old, sb, ds) \/ sb[q.old] = q.did
  /\ q.op \in {"manage", "adminDelete"} /\ c = "saveDid" => sb[q.sub] # q.did
  /\ \/ q.op \in {"claim", "signup", "setHandle", "updateHandle"} /\ c \in {"addHandle", "putDid"}
     \/ q.op = "sync" /\ c = "putDid"
     => sb[q.sub] = q.did

(* What is left of a DID that is being deleted *)
Remaining(q) ==
  LET c == Head(q.calls) IN
  {s \in Sub : \/ s \in q.todo /\ c \in {"deleteAll", "deleteOwn", "deleteSub"}
               \/ s = q.sub /\ c = "deleteSub"}

DropFit(q, sb, ds) ==
  LET c == Head(q.calls) IN
  q.op \in Dropping =>
    /\ c \notin {"pdsDelete", "readAll", "readOwn"} =>
         \A s \in Sub : sb[s] = q.did => s \in Remaining(q)
    /\ c = "log" => ds[q.did] = None

(* An import clears the handles, then writes each DID of the file once. *)
ImportFit(q, sb, ds) ==
  LET c == Head(q.calls) IN
  q.op = "import" =>
    /\ c = "wipe" /\ Len(q.calls) = 2 => \A s \in Sub : sb[s] # None => s \in q.todo
    /\ c \in {"restore", "putDid", "restoreSubs"} =>
         \A s \in Sub : sb[s] # None => q.file[sb[s]] = None
    /\ c = "putDid" => /\ q.file[q.did] = None /\ q.todo \subseteq q.rec.handles
                       /\ \A s \in Sub : sb[s] # q.did
    /\ c = "restoreSubs" => q.file[q.did] = None /\ q.todo \subseteq HandlesOf(ds[q.did])

AllBut(some, sb, ds) == \A s \in Sub \ some : Found(s, sb, ds)

Fit(q, sb, ds) ==
  /\ AllBut(Loose(q), sb, ds)
  /\ CopyFit(q, ds) /\ WrittenFit(q, sb, ds) /\ DropFit(q, sb, ds) /\ ImportFit(q, sb, ds)

(* A handle that a request found free, or its DID's, still is. *)
Looking == {"register", "assign", "sync", "claim", "signup"}

Checked(q, sb) ==
  q.op \in Looking /\ Head(q.calls) \notin {"checkTaken", "checkOther", "pdsCreate"}
    => sb[q.sub] \in {None, q.did}

(* A backfill that runs alone has every handle that is not listed before   *)
(* it, or in hand.                                                         *)
SoloFit(q, sb, ds) ==
  LET c == Head(q.calls) IN
  q.op = "backfill" =>
    /\ c = "fill" => AllBut(q.todo, sb, ds)
    /\ c \in {"addHandle", "putDid"} => AllBut(q.todo \cup {q.sub}, sb, ds) /\ sb[q.sub] = q.did
    /\ c = "putDid" => /\ HandlesOf(ds[q.did]) \subseteq q.rec.handles
                       /\ q.sub \in q.rec.handles

-----------------------------------------------------------------------------
(* One request goes on *)
Onward(p, n) ==
  LET q == req[p] IN
  /\ Go(p, n) /\ n \in Request
  /\ n.calls # <<>> => /\ n.op = q.op /\ n.solo = q.solo
                       /\ Scripted(n) /\ Named(n)

Carries(p, n) ==
  LET q == req[p] IN
  /\ Fit(q, subs, dids) => IF n.calls = <<>> THEN AllBut({}, subs', dids')
                           ELSE Fit(n, subs', dids')
  /\ Checked(q, subs) /\ n.calls # <<>> => Checked(n, subs')
  /\ SoloFit(q, subs, dids) /\ n.calls # <<>> => SoloFit(n, subs', dids')

LEMMA Tables ==
  ASSUME IInv
  PROVE  /\ subs \in [Sub -> DID \cup {None}] /\ dids \in [DID -> Record \cup {None}]
         /\ None \notin DID /\ None \notin Sub /\ None \notin Record /\ None \notin AllOps
         /\ \A d \in DID : HandlesOf(dids[d]) \subseteq Sub
  <1>1. subs \in [Sub -> DID \cup {None}] /\ dids \in [DID -> Record \cup {None}]
    BY DEF IInv, Stores, Files
  <1>2. \A r \in Record \cup {None} : HandlesOf(r) \subseteq Sub
    BY DEF HandlesOf, Record
  <1>3. QED
    BY <1>1, <1>2, NoneAssumption

LEMMA PutSubGoes ==
  ASSUME WInv, NEW p \in Proc, PutSub(p)
  PROVE  \E n : Onward(p, n) /\ Carries(p, n)
  <1> DEFINE q == req[p] n == Rest(q) e == After(q.calls)
  <1>1. At(p, "putSub") /\ Go(p, n) /\ subs' = [subs EXCEPT ![q.sub] = q.did] /\ dids' = dids
    BY DEF PutSub
  <1>2. /\ q.op # None /\ q.op \in AllOps /\ Head(q.calls) = "putSub"
        /\ Scripted(q) /\ Named(q)
        /\ n \in Request /\ n.solo = q.solo /\ n.op = q.op
        /\ n.did = q.did /\ n.sub = q.sub /\ n.old = q.old /\ n.rec = q.rec
        /\ n.calls = <<>> <=> e = "end"
        /\ n.calls # <<>> => Head(n.calls) = e /\ Scripted(n) /\ Named(n)
    BY <1>1, Turn
  <1>3. \/ q.op \in Granting /\ e = "log"
        \/ q.op = "sync" /\ e = "putDid"
        \/ q.op \in {"claim", "signup", "setHandle", "updateHandle"} /\ e = "addHandle"
        \/ q.op = "changeHandle" /\ e = "end"
    BY <1>2, Courses DEF Goes, AllOps, Public, Admin, Internal, Proxied, Granting
  <1>4. /\ subs \in [Sub -> DID \cup {None}] /\ None \notin DID /\ q.sub \in Sub /\ q.did \in DID
    <2>1. IInv
      BY DEF WInv
    <2>2. q.sub \in Sub
      BY <1>2 DEF Named
    <2>3. q.did \in DID
      BY <1>2, <1>3 DEF Named, Granting
    <2>4. QED
      BY <2>1, <2>2, <2>3, Tables
  <1> HIDE DEF q, n, e
  <1>5. Onward(p, n)
    BY <1>1, <1>2 DEF Onward, q
  <1>6. subs'[q.sub] = q.did /\ \A s \in Sub \ {q.sub} : subs'[s] = subs[s]
    BY <1>1, <1>4
  <1>7. ASSUME Fit(q, subs, dids)
        PROVE  IF n.calls = <<>> THEN AllBut({}, subs', dids') ELSE Fit(n, subs', dids')
    <2>1. AllBut(Loose(q), subs, dids) /\ CopyFit(q, dids) /\ WrittenFit(q, subs, dids)
      BY <1>7 DEF Fit
    <2>2. Loose(q) = {}
      BY <1>2, <1>3 DEF Loose, Granting
    <2>3. CASE q.op \in Granting \/ q.op = "changeHandle"
      <3>1. q.sub \in HandlesOf(dids[q.did])
        BY <2>1, <2>3, <1>2 DEF WrittenFit
      <3>2. AllBut({}, subs', dids')
        BY <1>1, <1>4, <1>6, <2>1, <2>2, <3>1 DEF AllBut, Found
      <3>3. QED
        BY <1>2, <1>3, <2>3, <3>2
           DEF Fit, AllBut, CopyFit, WrittenFit, DropFit, ImportFit, Granting, Dropping
    <2>4. CASE q.op \notin Granting /\ q.op # "changeHandle"
      <3>1. q.sub \in Loose(n)
        BY <1>2, <1>3, <1>4, <2>4 DEF Loose
      <3>2. AllBut(Loose(n), subs', dids')
        BY <1>1, <1>4, <1>6, <2>1, <2>2, <3>1 DEF AllBut, Found
      <3>3. CopyFit(n, dids')
        BY <1>1, <1>2, <1>3, <2>1, <2>4 DEF CopyFit, Dropped, Removing
      <3>4. QED
        BY <1>2, <1>3, <1>6, <2>4, <3>2, <3>3
           DEF Fit, WrittenFit, DropFit, ImportFit, Granting, Dropping
    <2>5. QED
      BY <2>3, <2>4
  <1>8. n.calls # <<>> => Checked(n, subs') /\ SoloFit(n, subs', dids')
    BY <1>2, <1>3, <1>6 DEF Checked, SoloFit, Granting
  <1>9. QED
    BY <1>5, <1>7, <1>8 DEF Carries, q

(* The request as it makes call c, and as it is one call later *)
Makes(q, c) == /\ q \in Request /\ q.op # None /\ q.op \in AllOps /\ Head(q.calls) = c
               /\ Scripted(q) /\ Named(q)

Moved(q, n) ==
  /\ n \in Request /\ n.solo = q.solo /\ n.op = q.op
  /\ n.did = q.did /\ n.sub = q.sub /\ n.old = q.old
  /\ n.calls = <<>> <=> After(q.calls) = "end"
  /\ n.calls # <<>> => Head(n.calls) = After(q.calls) /\ Scripted(n) /\ Named(n)

(* ... and as it is when it makes the same call again *)
Again(q, n) ==
  /\ n \in Request /\ n.solo = q.solo /\ n.op = q.op /\ n.calls = q.calls
  /\ n.did = q.did /\ n.sub = q.sub /\ n.old = q.old

LEMMA Alike ==
  ASSUME NEW q, NEW n, n.op = q.op, n.calls = q.calls
  PROVE  /\ Scripted(q) => Scripted(n)
         /\ n.did = q.did /\ n.sub = q.sub /\ n.old = q.old /\ Named(q) => Named(n)
  BY DEF Scripted, Named

LEMMA Moving ==
  ASSUME WInv, NEW p \in Proc, NEW c, At(p, c)
  PROVE  /\ Makes(req[p], c)
         /\ c \notin {"find", "pdsCreate"} => Moved(req[p], Rest(req[p]))
         /\ Rest(req[p]) \in Request /\ Rest(req[p]).rec = req[p].rec
         /\ Rest(req[p]).todo = req[p].todo /\ Rest(req[p]).file = req[p].file
  <1> DEFINE q == req[p] n == Rest(q)
  <1>1. /\ Makes(q, c)
        /\ n \in Request /\ n.rec = q.rec /\ n.todo = q.todo /\ n.file = q.file
    BY Turn DEF Makes
  <1>2. /\ n \in Request /\ n.solo = q.solo /\ n.op = q.op
        /\ n.did = q.did /\ n.sub = q.sub /\ n.old = q.old
        /\ n.calls = <<>> <=> After(q.calls) = "end"
        /\ n.calls # <<>> => Head(n.calls) = After(q.calls) /\ Scripted(n)
        /\ n.calls # <<>> /\ c \notin {"find", "pdsCreate"} => Named(n)
    BY Turn
  <1> HIDE DEF q, n
  <1>3. c \notin {"find", "pdsCreate"} => Moved(q, n)
    BY <1>2, Zenon DEF Moved
  <1> USE DEF q, n
  <1>4. QED
    BY <1>1, <1>3

LEMMA MovedAlike ==
  ASSUME NEW q, NEW t, NEW n, Moved(q, t), n \in Request, n.solo = t.solo, n.op = t.op,
         n.calls = t.calls, n.did = t.did, n.sub = t.sub, n.old = t.old
  PROVE  Moved(q, n)
  <1>1. /\ t.solo = q.solo /\ t.op = q.op
        /\ t.did = q.did /\ t.sub = q.sub /\ t.old = q.old
        /\ t.calls = <<>> <=> After(q.calls) = "end"
        /\ t.calls # <<>> => Head(t.calls) = After(q.calls) /\ Scripted(t) /\ Named(t)
    BY DEF Moved
  <1>2. n.calls # <<>> => Scripted(n) /\ Named(n)
    BY <1>1, Alike
  <1>3. QED
    BY <1>1, <1>2, Zenon DEF Moved

LEMMA MovedWith ==
  ASSUME NEW q, NEW t \in Request, Moved(q, t)
  PROVE  /\ \A r \in Record : LET n == [t EXCEPT !.rec = r] IN
              Moved(q, n) /\ n.rec = r /\ n.todo = t.todo /\ n.file = t.file
         /\ \A w \in SUBSET (DID \cup Sub) : LET n == [t EXCEPT !.todo = w] IN
              Moved(q, n) /\ n.rec = t.rec /\ n.todo = w /\ n.file = t.file
  <1>1. ASSUME NEW r \in Record
        PROVE  LET n == [t EXCEPT !.rec = r] IN
               Moved(q, n) /\ n.rec = r /\ n.todo = t.todo /\ n.file = t.file
    BY MovedAlike, WithRec
  <1>2. ASSUME NEW w \in SUBSET (DID \cup Sub)
        PROVE  LET n == [t EXCEPT !.todo = w] IN
               Moved(q, n) /\ n.rec = t.rec /\ n.todo = w /\ n.file = t.file
    <2> DEFINE n == [t EXCEPT !.todo = w]
    <2>1. /\ n \in Request /\ n.todo = w /\ n.solo = t.solo /\ n.op = t.op
          /\ n.calls = t.calls /\ n.did = t.did /\ n.sub = t.sub /\ n.old = t.old
          /\ n.rec = t.rec /\ n.file = t.file
      BY WithTodo
    <2> HIDE DEF n
    <2>2. Moved(q, n)
      BY <2>1, MovedAlike
    <2> USE DEF n
    <2>3. QED
      BY <2>1, <2>2
  <1>3. QED
    BY <1>1, <1>2

LEMMA MovedOn ==
  ASSUME NEW p \in Proc, NEW n, Go(p, n), Moved(req[p], n)
  PROVE  Onward(p, n)
  BY Zenon DEF Moved, Onward

LEMMA AgainOn ==
  ASSUME NEW p \in Proc, NEW c, NEW n, Go(p, n), Makes(req[p], c), Again(req[p], n)
  PROVE  Onward(p, n)
  <1>1. Scripted(n) /\ Named(n)
    BY Alike DEF Makes, Again
  <1>2. QED
    BY <1>1, Zenon DEF Again, Onward

LEMMA AnswerGoes ==
  ASSUME WInv, NEW p \in Proc, Answer(p), UNCHANGED <<subs, dids>>, Loose(req[p]) = {}
  PROVE  \E n : Onward(p, n) /\ Carries(p, n)
  <1>1. NoRequest.calls = <<>> /\ NoRequest \in Request
    <2>1. NoRequest.calls = <<>>
      BY DEF NoRequest
    <2>2. QED
      BY <2>1, IdleFine
  <1>2. Go(p, NoRequest)
    BY <1>1 DEF Go, Answer
  <1>3. Fit(req[p], subs, dids) => AllBut({}, subs', dids')
    BY DEF Fit, AllBut, Found
  <1>4. QED
    BY <1>1, <1>2, <1>3 DEF Onward, Carries

LEMMA Lengths ==
  ASSUME WInv, NEW p \in Proc, NEW c, At(p, c)
  PROVE  LET n == Rest(req[p]) IN
         /\ Len(req[p].calls) = 5 => Len(n.calls) # 2
         /\ Len(req[p].calls) = 3 /\ n.calls # <<>> => Len(n.calls) = 2
         /\ Len(req[p].calls) = 4 => Len(n.calls) # 2
         /\ Len(req[p].calls) = 2 => Len(n.calls) # 2
  <1> DEFINE q == req[p] n == Rest(q)
  <1>1. /\ q.calls \in Seq(Call)
        /\ n.calls # <<>> => Len(n.calls) = Len(q.calls) - 1
    BY Turn
  <1>2. Len(q.calls) \in Nat
    BY <1>1
  <1>3. n.calls = <<>> => Len(n.calls) = 0
    OBVIOUS
  <1> DEFINE more == n.calls # <<>> a == Len(q.calls) b == Len(n.calls)
  <1> HIDE DEF q, n, more, a, b
  <1>4. a \in Nat /\ (more => b = a - 1) /\ (~more => b = 0)
    BY <1>1, <1>2, <1>3 DEF more, a, b
  <1>5. /\ a = 5 => b # 2
        /\ a = 3 /\ more => b = 2
        /\ a = 4 => b # 2
        /\ a = 2 => b # 2
    BY <1>4
  <1> USE DEF q, n, more, a, b
  <1>6. QED
    BY <1>5

(* Calls that change no table and ask nothing of the copy *)
LEMMA LookGoes ==
  ASSUME WInv, NEW p \in Proc, subs' = subs, dids' = dids, NEW n, Go(p, n), Moved(req[p], n),
         n.rec = req[p].rec,
         NEW c, c \in {"log", "checkTaken", "checkOther", "adminCheck", "listDids", "pdsUpdate",
                       "pdsDelete", "session", "dump"},
         At(p, c),
         c \in {"checkTaken", "checkOther"} => subs[req[p].sub] \in {None, req[p].did},
         Len(req[p].calls) = 5 => Len(n.calls) # 2
  PROVE  Onward(p, n) /\ Carries(p, n)
  <1> DEFINE q == req[p] e == After(q.calls)
  <1>1. /\ Makes(q, c) /\ Moved(q, n) /\ n.rec = q.rec /\ Onward(p, n)
        /\ c \in {"checkTaken", "checkOther"} => subs[q.sub] \in {None, q.did}
        /\ Len(q.calls) = 5 => Len(n.calls) # 2
    BY Moving, MovedOn
  <1> HIDE DEF q
  <1>2. /\ n.op = q.op /\ n.did = q.did /\ n.sub = q.sub /\ n.old = q.old
        /\ n.calls = <<>> <=> e = "end"
        /\ n.calls # <<>> => Head(n.calls) = e
        /\ Head(q.calls) = c /\ q.op # None /\ q.op \in AllOps /\ Scripted(q)
    BY <1>1 DEF Moved, Makes
  <1>3. \/ q.op \in {"register", "assign", "delete", "manage", "adminDelete", "adminDrop"}
           /\ c = "log" /\ e = "end"
        \/ q.op \in Granting /\ c = "checkTaken" /\ e = "grant"
        \/ q.op = "sync" /\ c = "checkOther" /\ e = "addHandle"
        \/ q.op \in {"claim", "signup"} /\ c = "checkOther" /\ e = "putSub"
        \/ q.op = "adminDelete" /\ c = "adminCheck" /\ e = "deleteSub"
        \/ q.op = "export" /\ c = "listDids" /\ e = "dump"
        \/ q.op = "export" /\ c = "dump" /\ e = "end"
        \/ q.op = "import" /\ c = "listDids" /\ e = "wipe" /\ Len(q.calls) = 5
        \/ q.op = "updateHandle" /\ c = "pdsUpdate" /\ e = "end"
        \/ q.op = "updateHandle" /\ c = "session" /\ e = "pdsUpdate"
        \/ q.op = "deleteAccount" /\ c = "pdsDelete" /\ e = "readOwn"
    BY <1>2, Courses DEF Goes, AllOps, Public, Admin, Internal, Proxied, Granting
  <1> HIDE DEF e
  <1>4. ASSUME Fit(q, subs, dids)
        PROVE  IF n.calls = <<>> THEN AllBut({}, subs', dids') ELSE Fit(n, subs', dids')
    <2>1. AllBut(Loose(q), subs, dids) /\ CopyFit(q, dids)
      BY <1>4 DEF Fit
    <2>2. CASE q.op = "import"
      <3>1. Head(n.calls) = "wipe" /\ n.calls # <<>> /\ n.op = "import" /\ Len(n.calls) # 2
        BY <1>1, <1>2, <1>3, <2>2 DEF Granting
      <3>2. Loose(n) = Sub
        BY <3>1 DEF Loose
      <3>3. QED
        BY <3>1, <3>2
           DEF Fit, AllBut, CopyFit, WrittenFit, DropFit, ImportFit, Granting, Dropping
    <2>3. CASE q.op # "import"
      <3>1. Loose(q) = {}
        BY <1>2, <1>3, <2>3 DEF Loose, Granting
      <3>2. AllBut({}, subs', dids')
        BY <2>1, <3>1
      <3>3. n.calls # <<>> => CopyFit(n, dids')
        BY <1>1, <1>2, <1>3, <2>1 DEF CopyFit, Dropped, Granting
      <3>4. QED
        BY <1>2, <1>3, <2>3, <3>2, <3>3
           DEF Fit, AllBut, WrittenFit, DropFit, ImportFit, Granting, Dropping
    <2>4. QED
      BY <2>2, <2>3
  <1>5. n.calls # <<>> => Checked(n, subs')
    BY <1>1, <1>2, <1>3 DEF Checked, Looking, Granting
  <1>6. n.calls # <<>> => SoloFit(n, subs', dids')
    BY <1>2, <1>3 DEF SoloFit, Granting
  <1>7. QED
    BY <1>1, <1>4, <1>5, <1>6 DEF Carries, q

(* A request that is refused has left nothing undone. *)
LEMMA RefusedGoes ==
  ASSUME WInv, NEW p \in Proc, Answer(p), subs' = subs, dids' = dids,
         NEW c, c \in {"checkTaken", "checkOther", "adminCheck", "pdsCreate", "pdsUpdate",
                       "pdsDelete", "readAll", "readOwn", "replace", "find", "grant", "fill"},
         At(p, c)
  PROVE  \E n : Onward(p, n) /\ Carries(p, n)
  <1> DEFINE q == req[p]
  <1>1. Head(q.calls) = c /\ q.op \in AllOps /\ Scripted(q)
    BY Moving DEF Makes
  <1> HIDE DEF q
  <1>2. q.op # "import"
    BY <1>1, Courses DEF Goes
  <1>3. Loose(q) = {}
    BY <1>1, <1>2 DEF Loose
  <1> USE DEF q
  <1>4. QED
    BY <1>3, AnswerGoes

LEMMA LooksGo ==
  ASSUME WInv, NEW p \in Proc,
         \/ LogActivity(p) \/ CheckTaken(p) \/ CheckOther(p) \/ AdminCheck(p)
         \/ PdsUpdatesHandle(p) \/ PdsDeletesAccount(p) \/ PdsRefuses(p)
  PROVE  \E n : Onward(p, n) /\ Carries(p, n)
  <1> DEFINE Heard(c) == /\ At(p, c) /\ Go(p, Rest(req[p]))
                         /\ c \in {"checkTaken", "checkOther"}
                              => subs[req[p].sub] \in {None, req[p].did}
             Refused == \E c \in {"checkTaken", "checkOther", "adminCheck", "pdsCreate",
                                  "pdsUpdate", "pdsDelete"} : At(p, c) /\ Answer(p)
             Goal == \E c \in {"log", "checkTaken", "checkOther", "adminCheck", "pdsUpdate",
                               "pdsDelete"} : Heard(c)
  <1>1. subs' = subs /\ dids' = dids
    BY DEF LogActivity, CheckTaken, CheckOther, AdminCheck, PdsUpdatesHandle,
           PdsDeletesAccount, PdsRefuses, Reads
  <1>2. Goal \/ Refused
    <2>1. CASE LogActivity(p)
      BY <2>1 DEF LogActivity
    <2>2. CASE CheckTaken(p)
      BY <2>2 DEF CheckTaken
    <2>3. CASE CheckOther(p)
      BY <2>3 DEF CheckOther
    <2>4. CASE AdminCheck(p)
      BY <2>4 DEF AdminCheck
    <2>5. CASE PdsUpdatesHandle(p) \/ PdsDeletesAccount(p)
      BY <2>5 DEF PdsUpdatesHandle, PdsDeletesAccount
    <2>6. CASE PdsRefuses(p)
      BY <2>6 DEF PdsRefuses
    <2>7. QED
      BY <2>1, <2>2, <2>3, <2>4, <2>5, <2>6
  <1>3. ASSUME NEW c \in {"log", "checkTaken", "checkOther", "adminCheck", "pdsUpdate",
                          "pdsDelete"}, Heard(c)
        PROVE  \E n : Onward(p, n) /\ Carries(p, n)
    <2> DEFINE n == Rest(req[p])
    <2>1. Go(p, n) /\ Moved(req[p], n) /\ n.rec = req[p].rec
      BY <1>3, Moving
    <2>2. Len(req[p].calls) = 5 => Len(n.calls) # 2
      BY <1>3, Lengths
    <2>3. QED
      BY <1>1, <1>3, <2>1, <2>2, LookGoes
  <1>4. QED
    BY <1>1, <1>2, <1>3, RefusedGoes

LEMMA DeleteSubGoes ==
  ASSUME WInv, NEW p \in Proc, DeleteSub(p)
  PROVE  \E n : Onward(p, n) /\ Carries(p, n)
  <1> DEFINE q == req[p] n == Rest(q) e == After(q.calls)
  <1>1. At(p, "deleteSub") /\ Go(p, n) /\ subs' = [subs EXCEPT ![q.sub] = None] /\ dids' = dids
    BY DEF DeleteSub
  <1>2. Makes(q, "deleteSub") /\ Moved(q, n) /\ n.rec = q.rec /\ n.todo = q.todo
    BY <1>1, Moving
  <1>3. Onward(p, n)
    BY <1>1, <1>2, MovedOn
  <1>4. /\ subs \in [Sub -> DID \cup {None}] /\ None \notin DID
    BY Tables DEF WInv
  <1> HIDE DEF q, n
  <1>5. /\ n.op = q.op /\ n.did = q.did /\ n.sub = q.sub
        /\ n.calls = <<>> <=> e = "end"
        /\ n.calls # <<>> => Head(n.calls) = e
        /\ Head(q.calls) = "deleteSub" /\ q.op \in AllOps /\ Scripted(q) /\ Named(q)
    BY <1>2 DEF Moved, Makes
  <1>6. \/ q.op = "delete" /\ e = "log"
        \/ q.op = "manage" /\ e = "saveDid"
        \/ q.op = "adminDelete" /\ e \in {"saveDid", "end"}
        \/ q.op \in {"accountDeleted", "deleteAccount"} /\ e = "deleteOwn"
    BY <1>5, Courses DEF Goes, AllOps, Public, Admin, Internal, Proxied, Granting
  <1>7. q.sub \in Sub /\ q.did \in DID
    BY <1>5, <1>6 DEF Named
  <1> HIDE DEF e
  <1>8. subs'[q.sub] = None /\ \A s \in Sub \ {q.sub} : subs'[s] = subs[s]
    BY <1>1, <1>4, <1>7
  <1>9. ASSUME Fit(q, subs, dids)
        PROVE  IF n.calls = <<>> THEN AllBut({}, subs', dids') ELSE Fit(n, subs', dids')
    <2>1. AllBut(Loose(q), subs, dids) /\ CopyFit(q, dids) /\ DropFit(q, subs, dids)
      BY <1>9 DEF Fit
    <2>2. Loose(q) \subseteq {q.sub}
      BY <1>5, <1>6 DEF Loose
    <2>3. AllBut({}, subs', dids')
      BY <1>1, <1>8, <2>1, <2>2 DEF AllBut, Found
    <2>4. n.calls # <<>> => CopyFit(n, dids')
      BY <1>1, <1>2, <1>5, <1>6, <2>1 DEF CopyFit, Dropped, Removing
    <2>5. n.calls # <<>> => WrittenFit(n, subs', dids')
      BY <1>4, <1>5, <1>6, <1>7, <1>8 DEF WrittenFit, Granting
    <2>6. n.calls # <<>> => DropFit(n, subs', dids')
      <3>1. CASE q.op \in {"accountDeleted", "deleteAccount"}
        <4>1. \A s \in Sub : subs[s] = q.did => s \in q.todo \/ s = q.sub
          BY <1>5, <2>1, <3>1 DEF DropFit, Remaining, Dropping
        <4>2. \A s \in Sub : subs'[s] = n.did => s \in n.todo
          BY <1>2, <1>4, <1>5, <1>7, <1>8, <4>1
        <4>3. QED
          BY <1>5, <1>6, <3>1, <4>2 DEF DropFit, Remaining
      <3>2. CASE q.op \notin {"accountDeleted", "deleteAccount"}
        BY <1>5, <1>6, <3>2 DEF DropFit, Dropping
      <3>3. QED
        BY <3>1, <3>2
    <2>7. n.calls # <<>> => ImportFit(n, subs', dids')
      BY <1>5, <1>6 DEF ImportFit
    <2>8. QED
      BY <2>3, <2>4, <2>5, <2>6, <2>7 DEF Fit, AllBut
  <1>10. n.calls # <<>> => Checked(n, subs') /\ SoloFit(n, subs', dids')
    BY <1>5, <1>6 DEF Checked, Looking, SoloFit
  <1>11. QED
    BY <1>3, <1>9, <1>10 DEF Carries, q

LEMMA DeleteOldGoes ==
  ASSUME WInv, NEW p \in Proc, DeleteOld(p)
  PROVE  \E n : Onward(p, n) /\ Carries(p, n)
  <1> DEFINE q == req[p] n == Rest(q) e == After(q.calls)
  <1>1. At(p, "deleteOld") /\ Go(p, n) /\ subs' = [subs EXCEPT ![q.old] = None] /\ dids' = dids
    BY DEF DeleteOld
  <1>2. Makes(q, "deleteOld") /\ Moved(q, n)
    BY <1>1, Moving
  <1>3. Onward(p, n)
    BY <1>1, <1>2, MovedOn
  <1>4. subs \in [Sub -> DID \cup {None}]
    BY Tables DEF WInv
  <1> HIDE DEF q, n
  <1>5. /\ n.op = q.op /\ n.did = q.did /\ n.sub = q.sub
        /\ n.calls = <<>> <=> e = "end"
        /\ n.calls # <<>> => Head(n.calls) = e
        /\ Head(q.calls) = "deleteOld" /\ q.op \in AllOps /\ Scripted(q)
    BY <1>2 DEF Moved, Makes
  <1>6. q.op = "changeHandle" /\ e = "putSub"
    BY <1>5, Courses DEF Goes, AllOps, Public, Admin, Internal, Proxied, Granting
  <1> HIDE DEF e
  <1>7. \A s \in Sub : subs'[s] = IF s = q.old THEN None ELSE subs[s]
    BY <1>1, <1>4
  <1>8. ASSUME Fit(q, subs, dids)
        PROVE  Fit(n, subs', dids')
    <2>1. AllBut(Loose(q), subs, dids) /\ WrittenFit(q, subs, dids)
      BY <1>8 DEF Fit
    <2>2. Loose(q) \subseteq {q.old}
      BY <1>5, <1>6 DEF Loose
    <2>3. AllBut({}, subs', dids')
      BY <1>1, <1>7, <2>1, <2>2 DEF AllBut, Found
    <2>4. q.sub \in HandlesOf(dids[q.did])
      BY <1>5, <1>6, <2>1 DEF WrittenFit
    <2>5. QED
      BY <1>1, <1>5, <1>6, <2>3, <2>4
         DEF Fit, AllBut, CopyFit, WrittenFit, DropFit, ImportFit, Granting, Dropping
  <1>9. Checked(n, subs') /\ SoloFit(n, subs', dids')
    BY <1>5, <1>6 DEF Checked, Looking, SoloFit
  <1>10. QED
    BY <1>3, <1>5, <1>6, <1>8, <1>9 DEF Carries, q

LEMMA SaveDidGoes ==
  ASSUME WInv, NEW p \in Proc, SaveDid(p)
  PROVE  \E n : Onward(p, n) /\ Carries(p, n)
  <1> DEFINE q == req[p] n == Rest(q) e == After(q.calls)
             r == IF q.rec.handles = {} THEN None ELSE q.rec
  <1>1. At(p, "saveDid") /\ Go(p, n) /\ dids' = [dids EXCEPT ![q.did] = r] /\ subs' = subs
    BY DEF SaveDid
  <1>2. Makes(q, "saveDid") /\ Moved(q, n)
    BY <1>1, Moving
  <1>3. Onward(p, n)
    BY <1>1, <1>2, MovedOn
  <1>4. dids \in [DID -> Record \cup {None}] /\ None \notin Record
    BY Tables DEF WInv
  <1>5. HandlesOf(r) = q.rec.handles
    <2>1. q.rec \in Record
      BY <1>2 DEF Makes, Request
    <2>2. q.rec # None
      BY <1>4, <2>1
    <2>3. QED
      BY <2>2 DEF HandlesOf
  <1> HIDE DEF q, n, r
  <1>6. /\ n.op = q.op /\ n.did = q.did /\ n.sub = q.sub
        /\ n.calls = <<>> <=> e = "end"
        /\ n.calls # <<>> => Head(n.calls) = e
        /\ Head(q.calls) = "saveDid" /\ q.op \in AllOps /\ Scripted(q) /\ Named(q)
    BY <1>2 DEF Moved, Makes
  <1>7. \/ q.op = "delete" /\ e = "deleteSub"
        \/ q.op \in {"manage", "adminDelete"} /\ e = "log"
    BY <1>6, Courses DEF Goes, AllOps, Public, Admin, Internal, Proxied, Granting
  <1>8. q.did \in DID /\ q.sub \in Sub
    BY <1>6, <1>7 DEF Named
  <1> HIDE DEF e
  <1>9. HandlesOf(dids'[q.did]) = q.rec.handles /\ \A d \in DID \ {q.did} : dids'[d] = dids[d]
    BY <1>1, <1>4, <1>5, <1>8
  <1>10. ASSUME Fit(q, subs, dids)
         PROVE  Fit(n, subs', dids')
    <2>1. AllBut(Loose(q), subs, dids) /\ CopyFit(q, dids) /\ WrittenFit(q, subs, dids)
      BY <1>10 DEF Fit
    <2>2. Loose(q) = {}
      BY <1>6, <1>7 DEF Loose
    <2>3. HandlesOf(dids[q.did]) \subseteq q.rec.handles \cup {q.sub}
      BY <1>6, <1>7, <2>1 DEF CopyFit, Dropped
    <2>4. subs \in [Sub -> DID \cup {None}]
      BY Tables DEF WInv
    <2>5. \A s \in Sub \ {q.sub} : Found(s, subs', dids')
      BY <1>1, <1>9, <2>1, <2>2, <2>3, <2>4 DEF AllBut, Found
    <2>6. AllBut(Loose(n), subs', dids')
      <3>1. CASE q.op = "delete"
        <4>1. q.sub \in Loose(n)
          BY <1>6, <1>7, <1>8, <3>1 DEF Loose
        <4>2. QED
          BY <2>5, <4>1 DEF AllBut
      <3>2. CASE q.op # "delete"
        <4>1. subs[q.sub] # q.did
          BY <1>6, <1>7, <2>1, <3>2 DEF WrittenFit
        <4>2. Found(q.sub, subs', dids')
          BY <1>1, <1>8, <1>9, <2>1, <2>2, <2>4, <4>1 DEF AllBut, Found
        <4>3. QED
          BY <2>5, <4>2 DEF AllBut
      <3>3. QED
        BY <3>1, <3>2
    <2>7. QED
      BY <1>6, <1>7, <2>6
         DEF Fit, CopyFit, WrittenFit, DropFit, ImportFit, Granting, Dropping
  <1>11. Checked(n, subs') /\ SoloFit(n, subs', dids')
    BY <1>6, <1>7 DEF Checked, Looking, SoloFit
  <1>12. QED
    BY <1>3, <1>6, <1>7, <1>10, <1>11 DEF Carries, q

LEMMA DeleteDidGoes ==
  ASSUME WInv, NEW p \in Proc, DeleteDid(p)
  PROVE  \E n : Onward(p, n) /\ Carries(p, n)
  <1> DEFINE q == req[p] n == Rest(q) e == After(q.calls)
  <1>1. At(p, "deleteDid") /\ Go(p, n) /\ dids' = [dids EXCEPT ![q.did] = None] /\ subs' = subs
    BY DEF DeleteDid
  <1>2. Makes(q, "deleteDid") /\ Moved(q, n)
    BY <1>1, Moving
  <1>3. Onward(p, n)
    BY <1>1, <1>2, MovedOn
  <1>4. /\ subs \in [Sub -> DID \cup {None}] /\ dids \in [DID -> Record \cup {None}]
    BY Tables DEF WInv
  <1> HIDE DEF q, n
  <1>5. /\ n.op = q.op /\ n.did = q.did /\ n.sub = q.sub
        /\ n.calls = <<>> <=> e = "end"
        /\ n.calls # <<>> => Head(n.calls) = e
        /\ Head(q.calls) = "deleteDid" /\ q.op \in AllOps /\ Scripted(q) /\ Named(q)
    BY <1>2 DEF Moved, Makes
  <1>6. \/ q.op = "adminDrop" /\ e = "log"
        \/ q.op \in {"accountDeleted", "deleteAccount"} /\ e = "end"
    BY <1>5, Courses DEF Goes, AllOps, Public, Admin, Internal, Proxied, Granting
  <1>7. q.did \in DID
    BY <1>5, <1>6 DEF Named
  <1> HIDE DEF e
  <1>8. dids'[q.did] = None /\ \A d \in DID \ {q.did} : dids'[d] = dids[d]
    BY <1>1, <1>4, <1>7
  <1>9. ASSUME Fit(q, subs, dids)
        PROVE  IF n.calls = <<>> THEN AllBut({}, subs', dids') ELSE Fit(n, subs', dids')
    <2>1. AllBut(Loose(q), subs, dids) /\ DropFit(q, subs, dids)
      BY <1>9 DEF Fit
    <2>2. Loose(q) = {}
      BY <1>5, <1>6 DEF Loose
    <2>3. \A s \in Sub : subs[s] # q.did
      BY <1>5, <1>6, <2>1 DEF DropFit, Remaining, Dropping
    <2>4. AllBut({}, subs', dids')
      BY <1>1, <1>4, <1>8, <2>1, <2>2, <2>3 DEF AllBut, Found
    <2>5. QED
      BY <1>1, <1>5, <1>6, <1>8, <2>3, <2>4
         DEF Fit, AllBut, CopyFit, WrittenFit, DropFit, ImportFit, Granting
  <1>10. n.calls # <<>> => Checked(n, subs') /\ SoloFit(n, subs', dids')
    BY <1>5, <1>6 DEF Checked, Looking, SoloFit
  <1>11. QED
    BY <1>3, <1>9, <1>10 DEF Carries, q

LEMMA PutDidGoes ==
  ASSUME WInv, NEW p \in Proc, PutDid(p)
  PROVE  \E n : Onward(p, n) /\ Carries(p, n)
  <1> DEFINE q == req[p] n == Rest(q) e == After(q.calls)
  <1>1. At(p, "putDid") /\ Go(p, n) /\ dids' = [dids EXCEPT ![q.did] = q.rec] /\ subs' = subs
    BY DEF PutDid
  <1>2. Makes(q, "putDid") /\ Moved(q, n) /\ n.rec = q.rec /\ n.todo = q.todo /\ n.file = q.file
    BY <1>1, Moving
  <1>3. Onward(p, n)
    BY <1>1, <1>2, MovedOn
  <1>4. /\ dids \in [DID -> Record \cup {None}] /\ subs \in [Sub -> DID \cup {None}]
        /\ None \notin DID
    BY Tables DEF WInv
  <1>5. HandlesOf(q.rec) = q.rec.handles
    <2>1. q.rec \in Record /\ None \notin Record
      BY <1>2, Tables DEF Makes, Request, WInv
    <2>2. QED
      BY <2>1 DEF HandlesOf
  <1> HIDE DEF q, n
  <1>6. /\ n.op = q.op /\ n.did = q.did /\ n.sub = q.sub /\ n.old = q.old
        /\ n.calls = <<>> <=> e = "end"
        /\ n.calls # <<>> => Head(n.calls) = e
        /\ Head(q.calls) = "putDid" /\ q.op \in AllOps /\ Scripted(q) /\ Named(q)
    BY <1>2 DEF Moved, Makes
  <1>7. \/ q.op \in {"register", "assign"} /\ e = "putSub"
        \/ q.op = "backfill" /\ e = "fill"
        \/ q.op = "import" /\ e = "restoreSubs"
        \/ q.op \in {"sync", "claim", "signup", "setHandle"} /\ e = "end"
        \/ q.op = "changeHandle" /\ e = "checkOld"
        \/ q.op = "updateHandle" /\ e = "pdsUpdate"
    BY <1>6, Courses DEF Goes, AllOps, Public, Admin, Internal, Proxied, Granting
  <1>8. q.did \in DID
    BY <1>6, <1>7 DEF Named
  <1> HIDE DEF e
  <1>9. HandlesOf(dids'[q.did]) = q.rec.handles /\ \A d \in DID \ {q.did} : dids'[d] = dids[d]
    BY <1>1, <1>4, <1>5, <1>8
  <1>10. ASSUME Fit(q, subs, dids)
         PROVE  IF n.calls = <<>> THEN AllBut({}, subs', dids') ELSE Fit(n, subs', dids')
    <2>1. /\ AllBut(Loose(q), subs, dids) /\ CopyFit(q, dids) /\ WrittenFit(q, subs, dids)
          /\ ImportFit(q, subs, dids)
      BY <1>10 DEF Fit
    <2>2. CASE q.op \in {"register", "assign", "backfill"}
      <3>1. Loose(q) = {}
        BY <1>6, <2>2 DEF Loose
      <3>2. HandlesOf(dids[q.did]) \subseteq q.rec.handles /\ q.sub \in q.rec.handles
        BY <1>6, <2>1, <2>2 DEF CopyFit, Dropped, Removing
      <3>3. AllBut({}, subs', dids')
        BY <1>1, <1>4, <1>9, <2>1, <3>1, <3>2 DEF AllBut, Found
      <3>4. QED
        BY <1>6, <1>7, <1>9, <2>2, <3>2, <3>3
           DEF Fit, AllBut, CopyFit, WrittenFit, DropFit, ImportFit, Granting, Dropping
    <2>3. CASE q.op = "import"
      <3>1. Loose(q) = {} /\ Loose(n) = {}
        BY <1>6, <1>7, <2>3 DEF Loose
      <3>2. \A s \in Sub : subs[s] # q.did
        BY <1>6, <2>1, <2>3 DEF ImportFit
      <3>3. AllBut({}, subs', dids')
        BY <1>1, <1>4, <1>9, <2>1, <3>1, <3>2 DEF AllBut, Found
      <3>4. ImportFit(n, subs', dids')
        BY <1>1, <1>2, <1>6, <1>7, <1>9, <2>1, <2>3 DEF ImportFit
      <3>5. QED
        BY <1>6, <1>7, <2>3, <3>1, <3>3, <3>4
           DEF Fit, CopyFit, WrittenFit, DropFit, Granting, Dropping
    <2>4. CASE q.op \in {"sync", "claim", "signup", "setHandle", "updateHandle"}
      <3>1. Loose(q) \subseteq {q.sub}
        BY <1>6, <2>4 DEF Loose
      <3>2. HandlesOf(dids[q.did]) \subseteq q.rec.handles /\ q.sub \in q.rec.handles
        BY <1>6, <2>1, <2>4 DEF CopyFit, Dropped, Removing
      <3>3. subs[q.sub] = q.did
        BY <1>6, <2>1, <2>4 DEF WrittenFit
      <3>4. AllBut({}, subs', dids')
        BY <1>1, <1>4, <1>9, <2>1, <3>1, <3>2, <3>3 DEF AllBut, Found
      <3>5. QED
        BY <1>6, <1>7, <2>4, <3>4
           DEF Fit, AllBut, CopyFit, WrittenFit, DropFit, ImportFit, Granting, Dropping
    <2>5. CASE q.op = "changeHandle"
      <3>1. Loose(q) = {}
        BY <1>6, <2>5 DEF Loose
      <3>2. /\ HandlesOf(dids[q.did]) \subseteq q.rec.handles \cup {q.old}
            /\ q.sub \in q.rec.handles
        BY <1>6, <2>1, <2>5 DEF CopyFit, Dropped, Removing
      <3>3. q.old \in Sub
        BY <1>6, <2>5 DEF Named
      <3>4. q.old \in Loose(n)
        BY <1>6, <1>7, <2>5, <3>3 DEF Loose
      <3>5. \A s \in Sub : Found(s, subs', dids') \/ (s = q.old /\ subs'[s] = q.did)
        BY <1>1, <1>4, <1>9, <2>1, <3>1, <3>2 DEF AllBut, Found
      <3>6. AllBut(Loose(n), subs', dids')
        BY <3>4, <3>5 DEF AllBut
      <3>7. WrittenFit(n, subs', dids')
        BY <1>6, <1>7, <1>9, <2>5, <3>2, <3>3, <3>5 DEF WrittenFit, Granting
      <3>8. QED
        BY <1>6, <1>7, <2>5, <3>6, <3>7 DEF Fit, CopyFit, DropFit, ImportFit, Dropping
    <2>6. QED
      BY <1>7, <2>2, <2>3, <2>4, <2>5
  <1>11. Checked(q, subs) /\ n.calls # <<>> => Checked(n, subs')
    BY <1>1, <1>6, <1>7 DEF Checked, Looking
  <1>12. SoloFit(q, subs, dids) /\ n.calls # <<>> => SoloFit(n, subs', dids')
    <2>1. CASE q.op = "backfill"
      <3> SUFFICES ASSUME SoloFit(q, subs, dids)
                   PROVE  SoloFit(n, subs', dids')
        OBVIOUS
      <3>1. /\ AllBut(q.todo \cup {q.sub}, subs, dids) /\ subs[q.sub] = q.did
            /\ HandlesOf(dids[q.did]) \subseteq q.rec.handles /\ q.sub \in q.rec.handles
        BY <1>6, <2>1 DEF SoloFit
      <3>2. AllBut(q.todo, subs', dids')
        BY <1>1, <1>4, <1>9, <3>1 DEF AllBut, Found
      <3>3. QED
        BY <1>2, <1>6, <1>7, <2>1, <3>2 DEF SoloFit
    <2>2. CASE q.op # "backfill"
      BY <1>6, <2>2 DEF SoloFit
    <2>3. QED
      BY <2>1, <2>2
  <1>13. QED
    BY <1>3, <1>10, <1>11, <1>12 DEF Carries, q

LEMMA DeleteAllGoes ==
  ASSUME WInv, NEW p \in Proc, DeleteAll(p)
  PROVE  \E n : Onward(p, n) /\ Carries(p, n)
  <1> DEFINE q == req[p]
  <1>1. At(p, "deleteAll") /\ dids' = dids
    BY DEF DeleteAll
  <1>2. Makes(q, "deleteAll") /\ q \in Request
    BY <1>1, Moving DEF Makes
  <1>3. /\ subs \in [Sub -> DID \cup {None}] /\ None \notin DID
    BY Tables DEF WInv
  <1>4. /\ Head(q.calls) = "deleteAll" /\ q.op = "adminDrop" /\ q.did \in DID
        /\ After(q.calls) = "deleteDid"
    <2>1. q.op = "adminDrop" /\ After(q.calls) = "deleteDid" /\ Head(q.calls) = "deleteAll"
      BY <1>2, Courses DEF Makes, Goes, AllOps, Public, Admin, Internal, Proxied, Granting
    <2>2. QED
      BY <1>2, <2>1 DEF Makes, Named
  <1>5. CASE q.todo = {} /\ Go(p, Rest(q)) /\ UNCHANGED subs
    <2> DEFINE n == Rest(q)
    <2>1. Moved(q, n) /\ Go(p, n)
      BY <1>1, <1>5, Moving
    <2>2. Onward(p, n)
      BY <2>1, MovedOn
    <2> HIDE DEF q, n
    <2>3. n.op = q.op /\ n.did = q.did /\ n.calls # <<>> /\ Head(n.calls) = "deleteDid"
      BY <1>4, <2>1 DEF Moved
    <2>4. ASSUME Fit(q, subs, dids)
          PROVE  Fit(n, subs', dids')
      <3>1. AllBut(Loose(q), subs, dids) /\ DropFit(q, subs, dids)
        BY <2>4 DEF Fit
      <3>2. Loose(q) = {} /\ Loose(n) = {}
        BY <1>4, <2>3 DEF Loose
      <3>3. \A s \in Sub : subs[s] # q.did
        BY <1>4, <1>5, <3>1 DEF DropFit, Remaining, Dropping
      <3>4. AllBut({}, subs', dids')
        BY <1>1, <1>5, <3>1, <3>2
      <3>5. QED
        BY <1>4, <1>5, <2>3, <3>2, <3>3, <3>4
           DEF Fit, CopyFit, WrittenFit, DropFit, ImportFit, Granting
    <2>5. Checked(n, subs') /\ SoloFit(n, subs', dids')
      BY <1>4, <2>3 DEF Checked, Looking, SoloFit
    <2>6. QED
      BY <2>2, <2>3, <2>4, <2>5 DEF Carries, q
  <1>6. ASSUME NEW t \in q.todo, subs' = [subs EXCEPT ![t] = None],
               Go(p, [q EXCEPT !.todo = @ \ {t}])
        PROVE  \E n : Onward(p, n) /\ Carries(p, n)
    <2> DEFINE n == [q EXCEPT !.todo = q.todo \ {t}]
    <2>1. Go(p, n)
      BY <1>2, <1>6 DEF Request
    <2>2. q.todo \ {t} \in SUBSET (DID \cup Sub)
      BY <1>2 DEF Request
    <2>3. /\ n \in Request /\ n.solo = q.solo /\ n.op = q.op /\ n.calls = q.calls
          /\ n.did = q.did /\ n.sub = q.sub /\ n.old = q.old /\ n.todo = q.todo \ {t}
      BY <1>2, <2>2, WithTodo
    <2> HIDE DEF n
    <2>4. Onward(p, n)
      <3>1. Again(req[p], n)
        BY <2>3, Zenon DEF Again
      <3>2. QED
        BY <1>2, <2>1, <3>1, AgainOn
    <2> HIDE DEF q
    <2>5. \A s \in Sub : subs'[s] = IF s = t THEN None ELSE subs[s]
      BY <1>3, <1>6
    <2>6. ASSUME Fit(q, subs, dids)
          PROVE  Fit(n, subs', dids')
      <3>1. AllBut(Loose(q), subs, dids) /\ DropFit(q, subs, dids)
        BY <2>6 DEF Fit
      <3>2. Loose(q) = {} /\ Loose(n) = {}
        BY <1>4, <2>3 DEF Loose
      <3>3. \A s \in Sub : subs[s] = q.did => s \in q.todo
        BY <1>4, <3>1 DEF DropFit, Remaining, Dropping
      <3>4. AllBut({}, subs', dids')
        BY <1>1, <2>5, <3>1, <3>2 DEF AllBut, Found
      <3>5. \A s \in Sub : subs'[s] = n.did => s \in n.todo
        BY <1>3, <1>4, <2>3, <2>5, <3>3
      <3>6. DropFit(n, subs', dids')
        BY <1>4, <2>3, <3>5 DEF DropFit, Remaining
      <3>7. QED
        BY <1>4, <2>3, <3>2, <3>4, <3>6
           DEF Fit, CopyFit, WrittenFit, ImportFit, Granting
    <2>7. Checked(n, subs') /\ SoloFit(n, subs', dids')
      BY <1>4, <2>3 DEF Checked, Looking, SoloFit
    <2>8. n.calls # <<>>
      <3>1. q.calls # <<>>
        BY <1>1, Turn DEF q
      <3>2. QED
        BY <2>3, <3>1
    <2>9. QED
      BY <2>4, <2>6, <2>7, <2>8 DEF Carries, q
  <1>7. QED
    BY <1>5, <1>6 DEF DeleteAll

LEMMA GrantGoes ==
  ASSUME WInv, NEW p \in Proc, Grant(p)
  PROVE  \E n : Onward(p, n) /\ Carries(p, n)
  <1> DEFINE q == req[p] o == dids[q.did]
  <1>1. At(p, "grant") /\ dids' = dids /\ subs' = subs
    BY DEF Grant
  <1>2. Makes(q, "grant") /\ q \in Request /\ Moved(q, Rest(q)) /\ Rest(q) \in Request
    BY <1>1, Moving DEF Makes
  <1>3. /\ Head(q.calls) = "grant" /\ After(q.calls) = "putDid"
        /\ q.op \in {"register", "assign"} /\ q.did \in DID /\ q.sub \in Sub
    <2>1. /\ Head(q.calls) = "grant" /\ After(q.calls) = "putDid"
          /\ q.op \in {"register", "assign"}
      BY <1>2, Courses DEF Makes, Goes, AllOps, Public, Admin, Internal, Proxied, Granting
    <2>2. QED
      BY <1>2, <2>1 DEF Makes, Named
  <1>4. o \in Record \cup {None}
    BY <1>3, Tables DEF WInv
  <1>5. ASSUME NEW n, Go(p, n), Moved(q, n), n.rec.handles = HandlesOf(o) \cup {q.sub}
        PROVE  Onward(p, n) /\ Carries(p, n)
    <2>1. Onward(p, n)
      BY <1>5, MovedOn
    <2> HIDE DEF q
    <2>2. /\ n.op = q.op /\ n.did = q.did /\ n.sub = q.sub
          /\ n.calls # <<>> /\ Head(n.calls) = "putDid"
      BY <1>3, <1>5 DEF Moved
    <2>3. ASSUME Fit(q, subs, dids)
          PROVE  Fit(n, subs', dids')
      <3>1. AllBut(Loose(q), subs, dids)
        BY <2>3 DEF Fit
      <3>2. Loose(q) = {} /\ Loose(n) = {}
        BY <1>3, <2>2 DEF Loose
      <3>3. AllBut({}, subs', dids')
        BY <1>1, <3>1, <3>2
      <3>4. CopyFit(n, dids')
        BY <1>1, <1>3, <1>5, <2>2 DEF CopyFit, Dropped, Removing
      <3>5. QED
        BY <1>3, <2>2, <3>2, <3>3, <3>4
           DEF Fit, WrittenFit, DropFit, ImportFit, Granting, Dropping
    <2>4. Checked(q, subs) => Checked(n, subs')
      BY <1>1, <1>3, <2>2 DEF Checked, Looking
    <2>5. SoloFit(n, subs', dids')
      BY <1>3, <2>2 DEF SoloFit
    <2>6. QED
      BY <2>1, <2>2, <2>3, <2>4, <2>5 DEF Carries, q
  <1>6. ASSUME NEW k \in Key, o = None,
               Go(p, [Rest(q) EXCEPT !.key = k, !.rec = [key |-> k, handles |-> {q.sub}]])
        PROVE  \E n : Onward(p, n) /\ Carries(p, n)
    <2> DEFINE t == Rest(q) r == [key |-> k, handles |-> {q.sub}]
               u == [t EXCEPT !.rec = r] n == [u EXCEPT !.key = k]
    <2>1. [t EXCEPT !.key = k, !.rec = r] = n
      BY <1>2 DEF Request
    <2>2. Go(p, n)
      BY <1>6, <2>1
    <2>3. r \in Record /\ r.handles = HandlesOf(o) \cup {q.sub}
      BY <1>3, <1>6 DEF Record, HandlesOf
    <2> HIDE DEF r, t
    <2>4. u \in Request /\ Moved(q, u) /\ u.rec = r
      BY <1>2, <2>3, MovedWith, WithRec DEF t
    <2> HIDE DEF u
    <2>5. /\ n \in Request /\ n.solo = u.solo /\ n.op = u.op /\ n.calls = u.calls
          /\ n.did = u.did /\ n.sub = u.sub /\ n.old = u.old /\ n.rec = u.rec
      BY <2>4, WithKey
    <2> HIDE DEF n
    <2>6. Moved(q, n)
      BY <2>4, <2>5, MovedAlike
    <2>7. QED
      BY <1>5, <2>2, <2>3, <2>4, <2>5, <2>6
  <1>7. ASSUME o # None, Go(p, [Rest(q) EXCEPT !.rec = Added(o, q.sub)])
        PROVE  \E n : Onward(p, n) /\ Carries(p, n)
    <2> DEFINE r == Added(o, q.sub) n == [Rest(q) EXCEPT !.rec = r]
    <2>1. r \in Record /\ r.handles = HandlesOf(o) \cup {q.sub}
      BY <1>3, <1>4, AddedRecord
    <2>2. Go(p, n)
      BY <1>7
    <2> HIDE DEF r
    <2>3. Moved(q, n) /\ n.rec = r
      BY <1>2, <2>1, MovedWith
    <2> HIDE DEF n
    <2>4. QED
      BY <1>5, <2>1, <2>2, <2>3
  <1>8. CASE Answer(p)
    BY <1>1, <1>8, RefusedGoes
  <1>9. QED
    BY <1>6, <1>7, <1>8 DEF Grant

LEMMA AddHandleGoes ==
  ASSUME WInv, NEW p \in Proc, AddHandle(p)
  PROVE  \E n : Onward(p, n) /\ Carries(p, n)
  <1> DEFINE q == req[p] t == Rest(q) e == After(q.calls) r == Added(dids[q.did], q.sub)
             n == [t EXCEPT !.rec = r]
  <1>1. At(p, "addHandle") /\ Go(p, n) /\ dids' = dids /\ subs' = subs
    BY DEF AddHandle, Reads
  <1>2. /\ Makes(q, "addHandle") /\ Moved(q, t) /\ t \in Request /\ t.todo = q.todo
    BY <1>1, Moving
  <1>3. /\ Head(q.calls) = "addHandle" /\ q.did \in DID /\ q.sub \in Sub
        /\ \/ q.op \in {"backfill", "claim", "signup", "setHandle", "updateHandle"} /\ e = "putDid"
           \/ q.op = "sync" /\ e = "putSub"
    <2>1. /\ Head(q.calls) = "addHandle"
          /\ \/ q.op \in {"backfill", "claim", "signup", "setHandle", "updateHandle"} /\ e = "putDid"
             \/ q.op = "sync" /\ e = "putSub"
      BY <1>2, Courses DEF Makes, Goes, AllOps, Public, Admin, Internal, Proxied, Granting
    <2>2. QED
      BY <1>2, <2>1 DEF Makes, Named
  <1>4. r \in Record /\ r.handles = HandlesOf(dids[q.did]) \cup {q.sub}
    BY <1>3, Tables, AddedRecord DEF WInv
  <1> HIDE DEF r
  <1>5. Moved(q, n) /\ n.rec = r /\ n.todo = q.todo
    BY <1>2, <1>4, MovedWith
  <1>6. Onward(p, n)
    BY <1>1, <1>5, MovedOn
  <1> HIDE DEF n, q
  <1>7. /\ n.op = q.op /\ n.did = q.did /\ n.sub = q.sub
        /\ n.calls # <<>> /\ Head(n.calls) = e
    BY <1>3, <1>5 DEF Moved
  <1> HIDE DEF e
  <1>8. ASSUME Fit(q, subs, dids)
        PROVE  Fit(n, subs', dids')
    <2>1. AllBut(Loose(q), subs, dids) /\ WrittenFit(q, subs, dids)
      BY <1>8 DEF Fit
    <2>2. Loose(q) = Loose(n)
      BY <1>3, <1>7 DEF Loose
    <2>3. AllBut(Loose(n), subs', dids')
      BY <1>1, <2>1, <2>2
    <2>4. CopyFit(n, dids')
      BY <1>1, <1>3, <1>4, <1>5, <1>7 DEF CopyFit
    <2>5. WrittenFit(n, subs', dids')
      BY <1>1, <1>3, <1>7, <2>1 DEF WrittenFit, Granting
    <2>6. QED
      BY <1>3, <1>7, <2>3, <2>4, <2>5 DEF Fit, DropFit, ImportFit, Dropping
  <1>9. Checked(q, subs) => Checked(n, subs')
    BY <1>1, <1>3, <1>7 DEF Checked, Looking
  <1>10. SoloFit(q, subs, dids) => SoloFit(n, subs', dids')
    BY <1>1, <1>3, <1>4, <1>5, <1>7 DEF SoloFit
  <1>11. QED
    BY <1>6, <1>7, <1>8, <1>9, <1>10 DEF Carries, q

LEMMA FindDidGoes ==
  ASSUME WInv, NEW p \in Proc, FindDidBySecretHash(p)
  PROVE  \E n : Onward(p, n) /\ Carries(p, n)
  <1> DEFINE q == req[p] t == Rest(q) e == After(q.calls)
  <1>1. At(p, "find") /\ dids' = dids /\ subs' = subs
    BY DEF FindDidBySecretHash, Reads
  <1>2. /\ Makes(q, "find") /\ t \in Request /\ t.solo = q.solo /\ t.op = q.op /\ t.sub = q.sub
        /\ t.calls = <<>> <=> e = "end"
        /\ t.calls # <<>> => Head(t.calls) = e /\ Scripted(t)
    BY <1>1, Turn DEF Makes
  <1>3. CASE Answer(p)
    BY <1>1, <1>3, RefusedGoes
  <1>4. ASSUME NEW d \in DID, dids[d] # None, q.op # "list",
               Go(p, [t EXCEPT !.did = d, !.rec = [dids[d] EXCEPT !.handles = @ \ {q.sub}]])
        PROVE  \E n : Onward(p, n) /\ Carries(p, n)
    <2> DEFINE o == dids[d] r == [o EXCEPT !.handles = @ \ {q.sub}]
               u == [t EXCEPT !.did = d] n == [u EXCEPT !.rec = r]
    <2>1. /\ Head(q.calls) = "find" /\ q.sub \in Sub
          /\ \/ q.op = "delete" /\ e = "saveDid"
             \/ q.op = "manage" /\ e = "deleteSub"
      <3>1. /\ Head(q.calls) = "find"
            /\ \/ q.op = "delete" /\ e = "saveDid"
               \/ q.op = "manage" /\ e = "deleteSub"
        BY <1>2, <1>4, Courses
           DEF Makes, Goes, AllOps, Public, Admin, Internal, Proxied, Granting
      <3>2. QED
        BY <1>2, <3>1 DEF Makes, Named
    <2>2. o \in Record
      BY <1>4, Tables DEF WInv
    <2>3. r \in Record /\ HandlesOf(dids[d]) \subseteq r.handles \cup {q.sub}
      BY <1>4, <2>2 DEF Record, HandlesOf
    <2>4. [t EXCEPT !.did = d, !.rec = r] = n
      BY <1>2 DEF Request
    <2>5. Go(p, n)
      BY <1>4, <2>4
    <2> HIDE DEF r, t
    <2>6. /\ u \in Request /\ u.did = d /\ u.solo = t.solo /\ u.op = t.op /\ u.sub = t.sub
          /\ u.calls = t.calls
      BY <1>2, WithDid
    <2> HIDE DEF u
    <2>7. /\ n \in Request /\ n.did = d /\ n.solo = q.solo /\ n.op = q.op /\ n.sub = q.sub
          /\ n.calls = t.calls /\ n.rec = r
      BY <1>2, <2>3, <2>6, WithRec
    <2> HIDE DEF n, q
    <2>8. n.calls # <<>> /\ Head(n.calls) = e /\ Scripted(n)
      BY <1>2, <2>1, <2>7, Alike
    <2> HIDE DEF e
    <2>9. Named(n)
      BY <2>1, <2>7, <2>8 DEF Named
    <2>10. Onward(p, n)
      BY <2>5, <2>7, <2>8, <2>9, Zenon DEF Onward, q
    <2>11. ASSUME Fit(q, subs, dids)
           PROVE  Fit(n, subs', dids')
      <3>1. AllBut(Loose(q), subs, dids)
        BY <2>11 DEF Fit
      <3>2. Loose(q) = {} /\ Loose(n) = {}
        BY <2>1, <2>7, <2>8 DEF Loose
      <3>3. AllBut({}, subs', dids')
        BY <1>1, <3>1, <3>2
      <3>4. CopyFit(n, dids')
        BY <1>1, <2>1, <2>3, <2>7, <2>8 DEF CopyFit, Dropped, Removing
      <3>5. QED
        BY <2>1, <2>7, <2>8, <3>2, <3>3, <3>4
           DEF Fit, WrittenFit, DropFit, ImportFit, Granting, Dropping
    <2>12. Checked(n, subs') /\ SoloFit(n, subs', dids')
      BY <2>1, <2>7 DEF Checked, Looking, SoloFit
    <2>13. QED
      BY <2>8, <2>10, <2>11, <2>12 DEF Carries, q
  <1>5. QED
    BY <1>3, <1>4 DEF FindDidBySecretHash

LEMMA AdminReadGoes ==
  ASSUME WInv, NEW p \in Proc, AdminRead(p)
  PROVE  \E n : Onward(p, n) /\ Carries(p, n)
  <1> DEFINE q == req[p] o == dids[q.did]
  <1>1. At(p, "adminRead") /\ dids' = dids /\ subs' = subs
    BY DEF AdminRead, Reads
  <1>2. Makes(q, "adminRead") /\ q \in Request /\ Moved(q, Rest(q)) /\ Rest(q) \in Request
    BY <1>1, Moving DEF Makes
  <1>3. /\ Head(q.calls) = "adminRead" /\ After(q.calls) = "adminCheck"
        /\ q.op = "adminDelete" /\ q.did \in DID /\ q.sub \in Sub
    <2>1. /\ Head(q.calls) = "adminRead" /\ After(q.calls) = "adminCheck"
          /\ q.op = "adminDelete"
      BY <1>2, Courses DEF Makes, Goes, AllOps, Public, Admin, Internal, Proxied, Granting
    <2>2. QED
      BY <1>2, <2>1 DEF Makes, Named
  <1>4. o \in Record \cup {None}
    BY <1>3, Tables DEF WInv
  <1>5. ASSUME NEW n, Onward(p, n), n.op = q.op, n.did = q.did, n.sub = q.sub,
               n.calls # <<>>, Head(n.calls) = "adminCheck",
               HandlesOf(o) \subseteq n.rec.handles \cup {q.sub}
        PROVE  Onward(p, n) /\ Carries(p, n)
    <2> HIDE DEF q
    <2>1. ASSUME Fit(q, subs, dids)
          PROVE  Fit(n, subs', dids')
      <3>1. AllBut(Loose(q), subs, dids)
        BY <2>1 DEF Fit
      <3>2. Loose(q) = {} /\ Loose(n) = {}
        BY <1>3, <1>5 DEF Loose
      <3>3. AllBut({}, subs', dids')
        BY <1>1, <3>1, <3>2
      <3>4. CopyFit(n, dids')
        BY <1>1, <1>3, <1>5 DEF CopyFit, Dropped, Removing
      <3>5. QED
        BY <1>3, <1>5, <3>2, <3>3, <3>4
           DEF Fit, WrittenFit, DropFit, ImportFit, Granting, Dropping
    <2>2. Checked(n, subs') /\ SoloFit(n, subs', dids')
      BY <1>3, <1>5 DEF Checked, Looking, SoloFit
    <2>3. QED
      BY <1>5, <2>1, <2>2 DEF Carries, q
  <1>6. CASE o = None
    <2> DEFINE n == [q EXCEPT !.calls = <<"adminCheck", "deleteSub">>]
    <2>1. Go(p, n)
      BY <1>6 DEF AdminRead
    <2>2. NoRecordLeft \in Seq(Call) /\ NoRecordLeft # <<>> /\ Head(NoRecordLeft) = "adminCheck"
      BY DEF NoRecordLeft, Call
    <2>3. /\ n \in Request /\ n.solo = q.solo /\ n.op = q.op /\ n.did = q.did /\ n.sub = q.sub
          /\ n.calls = NoRecordLeft /\ n.rec = q.rec
      BY <1>2, <2>2, WithCalls DEF NoRecordLeft
    <2> HIDE DEF n, q
    <2>4. Scripted(n)
      <3>1. n.calls \in From(NoRecordLeft)
        BY <2>2, <2>3, WholeFrom
      <3>2. QED
        BY <1>3, <2>3, <3>1 DEF Scripted, Granting
    <2>5. Named(n)
      BY <1>3, <2>2, <2>3 DEF Named
    <2>6. Onward(p, n)
      BY <2>1, <2>3, <2>4, <2>5, Zenon DEF Onward, q
    <2>7. HandlesOf(o) = {}
      BY <1>6 DEF HandlesOf
    <2>8. QED
      BY <1>5, <2>2, <2>3, <2>6, <2>7
  <1>7. CASE o # None
    <2> DEFINE t == Rest(q) r == [o EXCEPT !.handles = @ \ {q.sub}] n == [t EXCEPT !.rec = r]
    <2>1. Go(p, n)
      BY <1>7 DEF AdminRead
    <2>2. r \in Record /\ HandlesOf(o) \subseteq r.handles \cup {q.sub}
      BY <1>4, <1>7 DEF Record, HandlesOf
    <2> HIDE DEF r, t
    <2>3. Moved(q, n) /\ n.rec = r
      BY <1>2, <2>2, MovedWith DEF t
    <2>4. Onward(p, n)
      BY <2>1, <2>3, MovedOn
    <2> HIDE DEF n, q
    <2>5. QED
      BY <1>3, <1>5, <2>2, <2>3, <2>4 DEF Moved
  <1>8. QED
    BY <1>6, <1>7

LEMMA ReadAllGoes ==
  ASSUME WInv, NEW p \in Proc, ReadAll(p)
  PROVE  \E n : Onward(p, n) /\ Carries(p, n)
  <1> DEFINE q == req[p] e == After(q.calls)
  <1>1. dids' = dids /\ subs' = subs
    BY DEF ReadAll, Reads
  <1>2. PICK c \in {"readAll", "readOwn"} : At(p, c)
    BY DEF ReadAll
  <1>3. Makes(q, c) /\ Moved(q, Rest(q)) /\ Rest(q) \in Request
    BY <1>2, Moving
  <1>4. /\ Head(q.calls) = c /\ q.did \in DID
        /\ \/ q.op = "adminDrop" /\ c = "readAll" /\ e = "deleteAll"
           \/ q.op \in {"accountDeleted", "deleteAccount"} /\ c = "readOwn" /\ e = "deleteOwn"
    <2>1. /\ Head(q.calls) = c
          /\ \/ q.op = "adminDrop" /\ c = "readAll" /\ e = "deleteAll"
             \/ q.op \in {"accountDeleted", "deleteAccount"} /\ c = "readOwn" /\ e = "deleteOwn"
      BY <1>2, <1>3, Courses DEF Makes, Goes, AllOps, Public, Admin, Internal, Proxied, Granting
    <2>2. QED
      BY <1>3, <2>1 DEF Makes, Named
  <1>5. CASE Answer(p)
    BY <1>1, <1>2, <1>5, RefusedGoes
  <1>6. ASSUME dids[q.did] # None, Go(p, [Rest(q) EXCEPT !.todo = dids[q.did].handles])
        PROVE  \E n : Onward(p, n) /\ Carries(p, n)
    <2> DEFINE w == dids[q.did].handles n == [Rest(q) EXCEPT !.todo = w]
    <2>1. Go(p, n)
      BY <1>6
    <2>2. w \in SUBSET (DID \cup Sub) /\ HandlesOf(dids[q.did]) = w
      <3>1. HandlesOf(dids[q.did]) \subseteq Sub
        BY <1>4, Tables DEF WInv
      <3>2. QED
        BY <1>6, <3>1 DEF HandlesOf
    <2> HIDE DEF w
    <2>3. Moved(q, n) /\ n.todo = w
      BY <1>3, <2>2, MovedWith
    <2>4. Onward(p, n)
      BY <2>1, <2>3, MovedOn
    <2> HIDE DEF n, q
    <2>5. /\ n.op = q.op /\ n.did = q.did /\ n.sub = q.sub
          /\ n.calls # <<>> /\ Head(n.calls) = e
      BY <1>4, <2>3 DEF Moved
    <2> HIDE DEF e
    <2>6. ASSUME Fit(q, subs, dids)
          PROVE  Fit(n, subs', dids')
      <3>1. AllBut(Loose(q), subs, dids)
        BY <2>6 DEF Fit
      <3>2. Loose(q) = {} /\ Loose(n) = {}
        BY <1>4, <2>5 DEF Loose
      <3>3. AllBut({}, subs', dids')
        BY <1>1, <3>1, <3>2
      <3>4. \A s \in Sub : subs[s] = q.did => s \in n.todo
        <4>1. None \notin DID
          BY Tables DEF WInv
        <4>2. QED
          BY <1>4, <2>2, <2>3, <3>1, <3>2, <4>1 DEF AllBut, Found
      <3>5. DropFit(n, subs', dids')
        BY <1>1, <1>4, <2>5, <3>4 DEF DropFit, Remaining
      <3>6. QED
        BY <1>4, <2>5, <3>2, <3>3, <3>5
           DEF Fit, CopyFit, WrittenFit, ImportFit, Granting
    <2>7. Checked(n, subs') /\ SoloFit(n, subs', dids')
      BY <1>4, <2>5 DEF Checked, Looking, SoloFit
    <2>8. QED
      BY <2>4, <2>5, <2>6, <2>7 DEF Carries, q
  <1>7. QED
    BY <1>5, <1>6 DEF ReadAll

LEMMA ReplaceGoes ==
  ASSUME WInv, NEW p \in Proc, Replace(p)
  PROVE  \E n : Onward(p, n) /\ Carries(p, n)
  <1> DEFINE q == req[p] o == dids[q.did] e == After(q.calls)
  <1>1. At(p, "replace") /\ dids' = dids /\ subs' = subs
    BY DEF Replace, Reads
  <1>2. Makes(q, "replace") /\ q \in Request /\ Moved(q, Rest(q)) /\ Rest(q) \in Request
    BY <1>1, Moving DEF Makes
  <1>3. /\ Head(q.calls) = "replace" /\ e = "putDid" /\ q.op = "changeHandle"
        /\ q.did \in DID /\ q.sub \in Sub
    <2>1. Head(q.calls) = "replace" /\ e = "putDid" /\ q.op = "changeHandle"
      BY <1>2, Courses DEF Makes, Goes, AllOps, Public, Admin, Internal, Proxied, Granting
    <2>2. QED
      BY <1>2, <2>1 DEF Makes, Named
  <1>4. CASE Answer(p)
    BY <1>1, <1>4, RefusedGoes
  <1>5. ASSUME o # None,
               Go(p, [Rest(q) EXCEPT
                        !.rec = [o EXCEPT !.handles = (@ \ {q.old}) \cup {q.sub}]])
        PROVE  \E n : Onward(p, n) /\ Carries(p, n)
    <2> DEFINE r == [o EXCEPT !.handles = (@ \ {q.old}) \cup {q.sub}]
               n == [Rest(q) EXCEPT !.rec = r]
    <2>1. Go(p, n)
      BY <1>5
    <2>2. o \in Record
      BY <1>3, <1>5, Tables DEF WInv
    <2>3. /\ r \in Record /\ q.sub \in r.handles
          /\ HandlesOf(o) \subseteq r.handles \cup {q.old}
      BY <1>3, <1>5, <2>2 DEF Record, HandlesOf
    <2> HIDE DEF r
    <2>4. Moved(q, n) /\ n.rec = r
      BY <1>2, <2>3, MovedWith
    <2>5. Onward(p, n)
      BY <2>1, <2>4, MovedOn
    <2> HIDE DEF n, q
    <2>6. /\ n.op = q.op /\ n.did = q.did /\ n.sub = q.sub /\ n.old = q.old
          /\ n.calls # <<>> /\ Head(n.calls) = "putDid"
      BY <1>3, <2>4 DEF Moved
    <2>7. ASSUME Fit(q, subs, dids)
          PROVE  Fit(n, subs', dids')
      <3>1. AllBut(Loose(q), subs, dids)
        BY <2>7 DEF Fit
      <3>2. Loose(q) = {} /\ Loose(n) = {}
        BY <1>3, <2>6 DEF Loose
      <3>3. AllBut({}, subs', dids')
        BY <1>1, <3>1, <3>2
      <3>4. CopyFit(n, dids')
        <4>1. q.old \in Sub
          BY <1>2, <1>3 DEF Makes, Named
        <4>2. QED
          BY <1>1, <1>3, <2>3, <2>4, <2>6, <4>1 DEF CopyFit, Dropped, Removing
      <3>5. QED
        BY <1>3, <2>6, <3>2, <3>3, <3>4
           DEF Fit, WrittenFit, DropFit, ImportFit, Granting, Dropping
    <2>8. Checked(n, subs') /\ SoloFit(n, subs', dids')
      BY <1>3, <2>6 DEF Checked, Looking, SoloFit
    <2>9. QED
      BY <2>5, <2>6, <2>7, <2>8 DEF Carries, q
  <1>6. QED
    BY <1>4, <1>5 DEF Replace

(* The one call that is left after a call of two *)
LEMMA LastLeft ==
  ASSUME WInv, NEW p \in Proc, NEW c, At(p, c), Len(req[p].calls) = 2
  PROVE  Tail(req[p].calls) = <<After(req[p].calls)>>
  <1> DEFINE s == req[p].calls
  <1>1. s = <<Head(s), After(s)>>
    BY Turn, Short
  <1>2. \A a, b : Tail(<<a, b>>) = <<b>>
    OBVIOUS
  <1> HIDE DEF s
  <1>3. Tail(s) = <<After(s)>>
    BY <1>1, <1>2
  <1>4. QED
    BY <1>3 DEF s

LEMMA CheckOldGoes ==
  ASSUME WInv, NEW p \in Proc, CheckOld(p)
  PROVE  \E n : Onward(p, n) /\ Carries(p, n)
  <1> DEFINE q == req[p] e == After(q.calls)
  <1>1. At(p, "checkOld") /\ dids' = dids /\ subs' = subs
    BY DEF CheckOld, Reads
  <1>2. Makes(q, "checkOld") /\ q \in Request /\ Moved(q, Rest(q)) /\ Rest(q) \in Request
    BY <1>1, Moving DEF Makes
  <1>3. Head(q.calls) = "checkOld" /\ e = "putSub" /\ q.op = "changeHandle" /\ Len(q.calls) = 2
    BY <1>2, Courses DEF Makes, Goes, AllOps, Public, Admin, Internal, Proxied, Granting
  <1>4. q.did \in DID /\ q.sub \in Sub /\ q.old \in Sub
    BY <1>2, <1>3 DEF Makes, Named
  <1>5. CASE subs[q.old] = q.did
    <2> DEFINE n == [q EXCEPT !.calls = OldRound]
    <2>1. Go(p, n)
      <3>1. <<"deleteOld">> \o Tail(q.calls) = OldRound
        BY <1>1, <1>3, LastLeft, Joined
      <3>2. Then(q, <<"deleteOld">>) = [q EXCEPT !.calls = <<"deleteOld">> \o Tail(q.calls)]
        BY <1>2 DEF Then, Request
      <3>3. QED
        BY <1>5, <3>1, <3>2 DEF CheckOld
    <2>2. OldRound \in Seq(Call) /\ OldRound # <<>> /\ Head(OldRound) = "deleteOld"
      BY DEF OldRound, Call
    <2>3. /\ n \in Request /\ n.solo = q.solo /\ n.op = q.op /\ n.did = q.did /\ n.sub = q.sub
          /\ n.old = q.old /\ n.calls = OldRound
      BY <1>2, <2>2, WithCalls
    <2> HIDE DEF n, q
    <2>4. Scripted(n)
      <3>1. n.calls \in From(OldRound)
        BY <2>2, <2>3, WholeFrom
      <3>2. QED
        BY <1>3, <2>3, <3>1 DEF Scripted, Granting
    <2>5. Named(n)
      BY <1>3, <1>4, <2>2, <2>3 DEF Named
    <2>6. Onward(p, n)
      BY <2>1, <2>3, <2>4, <2>5, Zenon DEF Onward, q
    <2>7. ASSUME Fit(q, subs, dids)
          PROVE  Fit(n, subs', dids')
      <3>1. AllBut(Loose(q), subs, dids) /\ WrittenFit(q, subs, dids)
        BY <2>7 DEF Fit
      <3>2. Loose(q) = Loose(n)
        BY <1>3, <2>2, <2>3 DEF Loose
      <3>3. AllBut(Loose(n), subs', dids')
        BY <1>1, <3>1, <3>2
      <3>4. WrittenFit(n, subs', dids')
        BY <1>1, <1>3, <2>2, <2>3, <3>1 DEF WrittenFit, Granting
      <3>5. QED
        BY <1>3, <2>2, <2>3, <3>3, <3>4 DEF Fit, CopyFit, DropFit, ImportFit, Dropping
    <2>8. Checked(n, subs') /\ SoloFit(n, subs', dids')
      BY <1>3, <2>3 DEF Checked, Looking, SoloFit
    <2>9. QED
      BY <2>2, <2>3, <2>6, <2>7, <2>8 DEF Carries, q
  <1>6. CASE subs[q.old] # q.did
    <2> DEFINE n == Rest(q)
    <2>1. Go(p, n)
      BY <1>6 DEF CheckOld
    <2>2. Onward(p, n)
      BY <1>2, <2>1, MovedOn
    <2> HIDE DEF n, q
    <2>3. /\ n.op = q.op /\ n.did = q.did /\ n.sub = q.sub /\ n.old = q.old
          /\ n.calls # <<>> /\ Head(n.calls) = "putSub"
      BY <1>2, <1>3 DEF Moved, n
    <2>4. ASSUME Fit(q, subs, dids)
          PROVE  Fit(n, subs', dids')
      <3>1. AllBut(Loose(q), subs, dids) /\ WrittenFit(q, subs, dids)
        BY <2>4 DEF Fit
      <3>2. Loose(q) \subseteq {q.old} /\ Loose(n) = {}
        BY <1>3, <2>3 DEF Loose
      <3>3. Found(q.old, subs, dids)
        BY <1>3, <1>6, <3>1 DEF WrittenFit
      <3>4. AllBut({}, subs', dids')
        BY <1>1, <3>1, <3>2, <3>3 DEF AllBut
      <3>5. WrittenFit(n, subs', dids')
        BY <1>1, <1>3, <2>3, <3>1 DEF WrittenFit, Granting
      <3>6. QED
        BY <1>3, <2>3, <3>2, <3>4, <3>5 DEF Fit, CopyFit, DropFit, ImportFit, Dropping
    <2>5. Checked(n, subs') /\ SoloFit(n, subs', dids')
      BY <1>3, <2>3 DEF Checked, Looking, SoloFit
    <2>6. QED
      BY <2>2, <2>3, <2>4, <2>5 DEF Carries, q
  <1>7. QED
    BY <1>5, <1>6

LEMMA DeleteOwnGoes ==
  ASSUME WInv, NEW p \in Proc, DeleteOwn(p)
  PROVE  \E n : Onward(p, n) /\ Carries(p, n)
  <1> DEFINE q == req[p] e == After(q.calls)
  <1>1. At(p, "deleteOwn") /\ dids' = dids /\ subs' = subs
    BY DEF DeleteOwn, Reads
  <1>2. /\ Makes(q, "deleteOwn") /\ q \in Request /\ Moved(q, Rest(q)) /\ Rest(q) \in Request
        /\ Rest(q).todo = q.todo
    BY <1>1, Moving DEF Makes
  <1>3. /\ Head(q.calls) = "deleteOwn" /\ e = "deleteDid"
        /\ q.op \in {"accountDeleted", "deleteAccount"} /\ Len(q.calls) = 2
    BY <1>2, Courses DEF Makes, Goes, AllOps, Public, Admin, Internal, Proxied, Granting
  <1>4. q.did \in DID /\ None \notin DID
    BY <1>2, <1>3, Tables DEF Makes, Named, WInv
  <1>5. CASE q.todo = {} /\ Go(p, Rest(q))
    <2> DEFINE n == Rest(q)
    <2>1. Onward(p, n)
      BY <1>2, <1>5, MovedOn
    <2> HIDE DEF n, q
    <2>2. n.op = q.op /\ n.did = q.did /\ n.calls # <<>> /\ Head(n.calls) = "deleteDid"
      BY <1>2, <1>3 DEF Moved, n
    <2>3. ASSUME Fit(q, subs, dids)
          PROVE  Fit(n, subs', dids')
      <3>1. AllBut(Loose(q), subs, dids) /\ DropFit(q, subs, dids)
        BY <2>3 DEF Fit
      <3>2. Loose(q) = {} /\ Loose(n) = {}
        BY <1>3, <2>2 DEF Loose
      <3>3. \A s \in Sub : subs[s] # q.did
        BY <1>3, <1>5, <3>1 DEF DropFit, Remaining, Dropping
      <3>4. AllBut({}, subs', dids')
        BY <1>1, <3>1, <3>2
      <3>5. QED
        BY <1>1, <1>3, <2>2, <3>2, <3>3, <3>4
           DEF Fit, CopyFit, WrittenFit, DropFit, ImportFit, Granting
    <2>4. Checked(n, subs') /\ SoloFit(n, subs', dids')
      BY <1>3, <2>2 DEF Checked, Looking, SoloFit
    <2>5. QED
      BY <2>1, <2>2, <2>3, <2>4 DEF Carries, q
  <1>6. ASSUME NEW s \in q.todo \cap Sub, NEW c,
               c = IF subs[s] = q.did THEN DeleteRound ELSE q.calls,
               Go(p, [q EXCEPT !.todo = @ \ {s}, !.sub = s, !.calls = c])
        PROVE  \E n : Onward(p, n) /\ Carries(p, n)
    <2> DEFINE t == [q EXCEPT !.todo = q.todo \ {s}]
               u == [t EXCEPT !.sub = s]
               n == [u EXCEPT !.calls = c]
    <2>1. DeleteRound \in Seq(Call) /\ DeleteRound # <<>> /\ Head(DeleteRound) = "deleteSub"
      BY DEF DeleteRound, Call
    <2>2. q.calls \in Seq(Call) /\ q.calls # <<>> /\ q.todo \in SUBSET (DID \cup Sub)
      BY <1>1, Turn
    <2>3. [q EXCEPT !.todo = @ \ {s}, !.sub = s, !.calls = c] = n
      BY <1>2 DEF Request
    <2>4. Go(p, n)
      BY <1>6, <2>3
    <2>5. /\ t \in Request /\ t.todo = q.todo \ {s} /\ t.solo = q.solo
          /\ t.op = q.op /\ t.did = q.did
      BY <1>2, <2>2, WithTodo
    <2> HIDE DEF t
    <2>6. /\ u \in Request /\ u.sub = s /\ u.todo = q.todo \ {s} /\ u.solo = q.solo
          /\ u.op = q.op /\ u.did = q.did
      BY <1>6, <2>5, WithSub
    <2> HIDE DEF u
    <2>7. c \in Seq(Call) /\ c # <<>>
      BY <1>6, <2>1, <2>2
    <2>8. /\ n \in Request /\ n.sub = s /\ n.todo = q.todo \ {s} /\ n.solo = q.solo
          /\ n.op = q.op /\ n.did = q.did /\ n.calls = c
      BY <2>6, <2>7, WithCalls
    <2> HIDE DEF n, q
    <2>9. Head(c) = IF subs[s] = q.did THEN "deleteSub" ELSE "deleteOwn"
      BY <1>3, <1>6, <2>1
    <2>10. Scripted(n)
      <3>1. CASE c = DeleteRound
        <4>1. c \in From(DeleteRound)
          BY <2>1, <3>1, WholeFrom
        <4>2. QED
          BY <1>3, <2>8, <4>1 DEF Scripted, Granting
      <3>2. CASE c = q.calls
        BY <1>2, <2>8, <3>2, Alike DEF Makes
      <3>3. QED
        BY <1>6, <3>1, <3>2
    <2>11. Named(n)
      BY <1>3, <1>4, <1>6, <2>8, <2>9 DEF Named
    <2>12. Onward(p, n)
      BY <2>4, <2>8, <2>10, <2>11, Zenon DEF Onward, q
    <2>13. ASSUME Fit(q, subs, dids)
           PROVE  Fit(n, subs', dids')
      <3>1. AllBut(Loose(q), subs, dids) /\ DropFit(q, subs, dids)
        BY <2>13 DEF Fit
      <3>2. Loose(q) = {} /\ Loose(n) = {}
        BY <1>3, <2>8, <2>9 DEF Loose
      <3>3. \A x \in Sub : subs[x] = q.did => x \in q.todo
        BY <1>3, <3>1 DEF DropFit, Remaining, Dropping
      <3>4. \A x \in Sub : subs'[x] = n.did => x \in Remaining(n)
        BY <1>1, <2>8, <2>9, <3>3 DEF Remaining
      <3>5. DropFit(n, subs', dids')
        BY <1>3, <2>8, <2>9, <3>4 DEF DropFit
      <3>6. AllBut({}, subs', dids')
        BY <1>1, <3>1, <3>2
      <3>7. QED
        BY <1>3, <2>8, <2>9, <3>2, <3>5, <3>6
           DEF Fit, CopyFit, WrittenFit, ImportFit, Granting
    <2>14. Checked(n, subs') /\ SoloFit(n, subs', dids')
      BY <1>3, <2>8 DEF Checked, Looking, SoloFit
    <2>15. QED
      BY <2>7, <2>8, <2>12, <2>13, <2>14 DEF Carries, q
  <1>7. <<"deleteSub">> \o q.calls = DeleteRound
    <2>1. q.calls \in Seq(Call)
      BY <1>1, Turn
    <2>2. q.calls = <<"deleteOwn", "deleteDid">>
      BY <1>3, <2>1, Short
    <2>3. QED
      BY <2>2, Joined
  <1>8. ASSUME NEW s \in q.todo \cap Sub,
               Go(p, [q EXCEPT !.todo = @ \ {s}, !.sub = s,
                        !.calls = IF subs[s] = q.did THEN <<"deleteSub">> \o @ ELSE @])
        PROVE  \E n : Onward(p, n) /\ Carries(p, n)
    <2> DEFINE c == IF subs[s] = q.did THEN DeleteRound ELSE q.calls
    <2>1. [q EXCEPT !.todo = @ \ {s}, !.sub = s,
             !.calls = IF subs[s] = q.did THEN <<"deleteSub">> \o @ ELSE @]
           = [q EXCEPT !.todo = @ \ {s}, !.sub = s, !.calls = c]
      BY <1>2, <1>7 DEF Request
    <2>2. Go(p, [q EXCEPT !.todo = @ \ {s}, !.sub = s, !.calls = c])
      BY <1>8, <2>1
    <2>3. QED
      BY <1>6, <2>2
  <1>9. QED
    BY <1>5, <1>8 DEF DeleteOwn

LEMMA ListSubsGoes ==
  ASSUME WInv, NEW p \in Proc, ListSubs(p)
  PROVE  \E n : Onward(p, n) /\ Carries(p, n)
  <1> DEFINE q == req[p] e == After(q.calls) w == {s \in Sub : subs[s] # None}
             t == Rest(q) n == [t EXCEPT !.todo = w]
  <1>1. At(p, "listSubs") /\ Go(p, n) /\ dids' = dids /\ subs' = subs
    BY DEF ListSubs, Reads
  <1>2. Makes(q, "listSubs") /\ Moved(q, t) /\ t \in Request
    BY <1>1, Moving
  <1>3. /\ Head(q.calls) = "listSubs"
        /\ \/ q.op = "backfill" /\ e = "fill"
           \/ q.op = "import" /\ e = "wipe"
    BY <1>2, Courses DEF Makes, Goes, AllOps, Public, Admin, Internal, Proxied, Granting
  <1>4. w \in SUBSET (DID \cup Sub)
    OBVIOUS
  <1>5. Moved(q, n) /\ n.todo = w
    <2> HIDE DEF w, t
    <2>1. QED
      BY <1>2, <1>4, MovedWith
  <1>6. Onward(p, n)
    BY <1>1, <1>5, MovedOn
  <1> HIDE DEF n, q, t
  <1>7. n.op = q.op /\ n.calls # <<>> /\ Head(n.calls) = e
    BY <1>3, <1>5 DEF Moved
  <1> HIDE DEF e
  <1>8. \A s \in Sub : subs'[s] # None => s \in n.todo
    BY <1>1, <1>5
  <1>9. ASSUME Fit(q, subs, dids)
        PROVE  Fit(n, subs', dids')
    <2>1. AllBut(Loose(q), subs, dids)
      BY <1>9 DEF Fit
    <2>2. Loose(q) = Loose(n)
      BY <1>3, <1>7 DEF Loose
    <2>3. AllBut(Loose(n), subs', dids')
      BY <1>1, <2>1, <2>2
    <2>4. ImportFit(n, subs', dids')
      BY <1>3, <1>7, <1>8 DEF ImportFit
    <2>5. QED
      BY <1>3, <1>7, <2>3, <2>4 DEF Fit, CopyFit, WrittenFit, DropFit, Granting, Dropping
  <1>10. Checked(n, subs')
    BY <1>3, <1>7 DEF Checked, Looking
  <1>11. SoloFit(n, subs', dids')
    BY <1>3, <1>7, <1>8 DEF SoloFit, AllBut, Found
  <1>12. QED
    BY <1>6, <1>7, <1>9, <1>10, <1>11 DEF Carries, q

LEMMA ListDidsGoes ==
  ASSUME WInv, NEW p \in Proc, ListDids(p)
  PROVE  \E n : Onward(p, n) /\ Carries(p, n)
  <1> DEFINE q == req[p] w == {d \in DID : dids[d] # None} t == Rest(q)
             n == [t EXCEPT !.todo = w]
  <1>1. At(p, "listDids") /\ Go(p, n) /\ dids' = dids /\ subs' = subs
    BY DEF ListDids, Reads
  <1>2. Moved(q, t) /\ t \in Request /\ t.rec = q.rec /\ (Len(q.calls) = 5 => Len(t.calls) # 2)
    BY <1>1, Moving, Lengths
  <1>3. w \in SUBSET (DID \cup Sub)
    OBVIOUS
  <1> HIDE DEF w, t
  <1>4. Moved(q, n) /\ n.rec = t.rec /\ n.calls = t.calls
    BY <1>2, <1>3, MovedWith, WithTodo
  <1> HIDE DEF n
  <1>5. n.rec = q.rec /\ (Len(q.calls) = 5 => Len(n.calls) # 2)
    BY <1>2, <1>4
  <1>6. QED
    BY <1>1, <1>4, <1>5, LookGoes

LEMMA DumpGoes ==
  ASSUME WInv, NEW p \in Proc, Dump(p)
  PROVE  \E n : Onward(p, n) /\ Carries(p, n)
  <1> DEFINE q == req[p]
  <1>1. At(p, "dump") /\ dids' = dids /\ subs' = subs
    BY DEF Dump
  <1>2. /\ Makes(q, "dump") /\ q \in Request /\ Moved(q, Rest(q)) /\ Rest(q).rec = q.rec
        /\ q.todo \in SUBSET (DID \cup Sub) /\ q.file \in Files
        /\ (Len(q.calls) = 5 => Len(Rest(q).calls) # 2) /\ q.calls # <<>>
    BY <1>1, Moving, Lengths, Turn DEF Makes
  <1>3. CASE Go(p, Rest(q))
    BY <1>1, <1>2, <1>3, LookGoes
  <1>4. ASSUME NEW d \in q.todo,
               Go(p, [q EXCEPT !.todo = @ \ {d}, !.file = [@ EXCEPT ![d] = dids[d]]])
        PROVE  \E n : Onward(p, n) /\ Carries(p, n)
    <2> DEFINE f == [q.file EXCEPT ![d] = dids[d]]
               t == [q EXCEPT !.todo = q.todo \ {d}]
               n == [t EXCEPT !.file = f]
    <2>1. f \in Files
      BY <1>2, Tables DEF Files, WInv
    <2>2. [q EXCEPT !.todo = @ \ {d}, !.file = [@ EXCEPT ![d] = dids[d]]] = n
      BY <1>2 DEF Request
    <2>3. Go(p, n)
      BY <1>4, <2>2
    <2> HIDE DEF f
    <2>4. /\ t \in Request /\ t.solo = q.solo /\ t.op = q.op /\ t.calls = q.calls
          /\ t.did = q.did /\ t.sub = q.sub /\ t.old = q.old
      <3>1. q.todo \ {d} \in SUBSET (DID \cup Sub)
        BY <1>2
      <3>2. QED
        BY <1>2, <3>1, WithTodo
    <2> HIDE DEF t
    <2>5. /\ n \in Request /\ n.solo = t.solo /\ n.op = t.op /\ n.calls = t.calls
          /\ n.did = t.did /\ n.sub = t.sub /\ n.old = t.old
      BY <2>1, <2>4, WithFile
    <2> HIDE DEF n, q
    <2>6. Onward(p, n)
      <3>1. Again(q, n)
        BY <2>4, <2>5, Zenon DEF Again
      <3>2. QED
        BY <1>2, <2>3, <3>1, AgainOn DEF q
    <2>7. q.op = "export" /\ Head(q.calls) = "dump" /\ n.op = q.op /\ n.calls = q.calls
      <3>1. q.op = "export" /\ Head(q.calls) = "dump"
        BY <1>2, Courses DEF Makes, Goes, AllOps, Public, Admin, Internal, Proxied, Granting
      <3>2. QED
        BY <2>4, <2>5, <3>1
    <2>8. ASSUME Fit(q, subs, dids)
          PROVE  Fit(n, subs', dids')
      <3>1. AllBut(Loose(q), subs, dids)
        BY <2>8 DEF Fit
      <3>2. Loose(q) = {} /\ Loose(n) = {}
        BY <2>7 DEF Loose
      <3>3. QED
        BY <1>1, <2>7, <3>1, <3>2
           DEF Fit, CopyFit, WrittenFit, DropFit, ImportFit, Granting, Dropping
    <2>9. Checked(n, subs') /\ SoloFit(n, subs', dids')
      BY <2>7 DEF Checked, Looking, SoloFit
    <2>10. QED
      BY <1>2, <2>6, <2>7, <2>8, <2>9 DEF Carries, q
  <1>5. QED
    BY <1>3, <1>4 DEF Dump

LEMMA FillGoes ==
  ASSUME WInv, NEW p \in Proc, Fill(p)
  PROVE  \E n : Onward(p, n) /\ Carries(p, n)
  <1> DEFINE q == req[p] e == After(q.calls)
  <1>1. At(p, "fill") /\ dids' = dids /\ subs' = subs
    BY DEF Fill, Reads
  <1>2. Makes(q, "fill") /\ q \in Request /\ q.calls \in Seq(Call) /\ q.calls # <<>>
        /\ q.todo \in SUBSET (DID \cup Sub)
    BY <1>1, Moving, Turn DEF Makes
  <1>3. Head(q.calls) = "fill" /\ q.op = "backfill" /\ Len(q.calls) = 1
    BY <1>2, Courses DEF Makes, Goes, AllOps, Public, Admin, Internal, Proxied, Granting
  <1>4. CASE Answer(p)
    BY <1>1, <1>4, RefusedGoes
  <1>5. ASSUME Fit(q, subs, dids)
        PROVE  AllBut({}, subs', dids')
    <2>1. AllBut(Loose(q), subs, dids)
      BY <1>5 DEF Fit
    <2>2. Loose(q) = {}
      BY <1>3 DEF Loose
    <2>3. QED
      BY <1>1, <2>1, <2>2
  <1>6. ASSUME NEW s \in q.todo \cap Sub, subs[s] = None, Go(p, [q EXCEPT !.todo = @ \ {s}])
        PROVE  \E n : Onward(p, n) /\ Carries(p, n)
    <2> DEFINE n == [q EXCEPT !.todo = q.todo \ {s}]
    <2>1. Go(p, n)
      BY <1>2, <1>6 DEF Request
    <2>2. q.todo \ {s} \in SUBSET (DID \cup Sub)
      BY <1>2
    <2>3. /\ n \in Request /\ n.solo = q.solo /\ n.op = q.op /\ n.calls = q.calls
          /\ n.did = q.did /\ n.sub = q.sub /\ n.old = q.old /\ n.todo = q.todo \ {s}
      BY <1>2, <2>2, WithTodo
    <2> HIDE DEF n, q
    <2>4. Onward(p, n)
      <3>1. Again(q, n)
        BY <2>3, Zenon DEF Again
      <3>2. QED
        BY <1>2, <2>1, <3>1, AgainOn DEF q
    <2>5. ASSUME Fit(q, subs, dids)
          PROVE  Fit(n, subs', dids')
      BY <1>3, <1>5, <2>3, <2>5
         DEF Fit, AllBut, CopyFit, WrittenFit, DropFit, ImportFit, Granting, Dropping
    <2>6. Checked(n, subs')
      BY <1>3, <2>3 DEF Checked, Looking
    <2>7. SoloFit(q, subs, dids) => SoloFit(n, subs', dids')
      BY <1>1, <1>3, <1>6, <2>3 DEF SoloFit, AllBut, Found
    <2>8. QED
      BY <1>2, <2>3, <2>4, <2>5, <2>6, <2>7 DEF Carries, q
  <1>7. ASSUME NEW s \in q.todo \cap Sub, subs[s] # None,
               Go(p, [[q EXCEPT !.todo = @ \ {s}]
                        EXCEPT !.did = subs[s], !.sub = s,
                               !.calls = <<"addHandle", "putDid">> \o @])
        PROVE  \E n : Onward(p, n) /\ Carries(p, n)
    <2> DEFINE d == subs[s]
               t == [q EXCEPT !.todo = q.todo \ {s}]
               u == [t EXCEPT !.did = d]
               v == [u EXCEPT !.sub = s]
               n == [v EXCEPT !.calls = FillRound]
    <2>1. q.todo \ {s} \in SUBSET (DID \cup Sub) /\ d \in DID
      BY <1>2, <1>7, Tables DEF WInv
    <2>2. FillRound \in Seq(Call) /\ FillRound # <<>> /\ Head(FillRound) = "addHandle"
      BY DEF FillRound, Call
    <2>3. Go(p, n)
      <3>1. <<"addHandle", "putDid">> \o q.calls = FillRound
        BY <1>2, <1>3, Short, Joined
      <3>2. [[q EXCEPT !.todo = @ \ {s}]
               EXCEPT !.did = subs[s], !.sub = s, !.calls = <<"addHandle", "putDid">> \o @] = n
        BY <1>2, <3>1 DEF Request
      <3>3. QED
        BY <1>7, <3>2
    <2> HIDE DEF d
    <2>4. t \in Request /\ t.todo = q.todo \ {s} /\ t.op = q.op /\ t.solo = q.solo
      BY <1>2, <2>1, WithTodo
    <2> HIDE DEF t
    <2>5. u \in Request /\ u.did = d /\ u.todo = q.todo \ {s} /\ u.op = q.op /\ u.solo = q.solo
      BY <2>1, <2>4, WithDid
    <2> HIDE DEF u
    <2>6. /\ v \in Request /\ v.sub = s /\ v.did = d /\ v.todo = q.todo \ {s}
          /\ v.op = q.op /\ v.solo = q.solo
      BY <1>7, <2>5, WithSub
    <2> HIDE DEF v
    <2>7. /\ n \in Request /\ n.calls = FillRound /\ n.sub = s /\ n.did = d
          /\ n.todo = q.todo \ {s} /\ n.op = q.op /\ n.solo = q.solo
      BY <2>2, <2>6, WithCalls
    <2> HIDE DEF n, q
    <2>8. Scripted(n)
      <3>1. n.calls \in From(FillRound)
        BY <2>2, <2>7, WholeFrom
      <3>2. QED
        BY <1>3, <2>7, <3>1 DEF Scripted, Granting
    <2>9. Named(n)
      BY <1>3, <1>7, <2>1, <2>2, <2>7 DEF Named
    <2>10. Onward(p, n)
      BY <2>3, <2>7, <2>8, <2>9, Zenon DEF Onward, q
    <2>11. ASSUME Fit(q, subs, dids)
           PROVE  Fit(n, subs', dids')
      BY <1>3, <1>5, <2>2, <2>7, <2>11
         DEF Fit, AllBut, CopyFit, WrittenFit, DropFit, ImportFit, Granting, Dropping
    <2>12. Checked(n, subs')
      BY <1>3, <2>7 DEF Checked, Looking
    <2>13. SoloFit(q, subs, dids) => SoloFit(n, subs', dids')
      BY <1>1, <1>3, <2>2, <2>7 DEF SoloFit, AllBut, d
    <2>14. QED
      BY <2>2, <2>7, <2>10, <2>11, <2>12, <2>13 DEF Carries, q
  <1>8. QED
    BY <1>4, <1>6, <1>7 DEF Fill

LEMMA WipeGoes ==
  ASSUME WInv, NEW p \in Proc, Wipe(p)
  PROVE  \E n : Onward(p, n) /\ Carries(p, n)
  <1> DEFINE q == req[p] e == After(q.calls)
  <1>1. At(p, "wipe")
    BY DEF Wipe
  <1>2. /\ Makes(q, "wipe") /\ q \in Request /\ Moved(q, Rest(q)) /\ Rest(q) \in Request
        /\ Rest(q).todo = q.todo /\ q.calls # <<>> /\ q.todo \in SUBSET (DID \cup Sub)
    BY <1>1, Moving, Turn DEF Makes
  <1>3. /\ Head(q.calls) = "wipe" /\ q.op = "import"
        /\ \/ e = "listSubs"
           \/ e = "restore" /\ Len(q.calls) = 2
    BY <1>2, Courses DEF Makes, Goes, AllOps, Public, Admin, Internal, Proxied, Granting
  <1>4. /\ subs \in [Sub -> DID \cup {None}] /\ DID \cap Sub = {}
    BY Tables, NoneAssumption DEF WInv
  <1>5. CASE q.todo = {} /\ Go(p, Rest(q)) /\ subs' = subs /\ dids' = dids
    <2> DEFINE n == Rest(q)
    <2>1. Onward(p, n)
      BY <1>2, <1>5, MovedOn
    <2> HIDE DEF n, q
    <2>2. n.op = q.op /\ n.calls # <<>> /\ Head(n.calls) = e
      BY <1>2, <1>3 DEF Moved, n
    <2> HIDE DEF e
    <2>3. ASSUME Fit(q, subs, dids)
          PROVE  Fit(n, subs', dids')
      <3>1. CASE e = "listSubs"
        <4>1. Loose(n) = Sub
          BY <1>3, <2>2, <3>1 DEF Loose
        <4>2. QED
          BY <1>3, <2>2, <3>1, <4>1
             DEF Fit, AllBut, CopyFit, WrittenFit, DropFit, ImportFit, Granting, Dropping
      <3>2. CASE e = "restore" /\ Len(q.calls) = 2
        <4>1. \A s \in Sub : subs'[s] = None
          BY <1>3, <1>5, <2>3, <3>2 DEF Fit, ImportFit
        <4>2. QED
          BY <1>3, <2>2, <3>2, <4>1
             DEF Fit, AllBut, Found, CopyFit, WrittenFit, DropFit, ImportFit, Granting, Dropping
      <3>3. QED
        BY <1>3, <3>1, <3>2
    <2>4. Checked(n, subs') /\ SoloFit(n, subs', dids')
      BY <1>3, <2>2 DEF Checked, Looking, SoloFit
    <2>5. QED
      BY <2>1, <2>2, <2>3, <2>4 DEF Carries, q
  <1>6. ASSUME NEW x \in q.todo, Go(p, [q EXCEPT !.todo = @ \ {x}]),
               \A s \in Sub : subs'[s] = IF s = x THEN None ELSE subs[s]
        PROVE  \E n : Onward(p, n) /\ Carries(p, n)
    <2> DEFINE n == [q EXCEPT !.todo = q.todo \ {x}]
    <2>1. Go(p, n)
      BY <1>2, <1>6 DEF Request
    <2>2. q.todo \ {x} \in SUBSET (DID \cup Sub)
      BY <1>2
    <2>3. /\ n \in Request /\ n.solo = q.solo /\ n.op = q.op /\ n.calls = q.calls
          /\ n.did = q.did /\ n.sub = q.sub /\ n.old = q.old /\ n.todo = q.todo \ {x}
      BY <1>2, <2>2, WithTodo
    <2> HIDE DEF n, q
    <2>4. Onward(p, n)
      <3>1. Again(q, n)
        BY <2>3, Zenon DEF Again
      <3>2. QED
        BY <1>2, <2>1, <3>1, AgainOn DEF q
    <2>5. ASSUME Fit(q, subs, dids)
          PROVE  Fit(n, subs', dids')
      <3>1. ImportFit(q, subs, dids)
        BY <2>5 DEF Fit
      <3>2. Loose(n) = Sub
        BY <1>3, <2>3 DEF Loose
      <3>3. Len(q.calls) = 2 => \A s \in Sub : subs'[s] # None => s \in n.todo
        BY <1>3, <1>6, <2>3, <3>1 DEF ImportFit
      <3>4. ImportFit(n, subs', dids')
        BY <1>3, <2>3, <3>3 DEF ImportFit
      <3>5. QED
        BY <1>3, <2>3, <3>2, <3>4
           DEF Fit, AllBut, CopyFit, WrittenFit, DropFit, Granting, Dropping
    <2>6. Checked(n, subs') /\ SoloFit(n, subs', dids')
      BY <1>3, <2>3 DEF Checked, Looking, SoloFit
    <2>7. QED
      BY <1>2, <2>3, <2>4, <2>5, <2>6 DEF Carries, q
  <1>7. ASSUME NEW d \in q.todo \cap DID, UNCHANGED subs, Go(p, [q EXCEPT !.todo = @ \ {d}])
        PROVE  \E n : Onward(p, n) /\ Carries(p, n)
    BY <1>4, <1>6, <1>7
  <1>8. ASSUME NEW s \in q.todo \cap Sub, subs' = [subs EXCEPT ![s] = None],
               Go(p, [q EXCEPT !.todo = @ \ {s}])
        PROVE  \E n : Onward(p, n) /\ Carries(p, n)
    <2>1. \A x \in Sub : subs'[x] = IF x = s THEN None ELSE subs[x]
      BY <1>4, <1>8
    <2>2. QED
      BY <1>6, <1>8, <2>1
  <1>9. QED
    BY <1>5, <1>7, <1>8 DEF Wipe

LEMMA RestoreGoes ==
  ASSUME WInv, NEW p \in Proc, Restore(p)
  PROVE  \E n : Onward(p, n) /\ Carries(p, n)
  <1> DEFINE q == req[p] e == After(q.calls)
  <1>1. At(p, "restore") /\ dids' = dids /\ subs' = subs
    BY DEF Restore, Reads
  <1>2. /\ Makes(q, "restore") /\ q \in Request /\ Moved(q, Rest(q)) /\ Rest(q) \in Request
        /\ q.calls \in Seq(Call) /\ q.file \in Files
    BY <1>1, Moving, Turn DEF Makes
  <1>3. Head(q.calls) = "restore" /\ q.op = "import" /\ e = "end" /\ Len(q.calls) = 1
    BY <1>2, Courses DEF Makes, Goes, AllOps, Public, Admin, Internal, Proxied, Granting
  <1>4. ASSUME Fit(q, subs, dids)
        PROVE  AllBut({}, subs', dids')
    <2>1. AllBut(Loose(q), subs, dids)
      BY <1>4 DEF Fit
    <2>2. Loose(q) = {}
      BY <1>3 DEF Loose
    <2>3. QED
      BY <1>1, <2>1, <2>2
  <1>5. CASE Go(p, Rest(q))
    <2> DEFINE n == Rest(q)
    <2>1. Onward(p, n)
      BY <1>2, <1>5, MovedOn
    <2> HIDE DEF n, q
    <2>2. n.calls = <<>>
      BY <1>2, <1>3 DEF Moved, n
    <2>3. QED
      BY <1>4, <2>1, <2>2 DEF Carries, q
  <1>6. ASSUME NEW d \in DID, q.file[d] # None,
               Go(p, [q EXCEPT !.did = d, !.rec = q.file[d], !.todo = q.file[d].handles,
                               !.file = [@ EXCEPT ![d] = None],
                               !.calls = <<"putDid", "restoreSubs">> \o @])
        PROVE  \E n : Onward(p, n) /\ Carries(p, n)
    <2> DEFINE r == q.file[d]
               f == [q.file EXCEPT ![d] = None]
               a == [q EXCEPT !.did = d]
               b == [a EXCEPT !.rec = r]
               t == [b EXCEPT !.todo = r.handles]
               u == [t EXCEPT !.file = f]
               n == [u EXCEPT !.calls = RestoreRound]
    <2>1. r \in Record /\ r.handles \in SUBSET (DID \cup Sub)
      BY <1>2, <1>6 DEF Files, Record
    <2>2. f \in Files /\ f[d] = None /\ \A x \in DID \ {d} : f[x] = q.file[x]
      BY <1>2 DEF Files
    <2>3. RestoreRound \in Seq(Call) /\ RestoreRound # <<>> /\ Head(RestoreRound) = "putDid"
      BY DEF RestoreRound, Call
    <2>4. Go(p, n)
      <3>1. <<"putDid", "restoreSubs">> \o q.calls = RestoreRound
        BY <1>2, <1>3, Short, Joined
      <3>2. [q EXCEPT !.did = d, !.rec = q.file[d], !.todo = q.file[d].handles,
                      !.file = [@ EXCEPT ![d] = None],
                      !.calls = <<"putDid", "restoreSubs">> \o @] = n
        BY <1>2, <3>1 DEF Request
      <3>3. QED
        BY <1>6, <3>2
    <2> HIDE DEF r, f
    <2>5. a \in Request /\ a.did = d /\ a.op = q.op /\ a.solo = q.solo
      BY <1>2, WithDid
    <2> HIDE DEF a
    <2>6. b \in Request /\ b.rec = r /\ b.did = d /\ b.op = q.op /\ b.solo = q.solo
      BY <2>1, <2>5, WithRec
    <2> HIDE DEF b
    <2>7. /\ t \in Request /\ t.todo = r.handles /\ t.rec = r /\ t.did = d
          /\ t.op = q.op /\ t.solo = q.solo
      BY <2>1, <2>6, WithTodo
    <2> HIDE DEF t
    <2>8. /\ u \in Request /\ u.file = f /\ u.todo = r.handles /\ u.rec = r /\ u.did = d
          /\ u.op = q.op /\ u.solo = q.solo
      BY <2>2, <2>7, WithFile
    <2> HIDE DEF u
    <2>9. /\ n \in Request /\ n.calls = RestoreRound /\ n.file = f /\ n.todo = r.handles
          /\ n.rec = r /\ n.did = d /\ n.op = q.op /\ n.solo = q.solo
      BY <2>3, <2>8, WithCalls
    <2> HIDE DEF n, q
    <2>10. Scripted(n)
      <3>1. n.calls \in From(RestoreRound)
        BY <2>3, <2>9, WholeFrom
      <3>2. QED
        BY <1>3, <2>9, <3>1 DEF Scripted, Granting
    <2>11. Named(n)
      BY <1>3, <2>3, <2>9 DEF Named
    <2>12. Onward(p, n)
      BY <2>4, <2>9, <2>10, <2>11, Zenon DEF Onward, q
    <2>13. ASSUME Fit(q, subs, dids)
           PROVE  Fit(n, subs', dids')
      <3>1. Loose(n) = {}
        BY <1>3, <2>3, <2>9 DEF Loose
      <3>2. ImportFit(q, subs, dids)
        BY <2>13 DEF Fit
      <3>3. \A s \in Sub : subs[s] # None => q.file[subs[s]] = None
        BY <1>3, <3>2 DEF ImportFit
      <3>4. subs \in [Sub -> DID \cup {None}]
        BY Tables DEF WInv
      <3>5. \A s \in Sub : subs[s] # None => f[subs[s]] = None
        BY <2>2, <3>3, <3>4
      <3>6. \A s \in Sub : subs[s] # d
        <4>1. None \notin DID
          BY Tables DEF WInv
        <4>2. QED
          BY <1>6, <3>3, <4>1
      <3>7. ImportFit(n, subs', dids')
        BY <1>1, <1>3, <2>2, <2>3, <2>9, <3>5, <3>6 DEF ImportFit
      <3>8. QED
        BY <1>3, <1>4, <2>3, <2>9, <2>13, <3>1, <3>7
           DEF Fit, CopyFit, WrittenFit, DropFit, Granting, Dropping
    <2>14. Checked(n, subs') /\ SoloFit(n, subs', dids')
      BY <1>3, <2>9 DEF Checked, Looking, SoloFit
    <2>15. QED
      BY <2>3, <2>9, <2>12, <2>13, <2>14 DEF Carries, q
  <1>7. QED
    BY <1>5, <1>6 DEF Restore

LEMMA RestoreSubsGoes ==
  ASSUME WInv, NEW p \in Proc, RestoreSubs(p)
  PROVE  \E n : Onward(p, n) /\ Carries(p, n)
  <1> DEFINE q == req[p] e == After(q.calls)
  <1>1. At(p, "restoreSubs") /\ dids' = dids
    BY DEF RestoreSubs
  <1>2. /\ Makes(q, "restoreSubs") /\ q \in Request /\ Moved(q, Rest(q)) /\ Rest(q) \in Request
        /\ Rest(q).file = q.file /\ q.calls # <<>> /\ q.todo \in SUBSET (DID \cup Sub)
    BY <1>1, Moving, Turn DEF Makes
  <1>3. Head(q.calls) = "restoreSubs" /\ q.op = "import" /\ e = "restore" /\ q.did \in DID
    <2>1. Head(q.calls) = "restoreSubs" /\ q.op = "import" /\ e = "restore"
      BY <1>2, Courses DEF Makes, Goes, AllOps, Public, Admin, Internal, Proxied, Granting
    <2>2. QED
      BY <1>2, <2>1 DEF Makes, Named
  <1>4. subs \in [Sub -> DID \cup {None}] /\ None \notin DID
    BY Tables DEF WInv
  <1>5. CASE Go(p, Rest(q)) /\ subs' = subs
    <2> DEFINE n == Rest(q)
    <2>1. Onward(p, n)
      BY <1>2, <1>5, MovedOn
    <2> HIDE DEF n, q
    <2>2. n.op = q.op /\ n.calls # <<>> /\ Head(n.calls) = "restore" /\ n.file = q.file
      BY <1>2, <1>3 DEF Moved, n
    <2>3. ASSUME Fit(q, subs, dids)
          PROVE  Fit(n, subs', dids')
      <3>1. AllBut(Loose(q), subs, dids) /\ ImportFit(q, subs, dids)
        BY <2>3 DEF Fit
      <3>2. Loose(q) = {} /\ Loose(n) = {}
        BY <1>3, <2>2 DEF Loose
      <3>3. AllBut({}, subs', dids')
        BY <1>1, <1>5, <3>1, <3>2
      <3>4. ImportFit(n, subs', dids')
        BY <1>3, <1>5, <2>2, <3>1 DEF ImportFit
      <3>5. QED
        BY <1>3, <2>2, <3>2, <3>3, <3>4
           DEF Fit, CopyFit, WrittenFit, DropFit, Granting, Dropping
    <2>4. Checked(n, subs') /\ SoloFit(n, subs', dids')
      BY <1>3, <2>2 DEF Checked, Looking, SoloFit
    <2>5. QED
      BY <2>1, <2>2, <2>3, <2>4 DEF Carries, q
  <1>6. ASSUME NEW x \in q.todo, subs' = [subs EXCEPT ![x] = q.did],
               Go(p, [q EXCEPT !.todo = @ \ {x}])
        PROVE  \E n : Onward(p, n) /\ Carries(p, n)
    <2> DEFINE n == [q EXCEPT !.todo = q.todo \ {x}]
    <2>1. Go(p, n)
      BY <1>2, <1>6 DEF Request
    <2>2. q.todo \ {x} \in SUBSET (DID \cup Sub)
      BY <1>2
    <2>3. /\ n \in Request /\ n.solo = q.solo /\ n.op = q.op /\ n.calls = q.calls /\ n.did = q.did
          /\ n.sub = q.sub /\ n.old = q.old /\ n.file = q.file /\ n.todo = q.todo \ {x}
      BY <1>2, <2>2, WithTodo
    <2> HIDE DEF n, q
    <2>4. Onward(p, n)
      <3>1. Again(q, n)
        BY <2>3, Zenon DEF Again
      <3>2. QED
        BY <1>2, <2>1, <3>1, AgainOn DEF q
    <2>5. \A s \in Sub : subs'[s] = IF s = x THEN q.did ELSE subs[s]
      BY <1>4, <1>6
    <2>6. ASSUME Fit(q, subs, dids)
          PROVE  Fit(n, subs', dids')
      <3>1. AllBut(Loose(q), subs, dids) /\ ImportFit(q, subs, dids)
        BY <2>6 DEF Fit
      <3>2. Loose(q) = {} /\ Loose(n) = {}
        BY <1>3, <2>3 DEF Loose
      <3>3. /\ q.file[q.did] = None /\ q.todo \subseteq HandlesOf(dids[q.did])
            /\ \A s \in Sub : subs[s] # None => q.file[subs[s]] = None
        BY <1>3, <3>1 DEF ImportFit
      <3>4. AllBut({}, subs', dids')
        BY <1>1, <1>6, <2>5, <3>1, <3>2, <3>3 DEF AllBut, Found
      <3>5. ImportFit(n, subs', dids')
        BY <1>1, <1>3, <2>3, <2>5, <3>3 DEF ImportFit
      <3>6. QED
        BY <1>3, <2>3, <3>2, <3>4, <3>5
           DEF Fit, CopyFit, WrittenFit, DropFit, Granting, Dropping
    <2>7. Checked(n, subs') /\ SoloFit(n, subs', dids')
      BY <1>3, <2>3 DEF Checked, Looking, SoloFit
    <2>8. QED
      BY <1>2, <2>3, <2>4, <2>6, <2>7 DEF Carries, q
  <1>7. QED
    BY <1>5, <1>6 DEF RestoreSubs

LEMMA GetSessionGoes ==
  ASSUME WInv, NEW p \in Proc, GetSession(p)
  PROVE  \E n : Onward(p, n) /\ Carries(p, n)
  <1> DEFINE q == req[p] e == After(q.calls)
  <1>1. At(p, "session") /\ dids' = dids /\ subs' = subs
    BY DEF GetSession, Reads
  <1>2. /\ Makes(q, "session") /\ q \in Request /\ Moved(q, Rest(q)) /\ Rest(q).rec = q.rec
        /\ (Len(q.calls) = 5 => Len(Rest(q).calls) # 2)
    BY <1>1, Moving, Lengths DEF Makes
  <1>3. Head(q.calls) = "session" /\ q.op = "updateHandle" /\ e = "pdsUpdate" /\ Len(q.calls) = 2
    BY <1>2, Courses DEF Makes, Goes, AllOps, Public, Admin, Internal, Proxied, Granting
  <1>4. CASE Go(p, Rest(q))
    BY <1>1, <1>2, <1>4, LookGoes
  <1>5. ASSUME q.sub \in Sub, Go(p, Then(q, SetRegistryHandle))
        PROVE  \E n : Onward(p, n) /\ Carries(p, n)
    <2> DEFINE n == [q EXCEPT !.calls = UpdateRound]
    <2>1. Go(p, n)
      <3>1. SetRegistryHandle \o Tail(q.calls) = UpdateRound
        BY <1>1, <1>3, LastLeft, Joined
      <3>2. Then(q, SetRegistryHandle) = [q EXCEPT !.calls = SetRegistryHandle \o Tail(q.calls)]
        BY <1>2 DEF Then, Request
      <3>3. QED
        BY <1>5, <3>1, <3>2
    <2>2. UpdateRound \in Seq(Call) /\ UpdateRound # <<>> /\ Head(UpdateRound) = "putSub"
      BY DEF UpdateRound, Call
    <2>3. /\ n \in Request /\ n.solo = q.solo /\ n.op = q.op /\ n.did = q.did /\ n.sub = q.sub
          /\ n.old = q.old /\ n.calls = UpdateRound
      BY <1>2, <2>2, WithCalls
    <2>4. q.did \in DID
      BY <1>2, <1>3 DEF Makes, Named
    <2> HIDE DEF n, q
    <2>5. Scripted(n)
      <3>1. n.calls \in From(UpdateRound)
        BY <2>2, <2>3, WholeFrom
      <3>2. QED
        BY <1>3, <2>3, <3>1 DEF Scripted, Granting
    <2>6. Named(n)
      BY <1>3, <1>5, <2>2, <2>3, <2>4 DEF Named
    <2>7. Onward(p, n)
      BY <2>1, <2>3, <2>5, <2>6, Zenon DEF Onward, q
    <2>8. ASSUME Fit(q, subs, dids)
          PROVE  Fit(n, subs', dids')
      <3>1. AllBut(Loose(q), subs, dids)
        BY <2>8 DEF Fit
      <3>2. Loose(q) = {} /\ Loose(n) = {}
        BY <1>3, <2>2, <2>3 DEF Loose
      <3>3. AllBut({}, subs', dids')
        BY <1>1, <3>1, <3>2
      <3>4. QED
        BY <1>3, <2>2, <2>3, <3>2, <3>3
           DEF Fit, CopyFit, WrittenFit, DropFit, ImportFit, Granting, Dropping
    <2>9. Checked(n, subs') /\ SoloFit(n, subs', dids')
      BY <1>3, <2>3 DEF Checked, Looking, SoloFit
    <2>10. QED
      BY <2>2, <2>3, <2>7, <2>8, <2>9 DEF Carries, q
  <1>6. QED
    BY <1>4, <1>5 DEF GetSession

LEMMA PdsCreatesGoes ==
  ASSUME WInv, NEW p \in Proc, PdsCreatesAccount(p)
  PROVE  \E n : Onward(p, n) /\ Carries(p, n)
  <1> DEFINE q == req[p] t == Rest(q) e == After(q.calls)
  <1>1. At(p, "pdsCreate") /\ dids' = dids /\ subs' = subs
    BY DEF PdsCreatesAccount
  <1>2. /\ Makes(q, "pdsCreate") /\ t \in Request /\ t.solo = q.solo /\ t.op = q.op /\ t.sub = q.sub
        /\ t.calls = <<>> <=> e = "end"
        /\ t.calls # <<>> => Head(t.calls) = e /\ Scripted(t)
    BY <1>1, Turn DEF Makes
  <1>3. CASE Answer(p)
    BY <1>1, <1>3, RefusedGoes
  <1>4. ASSUME NEW d \in DID, Go(p, [t EXCEPT !.did = d, !.rec = NoRecord])
        PROVE  \E n : Onward(p, n) /\ Carries(p, n)
    <2> DEFINE u == [t EXCEPT !.did = d] n == [u EXCEPT !.rec = NoRecord]
    <2>1. /\ Head(q.calls) = "pdsCreate" /\ q.op = "signup" /\ e = "checkOther" /\ q.sub \in Sub
      <3>1. Head(q.calls) = "pdsCreate" /\ q.op = "signup" /\ e = "checkOther"
        BY <1>2, Courses
           DEF Makes, Goes, AllOps, Public, Admin, Internal, Proxied, Granting
      <3>2. QED
        BY <1>2, <3>1 DEF Makes, Named
    <2>2. NoRecord \in Record
      BY DEF NoRecord, Record
    <2>3. [t EXCEPT !.did = d, !.rec = NoRecord] = n
      BY <1>2 DEF Request
    <2>4. Go(p, n)
      BY <1>4, <2>3
    <2> HIDE DEF t
    <2>5. /\ u \in Request /\ u.did = d /\ u.solo = t.solo /\ u.op = t.op /\ u.sub = t.sub
          /\ u.calls = t.calls
      BY <1>2, WithDid
    <2> HIDE DEF u
    <2>6. /\ n \in Request /\ n.did = d /\ n.solo = q.solo /\ n.op = q.op /\ n.sub = q.sub
          /\ n.calls = t.calls
      BY <1>2, <2>2, <2>5, WithRec
    <2> HIDE DEF n, q
    <2>7. n.calls # <<>> /\ Head(n.calls) = "checkOther" /\ Scripted(n)
      BY <1>2, <2>1, <2>6, Alike
    <2> HIDE DEF e
    <2>8. Named(n)
      BY <2>1, <2>6, <2>7 DEF Named
    <2>9. Onward(p, n)
      BY <2>4, <2>6, <2>7, <2>8, Zenon DEF Onward, q
    <2>10. ASSUME Fit(q, subs, dids)
           PROVE  Fit(n, subs', dids')
      <3>1. AllBut(Loose(q), subs, dids)
        BY <2>10 DEF Fit
      <3>2. Loose(q) = {} /\ Loose(n) = {}
        BY <2>1, <2>6, <2>7 DEF Loose
      <3>3. AllBut({}, subs', dids')
        BY <1>1, <3>1, <3>2
      <3>4. QED
        BY <2>1, <2>6, <2>7, <3>2, <3>3
           DEF Fit, CopyFit, WrittenFit, DropFit, ImportFit, Granting, Dropping
    <2>11. Checked(n, subs') /\ SoloFit(n, subs', dids')
      BY <2>1, <2>6, <2>7 DEF Checked, Looking, SoloFit
    <2>12. QED
      BY <2>7, <2>9, <2>10, <2>11 DEF Carries, q
  <1>5. QED
    BY <1>3, <1>4 DEF PdsCreatesAccount

LEMMA ServeGoes ==
  ASSUME WInv, NEW p \in Proc, Serve(p)
  PROVE  \E n : Onward(p, n) /\ Carries(p, n)
  BY PutSubGoes, DeleteSubGoes, PutDidGoes, SaveDidGoes, DeleteDidGoes, LooksGo, GrantGoes,
     AddHandleGoes, FindDidGoes, AdminReadGoes, ReadAllGoes, DeleteAllGoes, DeleteOwnGoes,
     ReplaceGoes, CheckOldGoes, DeleteOldGoes, ListSubsGoes, ListDidsGoes, FillGoes, DumpGoes,
     WipeGoes, RestoreGoes, RestoreSubsGoes, GetSessionGoes, PdsCreatesGoes, Zenon DEF Serve

LEMMA ServeKeeps ==
  ASSUME NEW p \in Proc, Serve(p)
  PROVE  req[p].op # None /\ calm' = calm /\ cut' = cut /\ faults' = faults
  <1> DEFINE Kept == calm' = calm /\ cut' = cut /\ faults' = faults
             Served1 == \E c : At(p, c)
  <1>1. Reads(p) => Kept
    BY DEF Reads, World
  <1>2. UNCHANGED World => Kept
    BY DEF World
  <1>3. Served1 => req[p].op # None
    BY DEF At
  <1> HIDE DEF Kept, Served1
  <1>4. CASE PutSub(p) \/ DeleteSub(p) \/ SaveDid(p) \/ DeleteDid(p) \/ DeleteOld(p)
    <2>1. UNCHANGED World
      BY <1>4 DEF PutSub, DeleteSub, SaveDid, DeleteDid, DeleteOld
    <2>2. Served1
      BY <1>4 DEF PutSub, DeleteSub, SaveDid, DeleteDid, DeleteOld, Served1
    <2>3. QED
      BY <1>2, <1>3, <2>1, <2>2 DEF Kept
  <1>5. CASE CheckTaken(p) \/ CheckOther(p) \/ AdminCheck(p) \/ PdsRefuses(p) \/ ReadAll(p)
    <2>1. Reads(p)
      BY <1>5 DEF CheckTaken, CheckOther, AdminCheck, PdsRefuses, ReadAll
    <2>2. Served1
      BY <1>5 DEF CheckTaken, CheckOther, AdminCheck, PdsRefuses, ReadAll, Served1
    <2>3. QED
      BY <1>1, <1>3, <2>1, <2>2 DEF Kept
  <1>6. CASE \/ AddHandle(p) \/ FindDidBySecretHash(p) \/ AdminRead(p) \/ DeleteOwn(p)
             \/ Replace(p) \/ CheckOld(p) \/ ListSubs(p) \/ ListDids(p) \/ Fill(p)
             \/ Restore(p) \/ GetSession(p)
    <2>1. Reads(p)
      BY <1>6, Zenon DEF AddHandle, FindDidBySecretHash, AdminRead, DeleteOwn, Replace, CheckOld,
                  ListSubs, ListDids, Fill, Restore, GetSession
    <2>2. Served1
      BY <1>6, Zenon DEF AddHandle, FindDidBySecretHash, AdminRead, DeleteOwn, Replace, CheckOld,
                  ListSubs, ListDids, Fill, Restore, GetSession, Served1
    <2>3. QED
      BY <1>1, <1>3, <2>1, <2>2 DEF Kept
  <1>7. CASE DeleteAll(p) \/ Wipe(p) \/ RestoreSubs(p)
    <2>1. UNCHANGED World
      BY <1>7, Zenon DEF DeleteAll, Wipe, RestoreSubs
    <2>2. Served1
      BY <1>7, Zenon DEF DeleteAll, Wipe, RestoreSubs, Served1
    <2>3. QED
      BY <1>2, <1>3, <2>1, <2>2 DEF Kept
  <1>8. CASE \/ PutDid(p) \/ LogActivity(p) \/ Grant(p) \/ Dump(p) \/ PdsCreatesAccount(p)
             \/ PdsUpdatesHandle(p) \/ PdsDeletesAccount(p)
    <2>1. calm' = calm /\ cut' = cut /\ faults' = faults
      <3>1. CASE PutDid(p)
        BY <3>1 DEF PutDid
      <3>2. CASE LogActivity(p)
        BY <3>2 DEF LogActivity
      <3>3. CASE Grant(p)
        <4>1. UNCHANGED <<subs, dids, accounts, backup, held, exempt, calm, cut, faults>>
          BY <3>3, Zenon DEF Grant
        <4>2. QED
          BY <4>1
      <3>4. CASE Dump(p)
        <4>1. UNCHANGED <<subs, dids, accounts, issued, held, exempt, calm, cut, faults>>
          BY <3>4, Zenon DEF Dump
        <4>2. QED
          BY <4>1
      <3>5. CASE PdsCreatesAccount(p) \/ PdsUpdatesHandle(p) \/ PdsDeletesAccount(p)
        <4>1. UNCHANGED <<subs, dids, backup, issued, held, exempt, calm, cut, faults>>
          BY <3>5, Zenon DEF PdsCreatesAccount, PdsUpdatesHandle, PdsDeletesAccount
        <4>2. QED
          BY <4>1
      <3>6. QED
        BY <1>8, <3>1, <3>2, <3>3, <3>4, <3>5
    <2>2. Served1
      BY <1>8, Zenon DEF PutDid, LogActivity, Grant, Dump, PdsCreatesAccount, PdsUpdatesHandle,
                  PdsDeletesAccount, Served1
    <2>3. QED
      BY <1>3, <2>1, <2>2 DEF Kept
  <1>9. QED
    BY <1>4, <1>5, <1>6, <1>7, <1>8 DEF Serve

-----------------------------------------------------------------------------
(* Step by step *)

LEMMA OneGoes ==
  ASSUME req \in [Proc -> Request], NEW p \in Proc, NEW n, Go(p, n), n \in Request
  PROVE  /\ req' \in [Proc -> Request]
         /\ \A o \in Proc \ {p} : req'[o] = req[o]
         /\ n.calls = <<>> => req'[p] = NoRequest /\ req'[p].op = None
         /\ n.calls # <<>> => req'[p] = n
  <1>1. NoRequest \in Request /\ NoRequest.op = None
    BY IdleFine
  <1>2. req' = [req EXCEPT ![p] = IF n.calls = <<>> THEN NoRequest ELSE n]
    BY DEF Go
  <1>3. QED
    BY <1>1, <1>2

LEMMA GoesOnPlaced ==
  ASSUME WInv, IInv', NEW p \in Proc, req[p].op # None, NEW n, Onward(p, n), calm' = calm
  PROVE  WInv' /\ Busy' \subseteq Busy
  <1>1. /\ req \in [Proc -> Request]
        /\ \A o \in Proc : Placed(req[o])
        /\ calm => \A a, b \in Busy : a = b
        /\ \A a, b \in Busy : req[a].solo => a = b
    BY DEF WInv, IInv, OneByOne, SoloAlone
  <1>2. /\ Go(p, n) /\ n \in Request
        /\ n.calls # <<>> => /\ n.op = req[p].op /\ n.solo = req[p].solo
                             /\ Scripted(n) /\ Named(n)
    BY Zenon DEF Onward
  <1>3. /\ \A o \in Proc \ {p} : req'[o] = req[o]
        /\ n.calls = <<>> => req'[p] = NoRequest /\ req'[p].op = None
        /\ n.calls # <<>> => req'[p] = n
    BY <1>1, <1>2, OneGoes
  <1>4. \A o \in Proc : Placed(req'[o])
    BY <1>1, <1>2, <1>3 DEF Placed
  <1>5. Busy' \subseteq Busy
    BY <1>3 DEF Busy
  <1>6. OneByOne'
    BY <1>1, <1>5 DEF OneByOne
  <1>7. SoloAlone'
    <2> SUFFICES ASSUME NEW a \in Busy', NEW b \in Busy', req'[a].solo
                 PROVE  a = b
      BY Zenon DEF SoloAlone
    <2>1. a \in Proc /\ a \in Busy /\ b \in Busy
      BY <1>5 DEF Busy
    <2>2. n.calls = <<>> => a # p
      <3>1. n.calls = <<>> => req'[p].op = None
        BY <1>3
      <3>2. req'[a].op # None
        BY DEF Busy
      <3>3. QED
        BY <3>1, <3>2
    <2>3. req[a].solo
      BY <1>2, <1>3, <2>1, <2>2, Zenon
    <2>4. QED
      BY <1>1, <2>1, <2>3, Zenon
  <1>8. QED
    BY <1>4, <1>5, <1>6, <1>7 DEF WInv

(* The registry between two steps *)
Serial == calm /\ "unlisted" \notin cut

SInv ==
  /\ WInv
  /\ Serial => /\ \A p \in Busy : Fit(req[p], subs, dids)
               /\ Quiet => AllBut({}, subs, dids)
  /\ calm => \A p \in Busy : Checked(req[p], subs)
  /\ \A p \in Busy : req[p].solo => SoloFit(req[p], subs, dids)

LEMMA InitSInv == Init => SInv
  <1> SUFFICES ASSUME Init
               PROVE  SInv
    OBVIOUS
  <1>1. \A p \in Proc : req[p].op = None
    BY IdleFine DEF Init
  <1>2. Busy = {}
    BY <1>1 DEF Busy
  <1>3. WInv
    BY <1>1, <1>2, InitIInv DEF WInv, OneByOne, SoloAlone, Placed
  <1>4. AllBut({}, subs, dids)
    BY DEF Init, AllBut, Found
  <1>5. QED
    BY <1>2, <1>3, <1>4 DEF SInv

LEMMA ServeSInv ==
  ASSUME SInv, NEW p \in Proc, Serve(p)
  PROVE  SInv'
  <1>1. WInv /\ IInv
    BY DEF SInv, WInv
  <1>2. req[p].op # None /\ calm' = calm /\ cut' = cut
    BY ServeKeeps
  <1>3. IInv'
    BY <1>1, ServeStep
  <1>4. PICK n : Onward(p, n) /\ Carries(p, n)
    BY <1>1, ServeGoes
  <1>5. WInv' /\ Busy' \subseteq Busy
    BY <1>1, <1>2, <1>3, <1>4, GoesOnPlaced
  <1>6. p \in Busy
    BY <1>2 DEF Busy
  <1>7. /\ \A o \in Proc \ {p} : req'[o] = req[o]
        /\ n.calls = <<>> => req'[p] = NoRequest /\ req'[p].op = None
        /\ n.calls # <<>> => req'[p] = n /\ n.solo = req[p].solo
    <2>1. /\ Go(p, n) /\ n \in Request
          /\ n.calls # <<>> => n.solo = req[p].solo
      BY <1>4, Zenon DEF Onward
    <2>2. req \in [Proc -> Request]
      BY <1>1 DEF IInv
    <2>3. /\ \A o \in Proc \ {p} : req'[o] = req[o]
          /\ n.calls = <<>> => req'[p] = NoRequest /\ req'[p].op = None
          /\ n.calls # <<>> => req'[p] = n
      BY <2>1, <2>2, OneGoes
    <2>4. QED
      BY <2>1, <2>3, Zenon
  <1>8. p \in Busy' => n.calls # <<>>
    BY <1>7 DEF Busy
  <1>9. calm => Busy = {p}
    BY <1>1, <1>6 DEF WInv, OneByOne
  <1>10. ASSUME Serial'
         PROVE  /\ \A o \in Busy' : Fit(req'[o], subs', dids')
                /\ Quiet' => AllBut({}, subs', dids')
    <2>1. Fit(req[p], subs, dids) /\ Busy = {p}
      BY <1>2, <1>6, <1>9, <1>10 DEF SInv, Serial
    <2>2. IF n.calls = <<>> THEN AllBut({}, subs', dids') ELSE Fit(n, subs', dids')
      BY <1>4, <2>1 DEF Carries
    <2>3. n.calls # <<>> => p \in Busy'
      <3>1. n.calls # <<>> => n.op = req[p].op
        BY <1>4, Zenon DEF Onward
      <3>2. QED
        BY <1>2, <1>7, <3>1 DEF Busy
    <2>4. QED
      BY <1>5, <1>7, <1>8, <2>1, <2>2, <2>3 DEF Quiet
  <1>11. ASSUME calm', NEW o \in Busy'
         PROVE  Checked(req'[o], subs')
    <2>1. o = p /\ Checked(req[p], subs)
      BY <1>2, <1>5, <1>6, <1>9, <1>11 DEF SInv
    <2>2. QED
      BY <1>4, <1>7, <1>8, <2>1 DEF Carries
  <1>12. ASSUME NEW o \in Busy', req'[o].solo
         PROVE  SoloFit(req'[o], subs', dids')
    <2>1. CASE o = p
      <3>1. n.calls # <<>> /\ req[p].solo /\ req'[p] = n
        BY <1>7, <1>8, <1>12, <2>1, Zenon
      <3>2. SoloFit(req[p], subs, dids)
        BY <1>6, <3>1, Zenon DEF SInv
      <3>3. QED
        BY <1>4, <2>1, <3>1, <3>2 DEF Carries
    <2>2. CASE o # p
      <3>1. o \in Busy /\ o \in Proc
        BY <1>5 DEF Busy
      <3>2. req[o].solo
        BY <1>7, <1>12, <2>2, <3>1, Zenon
      <3>3. o = p
        BY <1>1, <1>6, <3>1, <3>2, Zenon DEF WInv, SoloAlone
      <3>4. QED
        BY <2>2, <3>3
    <2>3. QED
      BY <2>1, <2>2
  <1>13. QED
    BY <1>5, <1>10, <1>11, <1>12, Zenon DEF SInv

(* The first call of a handler *)
Opens(q) ==
  LET c == Head(q.calls) IN
  /\ c \in {"checkTaken", "find", "adminRead", "readAll", "listSubs", "listDids", "checkOther",
            "replace", "readOwn", "putSub", "pdsCreate", "session", "pdsDelete"}
  /\ c = "putSub" => q.op = "setHandle"
  /\ q.op \in Dropping => c \in {"readAll", "readOwn", "pdsDelete"}
  /\ q.op \in Looking => c \in {"checkTaken", "checkOther", "pdsCreate"}

LEMMA OpensFit ==
  ASSUME NEW n, Opens(n), NEW sb, NEW ds
  PROVE  /\ AllBut({}, sb, ds) => Fit(n, sb, ds)
         /\ Checked(n, sb) /\ SoloFit(n, sb, ds)
  <1>1. AllBut({}, sb, ds) => AllBut(Loose(n), sb, ds)
    BY DEF AllBut
  <1>2. CopyFit(n, ds)
    BY DEF Opens, CopyFit
  <1>3. WrittenFit(n, sb, ds)
    BY DEF Opens, WrittenFit, Granting
  <1>4. DropFit(n, sb, ds) /\ ImportFit(n, sb, ds)
    BY DEF Opens, DropFit, ImportFit
  <1>5. Checked(n, sb) /\ SoloFit(n, sb, ds)
    BY DEF Opens, Checked, SoloFit
  <1>6. QED
    BY <1>1, <1>2, <1>3, <1>4, <1>5 DEF Fit

Enters(op, calls, q) ==
  /\ op \in AllOps /\ calls \in Seq(Call) /\ q \in Request
  /\ \A n : /\ n.op = op /\ n.calls = calls
            /\ n.did = q.did /\ n.sub = q.sub /\ n.old = q.old
            => Scripted(n) /\ Named(n) /\ Opens(n)

LEMMA ComesIn ==
  ASSUME SInv, IInv', NEW p \in Proc, NEW op, NEW calls, NEW q, Receive(p, op, calls, q),
         Enters(op, calls, q)
  PROVE  SInv'
  <1> DEFINE n == [q EXCEPT !.op = op, !.calls = calls, !.solo = Quiet]
             m(o) == [req[o] EXCEPT !.solo = FALSE]
  <1>1. WInv /\ IInv /\ req \in [Proc -> Request] /\ \A o \in Proc : Placed(req[o])
    BY DEF SInv, WInv, IInv
  <1>2. /\ n.op = op /\ n.calls = calls /\ n.solo = Quiet
        /\ n.did = q.did /\ n.sub = q.sub /\ n.old = q.old
    BY DEF Enters, Request
  <1>3. \A o \in Proc : LET r == req[o] IN
          /\ m(o).op = r.op /\ m(o).calls = r.calls /\ m(o).solo = FALSE
          /\ m(o).did = r.did /\ m(o).sub = r.sub /\ m(o).old = r.old
    BY <1>1 DEF Request
  <1>4. \A o \in Proc : req'[o] = IF o = p THEN n ELSE m(o)
    BY DEF Receive
  <1>5. /\ calm' = (calm /\ Quiet) /\ subs' = subs /\ dids' = dids /\ cut' = cut
        /\ req[p].op = None
    BY DEF Receive
  <1> HIDE DEF n, m
  <1>6. Scripted(n) /\ Named(n) /\ Opens(n) /\ n.op # None
    <2>1. op # None
      BY NoneAssumption DEF Enters
    <2>2. QED
      BY <1>2, <2>1, Zenon DEF Enters
  <1>7. \A o \in Proc : Placed(req'[o])
    <2>1. Placed(n)
      BY <1>6 DEF Placed
    <2>2. ASSUME NEW o \in Proc
          PROVE  Placed(m(o))
      BY <1>1, <1>3, Alike DEF Placed
    <2>3. QED
      BY <1>4, <2>1, <2>2
  <1>8. Busy' = Busy \cup {p} /\ p \notin Busy
    BY <1>2, <1>3, <1>4, <1>5, <1>6 DEF Busy
  <1>9. OneByOne'
    BY <1>5, <1>8 DEF OneByOne, Quiet
  <1>10. ASSUME NEW a \in Busy', req'[a].solo
         PROVE  a = p /\ Busy = {} /\ req'[a] = n
    <2>1. a \in Proc
      BY DEF Busy
    <2>2. a = p
      BY <1>3, <1>4, <1>10, <2>1, Zenon
    <2>3. req'[a] = n
      BY <1>4, <2>1, <2>2
    <2>4. Quiet
      BY <1>2, <1>10, <2>3, Zenon
    <2>5. QED
      BY <2>2, <2>3, <2>4 DEF Quiet
  <1>11. SoloAlone'
    <2> SUFFICES ASSUME NEW a \in Busy', NEW b \in Busy', req'[a].solo
                 PROVE  a = b
      BY Zenon DEF SoloAlone
    <2>1. a = p /\ Busy = {}
      BY <1>10
    <2>2. QED
      BY <1>8, <2>1
  <1>12. WInv'
    BY <1>7, <1>9, <1>11 DEF WInv
  <1>13. ASSUME calm'
         PROVE  Busy' = {p} /\ Quiet /\ calm /\ req'[p] = n
    BY <1>4, <1>5, <1>8, <1>13 DEF Quiet
  <1>14. ASSUME Serial'
         PROVE  /\ \A o \in Busy' : Fit(req'[o], subs', dids')
                /\ Quiet' => AllBut({}, subs', dids')
    <2>1. Busy' = {p} /\ req'[p] = n /\ AllBut({}, subs, dids)
      BY <1>5, <1>13, <1>14 DEF SInv, Serial
    <2>2. Fit(n, subs, dids)
      BY <1>6, <2>1, OpensFit
    <2>3. QED
      BY <1>5, <2>1, <2>2 DEF Quiet
  <1>15. ASSUME calm', NEW o \in Busy'
         PROVE  Checked(req'[o], subs')
    BY <1>5, <1>6, <1>13, <1>15, OpensFit
  <1>16. ASSUME NEW o \in Busy', req'[o].solo
         PROVE  SoloFit(req'[o], subs', dids')
    BY <1>6, <1>10, <1>16, OpensFit
  <1>17. QED
    BY <1>12, <1>14, <1>15, <1>16, Zenon DEF SInv

LEMMA FirstCalls ==
  /\ Head(HandleRegister) = "checkTaken" /\ Head(HandleAdminAssignReserved) = "checkTaken"
  /\ Head(HandleDelete) = "find" /\ Head(HandleManage) = "find" /\ Head(<<"find">>) = "find"
  /\ Head(HandleAdminDeleteHandle) = "adminRead" /\ Head(HandleAdminDeleteAllForDid) = "readAll"
  /\ Head(HandleAdminBackfillDidRecords) = "listSubs" /\ Head(HandleAdminExportRegistry) = "listDids"
  /\ Head(HandleAdminImportRegistry) = "listDids"
  /\ Head(HandleInternalDidWebSync) = "checkOther" /\ Head(HandleClaim) = "checkOther"
  /\ Head(SetRegistryHandle) = "putSub" /\ Head(ChangeRegistryHandle) = "replace"
  /\ Head(DeleteRegistryForDid) = "readOwn" /\ Head(CreateAccount) = "pdsCreate"
  /\ Head(HandleProxyUpdateHandle) = "session" /\ Head(HandleProxyDeleteAccount) = "pdsDelete"
  BY Joined DEF HandleRegister, HandleAdminAssignReserved, HandleDelete, HandleManage,
     HandleAdminDeleteHandle, HandleAdminDeleteAllForDid, HandleAdminBackfillDidRecords,
     HandleAdminExportRegistry, HandleAdminImportRegistry, HandleInternalDidWebSync, HandleClaim,
     SetRegistryHandle, ChangeRegistryHandle, DeleteRegistryForDid, CreateAccount,
     HandleProxyUpdateHandle

LEMMA ComesInPublic ==
  ASSUME SInv, NEW p \in Proc, ReceivePublic(p)
  PROVE  SInv'
  <1>1. IInv'
    BY ReceivePublicStep DEF SInv, WInv
  <1>2. held \subseteq Key
    BY DEF SInv, WInv, IInv, Scene
  <1>3. HandleRegister \in From(HandleRegister) /\ HandleDelete \in From(HandleDelete)
        /\ HandleManage \in From(HandleManage) /\ <<"find">> \in From(<<"find">>)
    BY PublicHandlers, WholeFrom
  <1>4. ASSUME NEW d \in DID, NEW s \in Sub
        PROVE  Enters("register", HandleRegister, Asks(d, s))
    <2>1. Asks(d, s) \in Request /\ Asks(d, s).did = d /\ Asks(d, s).sub = s
      BY Asked
    <2>2. HandleRegister \in Seq(Call) /\ Head(HandleRegister) = "checkTaken"
      BY PublicHandlers, FirstCalls
    <2>3. QED
      BY <1>3, <2>1, <2>2
         DEF Enters, AllOps, Public, Scripted, Named, Opens, Granting, Dropping, Looking
  <1>5. ASSUME NEW k \in Key, NEW s \in Sub
        PROVE  /\ Enters("delete", HandleDelete, Shows(k, s))
               /\ Enters("manage", HandleManage, Shows(k, s))
    <2>1. Shows(k, s) \in Request /\ Shows(k, s).sub = s
      <3>1. NoRequest \in Request
        BY IdleFine
      <3>2. QED
        BY <3>1 DEF Shows, Request
    <2>2. /\ HandleDelete \in Seq(Call) /\ Head(HandleDelete) = "find"
          /\ HandleManage \in Seq(Call) /\ Head(HandleManage) = "find"
      BY PublicHandlers, FirstCalls
    <2>3. QED
      BY <1>3, <2>1, <2>2
         DEF Enters, AllOps, Public, Scripted, Named, Opens, Granting, Dropping, Looking
  <1>6. ASSUME NEW k \in Key
        PROVE  Enters("list", <<"find">>, Shows(k, None))
    <2>1. Shows(k, None) \in Request
      BY Shown
    <2> DEFINE calls == <<"find">>
    <2>2. calls \in Seq(Call) /\ Head(calls) = "find" /\ calls \in From(<<"find">>)
      BY <1>3, PublicHandlers, FirstCalls
    <2> HIDE DEF calls
    <2>3. Enters("list", calls, Shows(k, None))
      BY <2>1, <2>2
         DEF Enters, AllOps, Public, Scripted, Named, Opens, Granting, Dropping, Looking
    <2>4. QED
      BY <2>3 DEF calls
  <1>7. QED
    BY <1>1, <1>2, <1>4, <1>5, <1>6, ComesIn DEF ReceivePublic

LEMMA ComesInAdmin ==
  ASSUME SInv, NEW p \in Proc, ReceiveAdmin(p)
  PROVE  SInv'
  <1>1. IInv'
    BY ReceiveAdminStep DEF SInv, WInv
  <1>2. backup \in Files
    BY DEF SInv, WInv, IInv, Stores
  <1>3. /\ HandleAdminDeleteHandle \in From(HandleAdminDeleteHandle)
        /\ HandleAdminDeleteAllForDid \in From(HandleAdminDeleteAllForDid)
        /\ HandleAdminBackfillDidRecords \in From(HandleAdminBackfillDidRecords)
        /\ HandleAdminExportRegistry \in From(HandleAdminExportRegistry)
        /\ HandleAdminImportRegistry \in From(HandleAdminImportRegistry)
        /\ HandleAdminAssignReserved \in From(HandleRegister)
    <2>1. HandleAdminAssignReserved = HandleRegister
      BY DEF HandleAdminAssignReserved, HandleRegister
    <2>2. QED
      BY <2>1, AdminHandlers, WholeFrom
  <1>4. ASSUME NEW d \in DID, NEW s \in Sub
        PROVE  /\ Enters("assign", HandleAdminAssignReserved, Asks(d, s))
               /\ Enters("adminDelete", HandleAdminDeleteHandle, Asks(d, s))
    <2>1. Asks(d, s) \in Request /\ Asks(d, s).did = d /\ Asks(d, s).sub = s
      BY Asked
    <2>2. /\ HandleAdminAssignReserved \in Seq(Call) /\ Head(HandleAdminAssignReserved) = "checkTaken"
          /\ HandleAdminDeleteHandle \in Seq(Call) /\ Head(HandleAdminDeleteHandle) = "adminRead"
      BY AdminHandlers, FirstCalls
    <2>3. QED
      BY <1>3, <2>1, <2>2
         DEF Enters, AllOps, Admin, Scripted, Named, Opens, Granting, Dropping, Looking
  <1>5. ASSUME NEW d \in DID
        PROVE  Enters("adminDrop", HandleAdminDeleteAllForDid, Asks(d, None))
    <2>1. Asks(d, None) \in Request /\ Asks(d, None).did = d
      BY Asked
    <2>2. HandleAdminDeleteAllForDid \in Seq(Call) /\ Head(HandleAdminDeleteAllForDid) = "readAll"
      BY AdminHandlers, FirstCalls
    <2>3. QED
      BY <1>3, <2>1, <2>2
         DEF Enters, AllOps, Admin, Scripted, Named, Opens, Granting, Dropping, Looking
  <1>6. /\ Enters("backfill", HandleAdminBackfillDidRecords, NoRequest)
        /\ Enters("export", HandleAdminExportRegistry, NoRequest)
    <2>1. NoRequest \in Request
      BY IdleFine
    <2>2. /\ HandleAdminBackfillDidRecords \in Seq(Call)
          /\ Head(HandleAdminBackfillDidRecords) = "listSubs"
          /\ HandleAdminExportRegistry \in Seq(Call) /\ Head(HandleAdminExportRegistry) = "listDids"
      BY AdminHandlers, FirstCalls
    <2>3. QED
      BY <1>3, <2>1, <2>2
         DEF Enters, AllOps, Admin, Scripted, Named, Opens, Granting, Dropping, Looking
  <1>7. Enters("import", HandleAdminImportRegistry, [NoRequest EXCEPT !.file = backup])
    <2> DEFINE q == [NoRequest EXCEPT !.file = backup]
    <2>1. q \in Request
      BY <1>2, IdleFine, WithFile
    <2>2. HandleAdminImportRegistry \in Seq(Call) /\ Head(HandleAdminImportRegistry) = "listDids"
      BY AdminHandlers, FirstCalls
    <2> HIDE DEF q
    <2>3. Enters("import", HandleAdminImportRegistry, q)
      BY <1>3, <2>1, <2>2
         DEF Enters, AllOps, Admin, Scripted, Named, Opens, Granting, Dropping, Looking
    <2>4. QED
      BY <2>3 DEF q
  <1>8. QED
    BY <1>1, <1>4, <1>5, <1>6, <1>7, ComesIn DEF ReceiveAdmin

LEMMA ComesInInternal ==
  ASSUME SInv, NEW p \in Proc, ReceiveInternal(p)
  PROVE  SInv'
  <1>1. IInv'
    BY ReceiveInternalStep DEF SInv, WInv
  <1>2. /\ HandleInternalDidWebSync \in From(HandleInternalDidWebSync)
        /\ HandleClaim \in From(HandleClaim) /\ SetRegistryHandle \in From(SetRegistryHandle)
        /\ ChangeRegistryHandle \in From(ChangeRegistryHandle)
        /\ DeleteRegistryForDid \in From(DeleteRegistryForDid)
    BY BridgeHandlers, WholeFrom
  <1>3. ASSUME NEW d \in DID, NEW s \in Sub
        PROVE  /\ Enters("sync", HandleInternalDidWebSync, Asks(d, s))
               /\ Enters("claim", HandleClaim, Asks(d, s))
               /\ Enters("setHandle", SetRegistryHandle, Asks(d, s))
    <2>1. Asks(d, s) \in Request /\ Asks(d, s).did = d /\ Asks(d, s).sub = s
      BY Asked
    <2>2. /\ HandleInternalDidWebSync \in Seq(Call) /\ Head(HandleInternalDidWebSync) = "checkOther"
          /\ HandleClaim \in Seq(Call) /\ Head(HandleClaim) = "checkOther"
          /\ SetRegistryHandle \in Seq(Call) /\ Head(SetRegistryHandle) = "putSub"
      BY BridgeHandlers, FirstCalls
    <2>3. QED
      BY <1>2, <2>1, <2>2
         DEF Enters, AllOps, Internal, Scripted, Named, Opens, Granting, Dropping, Looking
  <1>4. ASSUME NEW d \in DID, NEW s \in Sub, NEW o \in Sub
        PROVE  Enters("changeHandle", ChangeRegistryHandle, [Asks(d, s) EXCEPT !.old = o])
    <2> DEFINE a == Asks(d, s) q == [a EXCEPT !.old = o]
    <2>1. a \in Request /\ a.did = d /\ a.sub = s
      BY Asked
    <2> HIDE DEF a
    <2>2. q \in Request /\ q.did = d /\ q.sub = s /\ q.old = o
      BY <2>1 DEF Request
    <2>3. ChangeRegistryHandle \in Seq(Call) /\ Head(ChangeRegistryHandle) = "replace"
      BY BridgeHandlers, FirstCalls
    <2> HIDE DEF q
    <2>4. Enters("changeHandle", ChangeRegistryHandle, q)
      BY <1>2, <2>2, <2>3
         DEF Enters, AllOps, Internal, Scripted, Named, Opens, Granting, Dropping, Looking
    <2>5. QED
      BY <2>4 DEF q, a
  <1>5. ASSUME NEW d \in DID
        PROVE  Enters("accountDeleted", DeleteRegistryForDid, Asks(d, None))
    <2>1. Asks(d, None) \in Request /\ Asks(d, None).did = d
      BY Asked
    <2>2. DeleteRegistryForDid \in Seq(Call) /\ Head(DeleteRegistryForDid) = "readOwn"
      BY BridgeHandlers, FirstCalls
    <2>3. QED
      BY <1>2, <2>1, <2>2
         DEF Enters, AllOps, Internal, Scripted, Named, Opens, Granting, Dropping, Looking
  <1>6. \A d \in DID : accounts[d] \in Sub \cup {None, Elsewhere}
    BY DEF SInv, WInv, IInv, Scene
  <1>7. QED
    BY <1>1, <1>3, <1>4, <1>5, <1>6, ComesIn
       DEF ReceiveInternal, ReceiveDidWebSync, ReceiveClaim, ReceiveSetHandle,
           ReceiveChangeHandle, ReceiveAccountDeleted

LEMMA ComesInProxied ==
  ASSUME SInv, NEW p \in Proc, ReceiveProxied(p)
  PROVE  SInv'
  <1>1. IInv'
    BY ReceiveProxiedStep DEF SInv, WInv
  <1>2. /\ CreateAccount \in From(CreateAccount) /\ CreateAccount \in Seq(Call)
        /\ HandleProxyUpdateHandle \in From(HandleProxyUpdateHandle)
        /\ HandleProxyDeleteAccount \in From(HandleProxyDeleteAccount)
    BY ProxiedHandlers, WholeFrom
  <1>3. ASSUME NEW s \in Sub
        PROVE  Enters("signup", CreateAccount, Asks(None, s))
    <2>1. Asks(None, s) \in Request /\ Asks(None, s).sub = s
      BY Asked
    <2>2. QED
      BY <1>2, <2>1, FirstCalls
         DEF Enters, AllOps, Proxied, Scripted, Named, Opens, Granting, Dropping, Looking
  <1>4. ASSUME NEW d \in DID, NEW h \in Sub \cup {Elsewhere}
        PROVE  Enters("updateHandle", HandleProxyUpdateHandle, Asks(d, h))
    <2>1. Asks(d, h) \in Request /\ Asks(d, h).did = d
      BY Asked
    <2>2. HandleProxyUpdateHandle \in Seq(Call) /\ Head(HandleProxyUpdateHandle) = "session"
      BY ProxiedHandlers, FirstCalls
    <2>3. QED
      BY <1>2, <2>1, <2>2
         DEF Enters, AllOps, Proxied, Scripted, Named, Opens, Granting, Dropping, Looking
  <1>5. ASSUME NEW d \in DID
        PROVE  Enters("deleteAccount", HandleProxyDeleteAccount, Asks(d, None))
    <2>1. Asks(d, None) \in Request /\ Asks(d, None).did = d
      BY Asked
    <2>2. HandleProxyDeleteAccount \in Seq(Call) /\ Head(HandleProxyDeleteAccount) = "pdsDelete"
      BY ProxiedHandlers, FirstCalls
    <2>3. QED
      BY <1>2, <2>1, <2>2
         DEF Enters, AllOps, Proxied, Scripted, Named, Opens, Granting, Dropping, Looking
  <1>6. HandleSignupRequest = CreateAccount
    BY Joined
  <1>7. QED
    BY <1>1, <1>3, <1>4, <1>5, <1>6, ComesIn DEF ReceiveProxied

LEMMA CutSInv ==
  ASSUME SInv, NEW p \in Proc, CutShort(p)
  PROVE  SInv'
  <1> DEFINE q == req[p] n == [q EXCEPT !.calls = <<"pdsUpdate">>]
  <1>1. WInv /\ IInv /\ IInv'
    BY CutShortStep DEF SInv, WInv
  <1>2. /\ subs' = subs /\ dids' = dids /\ calm' = calm /\ cut' = cut \cup LeftBehind(q.op)
        /\ q.op # None
    BY DEF CutShort
  <1>3. q \in Request /\ q.op \in AllOps /\ Placed(q) /\ p \in Busy
    BY <1>1, <1>2 DEF WInv, IInv, Busy, Request
  <1>4. \E u : /\ Onward(p, u)
               /\ u.calls # <<>> => Head(u.calls) = "pdsUpdate" /\ u.op = "updateHandle"
    <2>1. CASE Answer(p)
      <3>1. NoRequest.calls = <<>> /\ NoRequest \in Request
        <4>1. NoRequest.calls = <<>>
          BY DEF NoRequest
        <4>2. QED
          BY <4>1, IdleFine
      <3>2. Go(p, NoRequest)
        BY <2>1, <3>1 DEF Go, Answer
      <3>3. QED
        BY <3>1, <3>2 DEF Onward
    <2>2. CASE q.op = "updateHandle" /\ Go(p, n)
      <3>1. <<"pdsUpdate">> \in Seq(Call) /\ Head(<<"pdsUpdate">>) = "pdsUpdate"
        <4>1. "pdsUpdate" \in Call
          BY DEF Call
        <4>2. QED
          BY <4>1, Prefixes
      <3>2. /\ n \in Request /\ n.calls = <<"pdsUpdate">>
            /\ n.solo = q.solo /\ n.op = q.op /\ n.did = q.did
        BY <1>3, <3>1, WithCalls
      <3>3. <<"pdsUpdate">> \in From(HandleProxyUpdateHandle)
        <4> DEFINE s == HandleProxyUpdateHandle
        <4>1. s \in Seq(Call) /\ Len(s) = 2 /\ Tail(s) = <<"pdsUpdate">>
          BY ProxiedHandlers DEF HandleProxyUpdateHandle
        <4>2. s # <<>> /\ s \in From(s)
          BY <4>1, WholeFrom, ProxiedHandlers
        <4>3. <<"pdsUpdate">> # <<>>
          OBVIOUS
        <4> HIDE DEF s
        <4>4. Tail(s) \in From(s)
          BY <4>1, <4>2, <4>3, TailFrom
        <4>5. QED
          BY <4>1, <4>4 DEF s
      <3> DEFINE calls == <<"pdsUpdate">>
      <3>4. n.calls = calls /\ calls \in From(HandleProxyUpdateHandle) /\ Head(calls) = "pdsUpdate"
        BY <3>1, <3>2, <3>3
      <3> HIDE DEF n, q, calls
      <3>5. Scripted(n)
        BY <2>2, <3>2, <3>4 DEF Scripted, Granting
      <3>6. Named(n)
        BY <1>3, <2>2, <3>2, <3>4, NoneAssumption DEF Named, Placed
      <3>7. Onward(p, n)
        BY <2>2, <3>2, <3>5, <3>6, Zenon DEF Onward, q
      <3>8. Head(n.calls) = "pdsUpdate" /\ n.op = "updateHandle"
        BY <2>2, <3>2, <3>4
      <3>9. QED
        BY <3>7, <3>8
    <2>3. QED
      BY <2>1, <2>2 DEF CutShort
  <1>5. PICK u : /\ Onward(p, u)
                 /\ u.calls # <<>> => Head(u.calls) = "pdsUpdate" /\ u.op = "updateHandle"
    BY <1>4
  <1>6. WInv' /\ Busy' \subseteq Busy
    BY <1>1, <1>2, <1>5, GoesOnPlaced
  <1>7. /\ \A o \in Proc \ {p} : req'[o] = req[o]
        /\ u.calls = <<>> => req'[p] = NoRequest /\ req'[p].op = None
        /\ u.calls # <<>> => req'[p] = u /\ u.op = q.op
    <2>1. /\ Go(p, u) /\ u \in Request /\ (u.calls # <<>> => u.op = q.op)
      BY <1>5, Zenon DEF Onward
    <2>2. req \in [Proc -> Request]
      BY <1>1 DEF IInv
    <2>3. QED
      BY <2>1, <2>2, OneGoes
  <1>8. p \in Busy' => /\ u.calls # <<>> /\ req'[p] = u
                       /\ Head(u.calls) = "pdsUpdate" /\ u.op = "updateHandle"
    BY <1>5, <1>7 DEF Busy
  <1> HIDE DEF q
  <1>9. ASSUME NEW sb, NEW ds, u.calls # <<>>
        PROVE  /\ AllBut({}, sb, ds) => Fit(u, sb, ds)
               /\ Checked(u, sb) /\ SoloFit(u, sb, ds)
    <2>1. Head(u.calls) = "pdsUpdate" /\ u.op = "updateHandle"
      BY <1>5, <1>9
    <2>3. Loose(u) = {}
      BY <2>1 DEF Loose
    <2>4. CopyFit(u, ds) /\ WrittenFit(u, sb, ds) /\ DropFit(u, sb, ds) /\ ImportFit(u, sb, ds)
      BY <2>1 DEF CopyFit, WrittenFit, DropFit, ImportFit, Granting, Dropping
    <2>5. Checked(u, sb) /\ SoloFit(u, sb, ds)
      BY <2>1 DEF Checked, SoloFit, Looking
    <2>6. QED
      BY <2>3, <2>4, <2>5 DEF Fit
  <1>10. calm => Busy = {p}
    BY <1>1, <1>3 DEF WInv, OneByOne
  <1>11. ASSUME Serial'
         PROVE  /\ \A o \in Busy' : Fit(req'[o], subs', dids')
                /\ Quiet' => AllBut({}, subs', dids')
    <2>1. q.op \in SafeToCut /\ Serial /\ Busy = {p}
      BY <1>2, <1>10, <1>11 DEF Serial, LeftBehind
    <2>2. AllBut(Loose(q), subs, dids)
      BY <1>3, <2>1 DEF SInv, Fit, q
    <2>3. Loose(q) = {}
      BY <2>1 DEF Loose, SafeToCut
    <2>4. AllBut({}, subs', dids')
      BY <1>2, <2>2, <2>3
    <2>5. \A o \in Busy' : o = p
      BY <1>6, <2>1
    <2>6. QED
      BY <1>8, <1>9, <2>4, <2>5
  <1>12. ASSUME calm', NEW o \in Busy'
         PROVE  Checked(req'[o], subs')
    <2>1. o = p
      BY <1>2, <1>6, <1>10, <1>12
    <2>2. QED
      BY <1>8, <1>9, <2>1
  <1>13. ASSUME NEW o \in Busy', req'[o].solo
         PROVE  SoloFit(req'[o], subs', dids')
    <2>1. CASE o = p
      BY <1>8, <1>9, <2>1
    <2>2. CASE o # p
      <3>1. o \in Busy /\ o \in Proc /\ req'[o] = req[o]
        BY <1>6, <1>7, <2>2 DEF Busy
      <3>2. req[o].solo
        BY <1>13, <3>1, Zenon
      <3>3. o = p
        BY <1>1, <1>3, <3>1, <3>2, Zenon DEF WInv, SoloAlone
      <3>4. QED
        BY <2>2, <3>3
    <2>3. QED
      BY <2>1, <2>2
  <1>14. QED
    BY <1>6, <1>11, <1>12, <1>13, Zenon DEF SInv

LEMMA NextSInv == SInv /\ [Next]_vars => SInv'
  <1> SUFFICES ASSUME SInv, [Next]_vars
               PROVE  SInv'
    OBVIOUS
  <1>1. ASSUME NEW p \in Proc,
               \/ ReceivePublic(p) \/ ReceiveAdmin(p) \/ ReceiveInternal(p)
               \/ ReceiveProxied(p) \/ Serve(p) \/ CutShort(p)
        PROVE  SInv'
    BY <1>1, ComesInPublic, ComesInAdmin, ComesInInternal, ComesInProxied, ServeSInv, CutSInv
  <1>2. CASE UNCHANGED vars
    <2>1. IInv'
      BY <1>2, NextIInv DEF SInv, WInv
    <2>2. /\ subs' = subs /\ dids' = dids /\ req' = req /\ calm' = calm /\ cut' = cut
      BY <1>2 DEF vars
    <2>3. Busy' = Busy
      BY <2>2 DEF Busy
    <2>4. WInv'
      BY <2>1, <2>2, <2>3, Zenon DEF SInv, WInv, OneByOne, SoloAlone
    <2>5. Serial' = Serial /\ Quiet' = Quiet
      BY <2>2, <2>3 DEF Serial, Quiet
    <2>6. QED
      BY <2>2, <2>3, <2>4, <2>5, Zenon DEF SInv
  <1>3. QED
    BY <1>1, <1>2 DEF Next

LEMMA AlwaysSInv == Spec => []SInv
  BY InitSInv, NextSInv, PTL DEF Spec

-----------------------------------------------------------------------------
(* Which step it was *)

LEMMA Calling ==
  ASSUME NEW p \in Proc, Serve(p)
  PROVE  LET c == Head(req[p].calls) IN
         \/ (c = "putSub" /\ PutSub(p)) \/ (c = "deleteSub" /\ DeleteSub(p))
         \/ (c = "putDid" /\ PutDid(p)) \/ (c = "saveDid" /\ SaveDid(p))
         \/ (c = "deleteDid" /\ DeleteDid(p)) \/ (c = "log" /\ LogActivity(p))
         \/ (c = "deleteAll" /\ DeleteAll(p)) \/ (c = "deleteOwn" /\ DeleteOwn(p))
         \/ (c = "deleteOld" /\ DeleteOld(p)) \/ (c = "addHandle" /\ AddHandle(p))
         \/ (c = "listSubs" /\ ListSubs(p)) \/ (c = "fill" /\ Fill(p))
         \/ (c = "wipe" /\ Wipe(p)) \/ (c = "restoreSubs" /\ RestoreSubs(p))
         \/ (c \in {"readAll", "readOwn"} /\ ReadAll(p))
         \/ /\ c \in {"checkTaken", "checkOther", "grant", "find", "adminRead", "adminCheck",
                      "replace", "checkOld", "listDids", "dump", "restore", "session",
                      "pdsCreate", "pdsUpdate", "pdsDelete"}
            /\ subs' = subs /\ dids' = dids
  <1> DEFINE c == Head(req[p].calls)
  <1>1. \A e : At(p, e) => c = e
    BY DEF At
  <1> HIDE DEF c
  <1>2. Reads(p) => subs' = subs /\ dids' = dids
    BY DEF Reads
  <1>3. /\ PutSub(p) => c = "putSub"
        /\ DeleteSub(p) => c = "deleteSub"
        /\ PutDid(p) => c = "putDid"
        /\ SaveDid(p) => c = "saveDid"
        /\ DeleteDid(p) => c = "deleteDid"
        /\ LogActivity(p) => c = "log"
        /\ DeleteAll(p) => c = "deleteAll"
        /\ DeleteOwn(p) => c = "deleteOwn"
        /\ DeleteOld(p) => c = "deleteOld"
    BY <1>1, Zenon DEF PutSub, DeleteSub, PutDid, SaveDid, DeleteDid, LogActivity, DeleteAll,
                       DeleteOwn, DeleteOld
  <1>4. /\ AddHandle(p) => c = "addHandle"
        /\ ListSubs(p) => c = "listSubs"
        /\ Fill(p) => c = "fill"
        /\ Wipe(p) => c = "wipe"
        /\ RestoreSubs(p) => c = "restoreSubs"
    BY <1>1, Zenon DEF AddHandle, ListSubs, Fill, Wipe, RestoreSubs
  <1>5. CASE ReadAll(p)
    BY <1>1, <1>5 DEF ReadAll, c
  <1>6. CASE CheckTaken(p) \/ CheckOther(p) \/ AdminCheck(p) \/ PdsRefuses(p)
    <2>1. Reads(p)
      BY <1>6 DEF CheckTaken, CheckOther, AdminCheck, PdsRefuses
    <2>2. c \in {"checkTaken", "checkOther", "adminCheck", "pdsCreate", "pdsUpdate", "pdsDelete"}
      BY <1>1, <1>6 DEF CheckTaken, CheckOther, AdminCheck, PdsRefuses
    <2>3. QED
      BY <1>2, <2>1, <2>2 DEF c
  <1>7. CASE \/ FindDidBySecretHash(p) \/ AdminRead(p) \/ Replace(p) \/ CheckOld(p)
             \/ ListDids(p) \/ Restore(p) \/ GetSession(p)
    <2>1. Reads(p)
      BY <1>7, Zenon DEF FindDidBySecretHash, AdminRead, Replace, CheckOld, ListDids, Restore,
                  GetSession
    <2>2. \/ c = "find" \/ c = "adminRead" \/ c = "replace" \/ c = "checkOld" \/ c = "listDids"
          \/ c = "restore" \/ c = "session"
      BY <1>1, <1>7, Zenon DEF FindDidBySecretHash, AdminRead, Replace, CheckOld, ListDids, Restore,
                  GetSession
    <2>3. QED
      BY <1>2, <2>1, <2>2 DEF c
  <1>8. CASE \/ Grant(p) \/ Dump(p) \/ PdsCreatesAccount(p) \/ PdsUpdatesHandle(p)
             \/ PdsDeletesAccount(p)
    <2>1. subs' = subs /\ dids' = dids
      <3>1. CASE Grant(p)
        <4>1. UNCHANGED <<subs, dids, accounts, backup, held, exempt, calm, cut, faults>>
          BY <3>1, Zenon DEF Grant
        <4>2. QED
          BY <4>1
      <3>2. CASE Dump(p)
        <4>1. UNCHANGED <<subs, dids, accounts, issued, held, exempt, calm, cut, faults>>
          BY <3>2, Zenon DEF Dump
        <4>2. QED
          BY <4>1
      <3>3. CASE PdsCreatesAccount(p) \/ PdsUpdatesHandle(p) \/ PdsDeletesAccount(p)
        <4>1. UNCHANGED <<subs, dids, backup, issued, held, exempt, calm, cut, faults>>
          BY <3>3, Zenon DEF PdsCreatesAccount, PdsUpdatesHandle, PdsDeletesAccount
        <4>2. QED
          BY <4>1
      <3>4. QED
        BY <1>8, <3>1, <3>2, <3>3
    <2>2. c = "grant" \/ c = "dump" \/ c = "pdsCreate" \/ c = "pdsUpdate" \/ c = "pdsDelete"
      BY <1>1, <1>8, Zenon DEF Grant, Dump, PdsCreatesAccount, PdsUpdatesHandle, PdsDeletesAccount
    <2>3. QED
      BY <2>1, <2>2 DEF c
  <1>9. QED
    BY <1>3, <1>4, <1>5, <1>6, <1>7, <1>8 DEF Serve, c

LEMMA Arriving ==
  ASSUME NEW p \in Proc,
         ReceivePublic(p) \/ ReceiveAdmin(p) \/ ReceiveInternal(p) \/ ReceiveProxied(p)
  PROVE  \E op, calls, q : Receive(p, op, calls, q)
  <1>1. ReceivePublic(p) => \E op, calls, q : Receive(p, op, calls, q)
    BY Zenon DEF ReceivePublic
  <1>2. ReceiveAdmin(p) => \E op, calls, q : Receive(p, op, calls, q)
    BY Zenon DEF ReceiveAdmin
  <1>3. ReceiveInternal(p) => \E op, calls, q : Receive(p, op, calls, q)
    BY Zenon DEF ReceiveInternal, ReceiveDidWebSync, ReceiveClaim, ReceiveSetHandle,
              ReceiveChangeHandle, ReceiveAccountDeleted
  <1>4. ReceiveProxied(p) => \E op, calls, q : Receive(p, op, calls, q)
    BY Zenon DEF ReceiveProxied
  <1>5. QED
    BY <1>1, <1>2, <1>3, <1>4

LEMMA ArrivingKeeps ==
  ASSUME WInv, NEW p \in Proc, NEW op, NEW calls, NEW q, Receive(p, op, calls, q)
  PROVE  /\ subs' = subs /\ dids' = dids /\ req[p].op = None
         /\ \A o \in Proc \ {p} : req'[o].op = req[o].op
  <1>1. \A o \in Proc : req[o] \in Request
    BY DEF WInv, IInv
  <1>2. \A o \in Proc : [req[o] EXCEPT !.solo = FALSE].op = req[o].op
    BY <1>1 DEF Request
  <1>3. \A o \in Proc \ {p} : req'[o] = [req[o] EXCEPT !.solo = FALSE]
    BY DEF Receive
  <1>4. QED
    BY <1>2, <1>3 DEF Receive

(* Whoever is answered now made its last call now. *)
LEMMA Ending ==
  ASSUME WInv, [Next]_vars, NEW p \in Proc, req[p].op # None, req'[p].op = None, faults' = faults
  PROVE  Serve(p)
  <1>1. req' # req
    OBVIOUS
  <1>2. PICK o \in Proc : \/ ReceivePublic(o) \/ ReceiveAdmin(o) \/ ReceiveInternal(o)
                          \/ ReceiveProxied(o) \/ Serve(o) \/ CutShort(o)
    BY <1>1 DEF Next, vars
  <1>3. ~CutShort(o)
    <2>1. faults \in Nat
      BY DEF WInv, IInv, Scene
    <2>2. CutShort(o) => faults' = faults + 1
      BY DEF CutShort
    <2>3. QED
      BY <2>1, <2>2
  <1>4. ~(ReceivePublic(o) \/ ReceiveAdmin(o) \/ ReceiveInternal(o) \/ ReceiveProxied(o))
    BY Arriving, ArrivingKeeps
  <1>5. Serve(o) => o = p
    <2> SUFFICES ASSUME Serve(o), o # p
                 PROVE  FALSE
      OBVIOUS
    <2>1. PICK n : Onward(o, n)
      BY ServeGoes
    <2>2. Go(o, n) /\ n \in Request /\ req \in [Proc -> Request]
      BY <2>1, Zenon DEF Onward, WInv, IInv
    <2>3. req'[p] = req[p]
      BY <2>2, OneGoes
    <2>4. QED
      BY <2>3
  <1>6. QED
    BY <1>2, <1>3, <1>4, <1>5

(* A request with calls left has not been answered. *)
LEMMA NotOver ==
  ASSUME WInv, NEW p \in Proc, NEW n, Go(p, n), n.calls # <<>>, n.op # None
  PROVE  req'[p].op # None
  BY DEF Go, WInv, IInv

LEMMA MovedNotOver ==
  ASSUME WInv, NEW p \in Proc, req[p].op # None, NEW n, Go(p, n),
         Moved(req[p], n), After(req[p].calls) # "end"
  PROVE  req'[p].op # None
  <1>1. n.calls # <<>> /\ n.op # None
    BY DEF Moved
  <1>2. QED
    BY <1>1, NotOver

LEMMA BackfillEnds ==
  ASSUME WInv, NEW p \in Proc, Serve(p), req[p].op = "backfill", req'[p].op = None
  PROVE  /\ Head(req[p].calls) = "fill" /\ req[p].todo = {}
         /\ subs' = subs /\ dids' = dids
  <1> DEFINE q == req[p] c == Head(q.calls) e == After(q.calls) t == Rest(q)
  <1>1. PICK a : At(p, a)
    BY ServeKeeps, Zenon DEF At
  <1>2. Makes(q, c) /\ Scripted(q) /\ q \in Request /\ q.op # None /\ q.calls # <<>>
    <2>1. a = c
      BY <1>1 DEF At
    <2>2. QED
      BY <1>1, <2>1, Turn, Moving DEF Makes
  <1>3. \/ Goes(q.calls, "listSubs", "fill") \/ Goes(q.calls, "fill", "end")
        \/ Goes(q.calls, "addHandle", "putDid") \/ Goes(q.calls, "putDid", "fill")
    <2>1. q.op = "backfill" /\ q.op \in AllOps
      BY <1>2 DEF Makes
    <2> HIDE DEF q
    <2>2. QED
      BY <1>2, <2>1, Courses
  <1>4. t \in Request /\ t.op = q.op /\ (c \notin {"find", "pdsCreate"} => Moved(q, t))
        /\ t.todo = q.todo
    <2>1. c \notin {"find", "pdsCreate"} => Moved(q, t)
      BY <1>1, Moving DEF At
    <2>2. t \in Request /\ t.op = q.op /\ t.todo = q.todo
      BY <1>1, Turn
    <2>3. QED
      BY <2>1, <2>2
  <1>5. CASE c = "listSubs" \/ c = "putDid" \/ c = "addHandle"
    <2>1. ListSubs(p) \/ PutDid(p) \/ AddHandle(p)
      BY <1>5, Calling
    <2>2. e # "end" /\ Moved(q, t)
      BY <1>3, <1>4, <1>5 DEF Goes
    <2>3. \E n : Go(p, n) /\ Moved(q, n)
      <3>1. CASE PutDid(p)
        BY <2>2, <3>1 DEF PutDid
      <3>2. CASE ListSubs(p)
        <4> DEFINE w == {s \in Sub : subs[s] # None} n == [t EXCEPT !.todo = w]
        <4>1. w \in SUBSET (DID \cup Sub) /\ Go(p, n)
          BY <3>2 DEF ListSubs
        <4> HIDE DEF w, t
        <4>2. Moved(q, n)
          BY <1>4, <2>2, <4>1, MovedWith
        <4>3. QED
          BY <4>1, <4>2
      <3>3. CASE AddHandle(p)
        <4> DEFINE r == Added(dids[q.did], q.sub) n == [t EXCEPT !.rec = r]
        <4>1. Go(p, n)
          BY <3>3 DEF AddHandle
        <4>2. q.did \in DID /\ q.sub \in Sub
          <5>1. c = "addHandle"
            BY <3>3 DEF AddHandle, At
          <5>2. Named(q) /\ q.op = "backfill"
            BY <1>2 DEF Makes
          <5>3. QED
            BY <5>1, <5>2 DEF Named
        <4>3. r \in Record
          <5>1. dids[q.did] \in Record \cup {None}
            BY <4>2, Tables DEF WInv
          <5>2. QED
            BY <4>2, <5>1 DEF Added, NoRecord, Record
        <4> HIDE DEF r, t
        <4>4. Moved(q, n)
          BY <1>4, <2>2, <4>3, MovedWith
        <4>5. QED
          BY <4>1, <4>4
      <3>4. QED
        BY <2>1, <3>1, <3>2, <3>3
    <2>4. QED
      BY <1>2, <2>2, <2>3, MovedNotOver
  <1>6. CASE c = "fill"
    <2>1. Fill(p)
      BY <1>6, Calling
    <2>2. subs' = subs /\ dids' = dids
      <3>1. Reads(p)
        BY <2>1, Zenon DEF Fill
      <3>2. QED
        BY <3>1 DEF Reads
    <2>3. CASE q.todo = {}
      BY <1>6, <2>2, <2>3
    <2> DEFINE N(s) == LET left == [q EXCEPT !.todo = @ \ {s}] IN
                       IF subs[s] = None THEN left
                       ELSE [left EXCEPT !.did = subs[s], !.sub = s,
                                         !.calls = <<"addHandle", "putDid">> \o @]
    <2>4. ASSUME NEW s \in q.todo \cap Sub, Go(p, N(s))
          PROVE  FALSE
      <3> DEFINE n == N(s)
      <3>1. q.calls \in Seq(Call) /\ q.calls # <<>>
        BY <1>1, Turn
      <3>2. <<"addHandle", "putDid">> \o q.calls # <<>>
        <4>1. "addHandle" \in Call /\ "putDid" \in Call
          BY DEF Call
        <4>2. QED
          BY <3>1, <4>1, PushTwo
      <3> DEFINE more == <<"addHandle", "putDid">> \o q.calls
      <3>3. n.op = q.op /\ (n.calls = q.calls \/ n.calls = more)
        <4>1. q \in Request
          BY <1>2
        <4> HIDE DEF q
        <4>2. n = [q EXCEPT !.todo = @ \ {s}]
              \/ n = [q EXCEPT !.todo = @ \ {s}, !.did = subs[s], !.sub = s, !.calls = more]
          BY <4>1 DEF Request
        <4> HIDE DEF more, n
        <4>3. QED
          BY <4>1, <4>2 DEF Request
      <3> HIDE DEF more, n
      <3>4. n.calls # <<>> /\ n.op # None
        BY <1>2, <3>1, <3>2, <3>3 DEF more
      <3>5. QED
        BY <2>4, <3>4, NotOver DEF n
    <2>5. \/ q.todo = {}
          \/ \E s \in q.todo \cap Sub : Go(p, N(s))
      BY <2>1, Zenon DEF Fill
    <2> HIDE DEF N
    <2>6. QED
      BY <2>3, <2>4, <2>5
  <1>7. QED
    BY <1>3, <1>5, <1>6 DEF Goes

LEMMA DropEnds ==
  ASSUME WInv, NEW p \in Proc, Serve(p), req[p].op \in Dropping, req'[p].op = None,
         Fit(req[p], subs, dids), Head(req[p].calls) # "pdsDelete"
  PROVE  LET d == req[p].did IN dids'[d] = None /\ \A s \in Sub : subs'[s] # d
  <1> DEFINE q == req[p] c == Head(q.calls) e == After(q.calls) t == Rest(q) d == q.did
  <1>1. PICK a : At(p, a)
    BY ServeKeeps, Zenon DEF At
  <1>2. Makes(q, c) /\ Scripted(q) /\ q \in Request /\ q.op # None /\ q.calls # <<>>
    <2>1. a = c
      BY <1>1 DEF At
    <2>2. QED
      BY <1>1, <2>1, Turn, Moving DEF Makes
  <1>3. \/ c = "readAll" /\ e = "deleteAll"
        \/ c = "readOwn" /\ e = "deleteOwn"
        \/ c = "deleteAll" /\ e = "deleteDid"
        \/ c = "deleteOwn" /\ e = "deleteDid"
        \/ c = "deleteSub" /\ e = "deleteOwn"
        \/ c = "deleteDid"
        \/ c = "log"
    <2>1. q.op \in Dropping /\ q.op \in AllOps /\ c # "pdsDelete"
      BY <1>2 DEF Makes
    <2> HIDE DEF q
    <2>2. QED
      BY <1>2, <2>1, Courses DEF Goes, Dropping
  <1>4. t \in Request /\ t.op = q.op /\ (c \notin {"find", "pdsCreate"} => Moved(q, t))
    <2>1. c \notin {"find", "pdsCreate"} => Moved(q, t)
      BY <1>1, Moving DEF At
    <2>2. t \in Request /\ t.op = q.op
      BY <1>1, Turn
    <2>3. QED
      BY <2>1, <2>2
  <1>5. q.did \in DID
    <2>1. Named(q) /\ q.op \in Dropping
      BY <1>2 DEF Makes
    <2>2. QED
      BY <2>1 DEF Named, Dropping
  <1>6. /\ subs \in [Sub -> DID \cup {None}] /\ dids \in [DID -> Record \cup {None}]
        /\ None \notin DID /\ \A x \in DID : HandlesOf(dids[x]) \subseteq Sub
    BY Tables DEF WInv
  <1>7. CASE c \in {"readAll", "readOwn"}
    <2>1. ReadAll(p)
      BY <1>7, Calling
    <2>2. subs' = subs /\ dids' = dids
      <3>1. Reads(p)
        BY <2>1 DEF ReadAll
      <3>2. QED
        BY <3>1 DEF Reads
    <2>3. CASE dids[d] = None
      <3>1. Loose(q) = {}
        BY <1>7 DEF Loose, Dropping
      <3>2. AllBut({}, subs, dids)
        BY <3>1 DEF Fit
      <3>3. HandlesOf(dids[d]) = {}
        BY <2>3 DEF HandlesOf
      <3>4. \A s \in Sub : subs[s] # d
        BY <1>5, <1>6, <3>2, <3>3 DEF AllBut, Found
      <3>5. QED
        BY <2>2, <2>3, <3>4
    <2>4. CASE dids[d] # None
      <3> DEFINE w == dids[d].handles n == [t EXCEPT !.todo = w]
      <3>1. Go(p, n)
        BY <2>1, <2>4 DEF ReadAll
      <3>2. w \in SUBSET (DID \cup Sub)
        BY <1>5, <1>6, <2>4 DEF HandlesOf
      <3>3. Moved(q, t) /\ e # "end"
        BY <1>3, <1>4, <1>7
      <3> HIDE DEF w, t
      <3>4. Moved(q, n)
        BY <1>4, <3>2, <3>3, MovedWith
      <3>5. QED
        BY <1>2, <3>1, <3>3, <3>4, MovedNotOver
    <2>5. QED
      BY <2>3, <2>4
  <1>8. CASE c \in {"deleteAll", "deleteOwn"}
    <2>1. \E n : Go(p, n) /\ n.calls # <<>> /\ n.op # None
      <3>1. t.calls # <<>> /\ t.op # None
        BY <1>2, <1>3, <1>4, <1>8 DEF Moved
      <3>2. CASE DeleteAll(p)
        <4>1. \/ Go(p, t)
              \/ \E s \in q.todo : Go(p, [q EXCEPT !.todo = @ \ {s}])
          BY <3>2 DEF DeleteAll
        <4>2. \A s \in q.todo : LET n == [q EXCEPT !.todo = @ \ {s}] IN
                n.calls = q.calls /\ n.op = q.op
          BY <1>2 DEF Request
        <4>3. QED
          BY <1>2, <3>1, <4>1, <4>2
      <3>3. CASE DeleteOwn(p)
        <4> DEFINE more == <<"deleteSub">> \o q.calls
                   N(s) == [q EXCEPT !.todo = @ \ {s}, !.sub = s,
                              !.calls = IF subs[s] = d THEN <<"deleteSub">> \o @ ELSE @]
        <4>1. Go(p, t) \/ \E s \in q.todo \cap Sub : Go(p, N(s))
          BY <3>3, Zenon DEF DeleteOwn
        <4>2. q.calls \in Seq(Call)
          BY <1>1, Turn
        <4>3. more # <<>>
          <5>1. "deleteSub" \in Call
            BY DEF Call
          <5>2. QED
            BY <4>2, <5>1, Push
        <4> HIDE DEF more
        <4>4. ASSUME NEW s \in q.todo \cap Sub
              PROVE  N(s).op = q.op /\ N(s).calls \in {q.calls, more}
          <5>1. N(s).op = q.op
            BY <1>2 DEF Request
          <5>2. N(s).calls = IF subs[s] = d THEN more ELSE q.calls
            BY <1>2 DEF Request, more
          <5>3. QED
            BY <5>1, <5>2
        <4> HIDE DEF N
        <4>5. QED
          BY <1>2, <3>1, <4>1, <4>3, <4>4
      <3>4. QED
        BY <1>8, <3>2, <3>3, Calling
    <2>2. QED
      BY <2>1, NotOver
  <1>9. CASE c = "deleteSub"
    <2>1. Go(p, t)
      BY <1>9, Calling DEF DeleteSub
    <2>2. Moved(q, t) /\ e # "end"
      BY <1>3, <1>4, <1>9
    <2>3. QED
      BY <1>2, <2>1, <2>2, MovedNotOver
  <1>10. CASE c \in {"deleteDid", "log"}
    <2>1. subs' = subs /\ dids'[d] = None
      <3>1. CASE c = "deleteDid"
        BY <1>5, <1>6, <3>1, Calling DEF DeleteDid
      <3>2. CASE c = "log"
        <4>1. subs' = subs /\ dids' = dids
          BY <3>2, Calling DEF LogActivity
        <4>2. dids[d] = None
          BY <3>2 DEF Fit, DropFit
        <4>3. QED
          BY <4>1, <4>2
      <3>3. QED
        BY <1>10, <3>1, <3>2
    <2>2. Remaining(q) = {}
      BY <1>10 DEF Remaining
    <2>3. \A s \in Sub : subs[s] = d => s \in Remaining(q)
      BY <1>10 DEF Fit, DropFit
    <2>4. QED
      BY <2>1, <2>2, <2>3
  <1>11. QED
    BY <1>3, <1>7, <1>8, <1>9, <1>10

(* Only two calls can give a handle that resolves to another DID. *)
LEMMA OnlyWritten ==
  ASSUME WInv, NEW p \in Proc, Serve(p), NEW s \in Sub, subs'[s] \notin {None, subs[s]}
  PROVE  (PutSub(p) /\ s = req[p].sub) \/ RestoreSubs(p)
  <1>1. subs \in [Sub -> DID \cup {None}]
    BY Tables DEF WInv
  <1> DEFINE Cleared == subs' = subs \/ \E x : subs' = [subs EXCEPT ![x] = None]
  <1>2. ~Cleared
    BY <1>1
  <1>3. ASSUME DeleteSub(p) \/ DeleteOld(p) \/ DeleteAll(p) \/ Wipe(p)
        PROVE  Cleared
    <2>1. DeleteSub(p) => Cleared
      BY DEF DeleteSub
    <2>2. DeleteOld(p) => Cleared
      BY DEF DeleteOld
    <2>3. DeleteAll(p) => Cleared
      BY DEF DeleteAll
    <2>4. Wipe(p) => Cleared
      BY DEF Wipe
    <2>5. QED
      BY <1>3, <2>1, <2>2, <2>3, <2>4
  <1>4. ASSUME \/ PutDid(p) \/ SaveDid(p) \/ DeleteDid(p) \/ LogActivity(p)
        PROVE  subs' = subs
    BY <1>4 DEF PutDid, SaveDid, DeleteDid, LogActivity
  <1>5. ASSUME ReadAll(p) \/ DeleteOwn(p) \/ AddHandle(p) \/ ListSubs(p) \/ Fill(p)
        PROVE  subs' = subs
    <2>1. Reads(p)
      BY <1>5, Zenon DEF ReadAll, DeleteOwn, AddHandle, ListSubs, Fill
    <2>2. QED
      BY <2>1 DEF Reads
  <1>6. PutSub(p) => s = req[p].sub
    BY <1>1 DEF PutSub
  <1> HIDE DEF Cleared
  <1>7. subs' = subs => Cleared
    BY DEF Cleared
  <1>8. QED
    BY <1>2, <1>3, <1>4, <1>5, <1>6, <1>7, Calling

-----------------------------------------------------------------------------
(* What clients and the PDS can count on as long as requests come one by one *)

(* As long as requests come one by one, every handle that resolves is in   *)
(* the record of the DID it resolves to, whatever handlers take handles    *)
(* over and wherever requests that are safe to cut short were cut          *)
(* (anarchy-worker.js handleRegister, handleManage, deleteRegistryForDid,  *)
(* setRegistryHandle, changeRegistryHandle, handleAdminImportRegistry).    *)
THEOREM WorkerListedWhileSerial == Spec => []ListedWhileSerial
  <1>1. SInv => ListedWhileSerial
    BY DEF SInv, Serial, AllBut, Found, ListedWhileSerial, Listed, HandleWellKnown
  <1>2. QED
    BY <1>1, AlwaysSInv, PTL

LEMMA TakesOver ==
  ASSUME SInv, NEW p \in Proc, Serve(p), calm', NEW s \in Sub, subs[s] # None,
         subs'[s] \notin {None, subs[s]}
  PROVE  req[p].op \in Overwriting
  <1> DEFINE q == req[p] c == Head(q.calls)
  <1>1. WInv /\ calm /\ p \in Busy /\ Checked(q, subs)
    BY ServeKeeps DEF SInv, Busy
  <1>2. PICK a : At(p, a)
    BY ServeKeeps, Zenon DEF At
  <1>3. q.op \in AllOps /\ Scripted(q)
    BY <1>1, <1>2, Turn
  <1>4. CASE PutSub(p) /\ s = q.sub
    <2>1. c = "putSub" /\ subs'[s] \in {subs[s], q.did}
      <3>1. subs \in [Sub -> DID \cup {None}]
        BY <1>1, Tables DEF WInv
      <3>2. QED
        BY <1>4, <3>1 DEF PutSub, At
    <2> HIDE DEF q
    <2>2. q.op \in Looking \cup Overwriting
      BY <1>3, <2>1, Courses
         DEF Goes, AllOps, Public, Admin, Internal, Proxied, Granting, Looking, Overwriting
    <2>3. q.op \notin Looking
      BY <1>1, <1>4, <2>1 DEF Checked
    <2>4. QED
      BY <2>2, <2>3 DEF q
  <1>5. CASE RestoreSubs(p)
    <2>1. c = "restoreSubs"
      BY <1>5 DEF RestoreSubs, At
    <2> HIDE DEF q
    <2>2. q.op = "import"
      BY <1>3, <2>1, Courses DEF Goes, AllOps, Public, Admin, Internal, Proxied, Granting
    <2>3. QED
      BY <2>2 DEF q, Overwriting
  <1>6. QED
    BY <1>1, <1>4, <1>5, OnlyWritten

(* One by one, only the handlers that do not look first take a handle from *)
(* one DID and give it to another (anarchy-worker.js setRegistryHandle,    *)
(* changeRegistryHandle, handleAdminImportRegistry); those that register,  *)
(* assign, claim or sync it never do.                                      *)
THEOREM WorkerNoTakeoverWhileSerial == Spec => NoTakeoverWhileSerial
  <1>1. ASSUME SInv, [Next]_vars, NEW s \in Sub, calm', subs[s] # None,
               subs'[s] \notin {None, subs[s]}
        PROVE  \E p \in Busy : req[p].op \in Overwriting
    <2>1. subs' # subs
      BY <1>1
    <2>2. PICK p \in Proc : \/ ReceivePublic(p) \/ ReceiveAdmin(p) \/ ReceiveInternal(p)
                            \/ ReceiveProxied(p) \/ Serve(p) \/ CutShort(p)
      BY <1>1, <2>1 DEF Next, vars
    <2>3. CutShort(p) => subs' = subs
      BY DEF CutShort
    <2>4. ReceivePublic(p) \/ ReceiveAdmin(p) \/ ReceiveInternal(p) \/ ReceiveProxied(p)
            => subs' = subs
      BY <1>1, Arriving, ArrivingKeeps DEF SInv
    <2>5. Serve(p)
      BY <2>1, <2>2, <2>3, <2>4
    <2>6. req[p].op \in Overwriting
      BY <1>1, <2>5, TakesOver
    <2>7. p \in Busy
      BY <2>5, ServeKeeps DEF Busy
    <2>8. QED
      BY <2>6, <2>7
  <1>2. SInv /\ [Next]_vars
          => \A s \in Sub : calm' /\ subs[s] # None /\ subs'[s] \notin {None, subs[s]}
               => \E p \in Busy : req[p].op \in Overwriting
    BY <1>1
  <1>3. QED
    BY <1>2, AlwaysSInv, PTL DEF Spec, NoTakeoverWhileSerial

(* A backfill that was served alone leaves every handle that resolves in   *)
(* its DID's record, whatever overlaps and requests cut short left before  *)
(* it came (anarchy-worker.js handleAdminBackfillDidRecords).              *)
THEOREM WorkerBackfillRepairs == Spec => BackfillRepairs
  <1>1. ASSUME SInv, [Next]_vars, NEW p \in Proc, Ended(p, {"backfill"}), req[p].solo, NEW s \in Sub
        PROVE  Listed(s)'
    <2>1. WInv /\ req[p].op = "backfill" /\ req[p].op # None /\ req'[p].op = None /\ faults' = faults
      BY <1>1, NoneAssumption DEF Ended, SInv, AllOps, Admin
    <2>2. Serve(p)
      BY <1>1, <2>1, Ending
    <2>3. Head(req[p].calls) = "fill" /\ req[p].todo = {} /\ subs' = subs /\ dids' = dids
      BY <2>1, <2>2, BackfillEnds
    <2>4. SoloFit(req[p], subs, dids)
      BY <1>1, <2>1 DEF SInv, Busy
    <2>5. AllBut({}, subs, dids)
      BY <2>1, <2>3, <2>4 DEF SoloFit
    <2>6. QED
      BY <2>3, <2>5 DEF AllBut, Found, Listed, HandleWellKnown
  <1>2. SInv /\ [Next]_vars
          => \A p \in Proc : Ended(p, {"backfill"}) /\ req[p].solo => \A s \in Sub : Listed(s)'
    BY <1>1
  <1>3. QED
    BY <1>2, AlwaysSInv, PTL DEF Spec, BackfillRepairs

(* One by one, when an account's deletion, or an administrator's of all of *)
(* a DID's handles, is answered as done, no handle resolves to the DID and *)
(* its record is gone with its secret (anarchy-worker.js                   *)
(* deleteRegistryForDid, handleAdminDeleteAllForDid).                      *)
THEOREM WorkerDeletedAccountGone == Spec => DeletedAccountGone
  <1> DEFINE Drops == {"deleteAccount", "accountDeleted", "adminDrop"}
  <1>1. ASSUME SInv, [Next]_vars, NEW p \in Proc, Ended(p, Drops), ~At(p, "pdsDelete"),
               calm, "unlisted" \notin cut
        PROVE  dids'[req[p].did] = None /\ \A s \in Sub : HandleWellKnown(s)' # req[p].did
    <2>1. /\ WInv /\ req[p].op \in Dropping /\ req[p].op # None
          /\ req'[p].op = None /\ faults' = faults
      BY <1>1, NoneAssumption DEF Ended, SInv, Dropping, AllOps, Admin, Internal, Proxied
    <2>2. Serve(p)
      BY <1>1, <2>1, Ending
    <2>3. Head(req[p].calls) # "pdsDelete"
      BY <1>1, <2>1 DEF At
    <2>4. Fit(req[p], subs, dids)
      BY <1>1, <2>1 DEF SInv, Serial, Busy
    <2>5. QED
      BY <2>1, <2>2, <2>3, <2>4, DropEnds DEF HandleWellKnown
  <1>2. SInv /\ [Next]_vars
          => \A p \in Proc :
               /\ Ended(p, Drops) /\ ~At(p, "pdsDelete")
               /\ calm /\ "unlisted" \notin cut
               => dids'[req[p].did] = None /\ \A s \in Sub : HandleWellKnown(s)' # req[p].did
    BY <1>1
  <1>3. QED
    BY <1>2, AlwaysSInv, PTL DEF Spec, DeletedAccountGone

-----------------------------------------------------------------------------
(* Secrets and the clients they were made for: a secret is with a client,  *)
(* or with the request that made it and will hand it over.                 *)
Keys == held \cup {None} \cup {req[p].key : p \in {o \in Proc : req[o].op \in Granting}}

KeysIn(file, known) == \A d \in DID : file[d] # None => file[d].key \in known

KeysFit(q, known) ==
  /\ q.rec.key \in known /\ KeysIn(q.file, known)
  /\ q.op \in Granting /\ Head(q.calls) \in {"checkTaken", "grant"} => q.key = None

KInv == "secret" \notin cut =>
          /\ KeysIn(dids, Keys) /\ KeysIn(backup, Keys)
          /\ \A p \in Proc : KeysFit(req[p], Keys)

LEMMA IdleKeys ==
  ASSUME NEW known, None \in known
  PROVE  KeysFit(NoRequest, known) /\ NoRequest.op = None /\ NoRequest.op \notin Granting
  <1>1. /\ NoRequest.rec.key = None /\ NoRequest.op = None /\ NoRequest.file = NoFile
    BY DEF NoRequest, NoRecord
  <1>2. NoRequest.op \notin Granting
    BY <1>1, NoneAssumption DEF Granting, AllOps, Public, Admin
  <1>3. KeysIn(NoFile, known)
    BY DEF KeysIn, NoFile
  <1>4. QED
    BY <1>1, <1>2, <1>3 DEF KeysFit

LEMMA MoreKeys ==
  ASSUME NEW some, NEW known, some \subseteq known
  PROVE  /\ \A file : KeysIn(file, some) => KeysIn(file, known)
         /\ \A q : KeysFit(q, some) => KeysFit(q, known)
  BY DEF KeysIn, KeysFit

(* One request goes on, and no secret is lost. *)
LEMMA KeysGo ==
  ASSUME IInv, KInv, "secret" \notin cut, NEW p \in Proc, NEW n, Go(p, n), held \subseteq held',
         req[p].op \in Granting =>
           IF n.calls = <<>> THEN req[p].key \in held' \cup {None}
           ELSE n.op \in Granting /\ (req[p].key = None \/ n.key = req[p].key)
  PROVE  /\ Keys \subseteq Keys'
         /\ n.calls # <<>> /\ n.op \in Granting => n.key \in Keys'
         /\ \A o \in Proc \ {p} : req'[o] = req[o]
         /\ req'[p] = IF n.calls = <<>> THEN NoRequest ELSE n
  <1>1. req' = [req EXCEPT ![p] = IF n.calls = <<>> THEN NoRequest ELSE n]
    BY DEF Go
  <1>2. req \in [Proc -> Request]
    BY DEF IInv
  <1>3. /\ \A o \in Proc \ {p} : req'[o] = req[o]
        /\ req'[p] = IF n.calls = <<>> THEN NoRequest ELSE n
    BY <1>1, <1>2
  <1>4. held' \cup {None} \subseteq Keys'
    BY DEF Keys
  <1>5. \A o \in Proc : req'[o].op \in Granting => req'[o].key \in Keys'
    BY DEF Keys
  <1>6. ASSUME NEW o \in Proc, req[o].op \in Granting
        PROVE  req[o].key \in Keys'
    <2>1. CASE o # p
      BY <1>3, <1>5, <1>6, <2>1
    <2>2. CASE o = p
      BY <1>3, <1>4, <1>5, <1>6, <2>2
    <2>3. QED
      BY <2>1, <2>2
  <1>7. Keys \subseteq Keys'
    <2>1. held \cup {None} \subseteq Keys'
      BY <1>4
    <2>2. QED
      BY <1>6, <2>1 DEF Keys
  <1>8. QED
    BY <1>3, <1>5, <1>7

LEMMA KeysStay ==
  ASSUME KInv, "secret" \notin cut, NEW p \in Proc, Keys \subseteq Keys',
         \A o \in Proc \ {p} : KeysFit(req'[o], Keys'),
         KeysFit(req'[p], Keys'), KeysIn(dids', Keys'), KeysIn(backup', Keys')
  PROVE  KInv'
  BY DEF KInv

(* A request that makes no secret *)
LEMMA KeysOther ==
  ASSUME IInv, KInv, "secret" \notin cut, NEW p \in Proc, NEW n, Go(p, n), held' = held,
         req[p].op \notin Granting,
         n.calls # <<>> => n.op \notin Granting /\ n.rec.key \in Keys /\ KeysIn(n.file, Keys),
         KeysIn(dids', Keys), KeysIn(backup', Keys)
  PROVE  KInv'
  <1>1. /\ Keys \subseteq Keys' /\ None \in Keys'
        /\ \A o \in Proc \ {p} : req'[o] = req[o]
        /\ req'[p] = IF n.calls = <<>> THEN NoRequest ELSE n
    <2>1. None \in Keys'
      BY DEF Keys
    <2>2. QED
      BY <2>1, KeysGo
  <1>2. \A o \in Proc \ {p} : KeysFit(req'[o], Keys')
    <2>1. \A o \in Proc : KeysFit(req[o], Keys)
      BY DEF KInv
    <2>2. QED
      BY <1>1, <2>1, MoreKeys
  <1>3. KeysFit(req'[p], Keys')
    <2>1. CASE n.calls = <<>>
      BY <1>1, <2>1, IdleKeys
    <2>2. CASE n.calls # <<>>
      <3>1. KeysFit(n, Keys)
        BY <2>2 DEF KeysFit
      <3>2. QED
        BY <1>1, <2>2, <3>1, MoreKeys
    <2>3. QED
      BY <2>1, <2>2
  <1>4. KeysIn(dids', Keys') /\ KeysIn(backup', Keys')
    BY <1>1, MoreKeys
  <1>5. QED
    BY <1>1, <1>2, <1>3, <1>4, KeysStay

Keeps(q, n) == n.op = q.op /\ n.rec = q.rec /\ n.file = q.file

LEMMA KeysPlain ==
  ASSUME IInv, KInv, "secret" \notin cut, NEW p \in Proc, NEW n, Go(p, n),
         n.calls = <<>> \/ Keeps(req[p], n),
         req[p].op \notin Granting, held' = held, backup' = backup, KeysIn(dids', Keys)
  PROVE  KInv'
  <1>1. KeysFit(req[p], Keys) /\ KeysIn(backup', Keys)
    BY DEF KInv
  <1>2. n.calls # <<>> => n.op \notin Granting /\ n.rec.key \in Keys /\ KeysIn(n.file, Keys)
    BY <1>1 DEF Keeps, KeysFit
  <1>3. QED
    BY <1>1, <1>2, KeysOther

LEMMA KeysAnswer ==
  ASSUME IInv, KInv, "secret" \notin cut, NEW p \in Proc, Answer(p), req[p].op \notin Granting,
         held' = held, backup' = backup, KeysIn(dids', Keys)
  PROVE  KInv'
  <1>1. NoRequest.calls = <<>>
    BY DEF NoRequest
  <1>2. Go(p, NoRequest)
    BY <1>1 DEF Go, Answer
  <1>3. QED
    BY <1>1, <1>2, KeysPlain

LEMMA ReadsKeys ==
  ASSUME KInv, "secret" \notin cut, NEW p, Reads(p)
  PROVE  held' = held /\ backup' = backup /\ dids' = dids /\ KeysIn(dids', Keys)
  <1>1. held' = held /\ backup' = backup /\ dids' = dids
    BY DEF Reads, World
  <1>2. QED
    BY <1>1 DEF KInv

LEMMA KeysRead ==
  ASSUME IInv, KInv, "secret" \notin cut, NEW p \in Proc, req[p].op \notin Granting,
         \/ CheckTaken(p) \/ CheckOther(p) \/ AdminCheck(p) \/ PdsRefuses(p) \/ ReadAll(p)
         \/ DeleteOwn(p) \/ CheckOld(p) \/ ListSubs(p) \/ ListDids(p) \/ Fill(p) \/ GetSession(p)
  PROVE  KInv'
  <1> DEFINE q == req[p] t == Rest(q)
             T(s) == Then(q, s)
             U(w) == [t EXCEPT !.todo = w]
             L(s) == [q EXCEPT !.todo = @ \ {s}]
             M(s) == [L(s) EXCEPT !.did = subs[s], !.sub = s,
                        !.calls = <<"addHandle", "putDid">> \o @]
             F(s) == IF subs[s] = None THEN L(s) ELSE M(s)
             O(s) == [q EXCEPT !.todo = @ \ {s}, !.sub = s,
                        !.calls = IF subs[s] = q.did THEN <<"deleteSub">> \o @ ELSE @]
  <1>1. q \in Request
    BY DEF IInv
  <1>2. Reads(p)
    <2>1. CheckTaken(p) \/ CheckOther(p) \/ AdminCheck(p) \/ PdsRefuses(p) \/ ReadAll(p)
            => Reads(p)
      BY DEF CheckTaken, CheckOther, AdminCheck, PdsRefuses, ReadAll
    <2>2. \/ DeleteOwn(p) \/ CheckOld(p) \/ ListSubs(p) \/ ListDids(p) \/ Fill(p) \/ GetSession(p)
            => Reads(p)
      BY Zenon DEF DeleteOwn, CheckOld, ListSubs, ListDids, Fill, GetSession
    <2>3. QED
      BY <2>1, <2>2
  <1>3. CheckTaken(p) \/ CheckOther(p) \/ AdminCheck(p) \/ PdsRefuses(p) => Answer(p) \/ Go(p, t)
    BY DEF CheckTaken, CheckOther, AdminCheck, PdsRefuses
  <1>4. ReadAll(p) => Answer(p) \/ \E w : Go(p, U(w))
    BY DEF ReadAll
  <1>5. ListSubs(p) \/ ListDids(p) => \E w : Go(p, U(w))
    BY Zenon DEF ListSubs, ListDids
  <1>6. CheckOld(p) => Go(p, t) \/ \E s : Go(p, T(s))
    BY DEF CheckOld
  <1>7. GetSession(p) => Go(p, t) \/ \E s : Go(p, T(s))
    BY Zenon DEF GetSession
  <1>8. DeleteOwn(p) => Go(p, t) \/ \E s : Go(p, O(s))
    BY Zenon DEF DeleteOwn
  <1>9. Fill(p) => Answer(p) \/ \E s : Go(p, F(s))
    BY Zenon DEF Fill
  <1>10. Keeps(q, t) /\ \A s : Keeps(q, T(s))
    BY <1>1 DEF Request, Keeps, Rest, Then
  <1>11. \A w : Keeps(q, U(w))
    BY <1>1 DEF Request, Keeps, Rest
  <1>12. \A s : Keeps(q, L(s))
    BY <1>1 DEF Request, Keeps
  <1>13. \A s : Keeps(q, M(s))
    BY <1>1 DEF Request, Keeps
  <1>14. \A s : Keeps(q, O(s))
    BY <1>1 DEF Request, Keeps
  <1> HIDE DEF q, t, T, U, L, M, O
  <1>15. \A s : Keeps(q, F(s))
    BY <1>12, <1>13
  <1> HIDE DEF F
  <1>16. Answer(p) \/ \E n : Go(p, n) /\ Keeps(q, n)
    BY <1>3, <1>4, <1>5, <1>6, <1>7, <1>8, <1>9, <1>10, <1>11, <1>14, <1>15
  <1>17. held' = held /\ backup' = backup /\ KeysIn(dids', Keys)
    BY <1>2, ReadsKeys
  <1>18. QED
    BY <1>16, <1>17, KeysPlain, KeysAnswer DEF q

LEMMA KeysWrite ==
  ASSUME IInv, KInv, "secret" \notin cut, NEW p \in Proc, req[p].op \notin Granting,
         \/ PutSub(p) \/ DeleteSub(p) \/ PutDid(p) \/ SaveDid(p) \/ DeleteDid(p) \/ LogActivity(p)
         \/ DeleteAll(p) \/ DeleteOld(p) \/ Wipe(p) \/ RestoreSubs(p)
         \/ PdsUpdatesHandle(p) \/ PdsDeletesAccount(p)
  PROVE  KInv'
  <1> DEFINE q == req[p] t == Rest(q)
             L(s) == [q EXCEPT !.todo = @ \ {s}]
  <1>1. q \in Request /\ q.rec.key \in Keys /\ KeysIn(dids, Keys)
    BY DEF IInv, KInv, KeysFit
  <1>2. dids \in [DID -> Record \cup {None}]
    BY DEF IInv, Stores, Files
  <1>3. Keeps(q, t)
    BY <1>1 DEF Request, Keeps, Rest
  <1>4. \A s : Keeps(q, L(s))
    BY <1>1 DEF Request, Keeps
  <1>5. CASE \/ PutSub(p) \/ DeleteSub(p) \/ DeleteOld(p) \/ LogActivity(p)
             \/ PdsUpdatesHandle(p) \/ PdsDeletesAccount(p)
    <2>1. Go(p, t)
      BY <1>5 DEF PutSub, DeleteSub, DeleteOld, LogActivity, PdsUpdatesHandle, PdsDeletesAccount
    <2>2. held' = held /\ backup' = backup /\ dids' = dids
      <3>1. PutSub(p) \/ DeleteSub(p) \/ DeleteOld(p) => held' = held /\ backup' = backup /\ dids' = dids
        BY DEF PutSub, DeleteSub, DeleteOld, World
      <3>2. LogActivity(p) => held' = held /\ backup' = backup /\ dids' = dids
        BY DEF LogActivity
      <3>3. PdsUpdatesHandle(p) \/ PdsDeletesAccount(p)
              => held' = held /\ backup' = backup /\ dids' = dids
        BY DEF PdsUpdatesHandle, PdsDeletesAccount
      <3>4. QED
        BY <1>5, <3>1, <3>2, <3>3
    <2>3. KeysIn(dids', Keys)
      BY <1>1, <2>2
    <2> HIDE DEF t
    <2>4. QED
      BY <1>3, <2>1, <2>2, <2>3, KeysPlain
  <1>6. CASE PutDid(p) \/ SaveDid(p) \/ DeleteDid(p)
    <2>1. Go(p, t)
      BY <1>6 DEF PutDid, SaveDid, DeleteDid
    <2>2. held' = held /\ backup' = backup
      <3>1. SaveDid(p) \/ DeleteDid(p) => held' = held /\ backup' = backup
        BY DEF SaveDid, DeleteDid, World
      <3>2. PutDid(p) => held' = held /\ backup' = backup
        BY DEF PutDid
      <3>3. QED
        BY <1>6, <3>1, <3>2
    <2>3. \A d \in DID : dids'[d] \in {None, q.rec, dids[d]}
      BY <1>2, <1>6 DEF PutDid, SaveDid, DeleteDid
    <2>4. KeysIn(dids', Keys)
      BY <1>1, <2>3 DEF KeysIn
    <2> HIDE DEF t
    <2>5. QED
      BY <1>3, <2>1, <2>2, <2>4, KeysPlain
  <1>7. CASE DeleteAll(p) \/ Wipe(p) \/ RestoreSubs(p)
    <2>1. Go(p, t) \/ \E s : Go(p, L(s))
      BY <1>7, Zenon DEF DeleteAll, Wipe, RestoreSubs
    <2>2. held' = held /\ backup' = backup
      <3>1. UNCHANGED World
        BY <1>7, Zenon DEF DeleteAll, Wipe, RestoreSubs
      <3>2. QED
        BY <3>1 DEF World
    <2>3. \A d \in DID : dids'[d] \in {None, dids[d]}
      <3>1. dids' = dids \/ \E d : dids' = [dids EXCEPT ![d] = None]
        <4>1. DeleteAll(p) \/ RestoreSubs(p) => dids' = dids
          BY DEF DeleteAll, RestoreSubs
        <4>2. Wipe(p) => dids' = dids \/ \E d : dids' = [dids EXCEPT ![d] = None]
          BY DEF Wipe
        <4>3. QED
          BY <1>7, <4>1, <4>2
      <3>2. QED
        BY <1>2, <3>1
    <2>4. KeysIn(dids', Keys)
      BY <1>1, <2>3 DEF KeysIn
    <2> HIDE DEF q, t, L
    <2>5. \E n : Go(p, n) /\ Keeps(q, n)
      BY <1>3, <1>4, <2>1
    <2>6. QED
      BY <2>2, <2>4, <2>5, KeysPlain DEF q
  <1>8. QED
    BY <1>5, <1>6, <1>7

(* A request takes its copy of a record, with the secret in it. *)
LEMMA KeysCopy ==
  ASSUME IInv, KInv, "secret" \notin cut, NEW p \in Proc, req[p].op \notin Granting,
         Reads(p), NEW t \in Request, t.op = req[p].op, t.file = req[p].file,
         NEW r \in Record, r.key \in Keys, Go(p, [t EXCEPT !.rec = r])
  PROVE  KInv'
  <1> DEFINE n == [t EXCEPT !.rec = r]
  <1>1. n.op = t.op /\ n.rec = r /\ n.file = t.file /\ Go(p, n)
    BY DEF Request
  <1> HIDE DEF n
  <1>2. KeysFit(req[p], Keys)
    BY DEF KInv
  <1>3. n.op \notin Granting /\ n.rec.key \in Keys /\ KeysIn(n.file, Keys)
    BY <1>1, <1>2 DEF KeysFit
  <1>4. held' = held /\ KeysIn(dids', Keys) /\ KeysIn(backup', Keys)
    BY ReadsKeys DEF KInv
  <1>5. QED
    BY <1>1, <1>3, <1>4, KeysOther

LEMMA KeysCopies ==
  ASSUME WInv, KInv, "secret" \notin cut, NEW p \in Proc, req[p].op \notin Granting,
         AddHandle(p) \/ FindDidBySecretHash(p) \/ AdminRead(p) \/ Replace(p)
  PROVE  KInv'
  <1> DEFINE q == req[p] t == Rest(q)
  <1>1. /\ IInv /\ q \in Request /\ KeysIn(dids, Keys) /\ None \in Keys
        /\ dids \in [DID -> Record \cup {None}]
    BY DEF WInv, IInv, KInv, Stores, Files, Keys
  <1>2. Reads(p)
    BY Zenon DEF AddHandle, FindDidBySecretHash, AdminRead, Replace
  <1>3. t \in Request /\ t.op = q.op /\ t.file = q.file
    <2>1. \E a : At(p, a)
      BY Zenon DEF AddHandle, FindDidBySecretHash, AdminRead, Replace
    <2>2. QED
      BY <2>1, Turn
  <1>4. \A d \in DID, H \in SUBSET Sub : dids[d] # None =>
          LET r == [dids[d] EXCEPT !.handles = H] IN r \in Record /\ r.key = dids[d].key
    BY <1>1 DEF Record
  <1>5. CASE AddHandle(p)
    <2>1. q.did \in DID /\ q.sub \in Sub
      <3>1. At(p, "addHandle")
        BY <1>5 DEF AddHandle
      <3>2. q.op \in AllOps /\ Head(q.calls) = "addHandle" /\ Scripted(q) /\ Named(q)
        BY <3>1, Turn
      <3> HIDE DEF q
      <3>3. q.op \in {"sync", "claim", "signup", "setHandle", "updateHandle", "backfill"}
        BY <3>2, Courses DEF Goes, AllOps, Public, Admin, Internal, Proxied, Granting
      <3>4. QED
        BY <3>2, <3>3 DEF Named
    <2> DEFINE r == Added(dids[q.did], q.sub)
    <2>2. dids[q.did] \in Record \cup {None}
      BY <1>1, <2>1
    <2>3. r \in Record /\ (r.key # None => dids[q.did] # None /\ r.key = dids[q.did].key)
      BY <2>1, <2>2, AddedRecord
    <2>4. r.key \in Keys
      BY <1>1, <2>1, <2>3 DEF KeysIn
    <2>5. Go(p, [t EXCEPT !.rec = r])
      BY <1>5 DEF AddHandle
    <2> HIDE DEF r, t
    <2>6. QED
      BY <1>1, <1>2, <1>3, <2>3, <2>4, <2>5, KeysCopy
  <1>6. CASE Replace(p) \/ AdminRead(p)
    <2>1. q.did \in DID /\ q.sub \in Sub
      <3>1. At(p, "replace") \/ At(p, "adminRead")
        BY <1>6 DEF Replace, AdminRead
      <3>2. /\ q.op \in AllOps /\ Head(q.calls) \in {"replace", "adminRead"}
            /\ Scripted(q) /\ Named(q)
        BY <3>1, Turn
      <3> HIDE DEF q
      <3>3. q.op \in {"changeHandle", "adminDelete"}
        BY <3>2, Courses DEF Goes, AllOps, Public, Admin, Internal, Proxied, Granting
      <3>4. QED
        BY <3>2, <3>3 DEF Named
    <2> DEFINE o == dids[q.did]
               H == IF Replace(p) THEN (o.handles \ {q.old}) \cup {q.sub} ELSE o.handles \ {q.sub}
               r == [o EXCEPT !.handles = H]
               u == [q EXCEPT !.calls = <<"adminCheck", "deleteSub">>]
    <2>2. CASE o = None
      <3>1. Answer(p) \/ Go(p, u)
        BY <1>6, <2>2 DEF Replace, AdminRead
      <3>2. Keeps(q, u)
        BY <1>1 DEF Request, Keeps
      <3>3. held' = held /\ backup' = backup /\ KeysIn(dids', Keys)
        BY <1>2, ReadsKeys
      <3> HIDE DEF u
      <3>4. QED
        BY <1>1, <3>1, <3>2, <3>3, KeysPlain, KeysAnswer
    <2>3. CASE o # None
      <3>1. Go(p, [t EXCEPT !.rec = r])
        <4>1. CASE Replace(p)
          BY <2>3, <4>1 DEF Replace
        <4>2. CASE ~Replace(p)
          BY <1>6, <2>3, <4>2 DEF AdminRead
        <4>3. QED
          BY <4>1, <4>2
      <3>2. H \in SUBSET Sub
        BY <1>1, <2>1, <2>3 DEF Record
      <3> HIDE DEF H
      <3>3. r \in Record /\ r.key = o.key
        BY <1>4, <2>1, <2>3, <3>2
      <3>4. r.key \in Keys
        BY <1>1, <2>1, <2>3, <3>3 DEF KeysIn
      <3> HIDE DEF r, t
      <3>5. QED
        BY <1>1, <1>2, <1>3, <3>1, <3>3, <3>4, KeysCopy
    <2>4. QED
      BY <2>2, <2>3
  <1>7. CASE FindDidBySecretHash(p)
    <2> DEFINE U(d) == [t EXCEPT !.did = d, !.rec = [dids[d] EXCEPT !.handles = @ \ {q.sub}]]
    <2>1. Answer(p) \/ \E d \in DID : dids[d] # None /\ Go(p, U(d))
      BY <1>7, Zenon DEF FindDidBySecretHash
    <2>2. CASE Answer(p)
      <3>1. held' = held /\ backup' = backup /\ KeysIn(dids', Keys)
        BY <1>2, ReadsKeys
      <3>2. QED
        BY <1>1, <2>2, <3>1, KeysAnswer
    <2>3. ASSUME NEW d \in DID, dids[d] # None, Go(p, U(d))
          PROVE  KInv'
      <3> DEFINE u == [t EXCEPT !.did = d] H == dids[d].handles \ {q.sub}
                 r == [dids[d] EXCEPT !.handles = H]
      <3>1. U(d) = [u EXCEPT !.rec = r]
        <4> HIDE DEF t
        <4>1. dids[d] \in Record
          BY <1>1, <2>3
        <4>2. QED
          BY <1>3, <4>1 DEF Request, Record
      <3>2. u \in Request /\ u.op = q.op /\ u.file = q.file
        <4> HIDE DEF t
        <4>1. QED
          BY <1>3, WithDid
      <3>3. H \in SUBSET Sub
        BY <1>1, <2>3 DEF Record
      <3> HIDE DEF H
      <3>4. r \in Record /\ r.key = dids[d].key
        BY <1>4, <2>3, <3>3
      <3>5. r.key \in Keys
        BY <1>1, <2>3, <3>4 DEF KeysIn
      <3>6. Go(p, [u EXCEPT !.rec = r])
        BY <2>3, <3>1
      <3> HIDE DEF r, u, t, U
      <3>7. QED
        BY <1>1, <1>2, <3>2, <3>4, <3>5, <3>6, KeysCopy
    <2> HIDE DEF U
    <2>4. QED
      BY <2>1, <2>2, <2>3
  <1>8. QED
    BY <1>5, <1>6, <1>7

(* An export copies the records, an import takes them from its file, and   *)
(* an account begins with an empty one.                                    *)
LEMMA KeysFiles ==
  ASSUME WInv, KInv, "secret" \notin cut, NEW p \in Proc, req[p].op \notin Granting,
         Dump(p) \/ Restore(p) \/ PdsCreatesAccount(p)
  PROVE  KInv'
  <1> DEFINE q == req[p] t == Rest(q)
  <1>1. /\ IInv /\ q \in Request /\ KeysIn(dids, Keys) /\ KeysIn(backup, Keys) /\ None \in Keys
        /\ q.file \in Files
    BY DEF WInv, IInv, KInv, Request, Files, Keys
  <1>2. KeysIn(q.file, Keys)
    BY DEF KInv, KeysFit
  <1>3. Keeps(q, t)
    BY <1>1 DEF Request, Keeps, Rest
  <1>4. CASE Dump(p)
    <2> DEFINE n(d) == [q EXCEPT !.todo = @ \ {d}, !.file = [@ EXCEPT ![d] = dids[d]]]
    <2>1. held' = held /\ dids' = dids
      <3>1. UNCHANGED <<subs, dids, accounts, issued, held, exempt, calm, cut, faults>>
        BY <1>4, Zenon DEF Dump
      <3>2. QED
        BY <3>1
    <2>2. KeysIn(dids', Keys)
      BY <1>1, <2>1
    <2>3. CASE backup' = q.file /\ Go(p, t)
      <3>1. KeysIn(backup', Keys)
        BY <1>2, <2>3
      <3>2. t.op \notin Granting /\ t.rec.key \in Keys /\ KeysIn(t.file, Keys)
        BY <1>2, <1>3 DEF Keeps, KInv, KeysFit
      <3> HIDE DEF t
      <3>3. QED
        BY <1>1, <2>1, <2>2, <2>3, <3>1, <3>2, KeysOther
    <2>4. ASSUME NEW d, Go(p, n(d)), UNCHANGED backup
          PROVE  KInv'
      <3> DEFINE m == n(d)
      <3>1. m.op = q.op /\ m.rec = q.rec /\ m.file = [q.file EXCEPT ![d] = dids[d]]
        BY <1>1 DEF Request
      <3>2. KeysIn(backup', Keys) /\ Go(p, m)
        BY <1>1, <2>4
      <3> HIDE DEF m
      <3>3. \A e \in DID : m.file[e] \in {q.file[e], dids[e]}
        BY <1>1, <3>1 DEF Files
      <3>4. KeysIn(m.file, Keys)
        BY <1>1, <1>2, <3>3 DEF KeysIn
      <3>5. m.op \notin Granting /\ m.rec.key \in Keys
        BY <3>1 DEF KInv, KeysFit
      <3>6. QED
        BY <1>1, <2>1, <2>2, <3>2, <3>4, <3>5, KeysOther
    <2>5. \/ backup' = q.file /\ Go(p, t)
          \/ \E d \in q.todo : Go(p, n(d)) /\ UNCHANGED backup
      BY <1>4, Zenon DEF Dump
    <2> HIDE DEF n
    <2>6. QED
      BY <2>3, <2>4, <2>5
  <1>5. CASE Restore(p)
    <2> DEFINE n(d) == [q EXCEPT !.did = d, !.rec = q.file[d], !.todo = q.file[d].handles,
                                 !.file = [@ EXCEPT ![d] = None],
                                 !.calls = <<"putDid", "restoreSubs">> \o @]
    <2>1. held' = held /\ backup' = backup /\ KeysIn(dids', Keys)
      <3>1. Reads(p)
        BY <1>5, Zenon DEF Restore
      <3>2. QED
        BY <3>1, ReadsKeys
    <2>2. CASE Go(p, t)
      <3> HIDE DEF t
      <3>1. QED
        BY <1>1, <1>3, <2>1, <2>2, KeysPlain
    <2>3. ASSUME NEW d \in DID, q.file[d] # None, Go(p, n(d))
          PROVE  KInv'
      <3> DEFINE m == n(d)
      <3>1. m.op = q.op /\ m.rec = q.file[d] /\ m.file = [q.file EXCEPT ![d] = None] /\ Go(p, m)
        BY <1>1, <2>3 DEF Request
      <3> HIDE DEF m
      <3>2. \A e \in DID : m.file[e] \in {q.file[e], None}
        BY <1>1, <3>1 DEF Files
      <3>3. KeysIn(m.file, Keys) /\ m.rec.key \in Keys
        BY <1>2, <2>3, <3>1, <3>2 DEF KeysIn
      <3>4. KeysIn(backup', Keys)
        BY <1>1, <2>1
      <3>5. QED
        BY <1>1, <2>1, <3>1, <3>3, <3>4, KeysOther
    <2>4. Go(p, t) \/ \E d \in DID : q.file[d] # None /\ Go(p, n(d))
      BY <1>5, Zenon DEF Restore
    <2> HIDE DEF n
    <2>5. QED
      BY <2>2, <2>3, <2>4
  <1>6. CASE PdsCreatesAccount(p)
    <2> DEFINE n(d) == [t EXCEPT !.did = d, !.rec = NoRecord]
    <2>1. held' = held /\ backup' = backup /\ dids' = dids
      <3>1. UNCHANGED <<subs, dids, backup, issued, held, exempt, calm, cut, faults>>
        BY <1>6, Zenon DEF PdsCreatesAccount
      <3>2. QED
        BY <3>1
    <2>2. KeysIn(dids', Keys) /\ KeysIn(backup', Keys)
      BY <1>1, <2>1
    <2>3. CASE Answer(p)
      BY <1>1, <2>1, <2>2, <2>3, KeysAnswer
    <2>4. ASSUME NEW d, Go(p, n(d))
          PROVE  KInv'
      <3> DEFINE m == n(d)
      <3>1. m.op = q.op /\ m.rec = NoRecord /\ m.file = q.file /\ Go(p, m)
        BY <1>1, <2>4 DEF Request, Rest
      <3> HIDE DEF m
      <3>2. m.rec.key \in Keys /\ KeysIn(m.file, Keys)
        BY <1>1, <1>2, <3>1 DEF NoRecord
      <3>3. QED
        BY <1>1, <2>1, <2>2, <3>1, <3>2, KeysOther
    <2>5. Answer(p) \/ \E d : Go(p, n(d))
      BY <1>6, Zenon DEF PdsCreatesAccount
    <2> HIDE DEF n
    <2>6. QED
      BY <2>3, <2>4, <2>5
  <1>7. QED
    BY <1>4, <1>5, <1>6

(* The calls of a request that makes a secret *)
LEMMA GrantingCalls ==
  ASSUME WInv, NEW p \in Proc, Serve(p), req[p].op \in Granting
  PROVE  LET c == Head(req[p].calls) e == After(req[p].calls) IN
         \/ c = "checkTaken" /\ e = "grant" /\ CheckTaken(p)
         \/ c = "grant" /\ e = "putDid" /\ Grant(p)
         \/ c = "putDid" /\ e = "putSub" /\ PutDid(p)
         \/ c = "putSub" /\ e = "log" /\ PutSub(p)
         \/ c = "log" /\ e = "end" /\ LogActivity(p)
  <1> DEFINE c == Head(req[p].calls) e == After(req[p].calls)
  <1>1. Scripted(req[p]) /\ req[p].op \in AllOps
    <2>1. Placed(req[p]) /\ req[p].op # None
      BY ServeKeeps DEF WInv
    <2>2. QED
      BY <2>1 DEF Placed, Granting, AllOps, Public, Admin
  <1>2. \/ c = "checkTaken" /\ e = "grant"
        \/ c = "grant" /\ e = "putDid"
        \/ c = "putDid" /\ e = "putSub"
        \/ c = "putSub" /\ e = "log"
        \/ c = "log" /\ e = "end"
    BY <1>1, Courses DEF Goes
  <1>3. \A a : At(p, a) => c = a
    BY DEF At
  <1> HIDE DEF c, e
  <1>4. /\ PutSub(p) => c = "putSub"
        /\ PutDid(p) => c = "putDid"
        /\ LogActivity(p) => c = "log"
        /\ CheckTaken(p) => c = "checkTaken"
        /\ Grant(p) => c = "grant"
    BY <1>3, Zenon DEF PutSub, PutDid, LogActivity, CheckTaken, Grant
  <1>5. Serve(p) => PutSub(p) \/ PutDid(p) \/ LogActivity(p) \/ CheckTaken(p) \/ Grant(p)
    <2>1. /\ DeleteSub(p) => c = "deleteSub"
          /\ SaveDid(p) => c = "saveDid"
          /\ DeleteDid(p) => c = "deleteDid"
          /\ CheckOther(p) => c = "checkOther"
          /\ AddHandle(p) => c = "addHandle"
          /\ FindDidBySecretHash(p) => c = "find"
          /\ AdminRead(p) => c = "adminRead"
          /\ AdminCheck(p) => c = "adminCheck"
      BY <1>3, Zenon DEF DeleteSub, SaveDid, DeleteDid, CheckOther, AddHandle,
                         FindDidBySecretHash, AdminRead, AdminCheck
    <2>2. /\ ReadAll(p) => c = "readAll" \/ c = "readOwn"
          /\ DeleteAll(p) => c = "deleteAll"
          /\ DeleteOwn(p) => c = "deleteOwn"
          /\ Replace(p) => c = "replace"
          /\ CheckOld(p) => c = "checkOld"
          /\ DeleteOld(p) => c = "deleteOld"
          /\ ListSubs(p) => c = "listSubs"
          /\ ListDids(p) => c = "listDids"
      BY <1>3, Zenon DEF ReadAll, DeleteAll, DeleteOwn, Replace, CheckOld, DeleteOld,
                         ListSubs, ListDids
    <2>3. /\ Fill(p) => c = "fill"
          /\ Dump(p) => c = "dump"
          /\ Wipe(p) => c = "wipe"
          /\ Restore(p) => c = "restore"
          /\ RestoreSubs(p) => c = "restoreSubs"
          /\ GetSession(p) => c = "session"
      BY <1>3, Zenon DEF Fill, Dump, Wipe, Restore, RestoreSubs, GetSession
    <2>4. /\ PdsRefuses(p) => c = "pdsCreate" \/ c = "pdsUpdate" \/ c = "pdsDelete"
          /\ PdsCreatesAccount(p) => c = "pdsCreate"
          /\ PdsUpdatesHandle(p) => c = "pdsUpdate"
          /\ PdsDeletesAccount(p) => c = "pdsDelete"
      BY <1>3, Zenon DEF PdsRefuses, PdsCreatesAccount, PdsUpdatesHandle, PdsDeletesAccount
    <2>5. c \in {"checkTaken", "grant", "putDid", "putSub", "log"}
      BY <1>2
    <2>6. QED
      BY <2>1, <2>2, <2>3, <2>4, <2>5 DEF Serve
  <1>6. QED
    BY <1>2, <1>4, <1>5 DEF c, e

(* A request makes a secret, hands it on to its record, and hands it over. *)
LEMMA KeysGrant ==
  ASSUME WInv, KInv, "secret" \notin cut, NEW p \in Proc, Serve(p), req[p].op \in Granting
  PROVE  KInv'
  <1> DEFINE q == req[p] t == Rest(q)
  <1>1. /\ IInv /\ KeysIn(dids, Keys) /\ KeysIn(backup, Keys)
        /\ KeysFit(q, Keys) /\ \A o \in Proc : KeysFit(req[o], Keys)
        /\ dids \in [DID -> Record \cup {None}]
    BY DEF WInv, IInv, KInv, Stores, Files
  <1>2. \E a : At(p, a)
    BY GrantingCalls, Zenon DEF CheckTaken, Grant, PutDid, PutSub, LogActivity
  <1>3. /\ q \in Request /\ t \in Request /\ Scripted(q) /\ Named(q) /\ q.op # None
        /\ t.op = q.op /\ t.key = q.key /\ t.rec = q.rec /\ t.file = q.file
        /\ t.calls = <<>> <=> After(q.calls) = "end"
        /\ t.calls # <<>> => Head(t.calls) = After(q.calls)
    BY <1>2, Turn
  <1>4. None \in Keys'
    BY DEF Keys
  <1>5. ASSUME NEW n, Go(p, n), held \subseteq held', backup' = backup,
               \A d \in DID : dids'[d] \in {dids[d], None, q.rec},
               IF n.calls = <<>> THEN q.key \in held' \cup {None}
               ELSE /\ n.op = q.op /\ (q.key = None \/ n.key = q.key)
                    /\ n.rec.key \in Keys \cup {n.key} /\ n.file = q.file
                    /\ Head(n.calls) \in {"checkTaken", "grant"} => n.key = None
        PROVE  KInv'
    <2>1. /\ Keys \subseteq Keys'
          /\ n.calls # <<>> /\ n.op \in Granting => n.key \in Keys'
          /\ \A o \in Proc \ {p} : req'[o] = req[o]
          /\ req'[p] = IF n.calls = <<>> THEN NoRequest ELSE n
      BY <1>1, <1>5, KeysGo
    <2>2. \A o \in Proc \ {p} : KeysFit(req'[o], Keys')
      BY <1>1, <2>1, MoreKeys
    <2>3. KeysIn(dids', Keys')
      <3>1. KeysIn(dids', Keys)
        BY <1>1, <1>5 DEF KeysIn, KeysFit
      <3>2. QED
        BY <2>1, <3>1, MoreKeys
    <2>4. KeysIn(backup', Keys')
      BY <1>1, <1>5, <2>1, MoreKeys
    <2>5. KeysFit(req'[p], Keys')
      <3>1. CASE n.calls = <<>>
        BY <1>4, <2>1, <3>1, IdleKeys
      <3>2. CASE n.calls # <<>>
        <4>1. n.rec.key \in Keys'
          BY <1>5, <2>1, <3>2
        <4>2. KeysIn(n.file, Keys')
          <5>1. KeysIn(q.file, Keys)
            BY <1>1 DEF KeysFit
          <5>2. KeysIn(q.file, Keys')
            BY <2>1, <5>1, MoreKeys
          <5>3. QED
            BY <1>5, <3>2, <5>2
        <4>3. QED
          BY <1>5, <2>1, <3>2, <4>1, <4>2 DEF KeysFit
      <3>3. QED
        BY <3>1, <3>2
    <2>6. QED
      BY <2>1, <2>2, <2>3, <2>4, <2>5, KeysStay
  <1>6. CASE Head(q.calls) = "checkTaken" /\ After(q.calls) = "grant" /\ CheckTaken(p)
    <2>1. q.key = None /\ q.rec.key \in Keys
      BY <1>1, <1>6 DEF KeysFit
    <2>2. held' = held /\ backup' = backup /\ dids' = dids
      <3>1. Reads(p)
        BY <1>6 DEF CheckTaken
      <3>2. QED
        BY <3>1, ReadsKeys
    <2>3. NoRequest.calls = <<>> /\ (Go(p, t) \/ Go(p, NoRequest))
      <3>1. NoRequest.calls = <<>>
        BY DEF NoRequest
      <3>2. QED
        BY <1>6, <3>1 DEF CheckTaken, Answer, Go
    <2> HIDE DEF t
    <2>4. QED
      BY <1>3, <1>5, <1>6, <2>1, <2>2, <2>3
  <1>7. CASE Head(q.calls) = "grant" /\ After(q.calls) = "putDid" /\ Grant(p)
    <2>1. q.key = None /\ q.rec.key \in Keys
      BY <1>1, <1>7 DEF KeysFit
    <2>2. held' = held /\ backup' = backup /\ dids' = dids
      <3>1. UNCHANGED <<subs, dids, accounts, backup, held, exempt, calm, cut, faults>>
        BY <1>7, Zenon DEF Grant
      <3>2. QED
        BY <3>1
    <2>3. q.did \in DID /\ q.sub \in Sub
      BY <1>3 DEF Named, Granting
    <2> DEFINE o == dids[q.did]
               n(k) == [t EXCEPT !.key = k, !.rec = [key |-> k, handles |-> {q.sub}]]
               m == [t EXCEPT !.rec = Added(o, q.sub)]
    <2>4. ASSUME NEW k, Go(p, n(k))
          PROVE  KInv'
      <3> DEFINE u == n(k)
      <3>1. /\ u.op = q.op /\ u.key = k /\ u.rec.key = k /\ u.file = q.file /\ u.calls = t.calls
            /\ Go(p, u)
        BY <1>3, <2>4 DEF Request
      <3> HIDE DEF u, t
      <3>2. u.calls # <<>> /\ Head(u.calls) = "putDid"
        BY <1>3, <1>7, <3>1
      <3>3. QED
        BY <1>5, <2>1, <2>2, <3>1, <3>2
    <2>5. ASSUME Go(p, m), o # None
          PROVE  KInv'
      <3> DEFINE r == Added(o, q.sub)
      <3>1. o \in Record /\ o.key \in Keys
        BY <1>1, <2>3, <2>5 DEF KeysIn
      <3>2. r.key \in Keys
        BY <2>5, <3>1 DEF Added, Record
      <3>3. m.op = q.op /\ m.key = q.key /\ m.rec = r /\ m.file = q.file /\ m.calls = t.calls
        BY <1>3 DEF Request
      <3> HIDE DEF m, r, t
      <3>4. m.calls # <<>> /\ Head(m.calls) = "putDid"
        BY <1>3, <1>7, <3>3
      <3>5. QED
        BY <1>5, <2>1, <2>2, <2>5, <3>2, <3>3, <3>4
    <2>6. CASE Answer(p)
      <3>1. NoRequest.calls = <<>>
        BY DEF NoRequest
      <3>2. Go(p, NoRequest)
        BY <2>6, <3>1 DEF Answer, Go
      <3>3. QED
        BY <1>5, <2>1, <2>2, <3>1, <3>2
    <2>7. Answer(p) \/ (o # None /\ Go(p, m)) \/ \E k : Go(p, n(k))
      BY <1>7, Zenon DEF Grant
    <2> HIDE DEF n, m
    <2>8. QED
      BY <2>4, <2>5, <2>6, <2>7
  <1>8. CASE \/ Head(q.calls) = "putDid" /\ After(q.calls) = "putSub" /\ PutDid(p)
             \/ Head(q.calls) = "putSub" /\ After(q.calls) = "log" /\ PutSub(p)
    <2>1. Go(p, t)
      BY <1>8 DEF PutDid, PutSub
    <2>2. held' = held /\ backup' = backup
      <3>1. PutDid(p) => held' = held /\ backup' = backup
        BY DEF PutDid
      <3>2. PutSub(p) => held' = held /\ backup' = backup
        BY DEF PutSub, World
      <3>3. QED
        BY <1>8, <3>1, <3>2
    <2>3. \A d \in DID : dids'[d] \in {dids[d], None, q.rec}
      BY <1>1, <1>8 DEF PutDid, PutSub
    <2>4. q.rec.key \in Keys
      BY <1>1 DEF KeysFit
    <2> HIDE DEF t
    <2>5. t.calls # <<>> /\ Head(t.calls) \in {"putSub", "log"}
      BY <1>3, <1>8
    <2>6. QED
      BY <1>3, <1>5, <2>1, <2>2, <2>3, <2>4, <2>5
  <1>9. CASE Head(q.calls) = "log" /\ After(q.calls) = "end" /\ LogActivity(p)
    <2>1. Go(p, t) /\ backup' = backup /\ dids' = dids
      BY <1>9 DEF LogActivity
    <2>2. held \subseteq held' /\ q.key \in held' \cup {None}
      BY <1>9 DEF LogActivity
    <2> HIDE DEF t
    <2>3. t.calls = <<>>
      BY <1>3, <1>9
    <2>4. QED
      BY <1>5, <2>1, <2>2, <2>3
  <1>10. QED
    BY <1>6, <1>7, <1>8, <1>9, GrantingCalls

LEMMA ServeKInv ==
  ASSUME WInv, KInv, NEW p \in Proc, Serve(p)
  PROVE  KInv'
  <1>1. cut' = cut /\ IInv
    BY ServeKeeps DEF WInv
  <1>2. CASE "secret" \in cut
    BY <1>1, <1>2 DEF KInv
  <1>3. CASE "secret" \notin cut
    <2>1. CASE req[p].op \in Granting
      BY <1>3, <2>1, KeysGrant
    <2>2. CASE req[p].op \notin Granting
      <3>1. \/ CheckTaken(p) \/ CheckOther(p) \/ AdminCheck(p) \/ PdsRefuses(p) \/ ReadAll(p)
            \/ DeleteOwn(p) \/ CheckOld(p) \/ ListSubs(p) \/ ListDids(p) \/ Fill(p) \/ GetSession(p)
            => KInv'
        BY <1>1, <1>3, <2>2, KeysRead
      <3>2. \/ PutSub(p) \/ DeleteSub(p) \/ PutDid(p) \/ SaveDid(p) \/ DeleteDid(p)
            \/ LogActivity(p) \/ DeleteAll(p) \/ DeleteOld(p) \/ Wipe(p) \/ RestoreSubs(p)
            \/ PdsUpdatesHandle(p) \/ PdsDeletesAccount(p)
            => KInv'
        BY <1>1, <1>3, <2>2, KeysWrite
      <3>3. AddHandle(p) \/ FindDidBySecretHash(p) \/ AdminRead(p) \/ Replace(p) => KInv'
        BY <1>1, <1>3, <2>2, KeysCopies
      <3>4. Dump(p) \/ Restore(p) \/ PdsCreatesAccount(p) => KInv'
        BY <1>1, <1>3, <2>2, KeysFiles
      <3>5. ~Grant(p)
        <4>1. Grant(p) => At(p, "grant")
          BY Zenon DEF Grant
        <4>2. At(p, "grant") => req[p].op \in Granting
          <5> SUFFICES ASSUME At(p, "grant")
                       PROVE  req[p].op \in Granting
            OBVIOUS
          <5>1. req[p].op \in AllOps /\ Head(req[p].calls) = "grant" /\ Scripted(req[p])
            BY Turn
          <5>2. QED
            BY <5>1, Courses DEF Goes, AllOps, Public, Admin, Internal, Proxied, Granting
        <4>3. QED
          BY <2>2, <4>1, <4>2
      <3>6. QED
        BY <3>1, <3>2, <3>3, <3>4, <3>5 DEF Serve
    <2>3. QED
      BY <2>1, <2>2
  <1>4. QED
    BY <1>2, <1>3

(* A request comes in without a record and without a new secret. *)
Fresh(op, q) == /\ q.rec = NoRecord /\ q.file \in {NoFile, backup}
                /\ op \in Granting => q.key = None

LEMMA ArrivesFresh ==
  ASSUME WInv, NEW p \in Proc,
         ReceivePublic(p) \/ ReceiveAdmin(p) \/ ReceiveInternal(p) \/ ReceiveProxied(p)
  PROVE  \E op, calls : \E q \in Request : Receive(p, op, calls, q) /\ Fresh(op, q)
  <1> DEFINE Arrives == \E op, calls : \E q \in Request : Receive(p, op, calls, q) /\ Fresh(op, q)
  <1>1. NoRequest \in Request /\ Fresh("", NoRequest)
    <2>1. NoRequest \in Request
      BY IdleFine
    <2>2. NoRequest.rec = NoRecord /\ NoRequest.file = NoFile /\ NoRequest.key = None
      BY DEF NoRequest
    <2>3. QED
      BY <2>1, <2>2 DEF Fresh
  <1>2. NoRequest.rec = NoRecord /\ NoRequest.file = NoFile /\ NoRequest.key = None
    BY DEF NoRequest
  <1>3. \A op, d, s : d \in DID \cup {None} /\ s \in Sub \cup {None, Elsewhere} =>
          Asks(d, s) \in Request /\ Fresh(op, Asks(d, s))
    BY <1>1, <1>2 DEF Asks, Fresh, Request
  <1>4. \A op, k, s : op \notin Granting /\ k \in Key /\ s \in Sub \cup {None} =>
          Shows(k, s) \in Request /\ Fresh(op, Shows(k, s))
    BY <1>1, <1>2 DEF Shows, Fresh, Request
  <1>5. backup \in Files /\ held \subseteq Key
    BY DEF WInv, IInv, Scene, Stores
  <1>6. CASE ReceivePublic(p)
    <2>1. "delete" \notin Granting /\ "manage" \notin Granting /\ "list" \notin Granting
      BY DEF Granting
    <2>2. QED
      BY <1>3, <1>4, <1>5, <1>6, <2>1 DEF ReceivePublic
  <1>7. CASE ReceiveAdmin(p)
    <2> DEFINE f == [NoRequest EXCEPT !.file = backup]
    <2>1. \A op : Fresh(op, NoRequest) /\ f \in Request /\ Fresh(op, f)
      BY <1>1, <1>2, <1>5 DEF Fresh, Request, Files
    <2> HIDE DEF f
    <2>2. \/ \E d \in DID, s \in Sub : \E op, calls : Receive(p, op, calls, Asks(d, s))
          \/ \E d \in DID : \E op, calls : Receive(p, op, calls, Asks(d, None))
          \/ \E op, calls : Receive(p, op, calls, NoRequest)
          \/ \E op, calls : Receive(p, op, calls, f)
      BY <1>7, Zenon DEF ReceiveAdmin, f
    <2>3. /\ \A d \in DID, s \in Sub : \A op : Asks(d, s) \in Request /\ Fresh(op, Asks(d, s))
          /\ \A d \in DID : \A op : Asks(d, None) \in Request /\ Fresh(op, Asks(d, None))
      BY <1>3
    <2>4. QED
      BY <1>1, <2>1, <2>2, <2>3, Zenon
  <1>8. CASE ReceiveInternal(p)
    <2> DEFINE c(d, s) == [Asks(d, s) EXCEPT !.old = accounts[d]]
    <2>1. \A d \in DID, s \in Sub : accounts[d] \in Sub =>
            c(d, s) \in Request /\ \A op : Fresh(op, c(d, s))
      <3>1. \A d \in DID, s \in Sub : Asks(d, s) \in Request /\ \A op : Fresh(op, Asks(d, s))
        BY <1>3
      <3>2. ASSUME NEW t \in Request, NEW o \in Sub
            PROVE  LET u == [t EXCEPT !.old = o] IN
                   u \in Request /\ u.rec = t.rec /\ u.file = t.file /\ u.key = t.key
        BY DEF Request
      <3>3. QED
        BY <3>1, <3>2 DEF Fresh
    <2> HIDE DEF c
    <2>2. \/ \E d \in DID, s \in Sub : \E op, calls : Receive(p, op, calls, Asks(d, s))
          \/ \E d \in DID : \E op, calls : Receive(p, op, calls, Asks(d, None))
          \/ \E d \in DID, s \in Sub : accounts[d] \in Sub /\ \E op, calls : Receive(p, op, calls, c(d, s))
      BY <1>8, Zenon DEF ReceiveInternal, ReceiveDidWebSync, ReceiveClaim, ReceiveSetHandle,
                         ReceiveChangeHandle, ReceiveAccountDeleted, c
    <2>3. /\ \A d \in DID, s \in Sub : \A op : Asks(d, s) \in Request /\ Fresh(op, Asks(d, s))
          /\ \A d \in DID : \A op : Asks(d, None) \in Request /\ Fresh(op, Asks(d, None))
      BY <1>3
    <2>4. QED
      BY <2>1, <2>2, <2>3, Zenon
  <1>9. CASE ReceiveProxied(p)
    <2>1. \/ \E s \in Sub : \E op, calls : Receive(p, op, calls, Asks(None, s))
          \/ \E d \in DID, h \in Sub \cup {Elsewhere} : \E op, calls : Receive(p, op, calls, Asks(d, h))
          \/ \E d \in DID : \E op, calls : Receive(p, op, calls, Asks(d, None))
      BY <1>9, Zenon DEF ReceiveProxied
    <2>2. /\ \A d \in DID, h \in Sub \cup {Elsewhere} :
               \A op : Asks(d, h) \in Request /\ Fresh(op, Asks(d, h))
          /\ \A d \in DID : \A op : Asks(d, None) \in Request /\ Fresh(op, Asks(d, None))
          /\ \A s \in Sub : \A op : Asks(None, s) \in Request /\ Fresh(op, Asks(None, s))
      BY <1>3
    <2>3. QED
      BY <2>1, <2>2, Zenon
  <1>10. QED
    BY <1>6, <1>7, <1>8, <1>9

LEMMA ReceiveKInv ==
  ASSUME WInv, KInv, NEW p \in Proc,
         ReceivePublic(p) \/ ReceiveAdmin(p) \/ ReceiveInternal(p) \/ ReceiveProxied(p)
  PROVE  KInv'
  <1>1. PICK op, calls : \E q \in Request : Receive(p, op, calls, q) /\ Fresh(op, q)
    BY ArrivesFresh
  <1>2. PICK q \in Request : Receive(p, op, calls, q) /\ Fresh(op, q)
    BY <1>1
  <1> DEFINE n == [q EXCEPT !.op = op, !.calls = calls, !.solo = Quiet]
             m(o) == [req[o] EXCEPT !.solo = FALSE]
  <1>3. /\ held' = held /\ cut' = cut /\ dids' = dids /\ backup' = backup /\ req[p].op = None
        /\ \A o \in Proc : req'[o] = IF o = p THEN n ELSE m(o)
    BY <1>2 DEF Receive
  <1>4. n.op = op /\ n.rec = q.rec /\ n.key = q.key /\ n.file = q.file
    BY DEF Request
  <1>5. \A o \in Proc : /\ m(o).op = req[o].op /\ m(o).calls = req[o].calls /\ m(o).key = req[o].key
                        /\ m(o).rec = req[o].rec /\ m(o).file = req[o].file
    BY DEF Request, WInv, IInv
  <1> HIDE DEF n, m
  <1> SUFFICES ASSUME "secret" \notin cut
               PROVE  KInv'
    BY <1>3 DEF KInv
  <1>6. /\ KeysIn(dids, Keys) /\ KeysIn(backup, Keys)
        /\ \A o \in Proc : KeysFit(req[o], Keys)
    BY DEF KInv
  <1>7. Keys \subseteq Keys' /\ None \in Keys'
    <2>1. None \notin Granting
      BY NoneAssumption DEF Granting, AllOps, Public, Admin
    <2>2. held' \cup {None} \subseteq Keys'
      BY DEF Keys
    <2>3. \A o \in Proc : req'[o].op \in Granting => req'[o].key \in Keys'
      BY DEF Keys
    <2>4. ASSUME NEW o \in Proc, req[o].op \in Granting
          PROVE  req[o].key \in Keys'
      <3>1. req'[o] = m(o)
        BY <1>3, <2>1, <2>4
      <3>2. QED
        BY <1>5, <2>3, <2>4, <3>1
    <2>5. QED
      BY <1>3, <2>2, <2>4 DEF Keys
  <1>8. \A o \in Proc \ {p} : KeysFit(req'[o], Keys')
    <2>1. \A o \in Proc : KeysFit(m(o), Keys)
      BY <1>5, <1>6 DEF KeysFit
    <2>2. QED
      BY <1>3, <1>7, <2>1, MoreKeys
  <1>9. KeysFit(req'[p], Keys')
    <2>1. KeysIn(q.file, Keys)
      BY <1>2, <1>6 DEF Fresh, KeysIn, NoFile
    <2>2. KeysIn(q.file, Keys')
      BY <1>7, <2>1, MoreKeys
    <2>3. KeysFit(n, Keys')
      BY <1>2, <1>4, <1>7, <2>2 DEF KeysFit, Fresh, NoRecord
    <2>4. QED
      BY <1>3, <2>3
  <1>10. KeysIn(dids', Keys') /\ KeysIn(backup', Keys')
    BY <1>3, <1>6, <1>7, MoreKeys
  <1>11. QED
    BY <1>7, <1>8, <1>9, <1>10, KeysStay

LEMMA CutKInv ==
  ASSUME WInv, KInv, NEW p \in Proc, CutShort(p)
  PROVE  KInv'
  <1> DEFINE q == req[p] n == [q EXCEPT !.calls = <<"pdsUpdate">>]
  <1>1. /\ held' = held /\ cut' = cut \cup LeftBehind(q.op) /\ dids' = dids /\ backup' = backup
    BY DEF CutShort
  <1>2. CASE "secret" \in cut'
    BY <1>2 DEF KInv
  <1>3. CASE "secret" \notin cut'
    <2>1. "secret" \notin cut /\ q.op \notin Granting
      BY <1>1, <1>3 DEF LeftBehind
    <2>2. IInv /\ KeysIn(dids', Keys) /\ q \in Request
      BY <1>1, <2>1 DEF KInv, WInv, IInv
    <2>3. Answer(p) \/ Go(p, n)
      BY DEF CutShort
    <2>4. Keeps(q, n)
      BY <2>2 DEF Keeps, Request
    <2> HIDE DEF n
    <2>5. QED
      BY <1>1, <2>1, <2>2, <2>3, <2>4, KeysPlain, KeysAnswer
  <1>4. QED
    BY <1>2, <1>3

LEMMA InitKInv == Init => KInv
  <1> SUFFICES ASSUME Init
               PROVE  KInv
    OBVIOUS
  <1>1. None \in Keys
    BY DEF Keys
  <1>2. KeysIn(dids, Keys) /\ KeysIn(backup, Keys)
    BY DEF Init, KeysIn, NoFile
  <1>3. \A p \in Proc : req[p] = NoRequest
    BY DEF Init
  <1>4. QED
    BY <1>1, <1>2, <1>3, IdleKeys DEF KInv

LEMMA NextKInv == WInv /\ KInv /\ [Next]_vars => KInv'
  <1> SUFFICES ASSUME WInv, KInv, [Next]_vars
               PROVE  KInv'
    OBVIOUS
  <1>1. ASSUME NEW p \in Proc,
               \/ ReceivePublic(p) \/ ReceiveAdmin(p) \/ ReceiveInternal(p)
               \/ ReceiveProxied(p) \/ Serve(p) \/ CutShort(p)
        PROVE  KInv'
    BY <1>1, ReceiveKInv, ServeKInv, CutKInv
  <1>2. CASE UNCHANGED vars
    BY <1>2 DEF vars, KInv, Keys
  <1>3. QED
    BY <1>1, <1>2 DEF Next

(* However requests overlap, when they have all been answered a record's   *)
(* secret is known to a client, unless the request that made it was cut    *)
(* short (KeysReachClients: anarchy-worker.js handleRegister,              *)
(* handleAdminAssignReserved).                                             *)
THEOREM WorkerKeysReachClients == Spec => []KeysReachClients
  <1>1. SInv => WInv
    BY DEF SInv
  <1>2. KInv => KeysReachClients
    <2> SUFFICES ASSUME KInv, Quiet, "secret" \notin cut
                 PROVE  \A d \in DID : dids[d] # None => dids[d].key \in held \cup {None}
      BY DEF KeysReachClients
    <2>1. None \notin Granting
      BY NoneAssumption DEF Granting, AllOps, Public, Admin
    <2>2. Keys = held \cup {None}
      BY <2>1 DEF Keys, Quiet, Busy
    <2>3. QED
      BY <2>2 DEF KInv, KeysIn
  <1>3. QED
    BY <1>1, <1>2, AlwaysSInv, InitKInv, NextKInv, PTL DEF Spec
=============================================================================
