-------------------------- MODULE WorkerPolicyProofs --------------------------
(***************************************************************************)
(* What holds of the legacy worker's lists, guards, log and session for    *)
(* any number of applicants and requests, any limits and log length, and   *)
(* whatever overlaps or is cut short.                                      *)
(***************************************************************************)
EXTENDS WorkerPolicy, TLAPS

-----------------------------------------------------------------------------
(* The calls a request still has to make *)

Left(s) == {s[i] : i \in DOMAIN s}

(* In s, c comes before every d. *)
Due(s, c, d) ==
  \A j \in DOMAIN s : s[j] = d => \E i \in DOMAIN s : i < j /\ s[i] = c

(* In s, a b comes between every a and a later c. *)
Between(s, a, b, c) ==
  \A i, j \in DOMAIN s :
    i < j /\ s[i] = a /\ s[j] = c => \E k \in DOMAIN s : i < k /\ k < j /\ s[k] = b

(* Where what was read is forgotten *)
Forgets == {"register", "view", "writeLog"}

(* The console's calls *)
Console == Loads \cup Saves \cup {"view", "show"}

(* What comes before what, in all handlers *)
Ordered(s) ==
  /\ \A b \in Loads : Between(s, "view", b, "show")
  /\ \A a \in Saves \cup {"register", "writeLog"} : Between(s, a, "view", "show")
  /\ \A a \in Forgets : Between(s, a, "readLog", "writeLog")
  /\ Between(s, "saveVip", "loadVip", "saveVip")
  /\ Between(s, "saveBlock", "loadBlock", "saveBlock")
  /\ Between(s, "saveReserved", "loadReserved", "saveReserved")
  /\ \A i, j \in DOMAIN s : i < j => s[j] # "bump"
  /\ \A i, j \in DOMAIN s : i < j /\ s[i] \in Forgets => s[j] \notin {"did", "pds"}

(* Which calls a kind of request makes *)
Allowed(op, who, s) ==
  /\ s # <<>>
  /\ Left(s) \cap {"did", "pds"} # {} => who \in Applicant
  /\ Left(s) \cap Saves # {} => op \in Writers
  /\ op \in Writers => "show" \in Left(s)
  /\ op \in Writers \/ (op = "login" /\ "show" \in Left(s)) => Left(s) \subseteq Console
  /\ "login" \in Left(s) => op = "login"

Shaped(q) ==
  q.op # None =>
    /\ Ordered(q.calls) /\ Allowed(q.op, q.who, q.calls)
    /\ Head(q.calls) = "bump" =>
         q.guard \in Guard /\ (q.guard \in {"did", "pds"} => q.who \in Applicant)

OneByOne == calm => \A p, o \in Busy : p = o

AInv == TypeOK /\ OneByOne /\ \A p \in Proc : Shaped(req[p])

-----------------------------------------------------------------------------
(* The bans: each is still to be looked at, or it is not one that was in   *)
(* force throughout; between the reading of a list and the look at it the  *)
(* list held what is stored.                                               *)

BanFit(q, lists) ==
  LET s == q.calls IN
  q.op = "register" =>
    /\ \A l \in q.bans : q.who \in lists[l]
    /\ "blockedKeywords" \in q.bans => Due(s, "loadBlock", "register")
    /\ "reservedHandles" \in q.bans => Due(s, "loadReserved", "register")
    /\ "blockDids" \in q.bans =>
         /\ Due(s, "resolveDid", "register")
         /\ Due(s, "loadBlock", "resolveDid") \/ q.who \in q.lists["blockDids"]
    /\ "blockPds" \in q.bans =>
         /\ q.pds => Due(s, "resolvePds", "register")
         /\ Due(s, "loadBlock", "resolvePds") \/ q.who \in q.lists["blockPds"]

BanInv == AInv /\ \A p \in Proc : BanFit(req[p], config)

(* The guards: who is between the two halves of one has counted itself.    *)
Bumps(q) == q.op # None /\ Head(q.calls) = "bump" /\ ~q.late
Mine(q)  == CounterOf(q, q.guard)

GuardInv ==
  /\ AInv
  /\ \A c \in Counter : counts[c] <= attempts[c]
  /\ \A p \in Proc : Bumps(req[p]) => req[p].seen + 1 <= attempts[Mine(req[p])]
  /\ calm /\ faults = 0 =>
       /\ \A p \in Proc : Bumps(req[p]) => req[p].seen + 1 = attempts[Mine(req[p])]
       /\ \A c \in Counter :
            counts[c] = attempts[c] \/ \E p \in Proc : Bumps(req[p]) /\ Mine(req[p]) = c

(* The log, and every copy of it: as many events as there are places have  *)
(* been written since, at least.                                           *)
Spaced(s, n) ==
  /\ \A i, j \in DOMAIN s : i < j => s[i] < s[j]
  /\ \A i \in DOMAIN s : s[i] <= n - (Len(s) - i)

LogFit(q, s) == q.op # None => Due(q.calls, "readLog", "writeLog") \/ q.copy = s

LogInv ==
  /\ AInv
  /\ LogInWriteOrder
  /\ Spaced(log, logged) /\ \A p \in Proc : Spaced(req[p].copy, logged)
  /\ calm => \A p \in Proc : LogFit(req[p], log)

(* The screen: it is going to show what is stored, or does.                *)
Showing(q) == q.op \in Writers \cup {"login"} /\ "show" \in Left(q.calls)

ShowFit(q, lists) ==
  q.op # None =>
    \A c \in Loads : \/ Due(q.calls, "view", "show") \/ Due(q.calls, c, "show")
                     \/ \A l \in In(c) : q.lists[l] = lists[l]

ScreenInv ==
  /\ AInv
  /\ calm => \A p \in Proc : ShowFit(req[p], config)
  /\ calm /\ faults = 0 /\ session => screen = config \/ \E p \in Proc : Showing(req[p])

(* The edits: what is going to be saved is what is stored, for a change    *)
(* that overlaps no other.                                                 *)
Documents == {<<"loadVip", "saveVip">>, <<"loadBlock", "saveBlock">>,
              <<"loadReserved", "saveReserved">>}

Kept(q, d, lists) ==
  Due(q.calls, d[1], d[2]) \/ \A l \in In(d[1]) : q.lists[l] = lists[l]

EditFit(q, lists) ==
  q.alone /\ q.op = "post" => \A d \in Documents : Kept(q, d, lists)

EditInv ==
  /\ AInv
  /\ \A p \in Proc : EditFit(req[p], config)
  /\ \A p, o \in Proc : p # o /\ req[p].alone => req[o].op \notin Writers

-----------------------------------------------------------------------------
(* What the order of the calls becomes *)

LEMMA TailIs ==
  ASSUME NEW s \in Seq(Call), s # <<>>
  PROVE  /\ Head(s) = s[1] /\ Tail(s) \in Seq(Call) /\ Len(s) \in Nat \ {0}
         /\ DOMAIN s = 1 .. Len(s) /\ DOMAIN Tail(s) = 1 .. Len(s) - 1
         /\ \A i \in 1 .. Len(s) - 1 : Tail(s)[i] = s[i + 1]
         /\ Head(s) \in Left(s)
  <1>1. /\ Head(s) = s[1] /\ Tail(s) \in Seq(Call) /\ Len(s) \in Nat \ {0}
        /\ DOMAIN s = 1 .. Len(s) /\ DOMAIN Tail(s) = 1 .. Len(s) - 1
        /\ \A i \in 1 .. Len(s) - 1 : Tail(s)[i] = s[i + 1]
    OBVIOUS
  <1>2. QED
    BY <1>1 DEF Left

LEMMA TailLeft ==
  ASSUME NEW s \in Seq(Call), s # <<>>
  PROVE  Left(s) = {Head(s)} \cup Left(Tail(s))
  <1>1. \A i \in DOMAIN s : i = 1 \/ (i - 1 \in DOMAIN Tail(s) /\ s[i] = Tail(s)[i - 1])
    BY TailIs
  <1>2. \A i \in DOMAIN Tail(s) : i + 1 \in DOMAIN s /\ Tail(s)[i] = s[i + 1]
    BY TailIs
  <1>3. Left(s) \subseteq {Head(s)} \cup Left(Tail(s))
    <2> SUFFICES ASSUME NEW i \in DOMAIN s
                 PROVE  s[i] \in {Head(s)} \cup Left(Tail(s))
      BY DEF Left
    <2>1. QED
      BY <1>1, TailIs DEF Left
  <1>4. Left(Tail(s)) \subseteq Left(s)
    <2> SUFFICES ASSUME NEW i \in DOMAIN Tail(s)
                 PROVE  Tail(s)[i] \in Left(s)
      BY DEF Left
    <2>1. QED
      BY <1>2 DEF Left
  <1>5. QED
    BY <1>3, <1>4, TailIs

LEMMA TailDue ==
  ASSUME NEW s \in Seq(Call), s # <<>>, NEW c, NEW d, Due(s, c, d), Head(s) # c
  PROVE  Due(Tail(s), c, d) /\ Head(s) # d
  <1>1. ASSUME NEW j \in DOMAIN Tail(s), Tail(s)[j] = d
        PROVE  \E i \in DOMAIN Tail(s) : i < j /\ Tail(s)[i] = c
    <2>1. j + 1 \in DOMAIN s /\ s[j + 1] = d /\ j \in Int
      BY <1>1, TailIs
    <2>2. PICK i \in DOMAIN s : i < j + 1 /\ s[i] = c
      BY <2>1 DEF Due
    <2>3. i # 1 /\ i \in 1 .. Len(s) /\ Len(s) \in Nat
      BY <2>2, TailIs
    <2>4. i - 1 \in 1 .. Len(s) - 1 /\ i - 1 < j /\ (i - 1) + 1 = i
      BY <2>1, <2>2, <2>3
    <2>5. i - 1 \in DOMAIN Tail(s) /\ Tail(s)[i - 1] = c
      BY <2>2, <2>4, TailIs
    <2>6. QED
      BY <2>4, <2>5
  <1>2. Head(s) # d
    BY TailIs DEF Due
  <1>3. QED
    BY <1>1, <1>2 DEF Due

LEMMA TailBetween ==
  ASSUME NEW s \in Seq(Call), s # <<>>, NEW a, NEW b, NEW c, Between(s, a, b, c)
  PROVE  /\ Between(Tail(s), a, b, c)
         /\ Head(s) = a => Due(Tail(s), b, c)
  <1>1. ASSUME NEW i \in 1 .. Len(s), NEW j \in DOMAIN Tail(s), i < j + 1,
               s[i] = a, Tail(s)[j] = c
        PROVE  \E k \in DOMAIN Tail(s) : i < k + 1 /\ k < j /\ Tail(s)[k] = b
    <2>1. j + 1 \in DOMAIN s /\ s[j + 1] = c /\ j \in Int /\ i \in DOMAIN s
      BY <1>1, TailIs
    <2>2. PICK k \in DOMAIN s : i < k /\ k < j + 1 /\ s[k] = b
      BY <1>1, <2>1 DEF Between
    <2>3. k \in 1 .. Len(s) /\ Len(s) \in Nat
      BY TailIs
    <2>4. k - 1 \in 1 .. Len(s) - 1 /\ k - 1 < j /\ (k - 1) + 1 = k
      BY <2>1, <2>2, <2>3
    <2>5. k - 1 \in DOMAIN Tail(s) /\ Tail(s)[k - 1] = b
      BY <2>2, <2>4, TailIs
    <2>6. QED
      BY <2>2, <2>4, <2>5
  <1>2. Between(Tail(s), a, b, c)
    <2> SUFFICES ASSUME NEW i \in DOMAIN Tail(s), NEW j \in DOMAIN Tail(s), i < j,
                        Tail(s)[i] = a, Tail(s)[j] = c
                 PROVE  \E k \in DOMAIN Tail(s) : i < k /\ k < j /\ Tail(s)[k] = b
      BY DEF Between
    <2>1. /\ i \in 1 .. Len(s) - 1 /\ j \in 1 .. Len(s) - 1 /\ Len(s) \in Nat
          /\ s[i + 1] = a
      BY TailIs
    <2>2. i + 1 \in 1 .. Len(s) /\ i + 1 < j + 1
      BY <2>1
    <2>3. PICK k \in DOMAIN Tail(s) : i + 1 < k + 1 /\ k < j /\ Tail(s)[k] = b
      BY <1>1, <2>1, <2>2
    <2>4. k \in Int
      BY TailIs
    <2>5. QED
      BY <2>1, <2>3, <2>4
  <1>3. Head(s) = a => Due(Tail(s), b, c)
    <2> SUFFICES ASSUME Head(s) = a, NEW j \in DOMAIN Tail(s), Tail(s)[j] = c
                 PROVE  \E k \in DOMAIN Tail(s) : k < j /\ Tail(s)[k] = b
      BY DEF Due
    <2>1. 1 \in 1 .. Len(s) /\ s[1] = a /\ j \in 1 .. Len(s) - 1 /\ Len(s) \in Nat
      BY TailIs
    <2>2. 1 < j + 1
      BY <2>1
    <2>3. QED
      BY <1>1, <2>1, <2>2
  <1>4. QED
    BY <1>2, <1>3

LEMMA TailOrdered ==
  ASSUME NEW s \in Seq(Call), s # <<>>, Ordered(s)
  PROVE  /\ Ordered(Tail(s)) /\ "bump" \notin Left(Tail(s))
         /\ Head(s) \in Forgets => Left(Tail(s)) \cap {"did", "pds"} = {}
  <1>1. /\ \A i \in DOMAIN Tail(s) : i + 1 \in DOMAIN s /\ Tail(s)[i] = s[i + 1] /\ i \in Nat \ {0}
        /\ 1 \in DOMAIN s /\ Head(s) = s[1]
    BY TailIs
  <1>2. /\ \A i, j \in DOMAIN Tail(s) : i < j => Tail(s)[j] # "bump"
        /\ \A i, j \in DOMAIN Tail(s) :
             i < j /\ Tail(s)[i] \in Forgets => Tail(s)[j] \notin {"did", "pds"}
    BY <1>1 DEF Ordered
  <1>3. Ordered(Tail(s))
    BY <1>2, TailBetween DEF Ordered
  <1>4. ASSUME NEW i \in DOMAIN Tail(s)
        PROVE  /\ Tail(s)[i] # "bump"
               /\ Head(s) \in Forgets => Tail(s)[i] \notin {"did", "pds"}
    <2>1. 1 < i + 1 /\ i + 1 \in DOMAIN s
      BY <1>1
    <2>2. QED
      BY <1>1, <2>1 DEF Ordered
  <1>5. QED
    BY <1>3, <1>4 DEF Left

LEMMA BumpFirst ==
  ASSUME NEW s \in Seq(Call), s # <<>>, Head(s) \in Guard, NEW t, t = [s EXCEPT ![1] = "bump"]
  PROVE  /\ t \in Seq(Call) /\ t # <<>> /\ Head(t) = "bump" /\ DOMAIN t = DOMAIN s
         /\ \A i \in DOMAIN s : i # 1 => t[i] = s[i]
         /\ t[1] = "bump" /\ s[1] \in Guard
         /\ Left(t) \subseteq Left(s) \cup {"bump"}
  <1>1. "bump" \in Call
    BY DEF Call
  <1>2. s[1] \in Guard /\ DOMAIN s = 1 .. Len(s) /\ Len(s) \in Nat \ {0} /\ 1 \in DOMAIN s
    BY TailIs
  <1>3. /\ DOMAIN t = DOMAIN s /\ t[1] = "bump" /\ \A i \in DOMAIN s : i # 1 => t[i] = s[i]
        /\ t \in [1 .. Len(s) -> Call]
    BY <1>1, <1>2
  <1>4. t \in Seq(Call)
    BY <1>2, <1>3
  <1>5. t # <<>> /\ Head(t) = "bump"
    BY <1>2, <1>3, <1>4
  <1>6. Left(t) \subseteq Left(s) \cup {"bump"}
    BY <1>2, <1>3 DEF Left
  <1>7. QED
    BY <1>2, <1>3, <1>4, <1>5, <1>6

LEMMA BumpDue ==
  ASSUME NEW s \in Seq(Call), s # <<>>, Head(s) \in Guard, NEW t, t = [s EXCEPT ![1] = "bump"],
         NEW c \in Call \ (Guard \cup {"bump"}), NEW d \in Call \ (Guard \cup {"bump"}),
         Due(s, c, d)
  PROVE  Due(t, c, d)
  BY BumpFirst DEF Due

LEMMA BumpOrdered ==
  ASSUME NEW s \in Seq(Call), s # <<>>, Head(s) \in Guard, NEW t, t = [s EXCEPT ![1] = "bump"],
         Ordered(s)
  PROVE  Ordered(t)
  <1> DEFINE K == Call \ (Guard \cup {"bump"})
  <1>1. \A a, b, c \in K : Between(s, a, b, c) => Between(t, a, b, c)
    BY BumpFirst DEF Between
  <1>2. /\ Loads \subseteq K /\ Saves \subseteq K /\ Forgets \subseteq K
        /\ "show" \in K /\ "readLog" \in K /\ "view" \in K /\ "register" \in K
        /\ "writeLog" \in K /\ "saveVip" \in K /\ "saveBlock" \in K /\ "saveReserved" \in K
        /\ "loadVip" \in K /\ "loadBlock" \in K /\ "loadReserved" \in K
    BY DEF Call, Loads, Saves, Guard, Forgets
  <1> HIDE DEF K
  <1>3. /\ \A b \in Loads : Between(t, "view", b, "show")
        /\ \A a \in Saves \cup {"register", "writeLog"} : Between(t, a, "view", "show")
        /\ \A a \in Forgets : Between(t, a, "readLog", "writeLog")
    BY <1>1, <1>2 DEF Ordered
  <1>4. /\ Between(t, "saveVip", "loadVip", "saveVip")
        /\ Between(t, "saveBlock", "loadBlock", "saveBlock")
        /\ Between(t, "saveReserved", "loadReserved", "saveReserved")
    BY <1>1, <1>2 DEF Ordered
  <1>5. \A i \in DOMAIN s : i \in Nat \ {0}
    BY TailIs
  <1>6. \A i, j \in DOMAIN t : i < j => t[j] # "bump"
    BY <1>5, BumpFirst DEF Ordered
  <1>7. \A i, j \in DOMAIN t : i < j /\ t[i] \in Forgets => t[j] \notin {"did", "pds"}
    BY <1>5, BumpFirst DEF Ordered, Forgets
  <1>8. QED
    BY <1>3, <1>4, <1>6, <1>7 DEF Ordered

-----------------------------------------------------------------------------
(* What a request becomes with a call *)

Keeps(q, n) ==
  /\ n.op = q.op /\ n.who = q.who /\ n.change = q.change
  /\ n.bans = q.bans /\ n.alone = q.alone

(* It goes on with the next one. *)
Passes(q, n) ==
  LET h == Head(q.calls) IN
  /\ n.calls = Tail(q.calls) /\ h # "show"
  /\ Keeps(q, n)
  /\ n.lists = IF h \in Loads THEN Read(q, h) ELSE q.lists
  /\ n.copy = IF h = "readLog" THEN log ELSE q.copy
  /\ h \in Loads => ~ Refused(q, h)
  /\ h = "resolveDid" => q.who \notin q.lists["blockDids"]
  /\ IF h = "resolvePds" THEN n.pds => q.who \notin q.lists["blockPds"] ELSE n.pds = q.pds

(* It has read a counter. *)
Counts(q, n) ==
  /\ Head(q.calls) \in Guard /\ n.calls = [q.calls EXCEPT ![1] = "bump"]
  /\ Keeps(q, n) /\ n.lists = q.lists /\ n.copy = q.copy /\ n.pds = q.pds
  /\ n.guard = Head(q.calls)

(* It is over. *)
Ends(q) ==
  LET h == Head(q.calls) IN
  \/ Tail(q.calls) = <<>>
  \/ h \in {"login", "logout", "dump", "resolveDid", "bump", "register", "show"}
  \/ h \in Loads /\ q.op \in {"register", "assign"}
  \/ h = "view" /\ ~session
  \/ faults' # 0

Turns(q, n) ==
  \/ Passes(q, n)
  \/ n = Forgetting(q) /\ Head(q.calls) \in Forgets
  \/ n = Blocked(q) /\ Head(q.calls) \in {"resolveDid", "resolvePds"}
  \/ n = [q EXCEPT !.calls = LoadPolicy] /\ Head(q.calls) = "login"
  \/ Counts(q, n)

Moves(q, n) ==
  \/ n = NoRequest /\ Ends(q)
  \/ Turns(q, n) /\ n.calls # <<>>

LEMMA NoRequestIs ==
  /\ NoRequest \in Request /\ NoRequest.op = None /\ NoRequest.calls = <<>>
  /\ NoRequest.copy = <<>> /\ NoRequest.bans = {} /\ NoRequest.alone = FALSE
  /\ NoRequest.lists = NoLists /\ NoRequest.change = None /\ NoRequest.who = None
  /\ NoRequest.late = FALSE /\ NoRequest.pds = FALSE /\ NoRequest.guard = None
  /\ Shaped(NoRequest)
  <1>1. /\ NoRequest.op = None /\ NoRequest.calls = <<>>
        /\ NoRequest.copy = <<>> /\ NoRequest.bans = {} /\ NoRequest.alone = FALSE
        /\ NoRequest.lists = NoLists /\ NoRequest.change = None /\ NoRequest.who = None
        /\ NoRequest.late = FALSE /\ NoRequest.pds = FALSE /\ NoRequest.guard = None
    BY DEF NoRequest
  <1>2. NoLists \in Lists /\ <<>> \in Seq(Call) /\ <<>> \in Seq(Nat)
    BY DEF NoLists, Lists
  <1>3. NoRequest \in Request
    BY <1>2 DEF NoRequest, Request
  <1>4. Shaped(NoRequest)
    BY <1>1 DEF Shaped
  <1>5. QED
    BY <1>1, <1>3, <1>4

LEMMA ForgettingIs ==
  ASSUME NEW q \in Request, q.calls # <<>>
  PROVE  LET n == Forgetting(q) IN
         /\ n \in Request /\ n.op = q.op /\ n.calls = Tail(q.calls)
         /\ n.copy = <<>> /\ n.bans = {} /\ n.alone = FALSE /\ n.lists = NoLists
         /\ n.change = None /\ n.who = None /\ n.late = FALSE /\ n.pds = FALSE
  <1>1. Tail(q.calls) \in Seq(Call) /\ q.op \in AllOps \cup {None}
    BY TailIs DEF Request
  <1>2. Forgetting(q) \in Request
    BY <1>1, NoRequestIs DEF Forgetting, Request
  <1>3. QED
    BY <1>2 DEF Forgetting, NoRequest

LEMMA BlockedIs ==
  ASSUME NEW q \in Request, q.calls # <<>>
  PROVE  LET n == Blocked(q) IN
         /\ n \in Request /\ n.op = q.op /\ n.calls = <<"readLog", "writeLog">>
         /\ n.copy = <<>> /\ n.bans = {} /\ n.alone = FALSE /\ n.lists = NoLists
         /\ n.change = None /\ n.who = None /\ n.late = FALSE
  <1>1. <<"readLog", "writeLog">> \in Seq(Call)
    BY DEF Call
  <1>2. Blocked(q) \in Request
    BY <1>1, ForgettingIs DEF Blocked, Request
  <1>3. Blocked(q) = [Forgetting(q) EXCEPT !.calls = <<"readLog", "writeLog">>]
    BY DEF Blocked
  <1> DEFINE n == Forgetting(q)
  <1>4. /\ n \in Request /\ n.op = q.op /\ n.copy = <<>> /\ n.bans = {} /\ n.alone = FALSE
        /\ n.lists = NoLists /\ n.change = None /\ n.who = None /\ n.late = FALSE
    BY ForgettingIs
  <1> HIDE DEF n
  <1>5. [n EXCEPT !.calls = <<"readLog", "writeLog">>] \in Request
    BY <1>1, <1>4 DEF Request
  <1>6. QED
    BY <1>2, <1>3, <1>4 DEF Request, n

LEMMA TwoCalls ==
  LET s == <<"readLog", "writeLog">> IN
  /\ s \in Seq(Call) /\ s # <<>> /\ DOMAIN s = {1, 2} /\ s[1] = "readLog" /\ s[2] = "writeLog"
  /\ Left(s) = {"readLog", "writeLog"} /\ Head(s) = "readLog"
  /\ Ordered(s) /\ Due(s, "readLog", "writeLog") /\ Due(s, "view", "show")
  <1>1. PICK s : s = <<"readLog", "writeLog">>
    OBVIOUS
  <1>2. /\ s \in Seq(Call) /\ s # <<>> /\ DOMAIN s = {1, 2} /\ s[1] = "readLog"
        /\ s[2] = "writeLog" /\ Head(s) = "readLog"
    BY <1>1 DEF Call
  <1>3. Left(s) = {"readLog", "writeLog"}
    BY <1>2 DEF Left
  <1>4. Due(s, "readLog", "writeLog") /\ Due(s, "view", "show")
    BY <1>2 DEF Due
  <1>5. Ordered(s)
    BY <1>2 DEF Ordered, Between, Loads, Saves, Forgets
  <1>6. QED
    BY <1>1, <1>2, <1>3, <1>4, <1>5

LEMMA PolicyCalls ==
  LET s == LoadPolicy IN
  /\ s \in Seq(Call) /\ s # <<>> /\ Len(s) = 5 /\ DOMAIN s = 1 .. 5
  /\ s[1] = "view" /\ s[2] = "loadVip" /\ s[3] = "loadBlock" /\ s[4] = "loadReserved"
  /\ s[5] = "show"
  /\ Left(s) = Loads \cup {"view", "show"} /\ Head(s) = "view"
  /\ Ordered(s) /\ Due(s, "readLog", "writeLog") /\ Due(s, "view", "show")
  <1>1. PICK s : s = LoadPolicy
    OBVIOUS
  <1>2. /\ s \in Seq(Call) /\ s # <<>> /\ Len(s) = 5 /\ DOMAIN s = 1 .. 5
        /\ s[1] = "view" /\ s[2] = "loadVip" /\ s[3] = "loadBlock" /\ s[4] = "loadReserved"
        /\ s[5] = "show" /\ Head(s) = "view"
    BY <1>1 DEF LoadPolicy, Call, Loads
  <1>3. Left(s) = Loads \cup {"view", "show"}
    BY <1>2 DEF Left, Loads
  <1>4. Due(s, "readLog", "writeLog") /\ Due(s, "view", "show")
    BY <1>2 DEF Due
  <1>5. Ordered(s)
    BY <1>2 DEF Ordered, Between, Loads, Saves, Forgets
  <1>6. QED
    BY <1>1, <1>2, <1>3, <1>4, <1>5

LEMMA MovesShaped ==
  ASSUME NEW q \in Request, q.op # None, Shaped(q), NEW n \in Request, Moves(q, n)
  PROVE  Shaped(n)
  <1> DEFINE s == q.calls
             h == Head(q.calls)
  <1>1. s \in Seq(Call) /\ s # <<>> /\ Ordered(s) /\ Allowed(q.op, q.who, s)
    BY DEF Shaped, Allowed, Request
  <1>2. /\ Tail(s) \in Seq(Call) /\ Left(s) = {h} \cup Left(Tail(s)) /\ Ordered(Tail(s))
        /\ "bump" \notin Left(Tail(s))
        /\ h \in Forgets => Left(Tail(s)) \cap {"did", "pds"} = {}
    BY <1>1, TailLeft, TailIs, TailOrdered
  <1>3. h \notin Console => q.op \notin Writers /\ ~(q.op = "login" /\ "show" \in Left(s))
    BY <1>2, <1>1 DEF Allowed
  <1>4. CASE n = NoRequest
    BY <1>4, NoRequestIs
  <1>5. ASSUME n.calls = Tail(s), n.calls # <<>>, n.op = q.op, h # "show",
               n.who = q.who \/ h \in Forgets
        PROVE  Shaped(n)
    <2>1. Head(n.calls) \in Left(n.calls)
      BY <1>2, <1>5, TailIs
    <2>2. Head(n.calls) # "bump"
      BY <2>1, <1>2, <1>5
    <2>3. Allowed(n.op, n.who, n.calls)
      BY <1>1, <1>2, <1>5 DEF Allowed
    <2>4. QED
      BY <2>2, <2>3, <1>2, <1>5 DEF Shaped
  <1>6. CASE Passes(q, n) /\ n.calls # <<>>
    BY <1>5, <1>6 DEF Passes, Keeps
  <1>7. CASE n = Forgetting(q) /\ n.calls # <<>> /\ h \in Forgets
    <2>1. n.calls = Tail(s) /\ n.op = q.op /\ h # "show"
      BY <1>1, <1>7, ForgettingIs DEF Forgets
    <2>2. QED
      BY <1>5, <1>7, <2>1
  <1>8. CASE n = Blocked(q) /\ h \in {"resolveDid", "resolvePds"}
    <2>1. n.calls = <<"readLog", "writeLog">> /\ n.op = q.op
      BY <1>1, <1>8, BlockedIs
    <2>2. h \notin Console
      BY <1>8 DEF Console, Loads, Saves
    <2>3. PICK t : t = <<"readLog", "writeLog">>
      OBVIOUS
    <2>4. /\ t \in Seq(Call) /\ t # <<>> /\ Left(t) = {"readLog", "writeLog"}
          /\ Head(t) = "readLog" /\ Ordered(t)
      BY <2>3, TwoCalls
    <2>5. Allowed(n.op, n.who, t)
      BY <2>1, <2>2, <2>4, <1>3 DEF Allowed, Saves
    <2>6. n.calls = t
      BY <2>1, <2>3
    <2>7. QED
      BY <2>4, <2>5, <2>6 DEF Shaped
  <1>9. CASE n = [q EXCEPT !.calls = LoadPolicy] /\ h = "login"
    <2>1. n.calls = LoadPolicy /\ n.op = q.op /\ n.who = q.who
      BY <1>9 DEF Request
    <2>2. q.op \notin Writers
      BY <1>3, <1>9 DEF Console, Loads, Saves
    <2>3. Allowed(n.op, n.who, LoadPolicy)
      BY <2>1, <2>2, PolicyCalls DEF Allowed, Console, Loads, Saves
    <2>4. QED
      BY <2>1, <2>3, PolicyCalls DEF Shaped
  <1>10. CASE Counts(q, n)
    <2>1. h \in Guard /\ n.op = q.op /\ n.who = q.who /\ n.guard = h
      BY <1>10 DEF Counts, Keeps
    <2>2. PICK t : t = [s EXCEPT ![1] = "bump"]
      OBVIOUS
    <2>3. n.calls = t
      BY <2>2, <1>10 DEF Counts
    <2>4. /\ t # <<>> /\ Left(t) \subseteq Left(s) \cup {"bump"} /\ Ordered(t)
      BY <2>1, <2>2, <1>1, BumpFirst, BumpOrdered
    <2>5. h \notin Console
      BY <2>1 DEF Console, Guard, Loads, Saves
    <2>6. "show" \in Left(t) => "show" \in Left(s)
      BY <2>4
    <2>7. Allowed(n.op, n.who, t)
      BY <2>1, <2>4, <2>5, <2>6, <1>1, <1>3 DEF Allowed, Saves
    <2>8. h \in {"did", "pds"} => n.who \in Applicant
      BY <2>1, <1>1, <1>2 DEF Allowed
    <2>9. QED
      BY <2>1, <2>3, <2>4, <2>7, <2>8 DEF Shaped
  <1>11. QED
    BY <1>4, <1>6, <1>7, <1>8, <1>9, <1>10 DEF Moves, Turns

-----------------------------------------------------------------------------
(* What a step of a request does, besides receiving one *)

Lifted(q) == [q EXCEPT !.bans = {l \in @ : q.who \in config'[l]}]

Stepped(p) ==
  LET h == Head(req[p].calls) IN
  /\ req[p].op # None
  /\ Moves(req[p], req'[p])
  /\ \A o \in Proc \ {p} : req'[o] = req[o] \/ req'[o] = Lifted(req[o])
  /\ \/ UNCHANGED config
     \/ /\ h \in Saves /\ config' = Saved(req[p], h) /\ req'[p] = Rest(req[p])
        /\ \A o \in Proc \ {p} : req'[o] = Lifted(req[o])
  /\ h # "writeLog" => UNCHANGED <<log, logged>>
  /\ calm' = calm
  /\ faults' = 0 => faults = 0
  /\ TypeOK'

LEMMA HeadIs ==
  ASSUME AInv, NEW p \in Proc, req[p].op # None
  PROVE  LET q == req[p] IN
         /\ q \in Request /\ Shaped(q) /\ q.calls \in Seq(Call) /\ q.calls # <<>>
         /\ Tail(q.calls) \in Seq(Call)
  BY TailIs DEF AInv, TypeOK, Shaped, Allowed, Request

LEMMA GoMoves ==
  ASSUME AInv, NEW p \in Proc, req[p].op # None, NEW n \in Request, Go(p, n),
         Turns(req[p], n)
  PROVE  /\ req' \in [Proc -> Request] /\ Moves(req[p], req'[p])
         /\ \A o \in Proc \ {p} : req'[o] = req[o]
  <1>1. req \in [Proc -> Request] /\ NoRequest \in Request
    BY NoRequestIs DEF AInv, TypeOK
  <1>2. /\ req' = [req EXCEPT ![p] = IF n.calls = <<>> THEN NoRequest ELSE n]
    BY DEF Go
  <1>3. CASE n.calls # <<>>
    BY <1>1, <1>2, <1>3 DEF Moves
  <1>4. CASE n.calls = <<>>
    <2>1. LoadPolicy # <<>> /\ <<"readLog", "writeLog">> # <<>>
      BY PolicyCalls, TwoCalls
    <2>2. n.calls = Tail(req[p].calls)
      <3>1. CASE Passes(req[p], n)
        BY <3>1 DEF Passes
      <3>2. CASE n = Forgetting(req[p])
        BY <3>2, HeadIs, ForgettingIs
      <3>3. CASE n = Blocked(req[p])
        BY <3>3, <1>4, <2>1, HeadIs, BlockedIs
      <3>4. CASE n = [req[p] EXCEPT !.calls = LoadPolicy]
        BY <3>4, <1>4, <2>1, HeadIs DEF Request
      <3>5. CASE Counts(req[p], n)
        BY <3>5, <1>4, HeadIs, BumpFirst DEF Counts
      <3>6. QED
        BY <3>1, <3>2, <3>3, <3>4, <3>5 DEF Turns
    <2>3. req'[p] = NoRequest /\ Ends(req[p])
      BY <1>1, <1>2, <1>4, <2>2 DEF Ends
    <2>4. QED
      BY <1>1, <1>2, <1>4, <2>3 DEF Moves
  <1>5. QED
    BY <1>3, <1>4

LEMMA AnswerMoves ==
  ASSUME AInv, NEW p \in Proc, Answer(p), Ends(req[p])
  PROVE  /\ req' \in [Proc -> Request] /\ Moves(req[p], req'[p])
         /\ \A o \in Proc \ {p} : req'[o] = req[o]
  <1>1. req \in [Proc -> Request] /\ NoRequest \in Request
    BY NoRequestIs DEF AInv, TypeOK
  <1>2. QED
    BY <1>1 DEF Answer, Moves

LEMMA RestIs ==
  ASSUME NEW q \in Request, q.calls # <<>>
  PROVE  /\ Rest(q) \in Request /\ Rest(q) = [q EXCEPT !.calls = Tail(q.calls)]
         /\ Rest(q).calls = Tail(q.calls) /\ Keeps(q, Rest(q)) /\ Rest(q).lists = q.lists
         /\ Rest(q).copy = q.copy /\ Rest(q).pds = q.pds
         /\ Rest(q).guard = q.guard /\ Rest(q).late = q.late /\ Rest(q).seen = q.seen
  <1>1. Tail(q.calls) \in Seq(Call)
    BY TailIs DEF Request
  <1>2. Rest(q) = [q EXCEPT !.calls = Tail(q.calls)]
    BY DEF Rest, Request
  <1>3. QED
    BY <1>1, <1>2 DEF Request, Keeps

LEMMA LocalStep ==
  ASSUME AInv, NEW p \in Proc, req[p].op # None, req' \in [Proc -> Request],
         Moves(req[p], req'[p]), \A o \in Proc \ {p} : req'[o] = req[o],
         UNCHANGED <<config, log, logged, calm>>, screen' \in Lists \cup {None},
         file' \in Lists \cup {None}, session' \in BOOLEAN,
         counts' \in [Counter -> Nat], attempts' \in [Counter -> Nat],
         requests' \in Nat, faults' \in Nat, faults' = 0 => faults = 0
  PROVE  Stepped(p)
  BY DEF AInv, TypeOK, Stepped

LEMMA LoginStep ==
  ASSUME AInv, NEW p \in Proc, Login(p)
  PROVE  Stepped(p)
  <1> DEFINE q == req[p]
  <1>1. q.op # None /\ Head(q.calls) = "login"
    BY DEF Login, At
  <1>2. /\ NoLists \in Lists /\ screen' \in Lists \cup {None} /\ session' \in BOOLEAN
        /\ UNCHANGED <<config, file, counts, log, attempts, logged, calm, requests, faults>>
    BY DEF NoLists, Lists, Login, AInv, TypeOK
  <1>3. CASE Go(p, [q EXCEPT !.calls = LoadPolicy])
    <2> DEFINE n == [q EXCEPT !.calls = LoadPolicy]
    <2>1. n \in Request
      BY <1>1, HeadIs, PolicyCalls DEF Request
    <2>2. Turns(q, n)
      BY <1>1 DEF Turns
    <2>3. Go(p, n)
      BY <1>3
    <2> HIDE DEF n, q
    <2>4. /\ req' \in [Proc -> Request] /\ Moves(req[p], req'[p])
          /\ \A o \in Proc \ {p} : req'[o] = req[o]
      BY <1>1, <2>1, <2>2, <2>3, GoMoves DEF q
    <2>5. QED
      BY <1>1, <1>2, <2>4, LocalStep DEF AInv, TypeOK, q
  <1>4. CASE Answer(p)
    <2>1. Ends(q)
      BY <1>1 DEF Ends
    <2>2. QED
      BY <1>1, <1>2, <1>4, <2>1, AnswerMoves, LocalStep DEF AInv, TypeOK
  <1>5. QED
    BY <1>3, <1>4 DEF Login

LEMMA AnswerStep ==
  ASSUME AInv, NEW p \in Proc, req[p].op # None, Answer(p), Ends(req[p]),
         UNCHANGED <<config, counts, log, attempts, logged, calm, requests>>,
         screen' \in Lists \cup {None}, file' \in Lists \cup {None}, session' \in BOOLEAN,
         faults' \in {faults, faults + 1}
  PROVE  Stepped(p)
  <1>1. faults' \in Nat /\ (faults' = 0 => faults = 0)
    BY DEF AInv, TypeOK
  <1>2. QED
    BY <1>1, AnswerMoves, LocalStep DEF AInv, TypeOK

(* A call that changes nothing but its request *)
LEMMA LocalGo ==
  ASSUME AInv, NEW p \in Proc, req[p].op # None, NEW n \in Request, Go(p, n),
         Turns(req[p], n),
         UNCHANGED <<config, screen, file, session, log, logged, calm, requests>>,
         counts' \in [Counter -> Nat], attempts' \in [Counter -> Nat],
         faults' \in {faults, faults + 1}
  PROVE  Stepped(p)
  <1>1. faults' \in Nat /\ (faults' = 0 => faults = 0)
    BY DEF AInv, TypeOK
  <1>2. QED
    BY <1>1, GoMoves, LocalStep DEF AInv, TypeOK

LEMMA HandleAdminLogoutStep ==
  ASSUME AInv, NEW p \in Proc, HandleAdminLogout(p)
  PROVE  Stepped(p)
  <1>1. req[p].op # None /\ Ends(req[p])
    BY DEF HandleAdminLogout, At, Ends
  <1>2. QED
    BY <1>1, AnswerStep DEF HandleAdminLogout, AInv, TypeOK

LEMMA ExportConfigStep ==
  ASSUME AInv, NEW p \in Proc, ExportConfig(p)
  PROVE  Stepped(p)
  <1>1. req[p].op # None /\ Ends(req[p])
    BY DEF ExportConfig, At, Ends
  <1>2. file' \in Lists
    BY <1>1, HeadIs DEF ExportConfig, Request, Lists
  <1>3. QED
    BY <1>1, <1>2, AnswerStep DEF ExportConfig, AInv, TypeOK

LEMMA ShowPolicyStep ==
  ASSUME AInv, NEW p \in Proc, ShowPolicy(p)
  PROVE  Stepped(p)
  <1>1. req[p].op # None /\ Ends(req[p])
    BY DEF ShowPolicy, At, Ends
  <1>2. screen' \in Lists
    BY <1>1, HeadIs DEF ShowPolicy, Request, Lists
  <1>3. QED
    BY <1>1, <1>2, AnswerStep DEF ShowPolicy, AInv, TypeOK

LEMMA ViewConfigStep ==
  ASSUME AInv, NEW p \in Proc, ViewConfig(p)
  PROVE  Stepped(p)
  <1>1. req[p].op # None /\ Head(req[p].calls) = "view" /\ Local
    BY DEF ViewConfig, At
  <1>2. CASE session
    <2>1. Forgetting(req[p]) \in Request
      BY <1>1, HeadIs, ForgettingIs
    <2>2. Turns(req[p], Forgetting(req[p]))
      BY <1>1 DEF Turns, Forgets
    <2>3. QED
      BY <1>1, <1>2, <2>1, <2>2, LocalGo DEF ViewConfig, Local, AInv, TypeOK
  <1>3. CASE ~session
    <2>1. Ends(req[p])
      BY <1>1, <1>3 DEF Ends
    <2>2. QED
      BY <1>1, <1>3, <2>1, AnswerStep DEF ViewConfig, Local, AInv, TypeOK
  <1>4. QED
    BY <1>2, <1>3

LEMMA LoadConfigStep ==
  ASSUME AInv, NEW p \in Proc, LoadConfig(p)
  PROVE  Stepped(p)
  <1> DEFINE q == req[p]
  <1>1. PICK call \in Loads :
          /\ At(p, call)
          /\ IF Refused(q, call) THEN Answer(p)
             ELSE Go(p, [Rest(q) EXCEPT !.lists = Read(q, call)])
          /\ Local
    BY DEF LoadConfig
  <1>2. q.op # None /\ Head(q.calls) = call
    BY <1>1 DEF At
  <1>3. CASE Refused(q, call)
    <2>1. Ends(q)
      BY <1>2, <1>3 DEF Ends, Refused
    <2>2. QED
      BY <1>1, <1>2, <1>3, <2>1, AnswerStep DEF Local, AInv, TypeOK
  <1>4. CASE ~ Refused(q, call)
    <2>1. /\ q \in Request /\ q.calls # <<>> /\ Rest(q) \in Request
          /\ Rest(q).calls = Tail(q.calls) /\ Keeps(q, Rest(q)) /\ Rest(q).lists = q.lists
          /\ Rest(q).copy = q.copy /\ Rest(q).pds = q.pds
      BY <1>2, HeadIs, RestIs
    <2>2. Read(q, call) \in Lists
      BY <2>1 DEF Read, AInv, TypeOK, Lists, Request
    <2> DEFINE r == Rest(q)
               n == [r EXCEPT !.lists = Read(q, call)]
    <2>3. Go(p, n)
      BY <1>1, <1>4
    <2>4. /\ r \in Request /\ r.calls = Tail(q.calls) /\ Keeps(q, r)
          /\ r.copy = q.copy /\ r.pds = q.pds
      BY <2>1
    <2> HIDE DEF r
    <2>5. /\ n \in Request /\ n.calls = Tail(q.calls) /\ Keeps(q, n)
          /\ n.lists = Read(q, call) /\ n.copy = q.copy /\ n.pds = q.pds
      BY <2>2, <2>4 DEF Request, Keeps
    <2>6. call \notin {"show", "readLog", "resolveDid", "resolvePds"}
      BY DEF Loads
    <2> HIDE DEF n
    <2>7. Passes(q, n)
      BY <1>2, <1>4, <2>5, <2>6 DEF Passes
    <2>8. Turns(q, n)
      BY <2>7 DEF Turns
    <2>9. QED
      BY <1>1, <1>2, <2>3, <2>5, <2>8, LocalGo DEF Local, AInv, TypeOK
  <1>5. QED
    BY <1>3, <1>4

(* A request that merely goes on *)
LEMMA RestStep ==
  ASSUME AInv, NEW p \in Proc, req[p].op # None, Go(p, Rest(req[p])),
         Head(req[p].calls) \notin Loads \cup {"show", "readLog", "resolvePds"},
         Head(req[p].calls) = "resolveDid"
           => req[p].who \notin req[p].lists["blockDids"],
         UNCHANGED <<config, screen, file, session, log, logged, calm, requests>>,
         counts' \in [Counter -> Nat], attempts' \in [Counter -> Nat],
         faults' \in {faults, faults + 1}
  PROVE  Stepped(p)
  <1>1. /\ req[p] \in Request /\ req[p].calls # <<>> /\ Rest(req[p]) \in Request
    BY HeadIs, RestIs
  <1>2. Passes(req[p], Rest(req[p]))
    BY <1>1, RestIs DEF Passes
  <1>3. QED
    BY <1>1, <1>2, LocalGo DEF Turns

LEMMA ResolveDidStep ==
  ASSUME AInv, NEW p \in Proc, ResolveDid(p)
  PROVE  Stepped(p)
  <1> DEFINE q == req[p]
  <1>1. q.op # None /\ Head(q.calls) = "resolveDid" /\ Local
    BY DEF ResolveDid, At
  <1>2. CASE Answer(p)
    <2>1. Ends(q)
      BY <1>1 DEF Ends
    <2>2. QED
      BY <1>1, <1>2, <2>1, AnswerStep DEF Local, AInv, TypeOK
  <1>3. CASE q.who \in q.lists["blockDids"] /\ Go(p, Blocked(q))
    <2>1. Blocked(q) \in Request
      BY <1>1, HeadIs, BlockedIs
    <2>2. Turns(q, Blocked(q))
      BY <1>1 DEF Turns
    <2>3. QED
      BY <1>1, <1>3, <2>1, <2>2, LocalGo DEF Local, AInv, TypeOK
  <1>4. CASE q.who \notin q.lists["blockDids"] /\ Go(p, Rest(q))
    BY <1>1, <1>4, RestStep DEF Local, AInv, TypeOK, Loads
  <1>5. QED
    BY <1>2, <1>3, <1>4 DEF ResolveDid

LEMMA ResolvePdsHostStep ==
  ASSUME AInv, NEW p \in Proc, ResolvePdsHost(p)
  PROVE  Stepped(p)
  <1> DEFINE q == req[p]
  <1>1. q.op # None /\ Head(q.calls) = "resolvePds" /\ Local
    BY DEF ResolvePdsHost, At
  <1>2. PICK found \in BOOLEAN :
          Go(p, IF found /\ q.who \in q.lists["blockPds"]
                THEN Blocked(q) ELSE [Rest(q) EXCEPT !.pds = found])
    BY DEF ResolvePdsHost
  <1>3. CASE found /\ q.who \in q.lists["blockPds"]
    <2>1. Blocked(q) \in Request
      BY <1>1, HeadIs, BlockedIs
    <2>2. Turns(q, Blocked(q))
      BY <1>1 DEF Turns
    <2>3. QED
      BY <1>1, <1>2, <1>3, <2>1, <2>2, LocalGo DEF Local, AInv, TypeOK
  <1>4. CASE ~(found /\ q.who \in q.lists["blockPds"])
    <2> DEFINE r == Rest(q)
               n == [r EXCEPT !.pds = found]
    <2>1. /\ q \in Request /\ q.calls # <<>> /\ r \in Request
          /\ r.calls = Tail(q.calls) /\ Keeps(q, r) /\ r.lists = q.lists
          /\ r.copy = q.copy
      BY <1>1, HeadIs, RestIs
    <2>2. Go(p, n)
      BY <1>2, <1>4
    <2> HIDE DEF r
    <2>3. /\ n \in Request /\ n.calls = Tail(q.calls) /\ Keeps(q, n)
          /\ n.lists = q.lists /\ n.copy = q.copy /\ n.pds = found
      BY <2>1 DEF Request, Keeps
    <2> HIDE DEF n
    <2>4. Passes(q, n)
      BY <1>1, <1>4, <2>3 DEF Passes, Loads
    <2>5. Turns(q, n)
      BY <2>4 DEF Turns
    <2>6. QED
      BY <1>1, <2>2, <2>3, <2>5, LocalGo DEF Local, AInv, TypeOK
  <1>5. QED
    BY <1>3, <1>4

LEMMA SkipPdsGuardStep ==
  ASSUME AInv, NEW p \in Proc, SkipPdsGuard(p)
  PROVE  Stepped(p)
  <1>1. req[p].op # None /\ Head(req[p].calls) = "pds"
    BY DEF SkipPdsGuard, At
  <1>2. QED
    BY <1>1, RestStep DEF SkipPdsGuard, Local, AInv, TypeOK, Loads

LEMMA RegistryStep ==
  ASSUME AInv, NEW p \in Proc, Registry(p)
  PROVE  Stepped(p)
  <1>1. req[p].op # None /\ Head(req[p].calls) = "register" /\ Local
    BY DEF Registry, At
  <1>2. CASE Answer(p)
    <2>1. Ends(req[p])
      BY <1>1 DEF Ends
    <2>2. QED
      BY <1>1, <1>2, <2>1, AnswerStep DEF Local, AInv, TypeOK
  <1>3. CASE Go(p, Forgetting(req[p]))
    <2>1. Forgetting(req[p]) \in Request
      BY <1>1, HeadIs, ForgettingIs
    <2>2. Turns(req[p], Forgetting(req[p]))
      BY <1>1 DEF Turns, Forgets
    <2>3. QED
      BY <1>1, <1>3, <2>1, <2>2, LocalGo DEF Local, AInv, TypeOK
  <1>4. QED
    BY <1>2, <1>3 DEF Registry

LEMMA ReadLogStep ==
  ASSUME AInv, NEW p \in Proc, ReadLog(p)
  PROVE  Stepped(p)
  <1> DEFINE q == req[p]
             r == Rest(q)
             n == [r EXCEPT !.copy = log]
  <1>1. q.op # None /\ Head(q.calls) = "readLog" /\ Local /\ Go(p, n)
    BY DEF ReadLog, At
  <1>2. /\ q \in Request /\ q.calls # <<>> /\ r \in Request
        /\ r.calls = Tail(q.calls) /\ Keeps(q, r) /\ r.lists = q.lists
        /\ r.pds = q.pds
    BY <1>1, HeadIs, RestIs
  <1> HIDE DEF r
  <1>3. /\ n \in Request /\ n.calls = Tail(q.calls) /\ Keeps(q, n)
        /\ n.lists = q.lists /\ n.copy = log /\ n.pds = q.pds
    BY <1>2 DEF Request, Keeps, AInv, TypeOK
  <1> HIDE DEF n
  <1>4. Passes(q, n)
    BY <1>1, <1>3 DEF Passes, Loads
  <1>5. QED
    BY <1>1, <1>3, <1>4, LocalGo DEF Turns, Local, AInv, TypeOK

(* The counters of a request's guards *)
LEMMA CounterIs ==
  ASSUME AInv, NEW p \in Proc, req[p].op # None
  PROVE  LET q == req[p]
             h == Head(q.calls) IN
         /\ h \in Guard => CounterOf(q, h) \in Counter
         /\ h = "bump" => CounterOf(q, q.guard) \in Counter /\ q.guard \in Guard
  <1> DEFINE q == req[p]
             h == Head(q.calls)
  <1>1. \A g \in Guard : (g \in {"did", "pds"} => q.who \in Applicant) => CounterOf(q, g) \in Counter
    BY DEF CounterOf, Counter, Guard
  <1>2. /\ h \in Left(q.calls) /\ Allowed(q.op, q.who, q.calls)
        /\ h = "bump" => q.guard \in Guard /\ (q.guard \in {"did", "pds"} => q.who \in Applicant)
    BY HeadIs, TailIs DEF Shaped
  <1>3. h \in {"did", "pds"} => q.who \in Applicant
    BY <1>2 DEF Allowed
  <1>4. QED
    BY <1>1, <1>2, <1>3

LEMMA CountingIs ==
  ASSUME AInv, NEW p \in Proc, req[p].op # None, NEW g \in Guard, Head(req[p].calls) = g
  PROVE  LET q == req[p]
             n == Counting(q, g) IN
         /\ CounterOf(q, g) \in Counter /\ n \in Request /\ Counts(q, n)
         /\ n.guard = g /\ n.seen = counts[CounterOf(q, g)] /\ n.late = FALSE
         /\ n.calls # <<>> /\ Head(n.calls) = "bump"
  <1> DEFINE q == req[p]
  <1>1. CounterOf(q, g) \in Counter
    BY CounterIs
  <1>2. PICK v \in Nat : v = counts[CounterOf(q, g)]
    BY <1>1 DEF AInv, TypeOK
  <1>3. q \in Request /\ q.calls \in Seq(Call) /\ q.calls # <<>>
    BY HeadIs
  <1>4. PICK t : t = [q.calls EXCEPT ![1] = "bump"]
    OBVIOUS
  <1>5. t \in Seq(Call) /\ t # <<>> /\ Head(t) = "bump"
    BY <1>3, <1>4, BumpFirst
  <1> DEFINE n == [q EXCEPT !.guard = g, !.seen = v, !.late = FALSE, !.calls = t]
  <1>6. n = Counting(q, g)
    BY <1>2, <1>4 DEF Counting
  <1>7. /\ n \in Request /\ n.guard = g /\ n.seen = v /\ n.late = FALSE /\ n.calls = t
        /\ Keeps(q, n) /\ n.lists = q.lists /\ n.copy = q.copy /\ n.pds = q.pds
    BY <1>3, <1>5 DEF Request, Keeps
  <1> HIDE DEF n, q
  <1>8. Counts(q, n)
    BY <1>4, <1>7 DEF Counts, q
  <1>9. QED
    BY <1>1, <1>2, <1>5, <1>6, <1>7, <1>8 DEF q

LEMMA ReadGuardStep ==
  ASSUME AInv, NEW p \in Proc, ReadGuard(p)
  PROVE  Stepped(p)
  <1>1. PICK g \in Guard :
           /\ At(p, g)
           /\ attempts' = [attempts EXCEPT ![CounterOf(req[p], g)] = @ + 1]
           /\ Go(p, Counting(req[p], g))
           /\ UNCHANGED <<config, screen, file, session, counts, log, logged, calm, requests,
                          faults>>
    BY DEF ReadGuard
  <1>2. req[p].op # None /\ Head(req[p].calls) = g
    BY <1>1 DEF At
  <1>3. /\ CounterOf(req[p], g) \in Counter /\ Counting(req[p], g) \in Request
        /\ Counts(req[p], Counting(req[p], g))
    BY <1>2, CountingIs
  <1>4. attempts' \in [Counter -> Nat]
    BY <1>1, <1>3 DEF AInv, TypeOK
  <1>5. Turns(req[p], Counting(req[p], g))
    BY <1>3 DEF Turns
  <1>6. QED
    BY <1>1, <1>2, <1>3, <1>4, <1>5, LocalGo DEF AInv, TypeOK

LEMMA BumpGuardStep ==
  ASSUME AInv, NEW p \in Proc, BumpGuard(p)
  PROVE  Stepped(p)
  <1> DEFINE q == req[p]
             r == Rest(q)
             n == [r EXCEPT !.guard = None, !.seen = 0, !.late = FALSE]
  <1>1. /\ q.op # None /\ Head(q.calls) = "bump"
        /\ UNCHANGED <<config, screen, file, session, log, attempts, logged, calm, requests,
                       faults>>
        /\ Answer(p) \/ Go(p, n)
    BY DEF BumpGuard, At
  <1>2. counts' \in [Counter -> Nat]
    <2>1. CounterOf(q, q.guard) \in Counter /\ q.seen \in Nat
      BY <1>1, CounterIs, HeadIs DEF Request
    <2>2. counts' = counts \/ counts' = [counts EXCEPT ![CounterOf(q, q.guard)] = q.seen + 1]
      BY DEF BumpGuard
    <2>3. counts \in [Counter -> Nat] /\ q.seen + 1 \in Nat
      BY <2>1 DEF AInv, TypeOK
    <2>4. QED
      BY <2>1, <2>2, <2>3
  <1>3. CASE Answer(p)
    <2>1. Ends(q)
      BY <1>1 DEF Ends
    <2>2. /\ req' \in [Proc -> Request] /\ Moves(req[p], req'[p])
          /\ \A o \in Proc \ {p} : req'[o] = req[o]
      BY <1>1, <1>3, <2>1, AnswerMoves
    <2>3. QED
      BY <1>1, <1>2, <2>2, LocalStep DEF AInv, TypeOK
  <1>4. CASE Go(p, n)
    <2>1. /\ q \in Request /\ q.calls # <<>> /\ r \in Request
          /\ r.calls = Tail(q.calls) /\ Keeps(q, r) /\ r.lists = q.lists
          /\ r.pds = q.pds /\ r.copy = q.copy
      BY <1>1, HeadIs, RestIs
    <2> HIDE DEF r
    <2>2. /\ n \in Request /\ n.calls = Tail(q.calls) /\ Keeps(q, n)
          /\ n.lists = q.lists /\ n.copy = q.copy /\ n.pds = q.pds
      BY <2>1 DEF Request, Keeps, AInv, TypeOK
    <2> HIDE DEF n
    <2>3. Passes(q, n)
      BY <1>1, <2>2 DEF Passes, Loads
    <2>4. QED
      BY <1>1, <1>2, <1>4, <2>2, <2>3, LocalGo DEF Turns, AInv, TypeOK
  <1>5. QED
    BY <1>1, <1>3, <1>4

(* The log has room for one more, or loses its first events. *)
LEMMA LastIs ==
  ASSUME NEW s \in Seq(Nat), NEW e \in Nat
  PROVE  LET t == LogActivity(s, e)
             d == Len(s) + 1 - Len(t) IN
         /\ t \in Seq(Nat) /\ Len(t) \in 1 .. MaxEvents /\ d \in Nat
         /\ Len(s) + 1 > MaxEvents => Len(t) = MaxEvents
         /\ Len(s) + 1 <= MaxEvents => d = 0
         /\ \A i \in 1 .. Len(t) : t[i] = IF i + d <= Len(s) THEN s[i + d] ELSE e
  <1>1. PICK u : u = Append(s, e)
    OBVIOUS
  <1>2. u \in Seq(Nat) /\ Len(u) = Len(s) + 1 /\ Len(s) \in Nat /\ Len(u) \in Nat
    BY <1>1
  <1>a. \A i \in 1 .. Len(u) : u[i] \in Nat /\ u[i] = IF i <= Len(s) THEN s[i] ELSE e
    BY <1>1
  <1>3. MaxEvents \in Nat \ {0}
    BY PolicyAssumption
  <1>4. PICK m : m = IF Len(u) > MaxEvents THEN Len(u) - MaxEvents + 1 ELSE 1
    OBVIOUS
  <1>5. /\ m \in 1 .. Len(u) /\ Len(u) - m + 1 <= MaxEvents
        /\ Len(u) > MaxEvents => Len(u) - m + 1 = MaxEvents
        /\ Len(u) <= MaxEvents => m = 1
    <2>1. CASE Len(u) > MaxEvents
      <3>1. m = Len(u) - MaxEvents + 1
        BY <1>4, <2>1
      <3>2. PICK k \in Nat, x \in Nat \ {0} : k = Len(u) /\ x = MaxEvents
        BY <1>2, <1>3
      <3>3. k > x /\ m = k - x + 1
        BY <2>1, <3>1, <3>2
      <3>4. m \in 1 .. k /\ k - m + 1 = x
        BY <3>2, <3>3
      <3>5. QED
        BY <2>1, <3>2, <3>4
    <2>2. CASE ~(Len(u) > MaxEvents)
      <3>1. m = 1
        BY <1>4, <2>2
      <3>2. QED
        BY <1>2, <1>3, <2>2, <3>1
    <2>3. QED
      BY <2>1, <2>2
  <1>6. PICK t : t = SubSeq(u, m, Len(u))
    OBVIOUS
  <1>7. \A i \in m .. Len(u) : u[i] \in Nat
    BY <1>2, <1>5, <1>a
  <1>8. t \in Seq(Nat)
    BY <1>2, <1>5, <1>6, <1>7
  <1>9. Len(t) = Len(u) - m + 1
    BY <1>2, <1>5, <1>6
  <1>10. \A i \in 1 .. Len(u) - m + 1 : t[i] = u[m + i - 1]
    <2>1. m \in Int /\ Len(u) \in Int
      BY <1>2, <1>5
    <2>2. QED
      BY <2>1, <1>6
  <1>11. t = LogActivity(s, e)
    BY <1>1, <1>4, <1>6 DEF LogActivity, Last
  <1>12. Len(s) + 1 - Len(t) = m - 1
    BY <1>2, <1>5, <1>9
  <1>13. ASSUME NEW i \in 1 .. Len(t)
         PROVE  t[i] = IF i + (m - 1) <= Len(s) THEN s[i + (m - 1)] ELSE e
    <2>1. /\ i \in 1 .. Len(u) - m + 1 /\ m + i - 1 \in 1 .. Len(u)
          /\ m + i - 1 = i + (m - 1)
      BY <1>2, <1>5, <1>9
    <2>2. QED
      BY <2>1, <1>2, <1>10, <1>a
  <1>14. /\ Len(t) \in 1 .. MaxEvents /\ m - 1 \in Nat
         /\ Len(s) + 1 > MaxEvents => Len(t) = MaxEvents
         /\ Len(s) + 1 <= MaxEvents => m - 1 = 0
    BY <1>2, <1>3, <1>5, <1>9
  <1>15. QED
    BY <1>8, <1>11, <1>12, <1>13, <1>14

LEMMA WriteLogStep ==
  ASSUME AInv, NEW p \in Proc, WriteLog(p)
  PROVE  Stepped(p)
  <1> DEFINE q == req[p]
  <1>1. /\ q.op # None /\ Head(q.calls) = "writeLog" /\ Go(p, Forgetting(q))
        /\ UNCHANGED <<config, screen, file, session, counts, attempts, calm, requests, faults>>
        /\ logged' = logged + 1 /\ log' = LogActivity(q.copy, logged + 1)
    BY DEF WriteLog, At
  <1>2. q \in Request /\ Forgetting(q) \in Request /\ q.copy \in Seq(Nat)
    BY <1>1, HeadIs, ForgettingIs DEF Request
  <1>3. Turns(q, Forgetting(q))
    BY <1>1 DEF Turns, Forgets
  <1>4. /\ req' \in [Proc -> Request] /\ Moves(req[p], req'[p])
        /\ \A o \in Proc \ {p} : req'[o] = req[o]
    BY <1>1, <1>2, <1>3, GoMoves
  <1>5. logged + 1 \in Nat /\ MaxEvents \in Nat
    BY PolicyAssumption DEF AInv, TypeOK
  <1>6. log' \in Seq(Nat) /\ Len(log') <= MaxEvents /\ logged' \in Nat
    BY <1>1, <1>2, <1>5, LastIs
  <1>7. TypeOK'
    BY <1>1, <1>4, <1>6 DEF AInv, TypeOK
  <1>8. QED
    BY <1>1, <1>4, <1>7 DEF Stepped

LEMMA CutShortStep ==
  ASSUME AInv, NEW p \in Proc, CutShort(p)
  PROVE  Stepped(p)
  <1> DEFINE q == req[p]
  <1>1. /\ q.op # None /\ faults' = faults + 1 /\ faults \in Nat
        /\ UNCHANGED <<config, screen, file, session, counts, log, attempts, logged, calm,
                       requests>>
    BY DEF CutShort, AInv, TypeOK
  <1>2. CASE Answer(p)
    <2>1. Ends(q)
      BY <1>1 DEF Ends
    <2>2. QED
      BY <1>1, <1>2, <2>1, AnswerStep DEF AInv, TypeOK
  <1>3. CASE Head(q.calls) \in {"ops", "bump"} /\ Go(p, Rest(q))
    BY <1>1, <1>3, RestStep DEF AInv, TypeOK, Loads
  <1>4. QED
    BY <1>2, <1>3 DEF CutShort, At

LEMMA SavedIs ==
  ASSUME AInv, NEW q \in Request, NEW call
  PROVE  Saved(q, call) \in Lists
  <1>1. config \in Lists /\ q.lists \in Lists /\ q.change \in Changes \cup {None}
    BY DEF AInv, TypeOK, Request
  <1>2. ASSUME NEW c \in Changes PROVE Edited(q.lists, c) \in Lists
    <2>1. c[2] \in List /\ c[3] \in Applicant
      BY DEF Changes
    <2>2. /\ q.lists[c[2]] \cup {c[3]} \in SUBSET Applicant
          /\ q.lists[c[2]] \ {c[3]} \in SUBSET Applicant
      BY <1>1, <2>1 DEF Lists
    <2>3. c # None
      BY PolicyAssumption
    <2>4. QED
      BY <1>1, <2>1, <2>2, <2>3 DEF Edited, Lists
  <1>3. Edited(q.lists, q.change) \in Lists
    BY <1>1, <1>2 DEF Edited
  <1>4. QED
    BY <1>1, <1>3 DEF Saved, Lists

LEMMA SaveConfigIs ==
  ASSUME AInv, NEW p \in Proc, SaveConfig(p)
  PROVE  LET q == req[p]
             h == Head(q.calls) IN
         /\ q.op \in Writers /\ h \in Saves /\ config' = Saved(q, h)
         /\ q.calls # <<>> /\ Tail(q.calls) # <<>> /\ q \in Request
         /\ req'[p] = Rest(q) /\ Passes(q, Rest(q))
         /\ \A o \in Proc \ {p} : req'[o] = Lifted(req[o])
         /\ req' \in [Proc -> Request]
         /\ UNCHANGED <<screen, file, session, counts, log, attempts, logged, calm, requests,
                        faults>>
  <1> DEFINE q == req[p]
             h == Head(q.calls)
  <1>1. PICK call \in Saves :
          /\ At(p, call)
          /\ config' = Saved(q, call)
          /\ req' = [o \in Proc |-> IF o = p THEN Rest(q)
               ELSE [req[o] EXCEPT !.bans = {l \in @ : req[o].who \in config'[l]}]]
    BY DEF SaveConfig
  <1>2. q.op # None /\ h = call
    BY <1>1 DEF At
  <1>3. /\ q \in Request /\ q.calls \in Seq(Call) /\ q.calls # <<>> /\ Rest(q) \in Request
        /\ Allowed(q.op, q.who, q.calls)
    BY <1>2, HeadIs, RestIs DEF Shaped
  <1>4. Left(q.calls) = {h} \cup Left(Tail(q.calls))
    BY <1>3, TailLeft
  <1>5. q.op \in Writers /\ "show" \in Left(q.calls) /\ h # "show"
    BY <1>2, <1>3, <1>4 DEF Allowed, Saves
  <1>6. Tail(q.calls) # <<>>
    BY <1>4, <1>5 DEF Left
  <1>7. h \notin Loads \cup {"show", "readLog", "resolveDid", "resolvePds"}
    BY <1>2 DEF Saves, Loads
  <1>8. Passes(q, Rest(q))
    BY <1>3, <1>7, RestIs DEF Passes
  <1>9. req'[p] = Rest(q) /\ \A o \in Proc \ {p} : req'[o] = Lifted(req[o])
    BY <1>1 DEF Lifted
  <1>10. \A o \in Proc : req[o] \in Request /\ Lifted(req[o]) \in Request
    BY DEF Lifted, AInv, TypeOK, Request
  <1>11. req' \in [Proc -> Request]
    BY <1>1, <1>3, <1>10 DEF Lifted
  <1>12. QED
    BY <1>1, <1>2, <1>3, <1>5, <1>6, <1>8, <1>9, <1>11 DEF SaveConfig

LEMMA SaveConfigStep ==
  ASSUME AInv, NEW p \in Proc, SaveConfig(p)
  PROVE  Stepped(p)
  <1>1. /\ req[p].op # None /\ req[p] \in Request /\ req[p].calls # <<>>
        /\ Rest(req[p]).calls = Tail(req[p].calls)
    BY SaveConfigIs, RestIs DEF SaveConfig, At
  <1>2. Moves(req[p], req'[p])
    BY <1>1, SaveConfigIs DEF Moves, Turns
  <1>3. config' \in Lists
    BY <1>1, SaveConfigIs, SavedIs
  <1>4. TypeOK'
    BY <1>3, SaveConfigIs DEF AInv, TypeOK
  <1>5. QED
    BY <1>1, <1>2, <1>4, SaveConfigIs DEF Stepped

(* Everything a request does after it was received *)
Serves(p) ==
  \/ Login(p) \/ HandleAdminLogout(p)
  \/ LoadConfig(p) \/ SaveConfig(p) \/ ExportConfig(p) \/ ViewConfig(p) \/ ShowPolicy(p)
  \/ ResolveDid(p) \/ ResolvePdsHost(p) \/ SkipPdsGuard(p) \/ ReadGuard(p) \/ BumpGuard(p)
  \/ Registry(p) \/ ReadLog(p) \/ WriteLog(p)
  \/ CutShort(p)

LEMMA ServesStep ==
  ASSUME AInv, NEW p \in Proc, Serves(p)
  PROVE  Stepped(p)
  BY LoginStep, HandleAdminLogoutStep, LoadConfigStep, SaveConfigStep, ExportConfigStep,
     ViewConfigStep, ShowPolicyStep, ResolveDidStep, ResolvePdsHostStep, SkipPdsGuardStep,
     ReadGuardStep, BumpGuardStep, RegistryStep, ReadLogStep, WriteLogStep, CutShortStep
  DEF Serves

LEMMA SteppedKeeps ==
  ASSUME AInv, NEW p \in Proc, Stepped(p)
  PROVE  AInv'
  <1>1. /\ TypeOK' /\ req[p].op # None /\ Moves(req[p], req'[p]) /\ calm' = calm
        /\ \A o \in Proc \ {p} : req'[o] = req[o] \/ req'[o] = Lifted(req[o])
    BY DEF Stepped
  <1>2. \A o \in Proc : req[o] \in Request /\ req'[o] \in Request /\ Shaped(req[o])
    BY <1>1 DEF AInv, TypeOK
  <1>3. \A o \in Proc \ {p} : /\ req'[o].op = req[o].op /\ req'[o].calls = req[o].calls
                              /\ req'[o].who = req[o].who /\ req'[o].guard = req[o].guard
    BY <1>1, <1>2 DEF Lifted, Request
  <1>4. \A o \in Proc \ {p} : Shaped(req'[o])
    BY <1>2, <1>3 DEF Shaped
  <1>5. Shaped(req'[p])
    BY <1>1, <1>2, MovesShaped
  <1>6. OneByOne'
    <2> SUFFICES ASSUME calm', NEW x \in Proc, NEW y \in Proc, req'[x].op # None,
                        req'[y].op # None
                 PROVE  x = y
      BY DEF OneByOne, Busy
    <2>1. req[x].op # None /\ req[y].op # None /\ calm
      BY <1>1, <1>3
    <2>2. QED
      BY <2>1 DEF AInv, OneByOne, Busy
  <1>7. QED
    BY <1>1, <1>4, <1>5, <1>6 DEF AInv

-----------------------------------------------------------------------------
(* Time *)

Lates(q, n) ==
  /\ n.op = q.op /\ n.calls = q.calls /\ n.who = q.who /\ n.change = q.change
  /\ n.lists = q.lists /\ n.guard = q.guard /\ n.pds = q.pds /\ n.seen = q.seen
  /\ n.copy = q.copy /\ n.bans = q.bans /\ n.alone = q.alone

LEMMA TickIs ==
  ASSUME AInv, Tick
  PROVE  /\ AInv' /\ \A o \in Proc : Lates(req[o], req'[o])
         /\ UNCHANGED <<config, screen, file, session, log, logged, calm, requests, faults>>
  <1>1. PICK gs \in {{"burst"}, Guard} : NewWindow(gs)
    BY DEF Tick
  <1>2. UNCHANGED <<config, screen, file, session, log, logged, calm, requests, faults>>
    BY DEF Tick
  <1>3. ASSUME NEW o \in Proc
        PROVE  /\ Lates(req[o], req'[o]) /\ req'[o] \in Request
               /\ req'[o] = IF req[o].guard \in gs /\ At(o, "bump")
                            THEN [req[o] EXCEPT !.late = TRUE] ELSE req[o]
    <2>1. req[o] \in Request
      BY DEF AInv, TypeOK
    <2>2. req'[o] = IF req[o].guard \in gs /\ At(o, "bump")
                    THEN [req[o] EXCEPT !.late = TRUE] ELSE req[o]
      BY <1>1 DEF NewWindow
    <2>3. QED
      BY <2>1, <2>2 DEF Lates, Request
  <1>4. req' \in [Proc -> Request]
    BY <1>1, <1>3 DEF NewWindow
  <1>5. counts' \in [Counter -> Nat] /\ attempts' \in [Counter -> Nat]
    BY <1>1 DEF NewWindow, AInv, TypeOK
  <1>6. TypeOK'
    BY <1>2, <1>4, <1>5 DEF AInv, TypeOK
  <1>7. \A o \in Proc : Shaped(req'[o])
    BY <1>3 DEF AInv, Shaped, Lates
  <1>8. OneByOne'
    BY <1>2, <1>3 DEF AInv, OneByOne, Busy, Lates
  <1>9. QED
    BY <1>2, <1>3, <1>6, <1>7, <1>8 DEF AInv

-----------------------------------------------------------------------------
(* A request comes in: what its calls are *)

Arrival(op, who, s) ==
  /\ s \in Seq(Call) /\ Ordered(s) /\ Allowed(op, who, s) /\ "bump" \notin Left(s)
  /\ Due(s, "readLog", "writeLog") /\ Due(s, "view", "show")
  /\ op = "register" =>
       /\ \A c \in {"loadBlock", "loadReserved", "resolveDid", "resolvePds"} :
            Due(s, c, "register")
       /\ \A d \in {"resolveDid", "resolvePds"} : Due(s, "loadBlock", d)
  /\ op = "post" =>
       /\ Due(s, "loadVip", "saveVip") /\ Due(s, "loadBlock", "saveBlock")
       /\ Due(s, "loadReserved", "saveReserved")

LEMMA Concat ==
  ASSUME NEW s \in Seq(Call), NEW t \in Seq(Call)
  PROVE  /\ s \o t \in Seq(Call) /\ DOMAIN (s \o t) = 1 .. Len(s) + Len(t)
         /\ \A i \in 1 .. Len(s) + Len(t) :
              (s \o t)[i] = IF i <= Len(s) THEN s[i] ELSE t[i - Len(s)]
  OBVIOUS

LEMMA PostIs ==
  ASSUME NEW who
  PROVE  Arrival("post", who, HandleAdminConfigPost \o LoadPolicy)
  <1>s. PICK s : s = HandleAdminConfigPost \o LoadPolicy
    OBVIOUS
  <1>1. PICK t : t = HandleAdminConfigPost
    OBVIOUS
  <1>2. PICK u : u = LoadPolicy
    OBVIOUS
  <1>3. t \in Seq(Call)
    BY <1>1 DEF HandleAdminConfigPost, Call, Loads, Saves
  <1>4. /\ Len(t) = 6 /\ t[1] = "loadVip" /\ t[2] = "loadBlock" /\ t[3] = "loadReserved"
        /\ t[4] = "saveVip" /\ t[5] = "saveBlock" /\ t[6] = "saveReserved"
    BY <1>1 DEF HandleAdminConfigPost
  <1>5. u \in Seq(Call)
    BY <1>2, PolicyCalls
  <1>6. /\ Len(u) = 5 /\ u[1] = "view" /\ u[2] = "loadVip" /\ u[3] = "loadBlock"
        /\ u[4] = "loadReserved" /\ u[5] = "show"
    BY <1>2, PolicyCalls
  <1>7. /\ s \in Seq(Call) /\ DOMAIN s = 1 .. Len(t) + Len(u)
        /\ \A i \in 1 .. Len(t) + Len(u) : s[i] = IF i <= Len(t) THEN t[i] ELSE u[i - Len(t)]
    BY <1>s, <1>1, <1>2, <1>3, <1>5, Concat
  <1>8. Len(t) + Len(u) = 11
    BY <1>4, <1>6
  <1>9. /\ s[1] = "loadVip" /\ s[2] = "loadBlock" /\ s[3] = "loadReserved"
        /\ s[4] = "saveVip" /\ s[5] = "saveBlock" /\ s[6] = "saveReserved"
        /\ s[7] = "view" /\ s[8] = "loadVip" /\ s[9] = "loadBlock" /\ s[10] = "loadReserved"
        /\ s[11] = "show" /\ DOMAIN s = 1 .. 11 /\ s \in Seq(Call)
    BY <1>4, <1>6, <1>7, <1>8
  <1>10. Ordered(s)
    BY <1>9 DEF Ordered, Between, Loads, Saves, Forgets
  <1>11. /\ Due(s, "readLog", "writeLog") /\ Due(s, "view", "show")
         /\ Due(s, "loadVip", "saveVip") /\ Due(s, "loadBlock", "saveBlock")
         /\ Due(s, "loadReserved", "saveReserved")
    BY <1>9 DEF Due
  <1>a. \A i \in DOMAIN s : s[i] \in Loads \cup Saves \cup {"view", "show"}
    BY <1>9 DEF Loads, Saves
  <1>b. "show" \in Left(s) /\ s # <<>>
    <2>1. 11 \in DOMAIN s /\ s[11] = "show"
      BY <1>9
    <2>2. s # <<>>
      BY <2>1
    <2>3. QED
      BY <2>1, <2>2 DEF Left
  <1>12. Left(s) \subseteq Console /\ "show" \in Left(s) /\ s # <<>>
    BY <1>a, <1>b DEF Left, Console
  <1>13. Allowed("post", who, s) /\ "bump" \notin Left(s)
    BY <1>12 DEF Allowed, Writers, Console, Loads, Saves
  <1>14. QED
    BY <1>s, <1>9, <1>10, <1>11, <1>13 DEF Arrival

LEMMA ImportIs ==
  ASSUME NEW who
  PROVE  Arrival("import", who, HandleAdminImportConfig \o LoadPolicy)
  <1>s. PICK s : s = HandleAdminImportConfig \o LoadPolicy
    OBVIOUS
  <1>1. PICK t : t = HandleAdminImportConfig
    OBVIOUS
  <1>2. PICK u : u = LoadPolicy
    OBVIOUS
  <1>3. t \in Seq(Call)
    BY <1>1 DEF HandleAdminImportConfig, Call, Loads, Saves
  <1>4. Len(t) = 3 /\ t[1] = "saveVip" /\ t[2] = "saveBlock" /\ t[3] = "saveReserved"
    BY <1>1 DEF HandleAdminImportConfig
  <1>5. u \in Seq(Call)
    BY <1>2, PolicyCalls
  <1>6. /\ Len(u) = 5 /\ u[1] = "view" /\ u[2] = "loadVip" /\ u[3] = "loadBlock"
        /\ u[4] = "loadReserved" /\ u[5] = "show"
    BY <1>2, PolicyCalls
  <1>7. /\ s \in Seq(Call) /\ DOMAIN s = 1 .. Len(t) + Len(u)
        /\ \A i \in 1 .. Len(t) + Len(u) : s[i] = IF i <= Len(t) THEN t[i] ELSE u[i - Len(t)]
    BY <1>s, <1>1, <1>2, <1>3, <1>5, Concat
  <1>8. Len(t) + Len(u) = 8
    BY <1>4, <1>6
  <1>9. /\ s[1] = "saveVip" /\ s[2] = "saveBlock" /\ s[3] = "saveReserved"
        /\ s[4] = "view" /\ s[5] = "loadVip" /\ s[6] = "loadBlock" /\ s[7] = "loadReserved"
        /\ s[8] = "show" /\ DOMAIN s = 1 .. 8 /\ s \in Seq(Call)
    BY <1>4, <1>6, <1>7, <1>8
  <1>10. Ordered(s)
    BY <1>9 DEF Ordered, Between, Loads, Saves, Forgets
  <1>11. Due(s, "readLog", "writeLog") /\ Due(s, "view", "show")
    BY <1>9 DEF Due
  <1>a. \A i \in DOMAIN s : s[i] \in Loads \cup Saves \cup {"view", "show"}
    BY <1>9 DEF Loads, Saves
  <1>b. "show" \in Left(s) /\ s # <<>>
    <2>1. 8 \in DOMAIN s /\ s[8] = "show"
      BY <1>9
    <2>2. s # <<>>
      BY <2>1
    <2>3. QED
      BY <2>1, <2>2 DEF Left
  <1>12. Left(s) \subseteq Console /\ "show" \in Left(s) /\ s # <<>>
    BY <1>a, <1>b DEF Left, Console
  <1>13. Allowed("import", who, s) /\ "bump" \notin Left(s)
    BY <1>12 DEF Allowed, Writers, Console, Loads, Saves
  <1>14. QED
    BY <1>s, <1>9, <1>10, <1>11, <1>13 DEF Arrival

LEMMA AssignIs ==
  ASSUME NEW who
  PROVE  Arrival("assign", who, HandleAdminAssignReserved \o LoadPolicy)
  <1>s. PICK s : s = HandleAdminAssignReserved \o LoadPolicy
    OBVIOUS
  <1>1. PICK t : t = HandleAdminAssignReserved
    OBVIOUS
  <1>2. PICK u : u = LoadPolicy
    OBVIOUS
  <1>3. t \in Seq(Call)
    BY <1>1 DEF HandleAdminAssignReserved, Call, Loads
  <1>4. /\ Len(t) = 4 /\ t[1] = "loadReserved" /\ t[2] = "register" /\ t[3] = "readLog"
        /\ t[4] = "writeLog"
    BY <1>1 DEF HandleAdminAssignReserved
  <1>5. u \in Seq(Call)
    BY <1>2, PolicyCalls
  <1>6. /\ Len(u) = 5 /\ u[1] = "view" /\ u[2] = "loadVip" /\ u[3] = "loadBlock"
        /\ u[4] = "loadReserved" /\ u[5] = "show"
    BY <1>2, PolicyCalls
  <1>7. /\ s \in Seq(Call) /\ DOMAIN s = 1 .. Len(t) + Len(u)
        /\ \A i \in 1 .. Len(t) + Len(u) : s[i] = IF i <= Len(t) THEN t[i] ELSE u[i - Len(t)]
    BY <1>s, <1>1, <1>2, <1>3, <1>5, Concat
  <1>8. Len(t) + Len(u) = 9
    BY <1>4, <1>6
  <1>9. /\ s[1] = "loadReserved" /\ s[2] = "register" /\ s[3] = "readLog" /\ s[4] = "writeLog"
        /\ s[5] = "view" /\ s[6] = "loadVip" /\ s[7] = "loadBlock" /\ s[8] = "loadReserved"
        /\ s[9] = "show" /\ DOMAIN s = 1 .. 9 /\ s \in Seq(Call)
    BY <1>4, <1>6, <1>7, <1>8
  <1>10. Ordered(s)
    BY <1>9 DEF Ordered, Between, Loads, Saves, Forgets
  <1>11. Due(s, "readLog", "writeLog") /\ Due(s, "view", "show")
    BY <1>9 DEF Due
  <1>12. /\ Left(s) \subseteq (Console \ Saves) \cup {"register", "readLog", "writeLog"}
         /\ s # <<>>
    <2>1. \A i \in DOMAIN s : s[i] \in Loads \cup {"view", "show"}
                                        \cup {"register", "readLog", "writeLog"}
      BY <1>9 DEF Loads
    <2>2. s # <<>> /\ Saves \cap (Loads \cup {"view", "show"}) = {}
      BY <1>9 DEF Loads, Saves
    <2>3. QED
      BY <2>1, <2>2 DEF Left, Console
  <1>13. Allowed("assign", who, s) /\ "bump" \notin Left(s)
    BY <1>12 DEF Allowed, Writers, Console, Loads, Saves
  <1>14. QED
    BY <1>s, <1>9, <1>10, <1>11, <1>13 DEF Arrival

LEMMA ExportIs ==
  ASSUME NEW who
  PROVE  Arrival("export", who, HandleAdminExportConfig)
  <1>s. PICK s : s = HandleAdminExportConfig
    OBVIOUS
  <1>1. /\ s[1] = "loadVip" /\ s[2] = "loadBlock" /\ s[3] = "loadReserved" /\ s[4] = "dump"
        /\ DOMAIN s = 1 .. 4 /\ s \in Seq(Call)
    BY <1>s DEF HandleAdminExportConfig, Call, Loads
  <1>2. Ordered(s)
    BY <1>1 DEF Ordered, Between, Loads, Saves, Forgets
  <1>3. Due(s, "readLog", "writeLog") /\ Due(s, "view", "show")
    BY <1>1 DEF Due
  <1>4. Left(s) \subseteq Loads \cup {"dump"} /\ s # <<>>
    BY <1>1 DEF Left, Loads
  <1>5. Allowed("export", who, s) /\ "bump" \notin Left(s)
    BY <1>4 DEF Allowed, Writers, Loads, Saves
  <1>6. QED
    BY <1>s, <1>1, <1>2, <1>3, <1>5 DEF Arrival

(* The page of the login, and the logout *)
LEMMA OneCallIs ==
  ASSUME NEW op \in {"login", "logout"}, NEW who
  PROVE  Arrival(op, who, <<op>>) /\ "show" \notin Left(<<op>>)
  <1>s. PICK s : s = <<op>>
    OBVIOUS
  <1>1. s[1] = op /\ DOMAIN s = {1} /\ s \in Seq(Call)
    BY <1>s DEF Call
  <1>2. Ordered(s)
    BY <1>1 DEF Ordered, Between, Loads, Saves, Forgets
  <1>3. Due(s, "readLog", "writeLog") /\ Due(s, "view", "show")
    BY <1>1 DEF Due
  <1>4. Left(s) = {op} /\ s # <<>>
    BY <1>1 DEF Left
  <1>5. Allowed(op, who, s) /\ "bump" \notin Left(s) /\ "show" \notin Left(s)
    BY <1>4 DEF Allowed, Writers, Loads, Saves
  <1>6. QED
    BY <1>s, <1>1, <1>2, <1>3, <1>5 DEF Arrival

(* A limit in front changes nothing. *)
LEMMA LimitFirst ==
  ASSUME NEW op \in AllOps \ Writers, NEW who, NEW s, Arrival(op, who, s),
         op = "login" => "show" \notin Left(s),
         NEW g \in {"global", "ops"}
  PROVE  Arrival(op, who, <<g>> \o s) /\ ("show" \notin Left(s) => "show" \notin Left(<<g>> \o s))
  <1>1. s \in Seq(Call) /\ Len(s) \in Nat /\ DOMAIN s = 1 .. Len(s)
    BY DEF Arrival
  <1>2. PICK t : t = <<g>> \o s
    OBVIOUS
  <1>3. <<g>> \in Seq(Call) /\ Len(<<g>>) = 1 /\ <<g>>[1] = g
    BY DEF Call, Guard
  <1>4. /\ t \in Seq(Call) /\ DOMAIN t = 1 .. Len(<<g>>) + Len(s)
        /\ \A i \in 1 .. Len(<<g>>) + Len(s) :
             t[i] = IF i <= Len(<<g>>) THEN <<g>>[i] ELSE s[i - Len(<<g>>)]
    BY <1>1, <1>2, <1>3, Concat
  <1>5. /\ DOMAIN t = 1 .. 1 + Len(s) /\ t[1] = g
        /\ \A i \in 1 .. 1 + Len(s) : i = 1 \/ (i - 1 \in DOMAIN s /\ t[i] = s[i - 1])
        /\ \A i \in DOMAIN s : i + 1 \in DOMAIN t /\ t[i + 1] = s[i]
    BY <1>1, <1>3, <1>4
  <1>6. ASSUME NEW c, NEW d, d # g, Due(s, c, d)
        PROVE  Due(t, c, d)
    <2> SUFFICES ASSUME NEW j \in DOMAIN t, t[j] = d
                 PROVE  \E i \in DOMAIN t : i < j /\ t[i] = c
      BY DEF Due
    <2>1. j \in Int /\ j - 1 \in DOMAIN s /\ s[j - 1] = d
      BY <1>5, <1>6
    <2>2. PICK i \in DOMAIN s : i < j - 1 /\ s[i] = c
      BY <2>1, <1>6 DEF Due
    <2>3. i + 1 \in DOMAIN t /\ t[i + 1] = c /\ i \in Int
      BY <1>1, <1>5, <2>2
    <2>4. i + 1 < j
      BY <2>1, <2>2, <2>3
    <2>5. QED
      BY <2>3, <2>4
  <1>7. ASSUME NEW a, NEW b, NEW c, a # g, c # g, Between(s, a, b, c)
        PROVE  Between(t, a, b, c)
    <2> SUFFICES ASSUME NEW i \in DOMAIN t, NEW j \in DOMAIN t, i < j, t[i] = a, t[j] = c
                 PROVE  \E k \in DOMAIN t : i < k /\ k < j /\ t[k] = b
      BY DEF Between
    <2>1. /\ i \in Int /\ i - 1 \in DOMAIN s /\ s[i - 1] = a
          /\ j \in Int /\ j - 1 \in DOMAIN s /\ s[j - 1] = c
      BY <1>5, <1>7
    <2>2. i - 1 < j - 1
      BY <2>1
    <2>3. PICK k \in DOMAIN s : i - 1 < k /\ k < j - 1 /\ s[k] = b
      BY <2>1, <2>2, <1>7 DEF Between
    <2>4. k + 1 \in DOMAIN t /\ t[k + 1] = b /\ k \in Int
      BY <1>1, <1>5, <2>3
    <2>5. i < k + 1 /\ k + 1 < j
      BY <2>1, <2>3, <2>4
    <2>6. QED
      BY <2>4, <2>5
  <1>8. Left(t) \subseteq {g} \cup Left(s) /\ Left(s) \subseteq Left(t) /\ t # <<>>
    <2>1. \A i \in DOMAIN t : t[i] = g \/ \E j \in DOMAIN s : t[i] = s[j]
      BY <1>5
    <2>2. \A j \in DOMAIN s : \E i \in DOMAIN t : t[i] = s[j]
      BY <1>5
    <2>3. 1 \in DOMAIN t
      BY <1>1, <1>5
    <2>4. t # <<>>
      BY <2>3
    <2>5. QED
      BY <2>1, <2>2, <2>4 DEF Left
  <1>9. Ordered(s)
    BY DEF Arrival
  <1>10. Ordered(t)
    <2>1. \A i, j \in DOMAIN t : i < j => t[j] # "bump"
      <3> SUFFICES ASSUME NEW i \in DOMAIN t, NEW j \in DOMAIN t, i < j PROVE t[j] # "bump"
        OBVIOUS
      <3>1. j # 1 /\ j \in 1 .. 1 + Len(s)
        BY <1>1, <1>5
      <3>2. j - 1 \in DOMAIN s /\ t[j] = s[j - 1]
        BY <3>1, <1>5
      <3>3. "bump" \notin Left(s)
        BY DEF Arrival
      <3>4. QED
        BY <3>2, <3>3 DEF Left
    <2>2. \A i, j \in DOMAIN t : i < j /\ t[i] \in Forgets => t[j] \notin {"did", "pds"}
      <3> SUFFICES ASSUME NEW i \in DOMAIN t, NEW j \in DOMAIN t, i < j, t[i] \in Forgets
                   PROVE  t[j] \notin {"did", "pds"}
        OBVIOUS
      <3>1. i # 1 /\ i \in 1 .. 1 + Len(s) /\ j # 1 /\ j \in 1 .. 1 + Len(s)
        BY <1>1, <1>5 DEF Forgets
      <3>2. /\ j - 1 \in DOMAIN s /\ t[j] = s[j - 1] /\ i - 1 \in DOMAIN s /\ t[i] = s[i - 1]
            /\ i - 1 < j - 1
        BY <3>1, <1>5, <1>1
      <3>3. QED
        BY <3>2, <1>9 DEF Ordered
    <2>3. \A x \in Loads \cup Saves \cup Forgets \cup {"show", "view", "writeLog", "register"} : x # g
      BY DEF Loads, Saves, Forgets
    <2>4. /\ "saveVip" # g /\ "saveBlock" # g /\ "saveReserved" # g
      OBVIOUS
    <2>5. /\ \A b \in Loads : Between(t, "view", b, "show")
          /\ \A a \in Saves \cup {"register", "writeLog"} : Between(t, a, "view", "show")
          /\ \A a \in Forgets : Between(t, a, "readLog", "writeLog")
      BY <1>7, <1>9, <2>3 DEF Ordered
    <2>6. /\ Between(t, "saveVip", "loadVip", "saveVip")
          /\ Between(t, "saveBlock", "loadBlock", "saveBlock")
          /\ Between(t, "saveReserved", "loadReserved", "saveReserved")
      BY <1>7, <1>9, <2>4 DEF Ordered
    <2>7. QED
      BY <2>1, <2>2, <2>5, <2>6 DEF Ordered
  <1>11. Allowed(op, who, t) /\ "bump" \notin Left(t)
    BY <1>8 DEF Arrival, Allowed, Writers, Saves
  <1>12. Due(t, "readLog", "writeLog") /\ Due(t, "view", "show")
    BY <1>6 DEF Arrival
  <1>13. op = "register" =>
           /\ \A c \in {"loadBlock", "loadReserved", "resolveDid", "resolvePds"} :
                Due(t, c, "register")
           /\ \A d \in {"resolveDid", "resolvePds"} : Due(t, "loadBlock", d)
    BY <1>6 DEF Arrival
  <1>14. op # "post"
    BY DEF Writers
  <1>15. "show" \notin Left(s) => "show" \notin Left(t)
    BY <1>8
  <1>16. QED
    BY <1>2, <1>4, <1>10, <1>11, <1>12, <1>13, <1>14, <1>15 DEF Arrival

LEMMA GlobalFirst ==
  ASSUME NEW op \in AllOps \ Writers, NEW who, NEW s, Arrival(op, who, s),
         op = "login" => "show" \notin Left(s), NEW tier
  PROVE  /\ Arrival(op, who, GlobalLimit(tier) \o s)
         /\ op = "login" => "show" \notin Left(GlobalLimit(tier) \o s)
  <1>1. CASE tier = "plain"
    BY <1>1, LimitFirst DEF GlobalLimit
  <1>2. CASE tier # "plain"
    <2>1. s \in Seq(Call)
      BY DEF Arrival
    <2>2. <<>> \o s = s
      BY <2>1
    <2>3. QED
      BY <1>2, <2>2 DEF GlobalLimit
  <1>3. QED
    BY <1>1, <1>2

LEMMA DeleteIs ==
  ASSUME NEW who, NEW tier
  PROVE  Arrival("remove", who, HandleDelete(tier))
  <1>1. PICK s : s = <<"register", "readLog", "writeLog">>
    OBVIOUS
  <1>2. /\ s[1] = "register" /\ s[2] = "readLog" /\ s[3] = "writeLog"
        /\ DOMAIN s = 1 .. 3 /\ s \in Seq(Call)
    BY <1>1 DEF Call
  <1>3. Ordered(s)
    BY <1>2 DEF Ordered, Between, Loads, Saves, Forgets
  <1>4. Due(s, "readLog", "writeLog") /\ Due(s, "view", "show")
    BY <1>2 DEF Due
  <1>5. \A i \in DOMAIN s : s[i] \in {"register", "readLog", "writeLog"}
    BY <1>2
  <1>6. s # <<>>
    BY <1>2
  <1>7. Allowed("remove", who, s) /\ "bump" \notin Left(s)
    BY <1>5, <1>6 DEF Allowed, Writers, Saves, Left
  <1>8. Arrival("remove", who, s)
    BY <1>2, <1>3, <1>4, <1>7 DEF Arrival
  <1>9. Arrival("remove", who, <<"ops">> \o s)
    BY <1>8, LimitFirst DEF AllOps, Writers
  <1>10. <<>> \o s = s
    BY <1>2
  <1>11. QED
    BY <1>1, <1>8, <1>9, <1>10 DEF HandleDelete

LEMMA RegisterIs ==
  ASSUME NEW who \in Applicant, NEW tier
  PROVE  Arrival("register", who, HandleRegister(tier))
  <1> DEFINE M == {"burst", "hour", "did", "pds"}
  <1>s. PICK s : s = HandleRegister(tier)
    OBVIOUS
  <1>1. PICK a : a = <<"loadBlock", "loadReserved", "resolveDid", "resolvePds", "loadVip">>
    OBVIOUS
  <1>2. PICK l : l = RegisterLimits(tier)
    OBVIOUS
  <1>3. PICK b : b = <<"register", "readLog", "writeLog">>
    OBVIOUS
  <1>4. /\ Len(a) = 5 /\ a[1] = "loadBlock" /\ a[2] = "loadReserved" /\ a[3] = "resolveDid"
        /\ a[4] = "resolvePds" /\ a[5] = "loadVip"
    BY <1>1
  <1>5. Len(b) = 3 /\ b[1] = "register" /\ b[2] = "readLog" /\ b[3] = "writeLog"
    BY <1>3
  <1>6. l \in Seq(M)
    <2>1. /\ <<"burst", "hour", "did", "pds">> \in Seq(M) /\ <<"did", "pds">> \in Seq(M)
          /\ <<>> \in Seq(M)
      OBVIOUS
    <2>2. QED
      BY <1>2, <2>1 DEF RegisterLimits
  <1>7. a \in Seq(Call) /\ b \in Seq(Call)
    BY <1>1, <1>3 DEF Call, Loads
  <1>8. M \subseteq Call
    BY DEF Call, Guard
  <1>9. PICK n \in Nat : n = Len(l) /\ \A i \in 1 .. n : l[i] \in M
    BY <1>6
  <1>10. l \in Seq(Call)
    BY <1>6, <1>8
  <1>11. PICK c : c = a \o l
    OBVIOUS
  <1>12. /\ c \in Seq(Call) /\ DOMAIN c = 1 .. Len(a) + Len(l)
         /\ \A i \in 1 .. Len(a) + Len(l) : c[i] = IF i <= Len(a) THEN a[i] ELSE l[i - Len(a)]
    BY <1>7, <1>10, <1>11, Concat
  <1>13. s = c \o b
    BY <1>s, <1>1, <1>2, <1>3, <1>11 DEF HandleRegister
  <1>14. /\ s \in Seq(Call) /\ DOMAIN s = 1 .. Len(c) + Len(b)
         /\ \A i \in 1 .. Len(c) + Len(b) : s[i] = IF i <= Len(c) THEN c[i] ELSE b[i - Len(c)]
    BY <1>7, <1>12, <1>13, Concat
  <1>15. /\ DOMAIN c = 1 .. n + 5
         /\ c[1] = "loadBlock" /\ c[2] = "loadReserved" /\ c[3] = "resolveDid"
         /\ c[4] = "resolvePds" /\ c[5] = "loadVip"
    BY <1>4, <1>9, <1>12
  <1>16. Len(c) = n + 5
    BY <1>12, <1>15
  <1>17. ASSUME NEW i \in 6 .. n + 5 PROVE c[i] \in M
    <2>1. i - 5 \in 1 .. n /\ i \in 1 .. Len(a) + Len(l) /\ ~(i <= Len(a)) /\ i - Len(a) = i - 5
      BY <1>4, <1>9
    <2>2. QED
      BY <2>1, <1>9, <1>12
  <1>18. DOMAIN s = 1 .. n + 8
    BY <1>5, <1>14, <1>16
  <1>19. /\ s[1] = "loadBlock" /\ s[2] = "loadReserved" /\ s[3] = "resolveDid"
         /\ s[4] = "resolvePds" /\ s[5] = "loadVip"
    BY <1>5, <1>14, <1>15, <1>16
  <1>20. s[n + 6] = "register" /\ s[n + 7] = "readLog" /\ s[n + 8] = "writeLog"
    <2>1. /\ n + 6 \in 1 .. Len(c) + Len(b) /\ n + 7 \in 1 .. Len(c) + Len(b)
          /\ n + 8 \in 1 .. Len(c) + Len(b)
          /\ ~(n + 6 <= Len(c)) /\ ~(n + 7 <= Len(c)) /\ ~(n + 8 <= Len(c))
          /\ n + 6 - Len(c) = 1 /\ n + 7 - Len(c) = 2 /\ n + 8 - Len(c) = 3
      BY <1>5, <1>16
    <2>2. QED
      BY <2>1, <1>5, <1>14
  <1>21. ASSUME NEW i \in 6 .. n + 5 PROVE s[i] \in M
    <2>1. i \in 1 .. Len(c) + Len(b) /\ i <= Len(c)
      BY <1>5, <1>16
    <2>2. QED
      BY <2>1, <1>14, <1>17
  <1> DEFINE Is(i) == \/ i \in 1 .. 5
                          /\ s[i] \in {"loadBlock", "loadReserved", "resolveDid", "resolvePds",
                                       "loadVip"}
                      \/ i \in 6 .. n + 5 /\ s[i] \in M
                      \/ i = n + 6 /\ s[i] = "register"
                      \/ i = n + 7 /\ s[i] = "readLog"
                      \/ i = n + 8 /\ s[i] = "writeLog"
  <1>22. \A i \in DOMAIN s : Is(i)
    <2> SUFFICES ASSUME NEW i \in 1 .. n + 8 PROVE Is(i)
      BY <1>18
    <2>1. CASE i \in 1 .. 5
      BY <2>1, <1>19
    <2>2. CASE i \in 6 .. n + 5
      BY <2>2, <1>21
    <2>3. CASE i \in {n + 6, n + 7, n + 8}
      BY <2>3, <1>20
    <2>4. QED
      BY <2>1, <2>2, <2>3
  <1>23. \A j \in DOMAIN s :
           /\ s[j] \notin Saves \cup {"view", "show", "bump", "login"} /\ j \in Int
           /\ s[j] = "register" => j = n + 6
           /\ s[j] = "writeLog" => j = n + 8
           /\ s[j] \in {"did", "pds"} => j < n + 6
           /\ s[j] \in {"resolveDid", "resolvePds"} => j \in 1 .. 5 /\ j # 1
    BY <1>19, <1>22 DEF Saves
  <1>24. Ordered(s)
    <2>1. /\ \A x \in Loads : Between(s, "view", x, "show")
          /\ \A x \in Saves \cup {"register", "writeLog"} : Between(s, x, "view", "show")
          /\ Between(s, "saveVip", "loadVip", "saveVip")
          /\ Between(s, "saveBlock", "loadBlock", "saveBlock")
          /\ Between(s, "saveReserved", "loadReserved", "saveReserved")
          /\ \A i, j \in DOMAIN s : i < j => s[j] # "bump"
      BY <1>23 DEF Between, Saves
    <2>2. ASSUME NEW x \in Forgets PROVE Between(s, x, "readLog", "writeLog")
      <3> SUFFICES ASSUME NEW i \in DOMAIN s, NEW j \in DOMAIN s, i < j, s[i] = x,
                          s[j] = "writeLog"
                   PROVE  \E k \in DOMAIN s : i < k /\ k < j /\ s[k] = "readLog"
        BY DEF Between
      <3>1. j = n + 8 /\ i \in Int
        BY <1>23
      <3>2. i = n + 6
        BY <3>1, <1>23 DEF Forgets
      <3>3. n + 7 \in DOMAIN s /\ i < n + 7 /\ n + 7 < j
        BY <3>1, <3>2, <1>18
      <3>4. QED
        BY <3>3, <1>20
    <2>3. \A i, j \in DOMAIN s : i < j /\ s[i] \in Forgets => s[j] \notin {"did", "pds"}
      <3> SUFFICES ASSUME NEW i \in DOMAIN s, NEW j \in DOMAIN s, i < j, s[i] \in Forgets
                   PROVE  s[j] \notin {"did", "pds"}
        OBVIOUS
      <3>1. i \in {n + 6, n + 8} /\ j \in Int
        BY <1>23 DEF Forgets
      <3>2. ~(j < n + 6)
        BY <3>1
      <3>3. QED
        BY <3>2, <1>23
    <2>4. QED
      BY <2>1, <2>2, <2>3 DEF Ordered
  <1>25. s # <<>> /\ Left(s) \cap (Saves \cup {"view", "show", "bump", "login"}) = {}
    <2>1. 1 \in DOMAIN s
      BY <1>18
    <2>2. s # <<>>
      BY <2>1
    <2>3. QED
      BY <2>2, <1>23 DEF Left
  <1>26. Allowed("register", who, s) /\ "bump" \notin Left(s)
    BY <1>25 DEF Allowed, Writers
  <1>27. Due(s, "readLog", "writeLog") /\ Due(s, "view", "show")
    <2>1. n + 7 \in DOMAIN s /\ n + 7 < n + 8
      BY <1>18
    <2>2. QED
      BY <2>1, <1>20, <1>23 DEF Due
  <1>28. ASSUME NEW x \in {"loadBlock", "loadReserved", "resolveDid", "resolvePds"}
         PROVE  Due(s, x, "register")
    <2> SUFFICES ASSUME NEW j \in DOMAIN s, s[j] = "register"
                 PROVE  \E i \in DOMAIN s : i < j /\ s[i] = x
      BY DEF Due
    <2>1. j = n + 6
      BY <1>23
    <2>2. PICK i \in 1 .. 4 : s[i] = x
      BY <1>19
    <2>3. i \in DOMAIN s /\ i < j
      BY <2>1, <1>18
    <2>4. QED
      BY <2>2, <2>3
  <1>29. ASSUME NEW d \in {"resolveDid", "resolvePds"}
         PROVE  Due(s, "loadBlock", d)
    <2> SUFFICES ASSUME NEW j \in DOMAIN s, s[j] = d
                 PROVE  \E i \in DOMAIN s : i < j /\ s[i] = "loadBlock"
      BY DEF Due
    <2>1. j \in 1 .. 5 /\ j # 1
      BY <1>23
    <2>2. 1 \in DOMAIN s /\ 1 < j
      BY <2>1, <1>18
    <2>3. QED
      BY <2>2, <1>19
  <1>30. QED
    BY <1>s, <1>14, <1>24, <1>26, <1>27, <1>28, <1>29 DEF Arrival

(* What it is that comes in *)
Came(p) ==
  \E op \in AllOps, s \in Seq(Call), q \in Request :
    /\ Receive(p, op, s, q) /\ Arrival(op, q.who, s)
    /\ q.copy = <<>> /\ ~q.pds

Comes(p) ==
  LET n == req'[p] IN
  /\ req[p].op = None /\ n.op \in AllOps /\ n.op # None
  /\ Arrival(n.op, n.who, n.calls) /\ n.calls # <<>>
  /\ n.copy = <<>> /\ ~n.pds /\ n.bans = Against(n.who)
  /\ n.alone = NoWriter
  /\ Head(n.calls) # "bump"
  /\ \A o \in Proc \ {p} : req'[o] = Joined(n.op, req[o])
  /\ calm' = (calm /\ Quiet)
  /\ UNCHANGED <<config, screen, file, session, counts, log, attempts, logged, faults>>

LEMMA CameWith ==
  ASSUME NEW p \in Proc, NEW op \in AllOps, NEW s, NEW q \in Request,
         Receive(p, op, s, q), Arrival(op, q.who, s), q.copy = <<>>, ~q.pds
  PROVE  Came(p)
  <1>1. s \in Seq(Call)
    BY DEF Arrival
  <1>2. QED
    BY <1>1 DEF Came

LEMMA AsksIs ==
  ASSUME NEW a \in Applicant
  PROVE  Asks(a) \in Request /\ Asks(a).who = a /\ Asks(a).copy = <<>> /\ ~Asks(a).pds
  <1> DEFINE n == NoRequest
  <1>1. n \in Request /\ n.copy = <<>> /\ n.pds = FALSE
    BY NoRequestIs
  <1> HIDE DEF n
  <1>2. /\ [n EXCEPT !.who = a] \in Request /\ [n EXCEPT !.who = a].who = a
        /\ [n EXCEPT !.who = a].copy = <<>> /\ ~[n EXCEPT !.who = a].pds
    BY <1>1 DEF Request
  <1>3. QED
    BY <1>2 DEF Asks, n

LEMMA VisitorCame ==
  ASSUME NEW p \in Proc, ReceiveVisitor(p)
  PROVE  Came(p)
  <1>1. PICK tier \in Tiers :
          \/ \E a \in Applicant :
               Receive(p, "register", GlobalLimit(tier) \o HandleRegister(tier), Asks(a))
          \/ Receive(p, "remove", GlobalLimit(tier) \o HandleDelete(tier), NoRequest)
          \/ Receive(p, "login", GlobalLimit(tier) \o <<"login">>, NoRequest)
    BY DEF ReceiveVisitor
  <1>2. {"register", "remove", "login"} \subseteq AllOps \ Writers
    BY DEF AllOps, Writers
  <1>3. ASSUME NEW a \in Applicant,
               Receive(p, "register", GlobalLimit(tier) \o HandleRegister(tier), Asks(a))
        PROVE  Came(p)
    <2>1. Arrival("register", a, GlobalLimit(tier) \o HandleRegister(tier))
      BY <1>2, RegisterIs, GlobalFirst
    <2>2. QED
      BY <1>2, <1>3, <2>1, AsksIs, CameWith
  <1>4. CASE Receive(p, "remove", GlobalLimit(tier) \o HandleDelete(tier), NoRequest)
    <2>1. Arrival("remove", NoRequest.who, GlobalLimit(tier) \o HandleDelete(tier))
      BY <1>2, DeleteIs, GlobalFirst
    <2>2. QED
      BY <1>2, <1>4, <2>1, NoRequestIs, CameWith
  <1>5. CASE Receive(p, "login", GlobalLimit(tier) \o <<"login">>, NoRequest)
    <2>1. Arrival("login", NoRequest.who, GlobalLimit(tier) \o <<"login">>)
      BY <1>2, OneCallIs, GlobalFirst
    <2>2. QED
      BY <1>2, <1>5, <2>1, NoRequestIs, CameWith
  <1>6. QED
    BY <1>1, <1>3, <1>4, <1>5

LEMMA ConsoleCame ==
  ASSUME AInv, NEW p \in Proc, ReceiveConsole(p)
  PROVE  Came(p)
  <1> DEFINE n == NoRequest
  <1>1. n \in Request /\ n.copy = <<>> /\ n.pds = FALSE
    BY NoRequestIs
  <1>2. {"post", "import", "assign", "export", "logout"} \subseteq AllOps
    BY DEF AllOps
  <1>3. CASE PostConfig(p)
    <2>1. PICK c \in Change : Receive(p, "post", HandleAdminConfigPost \o LoadPolicy,
                                      [n EXCEPT !.change = c])
      BY <1>3 DEF PostConfig
    <2> HIDE DEF n
    <2>2. c \in Changes
      BY PolicyAssumption
    <2>3. /\ [n EXCEPT !.change = c] \in Request /\ [n EXCEPT !.change = c].copy = <<>>
          /\ ~[n EXCEPT !.change = c].pds
      BY <1>1, <2>2 DEF Request
    <2>4. QED
      BY <1>2, <2>1, <2>3, PostIs, CameWith
  <1>4. CASE ImportConfigFromFile(p)
    <2>1. file \in Lists
      BY <1>4 DEF ImportConfigFromFile, AInv, TypeOK
    <2>2. Receive(p, "import", HandleAdminImportConfig \o LoadPolicy, [n EXCEPT !.lists = file])
      BY <1>4 DEF ImportConfigFromFile
    <2> HIDE DEF n
    <2>3. /\ [n EXCEPT !.lists = file] \in Request /\ [n EXCEPT !.lists = file].copy = <<>>
          /\ ~[n EXCEPT !.lists = file].pds
      BY <1>1, <2>1 DEF Request
    <2>4. PICK q \in Request : q = [n EXCEPT !.lists = file]
      BY <2>3
    <2>5. QED
      BY <1>2, <2>2, <2>3, <2>4, ImportIs, CameWith
  <1>5. CASE AssignReservedHandle(p)
    <2>1. PICK a \in Applicant :
            Receive(p, "assign", HandleAdminAssignReserved \o LoadPolicy, Asks(a))
      BY <1>5 DEF AssignReservedHandle
    <2>2. QED
      BY <1>2, <2>1, AsksIs, AssignIs, CameWith
  <1>6. CASE Receive(p, "export", HandleAdminExportConfig, NoRequest)
    BY <1>1, <1>2, <1>6, ExportIs, CameWith
  <1>7. CASE Receive(p, "logout", <<"logout">>, NoRequest)
    BY <1>1, <1>2, <1>7, OneCallIs, CameWith
  <1>8. QED
    BY <1>3, <1>4, <1>5, <1>6, <1>7 DEF ReceiveConsole

LEMMA CameIs ==
  ASSUME AInv, NEW p \in Proc, Came(p)
  PROVE  Comes(p) /\ AInv'
  <1>1. PICK op \in AllOps, s \in Seq(Call), q \in Request :
          /\ Receive(p, op, s, q) /\ Arrival(op, q.who, s)
          /\ q.copy = <<>> /\ ~q.pds
    BY DEF Came
  <1>2. op # None
    BY PolicyAssumption
  <1>3. NoWriter \in BOOLEAN
    BY DEF NoWriter
  <1>4. Against(q.who) \in SUBSET Bans
    BY DEF Against
  <1>5. PICK al \in BOOLEAN, bs \in SUBSET Bans : al = NoWriter /\ bs = Against(q.who)
    BY <1>3, <1>4
  <1> DEFINE n == [q EXCEPT !.op = op, !.calls = s, !.bans = bs, !.alone = al]
  <1>6. /\ req[p].op = None /\ requests' = requests + 1 /\ calm' = (calm /\ Quiet)
        /\ UNCHANGED <<config, screen, file, session, counts, log, attempts, logged, faults>>
        /\ req' = [o \in Proc |-> IF o = p THEN Entering(op, s, q) ELSE Joined(op, req[o])]
    BY <1>1, Zenon DEF Receive
  <1>7. Entering(op, s, q) = n
    BY <1>5 DEF Entering
  <1>8. /\ n \in Request /\ n.op = op /\ n.calls = s /\ n.bans = bs /\ n.alone = al
        /\ n.who = q.who /\ n.copy = <<>> /\ ~n.pds
    BY <1>1 DEF Request
  <1>9. \A o \in Proc : req[o] \in Request /\ Shaped(req[o])
    BY DEF AInv, TypeOK
  <1> DEFINE m(o) == Joined(op, req[o])
  <1>10. \A o \in Proc : /\ m(o) \in Request /\ m(o).op = req[o].op /\ m(o).calls = req[o].calls
                         /\ m(o).who = req[o].who /\ m(o).guard = req[o].guard
    BY <1>9 DEF Request, Joined
  <1> HIDE DEF n, m
  <1>11. req'[p] = n /\ \A o \in Proc \ {p} : req'[o] = m(o)
    BY <1>6, <1>7 DEF m
  <1>12. req' \in [Proc -> Request]
    BY <1>6, <1>7, <1>8, <1>10 DEF m
  <1>13. TypeOK'
    <2>1. calm' \in BOOLEAN
      BY <1>6 DEF Quiet, AInv, TypeOK
    <2>2. QED
      BY <1>6, <1>12, <2>1 DEF AInv, TypeOK
  <1>14. s # <<>> /\ Head(s) # "bump"
    BY <1>1, TailIs DEF Arrival, Allowed
  <1>15. Shaped(req'[p])
    BY <1>1, <1>8, <1>11, <1>14 DEF Shaped, Arrival
  <1>16. \A o \in Proc \ {p} : Shaped(req'[o])
    <2>1. \A o \in Proc \ {p} : /\ req'[o].op = req[o].op /\ req'[o].calls = req[o].calls
                                 /\ req'[o].who = req[o].who /\ req'[o].guard = req[o].guard
      BY <1>10, <1>11
    <2>2. QED
      BY <1>9, <2>1 DEF Shaped
  <1>17. OneByOne'
    <2> SUFFICES ASSUME calm', NEW x \in Proc, NEW y \in Proc, req'[x].op # None,
                        req'[y].op # None
                 PROVE  x = y
      BY DEF OneByOne, Busy
    <2>1. Busy = {}
      BY <1>6 DEF Quiet
    <2>2. \A o \in Proc \ {p} : req'[o].op = None
      BY <2>1, <1>10, <1>11 DEF Busy
    <2>3. QED
      BY <2>2
  <1>18. Comes(p)
    <2>1. \A o \in Proc \ {p} : req'[o] = Joined(req'[p].op, req[o])
      BY <1>8, <1>11 DEF m
    <2>2. QED
      BY <1>1, <1>2, <1>5, <1>6, <1>8, <1>11, <1>14, <2>1 DEF Comes
  <1>19. QED
    BY <1>13, <1>15, <1>16, <1>17, <1>18 DEF AInv

-----------------------------------------------------------------------------
(* The types *)

LEMMA NextIs ==
  ASSUME AInv, Next
  PROVE  /\ AInv'
         /\ \/ \E p \in Proc : Serves(p) /\ Stepped(p)
            \/ \E p \in Proc : Comes(p)
            \/ Tick
  <1>1. CASE Tick
    BY <1>1, TickIs
  <1>2. ASSUME NEW p \in Proc, ReceiveVisitor(p) \/ ReceiveConsole(p)
        PROVE  Comes(p) /\ AInv'
    BY <1>2, VisitorCame, ConsoleCame, CameIs
  <1>3. ASSUME NEW p \in Proc, Serves(p)
        PROVE  Stepped(p) /\ AInv'
    BY <1>3, ServesStep, SteppedKeeps
  <1>4. (\E p \in Proc : ReceiveVisitor(p) \/ ReceiveConsole(p) \/ Serves(p)) \/ Tick
    BY DEF Next, Serves
  <1>5. QED
    BY <1>1, <1>2, <1>3, <1>4

LEMMA InitIs ==
  ASSUME Init
  PROVE  AInv /\ \A p \in Proc : req[p] = NoRequest
  <1>1. req = [p \in Proc |-> NoRequest]
    BY DEF Init
  <1>2. \A p \in Proc : req[p] = NoRequest
    BY <1>1
  <1>3. req \in [Proc -> Request]
    BY <1>1, NoRequestIs
  <1>4. config \in Lists /\ screen \in Lists \cup {None}
    BY PolicyAssumption DEF Init
  <1>5. counts \in [Counter -> Nat] /\ attempts \in [Counter -> Nat]
    BY DEF Init
  <1>6. log \in Seq(Nat) /\ Len(log) <= MaxEvents
    <2>1. log = <<>> /\ MaxEvents \in Nat
      BY PolicyAssumption DEF Init
    <2>2. QED
      BY <2>1
  <1>7. TypeOK
    BY <1>3, <1>4, <1>5, <1>6 DEF Init, TypeOK
  <1>8. OneByOne /\ \A p \in Proc : Shaped(req[p])
    BY <1>2, NoRequestIs DEF OneByOne, Busy
  <1>9. QED
    BY <1>2, <1>7, <1>8 DEF AInv

LEMMA StutterIs ==
  ASSUME AInv, UNCHANGED vars
  PROVE  AInv'
  <1>1. UNCHANGED <<config, screen, file, session, counts, log, req, attempts, logged, calm,
                    requests, faults>>
    BY DEF vars
  <1>2. TypeOK'
    BY <1>1 DEF AInv, TypeOK
  <1>3. OneByOne' /\ \A p \in Proc : Shaped(req'[p])
    BY <1>1 DEF AInv, OneByOne, Busy
  <1>4. QED
    BY <1>2, <1>3 DEF AInv

LEMMA AInvAlways == Spec => []AInv
  <1>1. Init => AInv
    BY InitIs
  <1>2. AInv /\ [Next]_vars => AInv'
    BY NextIs, StutterIs
  <1>3. QED
    BY <1>1, <1>2, PTL DEF Spec

(* The lists stay lists, the log never outgrows its bound, and no request  *)
(* of any handler is ever left without a next call, whatever the handlers' *)
(* calls and failures cross.                                               *)
THEOREM WorkerPolicyTypeOK == Spec => []TypeOK
  <1>1. AInv => TypeOK
    BY DEF AInv
  <1>2. QED
    BY <1>1, AInvAlways, PTL

-----------------------------------------------------------------------------
(* The bans *)

(* A call that a request passes, with the stored lists as they are *)
LEMMA BanPasses ==
  ASSUME AInv, NEW q \in Request, q.op # None, Shaped(q), NEW n \in Request,
         Passes(q, n), BanFit(q, config)
  PROVE  BanFit(n, config)
  <1> DEFINE s == q.calls
             h == Head(s)
  <1>1. /\ s \in Seq(Call) /\ s # <<>> /\ n.calls = Tail(s) /\ n.op = q.op /\ n.who = q.who
        /\ n.bans = q.bans
    BY DEF Passes, Keeps, Shaped, Allowed, Request
  <1>2. \A c, d : Due(s, c, d) /\ h # c => Due(n.calls, c, d) /\ h # d
    BY <1>1, TailDue
  <1>3. /\ n.lists = IF h \in Loads THEN Read(q, h) ELSE q.lists
        /\ h \in Loads => ~ Refused(q, h)
        /\ h = "resolveDid" => q.who \notin q.lists["blockDids"]
        /\ IF h = "resolvePds" THEN n.pds => q.who \notin q.lists["blockPds"]
           ELSE n.pds = q.pds
    BY DEF Passes
  <1> SUFFICES ASSUME q.op = "register"
               PROVE  BanFit(n, config)
    BY <1>1 DEF BanFit
  <1>4. \A l \in n.bans : n.who \in config[l]
    BY <1>1 DEF BanFit
  <1>5. "blockedKeywords" \in n.bans => Due(n.calls, "loadBlock", "register")
    <2> SUFFICES ASSUME "blockedKeywords" \in n.bans
                 PROVE  Due(n.calls, "loadBlock", "register")
      OBVIOUS
    <2>1. Due(s, "loadBlock", "register") /\ q.who \in config["blockedKeywords"]
      BY <1>1 DEF BanFit
    <2>2. h # "loadBlock"
      BY <1>3, <2>1 DEF Refused, Loads
    <2>3. QED
      BY <1>2, <2>1, <2>2
  <1>6. "reservedHandles" \in n.bans => Due(n.calls, "loadReserved", "register")
    <2> SUFFICES ASSUME "reservedHandles" \in n.bans
                 PROVE  Due(n.calls, "loadReserved", "register")
      OBVIOUS
    <2>1. Due(s, "loadReserved", "register") /\ q.who \in config["reservedHandles"]
      BY <1>1 DEF BanFit
    <2>2. h # "loadReserved"
      BY <1>3, <2>1 DEF Refused, Loads
    <2>3. QED
      BY <1>2, <2>1, <2>2
  <1>7. ASSUME NEW l \in {"blockDids", "blockPds"}, NEW d \in {"resolveDid", "resolvePds"},
               l \in n.bans, Due(s, "loadBlock", d) \/ q.who \in q.lists[l]
        PROVE  Due(n.calls, "loadBlock", d) \/ n.who \in n.lists[l]
    <2>1. q.who \in config[l] /\ l \in List
      BY <1>1, <1>7 DEF BanFit, List
    <2>2. CASE h = "loadBlock"
      <3>1. n.lists[l] = config[l]
        BY <1>3, <2>1, <2>2 DEF Read, In, Loads, Bans, List
      <3>2. QED
        BY <2>1, <3>1, <1>1
    <2>3. CASE h # "loadBlock" /\ q.who \in q.lists[l]
      <3>1. n.lists[l] = q.lists[l]
        BY <1>3, <2>1, <2>3 DEF Read, In, Loads, Bans, List
      <3>2. QED
        BY <2>3, <3>1, <1>1
    <2>4. CASE h # "loadBlock" /\ Due(s, "loadBlock", d)
      BY <2>4, <1>2
    <2>5. QED
      BY <2>2, <2>3, <2>4, <1>7
  <1>8. "blockDids" \in n.bans =>
          /\ Due(n.calls, "resolveDid", "register")
          /\ Due(n.calls, "loadBlock", "resolveDid") \/ n.who \in n.lists["blockDids"]
    <2> SUFFICES ASSUME "blockDids" \in n.bans
                 PROVE  /\ Due(n.calls, "resolveDid", "register")
                        /\ \/ Due(n.calls, "loadBlock", "resolveDid")
                           \/ n.who \in n.lists["blockDids"]
      OBVIOUS
    <2>1. /\ Due(s, "resolveDid", "register")
          /\ Due(s, "loadBlock", "resolveDid") \/ q.who \in q.lists["blockDids"]
      BY <1>1 DEF BanFit
    <2>2. h # "resolveDid"
      BY <1>2, <1>3, <2>1
    <2>3. QED
      BY <1>2, <1>7, <2>1, <2>2
  <1>9. "blockPds" \in n.bans =>
          /\ n.pds => Due(n.calls, "resolvePds", "register")
          /\ Due(n.calls, "loadBlock", "resolvePds") \/ n.who \in n.lists["blockPds"]
    <2> SUFFICES ASSUME "blockPds" \in n.bans
                 PROVE  /\ n.pds => Due(n.calls, "resolvePds", "register")
                        /\ \/ Due(n.calls, "loadBlock", "resolvePds")
                           \/ n.who \in n.lists["blockPds"]
      OBVIOUS
    <2>1. /\ q.pds => Due(s, "resolvePds", "register")
          /\ Due(s, "loadBlock", "resolvePds") \/ q.who \in q.lists["blockPds"]
      BY <1>1 DEF BanFit
    <2>2. n.pds => h # "resolvePds"
      BY <1>2, <1>3, <2>1
    <2>3. n.pds => Due(n.calls, "resolvePds", "register")
      BY <1>2, <1>3, <2>1, <2>2
    <2>4. QED
      BY <1>7, <2>1, <2>3
  <1>10. QED
    BY <1>4, <1>5, <1>6, <1>8, <1>9 DEF BanFit

LEMMA BanMoves ==
  ASSUME AInv, NEW q \in Request, q.op # None, Shaped(q), NEW n \in Request,
         Moves(q, n), BanFit(q, config)
  PROVE  BanFit(n, config)
  <1>1. q.calls \in Seq(Call) /\ q.calls # <<>>
    BY DEF Shaped, Allowed, Request
  <1>2. CASE n = NoRequest
    <2>1. n.op # "register"
      BY <1>2, NoRequestIs, PolicyAssumption DEF AllOps
    <2>2. QED
      BY <2>1 DEF BanFit
  <1>3. CASE Passes(q, n)
    BY <1>3, BanPasses
  <1>4. CASE n.bans = {}
    BY <1>4 DEF BanFit
  <1>5. CASE n = Forgetting(q) \/ n = Blocked(q)
    BY <1>1, <1>4, <1>5, ForgettingIs, BlockedIs
  <1>6. CASE n = [q EXCEPT !.calls = LoadPolicy]
    <2>1. n.calls = LoadPolicy /\ n.bans = q.bans /\ n.who = q.who /\ n.op = q.op
      BY <1>6 DEF Request
    <2>2. Left(LoadPolicy) \cap {"register", "resolveDid", "resolvePds"} = {}
      BY PolicyCalls DEF Loads
    <2>3. \A c : \A d \in {"register", "resolveDid", "resolvePds"} : Due(n.calls, c, d)
      BY <2>1, <2>2 DEF Due, Left
    <2>4. QED
      BY <2>1, <2>3 DEF BanFit
  <1>7. CASE Counts(q, n)
    <2>1. /\ n.calls = [q.calls EXCEPT ![1] = "bump"] /\ Head(q.calls) \in Guard
          /\ n.op = q.op /\ n.who = q.who /\ n.bans = q.bans /\ n.lists = q.lists
          /\ n.pds = q.pds
      BY <1>7 DEF Counts, Keeps
    <2>2. {"loadBlock", "loadReserved", "resolveDid", "resolvePds", "register"}
            \subseteq Call \ (Guard \cup {"bump"})
      BY DEF Call, Guard, Loads
    <2>3. \A c, d \in {"loadBlock", "loadReserved", "resolveDid", "resolvePds", "register"} :
            Due(q.calls, c, d) => Due(n.calls, c, d)
      BY <1>1, <2>1, <2>2, BumpDue
    <2>4. QED
      BY <2>1, <2>3 DEF BanFit
  <1>8. QED
    BY <1>2, <1>3, <1>5, <1>6, <1>7 DEF Moves, Turns

LEMMA BanStep ==
  ASSUME BanInv, [Next]_vars
  PROVE  BanInv'
  <1>1. AInv /\ \A o \in Proc : req[o] \in Request /\ Shaped(req[o]) /\ BanFit(req[o], config)
    BY DEF BanInv, AInv, TypeOK
  <1>2. AInv'
    BY <1>1, NextIs, StutterIs
  <1>3. \A o \in Proc : req'[o] \in Request
    BY <1>2 DEF AInv, TypeOK
  <1> SUFFICES \A o \in Proc : BanFit(req'[o], config')
    BY <1>2 DEF BanInv
  <1>4. CASE UNCHANGED vars
    BY <1>1, <1>4 DEF vars
  <1>5. CASE Tick
    BY <1>1, <1>5, TickIs DEF BanFit, Lates
  <1>6. ASSUME NEW p \in Proc, Comes(p), NEW o \in Proc
        PROVE  BanFit(req'[o], config')
    <2>1. CASE o = p
      <3> DEFINE n == req'[p]
      <3>1. n.bans = {l \in Bans : n.who \in config[l]} /\ config' = config
        BY <1>6 DEF Comes, Against
      <3>2. n.op = "register" =>
              /\ \A c \in {"loadBlock", "loadReserved", "resolveDid", "resolvePds"} :
                   Due(n.calls, c, "register")
              /\ \A d \in {"resolveDid", "resolvePds"} : Due(n.calls, "loadBlock", d)
        BY <1>6 DEF Comes, Arrival
      <3> HIDE DEF n
      <3>3. BanFit(n, config')
        BY <3>1, <3>2 DEF BanFit
      <3>4. QED
        BY <2>1, <3>3 DEF n
    <2>2. CASE o # p
      <3>1. req'[o] = Joined(req'[p].op, req[o]) /\ config' = config
        BY <1>6, <2>2 DEF Comes
      <3>2. /\ req'[o].op = req[o].op /\ req'[o].calls = req[o].calls /\ req'[o].who = req[o].who
            /\ req'[o].bans = req[o].bans /\ req'[o].lists = req[o].lists
            /\ req'[o].pds = req[o].pds
        BY <1>1, <3>1 DEF Joined, Request
      <3>3. QED
        BY <1>1, <3>1, <3>2 DEF BanFit
    <2>3. QED
      BY <2>1, <2>2
  <1>7. ASSUME NEW p \in Proc, Stepped(p), NEW o \in Proc
        PROVE  BanFit(req'[o], config')
    <2> DEFINE q == req[o]
               n == req'[o]
    <2>1. ASSUME o # p, n = Lifted(q)
          PROVE  BanFit(n, config')
      <3>1. /\ n.op = q.op /\ n.calls = q.calls /\ n.who = q.who /\ n.lists = q.lists
            /\ n.pds = q.pds /\ n.bans = {l \in q.bans : q.who \in config'[l]}
        BY <1>1, <2>1 DEF Lifted, Request
      <3>2. BanFit(q, config)
        BY <1>1
      <3> HIDE DEF n, q
      <3>3. QED
        BY <3>1, <3>2 DEF BanFit
    <2>2. CASE o # p /\ n # Lifted(q)
      BY <1>1, <1>7, <2>2 DEF Stepped
    <2>3. CASE o = p /\ config' = config
      BY <1>1, <1>3, <1>7, <2>3, BanMoves DEF Stepped
    <2>4. CASE o = p /\ config' # config
      <3>1. Head(q.calls) \in Saves /\ n = Rest(q) /\ q.op # None
        BY <1>7, <2>4 DEF Stepped
      <3>2. /\ q.calls \in Seq(Call) /\ q.calls # <<>> /\ q \in Request
            /\ Allowed(q.op, q.who, q.calls)
        BY <1>1, <3>1, HeadIs DEF Shaped
      <3>3. Head(q.calls) \in Left(q.calls)
        BY <3>2, TailIs
      <3>4. q.op \in Writers
        BY <3>1, <3>2, <3>3 DEF Allowed
      <3>5. n.op = q.op
        BY <3>1, <3>2, RestIs DEF Keeps
      <3>6. n.op # "register"
        BY <3>4, <3>5 DEF Writers
      <3>7. QED
        BY <3>6 DEF BanFit
    <2>5. QED
      BY <2>1, <2>2, <2>3, <2>4
  <1>8. QED
    BY <1>1, <1>4, <1>5, <1>6, <1>7, NextIs

LEMMA BanHolds ==
  ASSUME BanInv
  PROVE  BansRespected
  <1> SUFFICES ASSUME NEW p \in Proc, req[p].op = "register", At(p, "register")
               PROVE  req[p].bans \subseteq (IF req[p].pds THEN {} ELSE {"blockPds"})
    BY DEF BansRespected
  <1> DEFINE q == req[p]
  <1>1. /\ q \in Request /\ q.calls \in Seq(Call) /\ q.calls # <<>>
        /\ Head(q.calls) = "register" /\ BanFit(q, config)
    BY HeadIs DEF At, BanInv
  <1>2. \A c : Due(q.calls, c, "register") => c = "register"
    BY <1>1, TailDue
  <1>3. q.bans \subseteq Bans
    BY <1>1 DEF Request
  <1>4. /\ "blockedKeywords" \notin q.bans /\ "reservedHandles" \notin q.bans
        /\ "blockDids" \notin q.bans /\ (q.pds => "blockPds" \notin q.bans)
    BY <1>1, <1>2 DEF BanFit
  <1>5. QED
    BY <1>3, <1>4 DEF Bans, List

(* A registration that gets to the registry broke no ban that was in force *)
(* ever since it came in, as far as its PDS could be found out: it reads   *)
(* the block lists once, before it asks two resolvers, while others change *)
(* them (handleRegister).                                                  *)
THEOREM WorkerPolicyBansRespected == Spec => []BansRespected
  <1>1. Init => BanInv
    <2> SUFFICES ASSUME Init PROVE BanInv
      OBVIOUS
    <2>1. AInv /\ \A p \in Proc : req[p].op = None
      BY InitIs, NoRequestIs
    <2>2. None # "register"
      BY PolicyAssumption DEF AllOps
    <2>3. QED
      BY <2>1, <2>2 DEF BanInv, BanFit
  <1>2. BanInv /\ [Next]_vars => BanInv'
    BY BanStep
  <1>3. BanInv => BansRespected
    BY BanHolds
  <1>4. QED
    BY <1>1, <1>2, <1>3, PTL DEF Spec

-----------------------------------------------------------------------------
(* The guards *)

(* What a guard is about in a request *)
Stays(q, n) ==
  /\ n.op = q.op /\ n.calls = q.calls /\ n.who = q.who /\ n.guard = q.guard
  /\ n.seen = q.seen /\ n.late = q.late

LEMMA StaysBump ==
  ASSUME NEW q, NEW n, Stays(q, n)
  PROVE  (Bumps(n) <=> Bumps(q)) /\ Mine(n) = Mine(q) /\ n.seen = q.seen
  BY DEF Stays, Bumps, Mine, CounterOf

LEMMA OthersStay ==
  ASSUME AInv, NEW p \in Proc, Stepped(p) \/ Comes(p), NEW o \in Proc, o # p
  PROVE  Stays(req[o], req'[o])
  <1>1. req[o] \in Request
    BY DEF AInv, TypeOK
  <1>2. \/ req'[o] = req[o] \/ req'[o] = Lifted(req[o])
        \/ req'[o] = Joined(req'[p].op, req[o])
    BY DEF Stepped, Comes
  <1>3. QED
    BY <1>1, <1>2 DEF Stays, Lifted, Joined, Request

LEMMA BumpIs ==
  ASSUME AInv, NEW p \in Proc, Bumps(req[p])
  PROVE  /\ req[p].op # None /\ req[p].guard \in Guard /\ req[p].seen \in Nat
         /\ Mine(req[p]) \in Counter /\ Mine(req[p])[1] = req[p].guard
  <1>1. req[p].op # None /\ Head(req[p].calls) = "bump"
    BY DEF Bumps
  <1>2. req[p].guard \in Guard /\ Mine(req[p]) \in Counter /\ req[p].seen \in Nat
    BY <1>1, HeadIs, CounterIs DEF Mine, Request
  <1>3. QED
    BY <1>1, <1>2 DEF Mine, CounterOf

LEMMA NoBump ==
  ASSUME AInv, NEW p \in Proc, Stepped(p),
         Head(req[p].calls) \in Guard => req'[p] \in {NoRequest, Rest(req[p])}
  PROVE  ~ Bumps(req'[p])
  <1> DEFINE q == req[p]
             n == req'[p]
  <1>1. q.op # None /\ Moves(q, n)
    BY DEF Stepped
  <1>2. /\ q \in Request /\ q.calls \in Seq(Call) /\ q.calls # <<>>
        /\ Tail(q.calls) \in Seq(Call) /\ Ordered(q.calls)
    BY <1>1, HeadIs DEF Shaped
  <1>3. "bump" \notin Left(Tail(q.calls))
    BY <1>2, TailOrdered
  <1>4. CASE n = NoRequest
    BY <1>4, NoRequestIs DEF Bumps
  <1>5. CASE n.calls = Tail(q.calls) /\ n.calls # <<>>
    <2>1. Head(n.calls) \in Left(n.calls)
      BY <1>2, <1>5, TailIs
    <2>2. QED
      BY <2>1, <1>3, <1>5 DEF Bumps
  <1>6. CASE n = Blocked(q)
    <2>1. n.calls = <<"readLog", "writeLog">>
      BY <1>2, <1>6, BlockedIs
    <2>2. QED
      BY <2>1, TwoCalls DEF Bumps
  <1>7. CASE n = [q EXCEPT !.calls = LoadPolicy]
    <2>1. n.calls = LoadPolicy
      BY <1>2, <1>7 DEF Request
    <2>2. QED
      BY <2>1, PolicyCalls DEF Bumps
  <1>8. CASE Passes(q, n) /\ n.calls # <<>>
    BY <1>5, <1>8 DEF Passes
  <1>9. CASE n = Forgetting(q) /\ n.calls # <<>>
    BY <1>2, <1>5, <1>9, ForgettingIs
  <1>10. CASE Counts(q, n) /\ n.calls # <<>>
    BY <1>2, <1>4, <1>5, <1>10, RestIs DEF Counts
  <1>11. QED
    BY <1>1, <1>4, <1>6, <1>7, <1>8, <1>9, <1>10 DEF Moves, Turns

(* Steps that leave the counters and the half-done guards alone *)
LEMMA GuardIdle ==
  ASSUME GuardInv, AInv', NEW p \in Proc, ~ Bumps(req'[p]),
         \A o \in Proc \ {p} : Stays(req[o], req'[o]),
         UNCHANGED <<counts, attempts>>, calm' => calm,
         calm' /\ faults' = 0 => faults = 0 /\ ~ Bumps(req[p])
  PROVE  GuardInv'
  <1>1. \A o \in Proc : Bumps(req'[o]) =>
          /\ o # p /\ Bumps(req[o]) /\ Mine(req'[o]) = Mine(req[o]) /\ req'[o].seen = req[o].seen
    BY StaysBump
  <1>2. /\ \A c \in Counter : counts'[c] <= attempts'[c]
        /\ \A o \in Proc : Bumps(req'[o]) => req'[o].seen + 1 <= attempts'[Mine(req'[o])]
    BY <1>1 DEF GuardInv
  <1>3. ASSUME calm', faults' = 0
        PROVE  /\ \A o \in Proc : Bumps(req'[o]) => req'[o].seen + 1 = attempts'[Mine(req'[o])]
               /\ \A c \in Counter :
                    \/ counts'[c] = attempts'[c]
                    \/ \E o \in Proc : Bumps(req'[o]) /\ Mine(req'[o]) = c
    <2>1. calm /\ faults = 0 /\ ~ Bumps(req[p])
      BY <1>3
    <2>2. \A o \in Proc : Bumps(req'[o]) => req'[o].seen + 1 = attempts'[Mine(req'[o])]
      BY <1>1, <2>1 DEF GuardInv
    <2>3. ASSUME NEW c \in Counter, counts'[c] # attempts'[c]
          PROVE  \E o \in Proc : Bumps(req'[o]) /\ Mine(req'[o]) = c
      <3>1. PICK o \in Proc : Bumps(req[o]) /\ Mine(req[o]) = c
        BY <2>1, <2>3 DEF GuardInv
      <3>2. Bumps(req'[o]) /\ Mine(req'[o]) = c
        BY <2>1, <3>1, StaysBump
      <3>3. QED
        BY <3>2
    <2>4. QED
      BY <2>2, <2>3
  <1>4. QED
    BY <1>2, <1>3 DEF GuardInv

LEMMA ReadGuardHonest ==
  ASSUME GuardInv, AInv', NEW p \in Proc, ReadGuard(p), Stepped(p)
  PROVE  GuardInv'
  <1>0. AInv
    BY DEF GuardInv
  <1>1. PICK g \in Guard :
          /\ At(p, g)
          /\ attempts' = [attempts EXCEPT ![CounterOf(req[p], g)] = @ + 1]
          /\ Go(p, Counting(req[p], g))
          /\ UNCHANGED <<config, screen, file, session, counts, log, logged, calm, requests,
                         faults>>
    BY DEF ReadGuard
  <1>2. req[p].op # None /\ Head(req[p].calls) = g /\ g # "bump"
    BY <1>1 DEF At, Guard
  <1>3. PICK k \in Counter : k = CounterOf(req[p], g)
    BY <1>0, <1>2, CountingIs
  <1>4. PICK n \in Request : n = Counting(req[p], g)
    BY <1>0, <1>2, CountingIs
  <1>5. /\ Counts(req[p], n) /\ n.guard = g /\ n.seen = counts[k] /\ n.late = FALSE
        /\ n.calls # <<>> /\ Head(n.calls) = "bump"
    BY <1>0, <1>2, <1>3, <1>4, CountingIs
  <1>6. req'[p] = n
    BY <1>0, <1>1, <1>4, <1>5 DEF Go, AInv, TypeOK
  <1>7. Mine(n) = k /\ Bumps(n)
    BY <1>2, <1>3, <1>5 DEF Mine, CounterOf, Counts, Keeps, Bumps
  <1>8. /\ counts \in [Counter -> Nat] /\ attempts \in [Counter -> Nat]
        /\ attempts' = [attempts EXCEPT ![k] = @ + 1] /\ counts' = counts
        /\ calm' = calm /\ faults' = faults
    BY <1>0, <1>1, <1>3 DEF AInv, TypeOK
  <1>9. /\ attempts'[k] = attempts[k] + 1 /\ counts[k] \in Nat /\ attempts[k] \in Nat
        /\ \A c \in Counter : c # k => attempts'[c] = attempts[c]
        /\ \A c \in Counter : attempts[c] \in Nat /\ counts[c] \in Nat /\ attempts'[c] >= attempts[c]
    BY <1>8
  <1>10. \A o \in Proc \ {p} : Stays(req[o], req'[o])
    BY <1>0, OthersStay
  <1>11. \A c \in Counter : counts'[c] <= attempts'[c]
    BY <1>8, <1>9 DEF GuardInv
  <1>12. ASSUME NEW o \in Proc, Bumps(req'[o])
         PROVE  req'[o].seen + 1 <= attempts'[Mine(req'[o])]
    <2>1. CASE o = p
      <3>1. counts[k] <= attempts[k]
        BY DEF GuardInv
      <3>2. QED
        BY <2>1, <3>1, <1>5, <1>6, <1>7, <1>9
    <2>2. CASE o # p
      <3>1. Bumps(req[o]) /\ Mine(req'[o]) = Mine(req[o]) /\ req'[o].seen = req[o].seen
        BY <2>2, <1>10, <1>12, StaysBump
      <3>2. /\ req[o].seen + 1 <= attempts[Mine(req[o])] /\ req[o].seen \in Nat
            /\ Mine(req[o]) \in Counter
        BY <1>0, <3>1, BumpIs DEF GuardInv
      <3>3. QED
        BY <3>1, <3>2, <1>9
    <2>3. QED
      BY <2>1, <2>2
  <1>13. ASSUME calm', faults' = 0
         PROVE  /\ \A o \in Proc : Bumps(req'[o]) => req'[o].seen + 1 = attempts'[Mine(req'[o])]
                /\ \A c \in Counter :
                     \/ counts'[c] = attempts'[c]
                     \/ \E o \in Proc : Bumps(req'[o]) /\ Mine(req'[o]) = c
    <2>1. calm /\ faults = 0
      BY <1>8, <1>13
    <2>2. \A o \in Proc : req[o].op # None => o = p
      BY <1>0, <1>2, <2>1 DEF AInv, OneByOne, Busy
    <2>3. \A o \in Proc : ~ Bumps(req[o])
      BY <1>2, <2>2 DEF Bumps
    <2>4. \A c \in Counter : counts[c] = attempts[c]
      BY <2>1, <2>3 DEF GuardInv
    <2>5. \A o \in Proc : Bumps(req'[o]) => o = p
      BY <2>3, <1>10, StaysBump
    <2>6. n.seen + 1 = attempts'[k]
      BY <2>4, <1>5, <1>9
    <2>7. \A c \in Counter : c = k \/ counts'[c] = attempts'[c]
      BY <2>4, <1>8, <1>9
    <2>8. QED
      BY <2>5, <2>6, <2>7, <1>6, <1>7
  <1>14. QED
    BY <1>11, <1>12, <1>13 DEF GuardInv

LEMMA BumpGuardHonest ==
  ASSUME GuardInv, AInv', NEW p \in Proc, BumpGuard(p), Stepped(p)
  PROVE  GuardInv'
  <1> DEFINE q == req[p]
  <1>0. AInv
    BY DEF GuardInv
  <1>1. /\ q.op # None /\ Head(q.calls) = "bump" /\ attempts' = attempts /\ calm' = calm
        /\ faults' = faults
        /\ counts' = IF q.late THEN counts ELSE [counts EXCEPT ![Mine(q)] = q.seen + 1]
    BY DEF BumpGuard, At, Mine
  <1>2. ~ Bumps(req'[p])
    <2>1. "bump" \notin Guard
      BY DEF Guard
    <2>2. QED
      BY <2>1, <1>0, <1>1, NoBump
  <1>3. \A o \in Proc \ {p} : Stays(req[o], req'[o])
    BY <1>0, OthersStay
  <1>4. CASE q.late
    <2>1. counts' = counts /\ ~ Bumps(q)
      BY <1>1, <1>4 DEF Bumps
    <2>2. QED
      BY <1>1, <1>2, <1>3, <2>1, GuardIdle
  <1>5. CASE ~ q.late
    <2>1. Bumps(q)
      BY <1>1, <1>5 DEF Bumps
    <2>2. PICK k \in Counter : k = Mine(q)
      BY <1>0, <2>1, BumpIs
    <2>3. q.seen \in Nat /\ q.seen + 1 <= attempts[k]
      BY <1>0, <2>1, <2>2, BumpIs DEF GuardInv
    <2>4. /\ counts' = [counts EXCEPT ![k] = q.seen + 1] /\ counts \in [Counter -> Nat]
      BY <1>0, <1>1, <1>5, <2>2 DEF AInv, TypeOK
    <2>5. counts'[k] = q.seen + 1 /\ \A c \in Counter : c # k => counts'[c] = counts[c]
      BY <2>4
    <2>6. \A o \in Proc : Bumps(req'[o]) =>
            /\ o # p /\ Bumps(req[o]) /\ Mine(req'[o]) = Mine(req[o])
            /\ req'[o].seen = req[o].seen
      BY <1>2, <1>3, StaysBump
    <2>7. \A c \in Counter : counts'[c] <= attempts'[c]
      BY <2>3, <2>5, <1>1 DEF GuardInv
    <2>8. \A o \in Proc : Bumps(req'[o]) => req'[o].seen + 1 <= attempts'[Mine(req'[o])]
      BY <2>6, <1>1 DEF GuardInv
    <2>9. ASSUME calm', faults' = 0
          PROVE  /\ \A o \in Proc : Bumps(req'[o]) =>
                      req'[o].seen + 1 = attempts'[Mine(req'[o])]
                 /\ \A c \in Counter : counts'[c] = attempts'[c]
      <3>1. calm /\ faults = 0
        BY <1>1, <2>9
      <3>2. \A o \in Proc : Bumps(req[o]) => o = p
        BY <1>0, <1>1, <3>1 DEF AInv, OneByOne, Busy, Bumps
      <3>3. \A c \in Counter : c = k \/ counts[c] = attempts[c]
        BY <3>1, <3>2, <2>2 DEF GuardInv
      <3>4. q.seen + 1 = attempts[k]
        BY <3>1, <2>1, <2>2 DEF GuardInv
      <3>5. QED
        BY <3>2, <3>3, <3>4, <2>5, <2>6, <1>1
    <2>10. QED
      BY <2>7, <2>8, <2>9 DEF GuardInv
  <1>6. QED
    BY <1>4, <1>5

LEMMA TickHonest ==
  ASSUME GuardInv, AInv', Tick
  PROVE  GuardInv'
  <1>0. AInv
    BY DEF GuardInv
  <1>1. PICK gs \in {{"burst"}, Guard} : NewWindow(gs)
    BY DEF Tick
  <1>2. /\ calm' = calm /\ faults' = faults
        /\ counts' = [c \in Counter |-> IF c[1] \in gs THEN 0 ELSE counts[c]]
        /\ attempts' = [c \in Counter |-> IF c[1] \in gs THEN 0 ELSE attempts[c]]
    BY <1>0, <1>1, TickIs DEF NewWindow, Began
  <1>3. ASSUME NEW o \in Proc
        PROVE  /\ Bumps(req'[o]) <=> Bumps(req[o]) /\ req[o].guard \notin gs
               /\ Mine(req'[o]) = Mine(req[o]) /\ req'[o].seen = req[o].seen
    <2>1. Lates(req[o], req'[o])
      BY <1>0, TickIs
    <2>2. req'[o] = IF req[o].guard \in gs /\ req[o].op # None /\ Head(req[o].calls) = "bump"
                    THEN [req[o] EXCEPT !.late = TRUE] ELSE req[o]
      BY <1>1 DEF NewWindow, At
    <2>3. req[o] \in Request
      BY <1>0 DEF AInv, TypeOK
    <2>4. Mine(req'[o]) = Mine(req[o]) /\ req'[o].seen = req[o].seen
      BY <2>1 DEF Lates, Mine, CounterOf
    <2>5. CASE req[o].guard \in gs /\ req[o].op # None /\ Head(req[o].calls) = "bump"
      <3>1. req'[o].late
        BY <2>2, <2>3, <2>5 DEF Request
      <3>2. QED
        BY <2>4, <2>5, <3>1 DEF Bumps
    <2>6. CASE ~(req[o].guard \in gs /\ req[o].op # None /\ Head(req[o].calls) = "bump")
      BY <2>2, <2>4, <2>6 DEF Bumps
    <2>7. QED
      BY <2>5, <2>6
  <1>4. \A c \in Counter : counts'[c] <= attempts'[c]
    BY <1>2 DEF GuardInv
  <1>5. \A o \in Proc : Bumps(req'[o]) =>
          /\ Bumps(req[o]) /\ Mine(req'[o]) = Mine(req[o]) /\ req'[o].seen = req[o].seen
          /\ attempts'[Mine(req[o])] = attempts[Mine(req[o])]
    BY <1>0, <1>2, <1>3, BumpIs
  <1>6. \A o \in Proc : Bumps(req'[o]) => req'[o].seen + 1 <= attempts'[Mine(req'[o])]
    BY <1>5 DEF GuardInv
  <1>7. ASSUME calm', faults' = 0
        PROVE  /\ \A o \in Proc : Bumps(req'[o]) => req'[o].seen + 1 = attempts'[Mine(req'[o])]
               /\ \A c \in Counter :
                    \/ counts'[c] = attempts'[c]
                    \/ \E o \in Proc : Bumps(req'[o]) /\ Mine(req'[o]) = c
    <2>1. calm /\ faults = 0
      BY <1>2, <1>7
    <2>2. \A o \in Proc : Bumps(req'[o]) => req'[o].seen + 1 = attempts'[Mine(req'[o])]
      BY <1>5, <2>1 DEF GuardInv
    <2>3. ASSUME NEW c \in Counter, counts'[c] # attempts'[c]
          PROVE  \E o \in Proc : Bumps(req'[o]) /\ Mine(req'[o]) = c
      <3>1. c[1] \notin gs /\ counts[c] # attempts[c]
        BY <1>2, <2>3
      <3>2. PICK o \in Proc : Bumps(req[o]) /\ Mine(req[o]) = c
        BY <2>1, <3>1 DEF GuardInv
      <3>3. req[o].guard \notin gs
        BY <1>0, <3>1, <3>2, BumpIs
      <3>4. QED
        BY <1>3, <3>2, <3>3
    <2>4. QED
      BY <2>2, <2>3
  <1>8. QED
    BY <1>4, <1>6, <1>7 DEF GuardInv

LEMMA GuardStep ==
  ASSUME GuardInv, [Next]_vars
  PROVE  GuardInv'
  <1>0. AInv
    BY DEF GuardInv
  <1>1. AInv'
    BY <1>0, NextIs, StutterIs
  <1>2. CASE UNCHANGED vars
    BY <1>1, <1>2 DEF vars, GuardInv
  <1>3. CASE Tick
    BY <1>1, <1>3, TickHonest
  <1>4. ASSUME NEW p \in Proc, Comes(p)
        PROVE  GuardInv'
    <2>1. \A o \in Proc \ {p} : Stays(req[o], req'[o])
      BY <1>0, <1>4, OthersStay
    <2>2. /\ ~ Bumps(req'[p]) /\ ~ Bumps(req[p]) /\ UNCHANGED <<counts, attempts>>
          /\ calm' => calm /\ faults' = faults
      BY <1>4 DEF Comes, Bumps
    <2>3. QED
      BY <1>1, <2>1, <2>2, GuardIdle DEF Comes
  <1>5. ASSUME NEW p \in Proc, Serves(p), Stepped(p)
        PROVE  GuardInv'
    <2>1. CASE ReadGuard(p)
      BY <1>1, <1>5, <2>1, ReadGuardHonest
    <2>2. CASE BumpGuard(p)
      BY <1>1, <1>5, <2>2, BumpGuardHonest
    <2>3. CASE ~ ReadGuard(p) /\ ~ BumpGuard(p)
      <3>1. UNCHANGED <<counts, attempts>>
        BY <1>5, <2>3
        DEF Serves, Login, HandleAdminLogout, LoadConfig, SaveConfig, ExportConfig, ViewConfig,
            ShowPolicy, ResolveDid, ResolvePdsHost, SkipPdsGuard, Registry, ReadLog, WriteLog,
            CutShort, Local
      <3>2. \A o \in Proc \ {p} : Stays(req[o], req'[o])
        BY <1>0, <1>5, OthersStay
      <3>3. \/ Head(req[p].calls) \notin Guard \cup {"bump"} /\ faults' = faults
            \/ SkipPdsGuard(p) \/ CutShort(p)
        BY <1>5, <2>3
        DEF Serves, Login, HandleAdminLogout, LoadConfig, SaveConfig, ExportConfig, ViewConfig,
            ShowPolicy, ResolveDid, ResolvePdsHost, Registry, ReadLog, WriteLog,
            Local, At, Guard, Loads, Saves
      <3>4. req \in [Proc -> Request] /\ faults \in Nat
        BY <1>0 DEF AInv, TypeOK
      <3>5. SkipPdsGuard(p) \/ CutShort(p) => req'[p] \in {NoRequest, Rest(req[p])}
        BY <3>4 DEF SkipPdsGuard, CutShort, Go, Answer
      <3>6. ~ Bumps(req'[p])
        BY <1>0, <1>5, <3>3, <3>5, NoBump
      <3>7. SkipPdsGuard(p) => faults' = faults /\ Head(req[p].calls) = "pds"
        BY DEF SkipPdsGuard, Local, At
      <3>8. CutShort(p) => faults' # 0
        BY <3>4 DEF CutShort
      <3>9. calm' /\ faults' = 0 => faults = 0 /\ ~ Bumps(req[p])
        BY <3>3, <3>7, <3>8 DEF Bumps
      <3>10. calm' => calm
        BY <1>5 DEF Stepped
      <3>11. QED
        BY <1>1, <3>1, <3>2, <3>6, <3>9, <3>10, GuardIdle
    <2>4. QED
      BY <2>1, <2>2, <2>3
  <1>6. QED
    BY <1>0, <1>2, <1>3, <1>4, <1>5, NextIs

(* A counter never says more than its window's attempts, whatever reads    *)
(* and writes of it cross or fail, so nobody is refused below a limit; one *)
(* by one and without failures, it says exactly how many there were        *)
(* (incrementGuard).                                                       *)
THEOREM WorkerPolicyGuardsHonest == Spec => []GuardsHonest
  <1>1. Init => GuardInv
    <2> SUFFICES ASSUME Init PROVE GuardInv
      OBVIOUS
    <2>1. AInv /\ \A p \in Proc : ~ Bumps(req[p])
      BY InitIs, NoRequestIs DEF Bumps
    <2>2. \A c \in Counter : counts[c] = 0 /\ attempts[c] = 0
      BY DEF Init
    <2>3. QED
      BY <2>1, <2>2 DEF GuardInv
  <1>2. GuardInv /\ [Next]_vars => GuardInv'
    BY GuardStep
  <1>3. GuardInv => GuardsHonest
    BY DEF GuardInv, GuardsHonest, Bumps, Quiet, Busy
  <1>4. QED
    BY <1>1, <1>2, <1>3, PTL DEF Spec

-----------------------------------------------------------------------------
(* The log *)

LEMMA SpacedIs ==
  ASSUME NEW n \in Nat
  PROVE  /\ Spaced(<<>>, n)
         /\ \A s \in Seq(Nat) : Spaced(s, n) => Spaced(s, n + 1)
  <1>1. Spaced(<<>>, n)
    BY DEF Spaced
  <1>2. ASSUME NEW s \in Seq(Nat), Spaced(s, n)
        PROVE  Spaced(s, n + 1)
    <2>1. /\ \A i \in DOMAIN s : s[i] \in Nat /\ i \in Nat /\ s[i] <= n - (Len(s) - i)
          /\ Len(s) \in Nat
      BY <1>2 DEF Spaced
    <2>2. \A i \in DOMAIN s : s[i] <= n + 1 - (Len(s) - i)
      BY <2>1
    <2>3. QED
      BY <1>2, <2>2 DEF Spaced
  <1>3. QED
    BY <1>1, <1>2

(* The log with one more event *)
LEMMA OneMore ==
  ASSUME NEW s \in Seq(Nat), NEW n \in Nat, Spaced(s, n)
  PROVE  LET t == LogActivity(s, n + 1) IN
         /\ Spaced(t, n + 1) /\ t # <<>> /\ t[Len(t)] = n + 1
         /\ (\A k \in 1 .. n : k > n - MaxEvents => \E i \in DOMAIN s : s[i] = k)
              => \A k \in 1 .. n + 1 :
                   k > n + 1 - MaxEvents => \E i \in DOMAIN t : t[i] = k
  <1>1. PICK e \in Nat : e = n + 1
    OBVIOUS
  <1>2. PICK t : t = LogActivity(s, e)
    OBVIOUS
  <1>3. /\ t \in Seq(Nat) /\ Len(t) \in 1 .. MaxEvents /\ Len(s) + 1 - Len(t) \in Nat
        /\ Len(s) + 1 > MaxEvents => Len(t) = MaxEvents
        /\ Len(s) + 1 <= MaxEvents => Len(s) + 1 - Len(t) = 0
        /\ \A i \in 1 .. Len(t) :
             t[i] = IF i + (Len(s) + 1 - Len(t)) <= Len(s) THEN s[i + (Len(s) + 1 - Len(t))] ELSE e
    BY <1>2, LastIs
  <1>4. MaxEvents \in Nat \ {0} /\ Len(s) \in Nat
    BY PolicyAssumption
  <1>5. PICK m \in Nat, r \in Nat : m = Len(s) /\ r = Len(t)
    BY <1>3, <1>4
  <1>a. PICK d \in Nat : d = m + 1 - r
    BY <1>3, <1>5
  <1>b. DOMAIN s = 1 .. m /\ DOMAIN t = 1 .. r
    BY <1>3, <1>5
  <1>6. r >= 1 /\ r <= MaxEvents /\ r + d = m + 1 /\ (d # 0 => r = MaxEvents)
    BY <1>3, <1>4, <1>5, <1>a
  <1>c. \A i \in 1 .. r : t[i] = IF i + d <= m THEN s[i + d] ELSE e
    BY <1>3, <1>5, <1>a
  <1>d. \A i \in DOMAIN s : s[i] \in Nat
    OBVIOUS
  <1>7. /\ \A i, j \in 1 .. m : i < j => s[i] < s[j]
        /\ \A i \in 1 .. m : s[i] <= n - (m - i) /\ s[i] \in Nat
    BY <1>5, <1>b, <1>d DEF Spaced
  <1>8. ASSUME NEW i \in 1 .. r
        PROVE  \/ i < r /\ i + d \in 1 .. m /\ t[i] = s[i + d]
               \/ i = r /\ t[i] = n + 1
    <2>1. (i < r /\ i + d <= m /\ i + d \in 1 .. m) \/ (i = r /\ ~(i + d <= m))
      BY <1>6
    <2>2. QED
      BY <2>1, <1>1, <1>c
  <1>9. ASSUME NEW i \in 1 .. r, NEW j \in 1 .. r, i < j
        PROVE  t[i] < t[j]
    <2>1. i + d \in 1 .. m /\ t[i] = s[i + d]
      BY <1>8, <1>9, <1>5
    <2>2. CASE j = r
      <3>1. s[i + d] <= n - (m - (i + d)) /\ s[i + d] \in Nat
        BY <2>1, <1>7
      <3>2. t[j] = n + 1
        BY <2>2, <1>8
      <3>3. n - (m - (i + d)) <= n
        BY <2>1
      <3>4. PICK v \in Nat : v = s[i + d]
        BY <3>1
      <3>5. v < n + 1
        BY <3>1, <3>3, <3>4, <2>1
      <3>6. QED
        BY <2>1, <3>2, <3>4, <3>5
    <2>3. CASE j # r
      <3>1. j + d \in 1 .. m /\ t[j] = s[j + d] /\ i + d < j + d
        BY <2>3, <1>8, <1>9
      <3>2. QED
        BY <2>1, <3>1, <1>7
    <2>4. QED
      BY <2>2, <2>3
  <1>10. ASSUME NEW i \in 1 .. r
         PROVE  t[i] <= n + 1 - (r - i)
    <2>1. CASE i = r
      BY <2>1, <1>8
    <2>2. CASE i # r
      <3>1. i + d \in 1 .. m /\ t[i] = s[i + d]
        BY <2>2, <1>8
      <3>2. s[i + d] <= n - (m - (i + d))
        BY <3>1, <1>7
      <3>3. n - (m - (i + d)) = n + 1 - (r - i)
        BY <1>6
      <3>4. QED
        BY <3>1, <3>2, <3>3
    <2>3. QED
      BY <2>1, <2>2
  <1>11. Spaced(t, n + 1)
    BY <1>5, <1>b, <1>9, <1>10 DEF Spaced
  <1>12. t # <<>> /\ t[Len(t)] = n + 1
    <2>1. r \in 1 .. r
      BY <1>6
    <2>2. t # <<>>
      BY <2>1, <1>b
    <2>3. QED
      BY <2>1, <2>2, <1>5, <1>8
  <1>13. ASSUME \A k \in 1 .. n : k > n - MaxEvents => \E i \in DOMAIN s : s[i] = k,
                NEW k \in 1 .. n + 1, k > n + 1 - MaxEvents
         PROVE  \E i \in DOMAIN t : t[i] = k
    <2>1. CASE k = n + 1
      <3>1. r \in DOMAIN t /\ t[r] = k
        BY <2>1, <1>6, <1>8, <1>b
      <3>2. QED
        BY <3>1
    <2>2. CASE k # n + 1
      <3>1. k \in 1 .. n /\ k > n - MaxEvents
        BY <2>2, <1>4, <1>13
      <3>2. PICK x \in 1 .. m : s[x] = k
        BY <3>1, <1>b, <1>13
      <3>3. k <= n - (m - x)
        BY <3>2, <1>7
      <3>4. x > d
        <4>1. CASE d = 0
          BY <4>1
        <4>2. CASE d # 0
          <5>1. r = MaxEvents
            BY <4>2, <1>6
          <5>2. QED
            BY <5>1, <3>3, <1>4, <1>6, <1>13
        <4>3. QED
          BY <4>1, <4>2
      <3>5. x - d \in 1 .. r /\ x - d < r /\ (x - d) + d = x
        BY <3>4, <1>6
      <3>6. t[x - d] = k
        BY <3>2, <3>5, <1>8
      <3>7. QED
        BY <3>5, <3>6, <1>b
    <2>3. QED
      BY <2>1, <2>2
  <1>14. QED
    BY <1>1, <1>2, <1>11, <1>12, <1>13

(* What a request copied before, it has or lost; the last it read is the   *)
(* log, as long as nobody writes it meanwhile.                             *)
LEMMA CopyMoves ==
  ASSUME AInv, NEW q \in Request, q.op # None, Shaped(q), NEW n \in Request, Moves(q, n)
  PROVE  /\ n.copy \in {<<>>, log, q.copy}
         /\ LogFit(q, log) => LogFit(n, log)
  <1> DEFINE s == q.calls
             h == Head(q.calls)
  <1>1. s \in Seq(Call) /\ s # <<>> /\ Ordered(s)
    BY DEF Shaped, Allowed, Request
  <1>2. \A a \in Forgets : Between(s, a, "readLog", "writeLog")
    BY <1>1 DEF Ordered
  <1>3. CASE n = NoRequest
    BY <1>3, NoRequestIs DEF LogFit
  <1>4. CASE Passes(q, n)
    <2>1. n.calls = Tail(s) /\ n.op = q.op /\ n.copy = IF h = "readLog" THEN log ELSE q.copy
      BY <1>4 DEF Passes, Keeps
    <2>2. h # "readLog" /\ Due(s, "readLog", "writeLog") => Due(n.calls, "readLog", "writeLog")
      BY <1>1, <2>1, TailDue
    <2>3. QED
      BY <2>1, <2>2 DEF LogFit
  <1>5. CASE n = Forgetting(q) /\ h \in Forgets
    <2>1. n.calls = Tail(s) /\ n.copy = <<>>
      BY <1>1, <1>5, ForgettingIs
    <2>2. Due(n.calls, "readLog", "writeLog")
      BY <1>1, <1>2, <1>5, <2>1, TailBetween
    <2>3. QED
      BY <2>1, <2>2 DEF LogFit
  <1>6. CASE n = Blocked(q)
    <2>1. n.calls = <<"readLog", "writeLog">> /\ n.copy = <<>>
      BY <1>1, <1>6, BlockedIs
    <2>2. Due(n.calls, "readLog", "writeLog")
      BY <2>1, TwoCalls
    <2>3. QED
      BY <2>1, <2>2 DEF LogFit
  <1>7. CASE n = [q EXCEPT !.calls = LoadPolicy]
    <2>1. n.calls = LoadPolicy /\ n.copy = q.copy
      BY <1>7 DEF Request
    <2>2. Due(n.calls, "readLog", "writeLog")
      BY <2>1, PolicyCalls
    <2>3. QED
      BY <2>1, <2>2 DEF LogFit
  <1>8. CASE Counts(q, n)
    <2>1. /\ n.calls = [s EXCEPT ![1] = "bump"] /\ h \in Guard /\ n.copy = q.copy
          /\ n.op = q.op
      BY <1>8 DEF Counts, Keeps
    <2>2. {"readLog", "writeLog"} \subseteq Call \ (Guard \cup {"bump"})
      BY DEF Call, Guard
    <2>3. Due(s, "readLog", "writeLog") => Due(n.calls, "readLog", "writeLog")
      BY <1>1, <2>1, <2>2, BumpDue
    <2>4. QED
      BY <2>1, <2>3 DEF LogFit
  <1>9. QED
    BY <1>3, <1>4, <1>5, <1>6, <1>7, <1>8 DEF Moves, Turns

(* Another request's copy *)
LEMMA OthersCopy ==
  ASSUME AInv, NEW p \in Proc, Stepped(p) \/ Comes(p), NEW o \in Proc, o # p
  PROVE  /\ req'[o].copy = req[o].copy /\ req'[o].calls = req[o].calls
         /\ req'[o].op = req[o].op /\ \A s : LogFit(req[o], s) => LogFit(req'[o], s)
  <1>1. req[o] \in Request
    BY DEF AInv, TypeOK
  <1>2. \/ req'[o] = req[o] \/ req'[o] = Lifted(req[o])
        \/ req'[o] = Joined(req'[p].op, req[o])
    BY DEF Stepped, Comes
  <1>3. /\ req'[o].copy = req[o].copy /\ req'[o].calls = req[o].calls
        /\ req'[o].op = req[o].op
    BY <1>1, <1>2 DEF Lifted, Joined, Request
  <1>4. QED
    BY <1>3 DEF LogFit

LEMMA LogIdle ==
  ASSUME LogInv, AInv', UNCHANGED <<log, logged>>, calm' => calm,
         \A o \in Proc : req'[o].copy \in {<<>>, log, req[o].copy},
         calm => \A o \in Proc : LogFit(req[o], log) => LogFit(req'[o], log)
  PROVE  LogInv'
  <1>1. LogInWriteOrder'
    BY DEF LogInv, LogInWriteOrder
  <1>2. logged \in Nat
    BY DEF LogInv, AInv, TypeOK
  <1>3. \A o \in Proc : Spaced(req'[o].copy, logged)
    BY <1>2, SpacedIs DEF LogInv
  <1>4. calm' => \A o \in Proc : LogFit(req'[o], log)
    BY DEF LogInv
  <1>5. Spaced(log, logged)
    BY DEF LogInv
  <1>6. QED
    BY <1>1, <1>3, <1>4, <1>5 DEF LogInv

LEMMA WriteLogInOrder ==
  ASSUME LogInv, AInv', NEW p \in Proc, WriteLog(p), Stepped(p)
  PROVE  LogInv'
  <1> DEFINE q == req[p]
  <1>0. AInv
    BY DEF LogInv
  <1>1. /\ q.op # None /\ Head(q.calls) = "writeLog" /\ Go(p, Forgetting(q))
        /\ logged' = logged + 1 /\ log' = LogActivity(q.copy, logged + 1) /\ calm' = calm
    BY DEF WriteLog, At
  <1>2. /\ q \in Request /\ q.calls \in Seq(Call) /\ q.calls # <<>> /\ Ordered(q.calls)
        /\ q.copy \in Seq(Nat) /\ logged \in Nat
    BY <1>0, <1>1, HeadIs DEF Shaped, Request, AInv, TypeOK
  <1>3. /\ Spaced(log', logged + 1) /\ log' # <<>> /\ log'[Len(log')] = logged + 1
        /\ (\A k \in 1 .. logged : k > logged - MaxEvents => \E i \in DOMAIN q.copy : q.copy[i] = k)
             => \A k \in 1 .. logged + 1 :
                  k > logged + 1 - MaxEvents => \E i \in DOMAIN log' : log'[i] = k
    <2>1. Spaced(q.copy, logged)
      BY DEF LogInv
    <2>2. PICK t : t = q.copy
      OBVIOUS
    <2>3. t \in Seq(Nat) /\ Spaced(t, logged) /\ log' = LogActivity(t, logged + 1)
      BY <1>1, <1>2, <2>1, <2>2
    <2>4. QED
      BY <1>2, <2>2, <2>3, OneMore
  <1>4. calm => q.copy = log
    <2>1. ~ Due(q.calls, "readLog", "writeLog")
      BY <1>1, <1>2, TailDue
    <2>2. QED
      BY <1>1, <2>1 DEF LogInv, LogFit
  <1>5. LogInWriteOrder'
    <2>1. \A i, j \in DOMAIN log' : i < j => log'[i] < log'[j]
      BY <1>3 DEF Spaced
    <2>2. calm => \A k \in 1 .. logged + 1 :
                    k > logged + 1 - MaxEvents => \E i \in DOMAIN log' : log'[i] = k
      BY <1>3, <1>4 DEF LogInv, LogInWriteOrder
    <2>3. logged' > 0 => log' # <<>> /\ log'[Len(log')] = logged'
      BY <1>1, <1>3
    <2>4. calm' => \A k \in 1 .. logged' :
                     k > logged' - MaxEvents => \E i \in DOMAIN log' : log'[i] = k
      <3>1. logged' = logged + 1 /\ (calm' => calm)
        BY <1>1
      <3>2. PICK l \in Nat : l = logged'
        BY <1>2, <3>1
      <3>3. l = logged + 1
        BY <3>1, <3>2
      <3>4. calm => \A k \in 1 .. l :
                      k > l - MaxEvents => \E i \in DOMAIN log' : log'[i] = k
        <4> SUFFICES ASSUME calm, NEW k \in 1 .. l, k > l - MaxEvents
                     PROVE  \E i \in DOMAIN log' : log'[i] = k
          OBVIOUS
        <4>1. MaxEvents \in Nat /\ logged \in Nat
          BY <1>2, PolicyAssumption
        <4>2. k \in 1 .. logged + 1 /\ k > logged + 1 - MaxEvents
          BY <3>3, <4>1
        <4>3. QED
          BY <2>2, <4>2
      <3>5. QED
        BY <3>1, <3>2, <3>4
    <2>5. QED
      BY <2>1, <2>3, <2>4 DEF LogInWriteOrder
  <1>6. req'[p] = NoRequest \/ req'[p] = Forgetting(q)
    BY <1>0, <1>1 DEF Go, AInv, TypeOK
  <1>7. req'[p].copy = <<>>
    BY <1>2, <1>6, NoRequestIs, ForgettingIs
  <1>8. \A o \in Proc : Spaced(req'[o].copy, logged + 1)
    <2>1. \A o \in Proc : req[o].copy \in Seq(Nat) /\ Spaced(req[o].copy, logged)
      BY <1>0 DEF LogInv, AInv, TypeOK, Request
    <2>2. \A o \in Proc \ {p} : req'[o].copy = req[o].copy
      BY <1>0, OthersCopy
    <2>3. logged + 1 \in Nat
      BY <1>2
    <2>4. QED
      BY <1>2, <1>7, <2>1, <2>2, <2>3, SpacedIs
  <1>9. ASSUME calm', NEW o \in Proc
        PROVE  LogFit(req'[o], log')
    <2>1. CASE o = p
      <3>1. CASE req'[p] = NoRequest
        BY <2>1, <3>1, NoRequestIs DEF LogFit
      <3>2. CASE req'[p] = Forgetting(q)
        <4>1. req'[p].calls = Tail(q.calls)
          BY <1>2, <3>2, ForgettingIs
        <4>2. Between(q.calls, "writeLog", "readLog", "writeLog")
          BY <1>2 DEF Ordered, Forgets
        <4>3. Due(req'[p].calls, "readLog", "writeLog")
          BY <1>1, <1>2, <4>1, <4>2, TailBetween
        <4>4. QED
          BY <2>1, <4>3 DEF LogFit
      <3>3. QED
        BY <1>6, <3>1, <3>2
    <2>2. CASE o # p
      <3>1. req[o].op = None
        BY <1>0, <1>1, <1>9, <2>2 DEF AInv, OneByOne, Busy
      <3>2. req'[o].op = None
        BY <1>0, <2>2, <3>1, OthersCopy
      <3>3. QED
        BY <3>2 DEF LogFit
    <2>3. QED
      BY <2>1, <2>2
  <1>10. QED
    BY <1>1, <1>3, <1>5, <1>8, <1>9 DEF LogInv

LEMMA LogStep ==
  ASSUME LogInv, [Next]_vars
  PROVE  LogInv'
  <1>0. AInv
    BY DEF LogInv
  <1>1. AInv' /\ \A o \in Proc : req[o] \in Request /\ req'[o] \in Request /\ Shaped(req[o])
    BY <1>0, NextIs, StutterIs DEF AInv, TypeOK
  <1>2. CASE UNCHANGED vars
    BY <1>1, <1>2, LogIdle DEF vars
  <1>3. CASE Tick
    <2>1. \A o \in Proc : Lates(req[o], req'[o])
      BY <1>0, <1>3, TickIs
    <2>2. UNCHANGED <<log, logged, calm>>
      BY <1>0, <1>3, TickIs
    <2>3. \A o \in Proc : LogFit(req[o], log) => LogFit(req'[o], log)
      BY <2>1 DEF LogFit, Lates
    <2>4. \A o \in Proc : req'[o].copy = req[o].copy
      BY <2>1 DEF Lates
    <2>5. QED
      BY <1>1, <2>2, <2>3, <2>4, LogIdle
  <1>4. ASSUME NEW p \in Proc, Comes(p)
        PROVE  LogInv'
    <2>1. /\ req'[p].copy = <<>> /\ LogFit(req'[p], log) /\ UNCHANGED <<log, logged>>
          /\ calm' => calm
      BY <1>4 DEF Comes, Arrival, LogFit
    <2>2. \A o \in Proc \ {p} : /\ req'[o].copy = req[o].copy
                                /\ LogFit(req[o], log) => LogFit(req'[o], log)
      BY <1>0, <1>4, OthersCopy
    <2>3. QED
      BY <1>1, <2>1, <2>2, LogIdle
  <1>5. ASSUME NEW p \in Proc, Serves(p), Stepped(p)
        PROVE  LogInv'
    <2>1. CASE WriteLog(p)
      BY <1>1, <1>5, <2>1, WriteLogInOrder
    <2>2. CASE ~ WriteLog(p)
      <3>1. UNCHANGED <<log, logged>>
        BY <1>5, <2>2
        DEF Serves, Login, HandleAdminLogout, LoadConfig, SaveConfig, ExportConfig, ViewConfig,
            ShowPolicy, ResolveDid, ResolvePdsHost, SkipPdsGuard, ReadGuard, BumpGuard, Registry,
            ReadLog, CutShort, Local
      <3>2. calm' = calm /\ req[p].op # None /\ Moves(req[p], req'[p])
        BY <1>5 DEF Stepped
      <3>3. /\ req'[p].copy \in {<<>>, log, req[p].copy}
            /\ LogFit(req[p], log) => LogFit(req'[p], log)
        BY <1>0, <1>1, <3>2, CopyMoves
      <3>4. \A o \in Proc \ {p} : /\ req'[o].copy = req[o].copy
                                  /\ LogFit(req[o], log) => LogFit(req'[o], log)
        BY <1>0, <1>5, OthersCopy
      <3>5. QED
        BY <1>1, <3>1, <3>2, <3>3, <3>4, LogIdle
    <2>3. QED
      BY <2>1, <2>2
  <1>6. QED
    BY <1>0, <1>2, <1>3, <1>4, <1>5, NextIs

(* Though each writer of the log saves the copy it read, the log shows the *)
(* event written last, the others in the order they were written and none  *)
(* twice; one by one, it misses none of the latest (logActivity).          *)
THEOREM WorkerPolicyLogInWriteOrder == Spec => []LogInWriteOrder
  <1>1. Init => LogInv
    <2> SUFFICES ASSUME Init PROVE LogInv
      OBVIOUS
    <2>1. AInv /\ \A p \in Proc : req[p].copy = <<>> /\ req[p].op = None
      BY InitIs, NoRequestIs
    <2>2. log = <<>> /\ logged = 0
      BY DEF Init
    <2>3. Spaced(<<>>, 0)
      BY SpacedIs
    <2>4. LogInWriteOrder
      BY <2>2 DEF LogInWriteOrder
    <2>5. QED
      BY <2>1, <2>2, <2>3, <2>4 DEF LogInv, LogFit
  <1>2. LogInv /\ [Next]_vars => LogInv'
    BY LogStep
  <1>3. LogInv => LogInWriteOrder
    BY DEF LogInv
  <1>4. QED
    BY <1>1, <1>2, <1>3, PTL DEF Spec

-----------------------------------------------------------------------------
(* The screen *)

LEMMA InLoads == /\ \A l \in List : \E c \in Loads : l \in In(c)
                 /\ \A c \in Loads : In(c) \subseteq List
  <1>1. /\ "loadVip" \in Loads /\ "loadBlock" \in Loads /\ "loadReserved" \in Loads
        /\ In("loadVip") = {"vipDids"} /\ In("loadReserved") = {"reservedHandles"}
        /\ In("loadBlock") = {"blockDids", "blockPds", "blockedKeywords"}
    BY DEF Loads, In, Bans, List
  <1>2. \A l \in List : l \in In("loadVip") \cup In("loadReserved") \cup In("loadBlock")
    BY <1>1 DEF List
  <1>3. \A c \in Loads : c \in {"loadVip", "loadBlock", "loadReserved"}
    BY DEF Loads
  <1>4. \A c \in Loads : In(c) \subseteq List
    BY <1>1, <1>3 DEF List
  <1>5. QED
    BY <1>1, <1>2, <1>4

LEMMA ShowPasses ==
  ASSUME AInv, NEW q \in Request, q.op # None, Shaped(q), NEW n \in Request, Passes(q, n),
         ShowFit(q, config)
  PROVE  ShowFit(n, config)
  <1> DEFINE s == q.calls
             h == Head(s)
  <1>1. /\ s \in Seq(Call) /\ s # <<>> /\ Ordered(s) /\ n.calls = Tail(s) /\ n.op = q.op
        /\ h # "show" /\ n.lists = IF h \in Loads THEN Read(q, h) ELSE q.lists
    BY DEF Passes, Keeps, Shaped, Allowed, Request
  <1> SUFFICES ASSUME NEW c \in Loads
               PROVE  \/ Due(n.calls, "view", "show") \/ Due(n.calls, c, "show")
                      \/ \A l \in In(c) : n.lists[l] = config[l]
    BY DEF ShowFit
  <1>2. h = "view" => Due(n.calls, c, "show")
    <2>1. Between(s, "view", c, "show")
      BY <1>1 DEF Ordered
    <2>2. QED
      BY <1>1, <2>1, TailBetween
  <1>3. h # "view" /\ Due(s, "view", "show") => Due(n.calls, "view", "show")
    BY <1>1, TailDue
  <1>4. h # c /\ Due(s, c, "show") => Due(n.calls, c, "show")
    BY <1>1, TailDue
  <1>5. ASSUME h = c \/ \A l \in In(c) : q.lists[l] = config[l]
        PROVE  \A l \in In(c) : n.lists[l] = config[l]
    <2>1. In(c) \subseteq List
      BY InLoads
    <2>2. CASE h \in Loads
      <3>1. n.lists = Read(q, h)
        BY <1>1, <2>2
      <3>2. \A l \in List : n.lists[l] = IF l \in In(h) THEN config[l] ELSE q.lists[l]
        BY <3>1 DEF Read
      <3>3. QED
        BY <1>5, <2>1, <3>2
    <2>3. CASE h \notin Loads
      BY <1>1, <1>5, <2>3
    <2>4. QED
      BY <2>2, <2>3
  <1>6. \/ Due(s, "view", "show") \/ Due(s, c, "show")
        \/ \A l \in In(c) : q.lists[l] = config[l]
    BY DEF ShowFit
  <1>7. QED
    BY <1>2, <1>3, <1>4, <1>5, <1>6

LEMMA ShowMoves ==
  ASSUME AInv, NEW q \in Request, q.op # None, Shaped(q), NEW n \in Request, Moves(q, n),
         ShowFit(q, config)
  PROVE  ShowFit(n, config)
  <1> DEFINE s == q.calls
             h == Head(q.calls)
  <1>1. s \in Seq(Call) /\ s # <<>> /\ Ordered(s)
    BY DEF Shaped, Allowed, Request
  <1>2. CASE n = NoRequest
    BY <1>2, NoRequestIs DEF ShowFit
  <1>3. CASE Passes(q, n)
    BY <1>3, ShowPasses
  <1>4. CASE n = Forgetting(q) /\ h \in Forgets
    <2>1. n.calls = Tail(s)
      BY <1>1, <1>4, ForgettingIs
    <2>2. CASE h = "view"
      <3>1. \A c \in Loads : Between(s, "view", c, "show")
        BY <1>1 DEF Ordered
      <3>2. \A c \in Loads : Due(n.calls, c, "show")
        BY <1>1, <2>1, <2>2, <3>1, TailBetween
      <3>3. QED
        BY <3>2 DEF ShowFit
    <2>3. CASE h # "view"
      <3>1. Between(s, h, "view", "show")
        BY <1>1, <1>4, <2>3 DEF Ordered, Forgets
      <3>2. Due(n.calls, "view", "show")
        BY <1>1, <2>1, <3>1, TailBetween
      <3>3. QED
        BY <3>2 DEF ShowFit
    <2>4. QED
      BY <2>2, <2>3
  <1>5. CASE n = Blocked(q)
    <2>1. n.calls = <<"readLog", "writeLog">>
      BY <1>1, <1>5, BlockedIs
    <2>2. Due(n.calls, "view", "show")
      BY <2>1, TwoCalls
    <2>3. QED
      BY <2>2 DEF ShowFit
  <1>6. CASE n = [q EXCEPT !.calls = LoadPolicy]
    <2>1. n.calls = LoadPolicy
      BY <1>6 DEF Request
    <2>2. Due(n.calls, "view", "show")
      BY <2>1, PolicyCalls
    <2>3. QED
      BY <2>2 DEF ShowFit
  <1>7. CASE Counts(q, n)
    <2>1. /\ n.calls = [s EXCEPT ![1] = "bump"] /\ h \in Guard /\ n.lists = q.lists
          /\ n.op = q.op
      BY <1>7 DEF Counts, Keeps
    <2>2. {"view", "show"} \cup Loads \subseteq Call \ (Guard \cup {"bump"})
      BY DEF Call, Guard, Loads
    <2>3. \A c \in Loads \cup {"view"} : Due(s, c, "show") => Due(n.calls, c, "show")
      BY <1>1, <2>1, <2>2, BumpDue
    <2>4. QED
      BY <2>1, <2>3 DEF ShowFit
  <1>8. QED
    BY <1>2, <1>3, <1>4, <1>5, <1>6, <1>7 DEF Moves, Turns

(* Who is going to show the lists goes on to, unless a call of it fails or *)
(* the session is over.                                                    *)
LEMMA ShowingMoves ==
  ASSUME NEW q \in Request, q.op # None, Shaped(q), NEW n \in Request, Moves(q, n),
         Showing(q), Head(q.calls) # "show", session, faults' = 0
  PROVE  Showing(n)
  <1> DEFINE s == q.calls
             h == Head(q.calls)
  <1>1. /\ s \in Seq(Call) /\ s # <<>> /\ Allowed(q.op, q.who, s) /\ "show" \in Left(s)
        /\ q.op \in Writers \cup {"login"}
    BY DEF Shaped, Allowed, Request, Showing
  <1>2. Left(s) \subseteq Console
    BY <1>1 DEF Allowed
  <1>3. Left(s) = {h} \cup Left(Tail(s))
    BY <1>1, TailLeft
  <1>4. "show" \in Left(Tail(s)) /\ h \in Console
    BY <1>1, <1>2, <1>3
  <1>5. Tail(s) # <<>>
    BY <1>4 DEF Left
  <1>6. h \notin {"login", "logout", "dump", "resolveDid", "resolvePds", "bump", "register"} \cup Guard
    BY <1>4 DEF Console, Loads, Saves, Guard
  <1>7. ~ Ends(q)
    BY <1>1, <1>5, <1>6 DEF Ends, Writers
  <1>8. n.calls = Tail(s) /\ n.op = q.op
    <2>1. CASE Passes(q, n)
      BY <2>1 DEF Passes, Keeps
    <2>2. CASE n = Forgetting(q)
      BY <1>1, <2>2, ForgettingIs
    <2>3. QED
      BY <1>6, <1>7, <2>1, <2>2 DEF Moves, Turns, Counts
  <1>9. QED
    BY <1>1, <1>4, <1>8 DEF Showing

LEMMA OthersShow ==
  ASSUME AInv, NEW p \in Proc, Stepped(p) \/ Comes(p), NEW o \in Proc, o # p
  PROVE  req'[o].op = req[o].op
  <1>1. req[o] \in Request
    BY DEF AInv, TypeOK
  <1>2. \/ req'[o] = req[o] \/ req'[o] = Lifted(req[o])
        \/ req'[o] = Joined(req'[p].op, req[o])
    BY DEF Stepped, Comes
  <1>3. QED
    BY <1>1, <1>2 DEF Lifted, Joined, Request

LEMMA ShowFitStep ==
  ASSUME ScreenInv, AInv', NEW p \in Proc, Stepped(p), calm', NEW o \in Proc
  PROVE  ShowFit(req'[o], config')
  <1> DEFINE q == req[p]
             n == req'[p]
  <1>0. AInv /\ calm /\ q.op # None
    BY DEF ScreenInv, Stepped
  <1>1. CASE o # p
    <2>1. req[o].op = None
      BY <1>0, <1>1 DEF AInv, OneByOne, Busy
    <2>2. req'[o].op = None
      BY <1>0, <1>1, <2>1, OthersShow
    <2>3. QED
      BY <2>2 DEF ShowFit
  <1>2. /\ q \in Request /\ Shaped(q) /\ n \in Request /\ ShowFit(q, config) /\ Moves(q, n)
        /\ q.calls \in Seq(Call) /\ q.calls # <<>> /\ Ordered(q.calls)
    BY <1>0, HeadIs DEF ScreenInv, AInv, TypeOK, Stepped, Shaped
  <1>3. CASE o = p /\ config' = config
    BY <1>0, <1>2, <1>3, ShowMoves
  <1>4. CASE o = p /\ config' # config
    <2>1. Head(q.calls) \in Saves /\ n = Rest(q)
      BY <1>4 DEF Stepped
    <2>2. Between(q.calls, Head(q.calls), "view", "show")
      BY <1>2, <2>1 DEF Ordered
    <2>3. n.calls = Tail(q.calls)
      BY <1>2, <2>1, RestIs
    <2>4. Due(n.calls, "view", "show")
      BY <1>2, <2>2, <2>3, TailBetween
    <2>5. QED
      BY <1>4, <2>4 DEF ShowFit
  <1>5. QED
    BY <1>1, <1>3, <1>4

(* The lists that are shown at the end are those that are stored. *)
LEMMA ShownIs ==
  ASSUME ScreenInv, calm, NEW p \in Proc, ShowPolicy(p)
  PROVE  screen' = config'
  <1> DEFINE q == req[p]
  <1>0. AInv
    BY DEF ScreenInv
  <1>1. /\ q.op # None /\ Head(q.calls) = "show" /\ screen' = q.lists /\ config' = config
    BY DEF ShowPolicy, At
  <1>2. q.calls \in Seq(Call) /\ q.calls # <<>> /\ q.lists \in Lists /\ config \in Lists
    BY <1>0, <1>1, HeadIs DEF Request, AInv, TypeOK
  <1>3. \A c : Due(q.calls, c, "show") => c = "show"
    BY <1>1, <1>2, TailDue
  <1>4. "show" \notin Loads
    BY DEF Loads
  <1>5. \A c \in Loads : \A l \in In(c) : q.lists[l] = config[l]
    BY <1>1, <1>3, <1>4 DEF ScreenInv, ShowFit
  <1>6. \A l \in List : q.lists[l] = config[l]
    BY <1>5, InLoads
  <1>7. q.lists = config
    BY <1>2, <1>6 DEF Lists
  <1>8. QED
    BY <1>1, <1>7

LEMMA ScreenServes ==
  ASSUME ScreenInv, AInv', NEW p \in Proc, Serves(p), Stepped(p), calm', faults' = 0, session'
  PROVE  screen' = config' \/ \E o \in Proc : Showing(req'[o])
  <1> DEFINE q == req[p]
             n == req'[p]
             h == Head(q.calls)
  <1>0. AInv /\ calm /\ q.op # None /\ faults = 0
    BY DEF ScreenInv, Stepped
  <1>1. /\ q \in Request /\ Shaped(q) /\ n \in Request /\ Moves(q, n)
        /\ q.calls \in Seq(Call) /\ q.calls # <<>> /\ Allowed(q.op, q.who, q.calls)
        /\ h \in Left(q.calls)
    BY <1>0, HeadIs, TailIs DEF AInv, TypeOK, Stepped, Shaped
  <1>2. \A o \in Proc : Showing(req[o]) => o = p
    <2>1. None \notin Writers \cup {"login"}
      BY PolicyAssumption DEF AllOps, Writers
    <2>2. QED
      BY <2>1, <1>0 DEF AInv, OneByOne, Busy, Showing
  <1>3. ~ CutShort(p)
    BY <1>0 DEF CutShort
  <1>4. CASE ShowPolicy(p)
    BY <1>0, <1>4, ShownIs
  <1>5. CASE Login(p)
    <2>1. h = "login" /\ config' = config
      BY <1>5 DEF Login, At
    <2>2. q.op = "login" /\ ~ Showing(q)
      <3>1. "login" \notin Console /\ "login" \notin Writers
        BY DEF Console, Loads, Saves, Writers
      <3>2. QED
        BY <1>1, <2>1, <3>1 DEF Allowed, Showing
    <2>3. CASE Go(p, [q EXCEPT !.calls = LoadPolicy])
      <3>1. [q EXCEPT !.calls = LoadPolicy].calls = LoadPolicy
        BY <1>1 DEF Request
      <3>2. n = [q EXCEPT !.calls = LoadPolicy]
        BY <2>3, <3>1, <1>0, PolicyCalls DEF Go, AInv, TypeOK
      <3>3. n.op = "login" /\ n.calls = LoadPolicy
        BY <1>1, <2>2, <3>2 DEF Request
      <3>4. Showing(n)
        BY <3>3, PolicyCalls DEF Showing
      <3>5. QED
        BY <3>4
    <2>4. CASE UNCHANGED <<session, screen>>
      BY <1>0, <1>2, <2>1, <2>2, <2>4 DEF ScreenInv
    <2>5. QED
      BY <1>5, <2>3, <2>4 DEF Login
  <1>6. ~ HandleAdminLogout(p)
    BY DEF HandleAdminLogout
  <1>7. CASE SaveConfig(p)
    <2>1. /\ q.op \in Writers /\ h \in Saves /\ n = Rest(q)
      BY <1>0, <1>7, SaveConfigIs
    <2>2. "show" \in Left(q.calls) /\ h # "show"
      BY <1>1, <2>1 DEF Allowed, Saves
    <2>3. session
      BY <1>7 DEF SaveConfig
    <2>4. Showing(q)
      BY <2>1, <2>2 DEF Showing
    <2>5. Showing(n)
      BY <1>0, <1>1, <2>2, <2>3, <2>4, ShowingMoves
    <2>6. QED
      BY <2>5
  <1>8. CASE ~ ShowPolicy(p) /\ ~ Login(p) /\ ~ SaveConfig(p)
    <2>1. UNCHANGED <<config, screen, session>> /\ h # "show"
      BY <1>3, <1>6, <1>8
      DEF Serves, LoadConfig, ExportConfig, ViewConfig, ResolveDid, ResolvePdsHost, SkipPdsGuard,
          ReadGuard, BumpGuard, Registry, ReadLog, WriteLog, Local, At, Loads, Guard
    <2>2. screen = config \/ Showing(q)
      BY <1>0, <1>2, <2>1 DEF ScreenInv
    <2>3. CASE Showing(q)
      <3>1. Showing(n)
        BY <1>0, <1>1, <2>1, <2>3, ShowingMoves
      <3>2. QED
        BY <3>1
    <2>4. QED
      BY <2>1, <2>2, <2>3
  <1>9. QED
    BY <1>4, <1>5, <1>7, <1>8

LEMMA ScreenStep ==
  ASSUME ScreenInv, [Next]_vars
  PROVE  ScreenInv'
  <1>0. AInv
    BY DEF ScreenInv
  <1>1. AInv'
    BY <1>0, NextIs, StutterIs
  <1>2. CASE UNCHANGED vars
    BY <1>1, <1>2 DEF vars, ScreenInv
  <1>3. CASE Tick
    <2>1. \A o \in Proc : Lates(req[o], req'[o])
      BY <1>0, <1>3, TickIs
    <2>2. UNCHANGED <<config, screen, session, calm, faults>>
      BY <1>0, <1>3, TickIs
    <2>3. \A o \in Proc : /\ ShowFit(req[o], config) => ShowFit(req'[o], config)
                          /\ Showing(req[o]) => Showing(req'[o])
      BY <2>1 DEF ShowFit, Showing, Lates
    <2>4. QED
      BY <1>1, <2>2, <2>3 DEF ScreenInv
  <1>4. ASSUME NEW p \in Proc, Comes(p)
        PROVE  ScreenInv'
    <2>1. /\ Due(req'[p].calls, "view", "show") /\ UNCHANGED <<config, screen, session, faults>>
          /\ calm' = (calm /\ Quiet)
      BY <1>4 DEF Comes, Arrival
    <2>2. ASSUME calm'
          PROVE  /\ \A o \in Proc : ShowFit(req'[o], config')
                 /\ faults' = 0 /\ session' => screen' = config'
      <3>1. calm /\ \A o \in Proc : req[o].op = None
        BY <2>1, <2>2 DEF Quiet, Busy
      <3>2. \A o \in Proc : o # p => req'[o].op = None
        BY <1>0, <1>4, <3>1, OthersShow
      <3>3. \A o \in Proc : ShowFit(req'[o], config')
        BY <2>1, <3>2 DEF ShowFit
      <3>4. \A o \in Proc : ~ Showing(req[o])
        <4>1. None \notin Writers \cup {"login"}
          BY PolicyAssumption DEF AllOps, Writers
        <4>2. QED
          BY <3>1, <4>1 DEF Showing
      <3>5. QED
        BY <2>1, <3>1, <3>3, <3>4 DEF ScreenInv
    <2>3. QED
      BY <1>1, <2>2 DEF ScreenInv
  <1>5. ASSUME NEW p \in Proc, Serves(p), Stepped(p)
        PROVE  ScreenInv'
    <2>1. calm' => \A o \in Proc : ShowFit(req'[o], config')
      BY <1>1, <1>5, ShowFitStep
    <2>2. calm' /\ faults' = 0 /\ session' =>
            screen' = config' \/ \E o \in Proc : Showing(req'[o])
      BY <1>1, <1>5, ScreenServes
    <2>3. QED
      BY <1>1, <2>1, <2>2 DEF ScreenInv
  <1>6. QED
    BY <1>0, <1>2, <1>3, <1>4, <1>5, NextIs

(* When all is answered the open console shows the stored lists, as long   *)
(* as its requests came one by one and none failed: each change, and the   *)
(* assignment of a handle, loads them again (postConfig, loadPolicy).      *)
THEOREM WorkerPolicyScreenUpToDate == Spec => []ScreenUpToDate
  <1>1. Init => ScreenInv
    <2> SUFFICES ASSUME Init PROVE ScreenInv
      OBVIOUS
    <2>1. AInv /\ \A p \in Proc : req[p].op = None
      BY InitIs, NoRequestIs
    <2>2. session => screen = config
      BY DEF Init
    <2>3. QED
      BY <2>1, <2>2 DEF ScreenInv, ShowFit
  <1>2. ScreenInv /\ [Next]_vars => ScreenInv'
    BY ScreenStep
  <1>3. ScreenInv => ScreenUpToDate
    <2>1. None \notin Writers \cup {"login"}
      BY PolicyAssumption DEF AllOps, Writers
    <2>2. QED
      BY <2>1 DEF ScreenInv, ScreenUpToDate, Showing, Quiet, Busy
  <1>4. QED
    BY <1>1, <1>2, <1>3, PTL DEF Spec

-----------------------------------------------------------------------------
(* The edits *)

LEMMA DocumentsAre ==
  ASSUME NEW d \in Documents
  PROVE  /\ d[1] \in Loads /\ d[2] \in Saves /\ In(d[1]) = In(d[2]) /\ In(d[1]) \subseteq List
         /\ \A s : Ordered(s) => Between(s, d[2], d[1], d[2])
         /\ \A h \in Saves : h # d[2] => In(h) \cap In(d[1]) = {}
  <1>1. \/ d = <<"loadVip", "saveVip">> \/ d = <<"loadBlock", "saveBlock">>
        \/ d = <<"loadReserved", "saveReserved">>
    BY DEF Documents
  <1>2. /\ In("loadVip") = {"vipDids"} /\ In("saveVip") = {"vipDids"}
        /\ In("loadBlock") = Bans \ {"reservedHandles"}
        /\ In("saveBlock") = Bans \ {"reservedHandles"}
        /\ In("loadReserved") = {"reservedHandles"} /\ In("saveReserved") = {"reservedHandles"}
        /\ "vipDids" \notin Bans
    BY DEF In, Bans
  <1>3. d[1] \in Loads /\ d[2] \in Saves /\ In(d[1]) = In(d[2])
    BY <1>1, <1>2 DEF Loads, Saves
  <1>4. \A s : Ordered(s) => Between(s, d[2], d[1], d[2])
    BY <1>1 DEF Ordered
  <1>5. \A h \in Saves : h # d[2] => In(h) \cap In(d[1]) = {}
    BY <1>1, <1>2 DEF Saves
  <1>6. QED
    BY <1>3, <1>4, <1>5, InLoads

(* A call that a request passes, one that saves a document included *)
LEMMA EditPasses ==
  ASSUME AInv, NEW q \in Request, q.op # None, Shaped(q), NEW n \in Request, Passes(q, n),
         config' = config \/ (Head(q.calls) \in Saves /\ config' = Saved(q, Head(q.calls))),
         EditFit(q, config)
  PROVE  EditFit(n, config')
  <1> DEFINE s == q.calls
             h == Head(s)
  <1>1. /\ s \in Seq(Call) /\ s # <<>> /\ Ordered(s) /\ n.calls = Tail(s) /\ n.op = q.op
        /\ n.alone = q.alone /\ n.lists = IF h \in Loads THEN Read(q, h) ELSE q.lists
    BY DEF Passes, Keeps, Shaped, Allowed, Request
  <1> SUFFICES ASSUME n.alone, n.op = "post", NEW d \in Documents
               PROVE  Due(n.calls, d[1], d[2]) \/ \A l \in In(d[1]) : n.lists[l] = config'[l]
    BY DEF EditFit, Kept
  <1>2. Due(s, d[1], d[2]) \/ \A l \in In(d[1]) : q.lists[l] = config[l]
    BY <1>1 DEF EditFit, Kept
  <1>3. h \in Loads => \A l \in List : n.lists[l] = IF l \in In(h) THEN config[l] ELSE q.lists[l]
    BY <1>1 DEF Read
  <1>4. CASE h = d[1]
    <2>1. h \in Loads /\ config' = config /\ In(h) \subseteq List
      <3>1. Loads \cap Saves = {}
        BY DEF Loads, Saves
      <3>2. QED
        BY <1>4, <3>1, DocumentsAre
    <2>2. \A l \in In(h) : n.lists[l] = config'[l]
      BY <1>3, <2>1
    <2>3. QED
      BY <1>4, <2>2
  <1>5. CASE h # d[1] /\ Due(s, d[1], d[2])
    BY <1>1, <1>5, TailDue
  <1>6. CASE \A l \in In(d[1]) : q.lists[l] = config[l]
    <2>1. CASE h = d[2]
      <3>1. Between(s, d[2], d[1], d[2])
        BY <1>1, DocumentsAre
      <3>2. QED
        BY <1>1, <2>1, <3>1, TailBetween
    <2>2. CASE h # d[2]
      <3>1. \A l \in In(d[1]) : n.lists[l] = config[l]
        BY <1>1, <1>3, <1>6, DocumentsAre
      <3>2. \A l \in In(d[1]) : config'[l] = config[l]
        <4>1. CASE config' = Saved(q, h) /\ h \in Saves
          <5>1. \A l \in List : l \notin In(h) => config'[l] = config[l]
            BY <4>1 DEF Saved
          <5>2. QED
            BY <2>2, <4>1, <5>1, DocumentsAre
        <4>2. QED
          BY <4>1
      <3>3. QED
        BY <3>1, <3>2
    <2>3. QED
      BY <2>1, <2>2
  <1>7. QED
    BY <1>2, <1>4, <1>5, <1>6

LEMMA EditMoves ==
  ASSUME AInv, NEW q \in Request, q.op # None, Shaped(q), NEW n \in Request, Moves(q, n),
         \/ config' = config
         \/ /\ Head(q.calls) \in Saves /\ config' = Saved(q, Head(q.calls)) /\ Passes(q, n)
  PROVE  /\ EditFit(q, config) => EditFit(n, config')
         /\ n.alone => q.alone
         /\ n.op \in Writers => q.op \in Writers
  <1> DEFINE s == q.calls
             h == Head(q.calls)
  <1>1. s \in Seq(Call) /\ s # <<>> /\ Allowed(q.op, q.who, s) /\ h \in Left(s)
    BY TailIs DEF Shaped, Allowed, Request
  <1>2. None \notin Writers
    BY PolicyAssumption DEF AllOps, Writers
  <1>3. CASE n = NoRequest
    BY <1>2, <1>3, NoRequestIs DEF EditFit
  <1>4. CASE Passes(q, n)
    <2>1. n.op = q.op /\ n.alone = q.alone
      BY <1>4 DEF Passes, Keeps
    <2>2. QED
      BY <1>4, <2>1, EditPasses
  <1>5. CASE n = Forgetting(q)
    <2>1. n.op = q.op /\ n.alone = FALSE
      BY <1>1, <1>5, ForgettingIs
    <2>2. QED
      BY <2>1 DEF EditFit
  <1>6. CASE n = Blocked(q)
    <2>1. n.op = q.op /\ n.alone = FALSE
      BY <1>1, <1>6, BlockedIs
    <2>2. QED
      BY <2>1 DEF EditFit
  <1>7. CASE n = [q EXCEPT !.calls = LoadPolicy] /\ h = "login"
    <2>1. n.op = q.op /\ n.alone = q.alone
      BY <1>7 DEF Request
    <2>2. q.op = "login"
      BY <1>1, <1>7 DEF Allowed
    <2>3. QED
      BY <2>1, <2>2 DEF EditFit
  <1>8. CASE Counts(q, n)
    <2>1. n.op = q.op /\ n.alone = q.alone /\ h \in Guard
      BY <1>8 DEF Counts, Keeps
    <2>2. Guard \cap Console = {}
      BY DEF Guard, Console, Loads, Saves
    <2>3. q.op # "post"
      BY <1>1, <2>1, <2>2 DEF Allowed, Writers
    <2>4. QED
      BY <2>1, <2>3 DEF EditFit
  <1>9. QED
    BY <1>3, <1>4, <1>5, <1>6, <1>7, <1>8 DEF Moves, Turns

LEMMA SavesIs ==
  ASSUME AInv, NEW p \in Proc, Stepped(p), config' # config
  PROVE  LET h == Head(req[p].calls) IN
         /\ h \in Saves /\ config' = Saved(req[p], h) /\ Passes(req[p], req'[p])
         /\ req[p].op \in Writers
  <1> DEFINE q == req[p]
             h == Head(q.calls)
  <1>1. q.op # None /\ h \in Saves /\ config' = Saved(q, h) /\ req'[p] = Rest(q)
    BY DEF Stepped
  <1>2. /\ q \in Request /\ q.calls \in Seq(Call) /\ q.calls # <<>> /\ h \in Left(q.calls)
        /\ Allowed(q.op, q.who, q.calls)
    BY <1>1, HeadIs, TailIs DEF Shaped
  <1>3. h \notin Loads \cup {"show", "readLog", "resolveDid", "resolvePds"}
    BY <1>1 DEF Saves, Loads
  <1>4. Passes(q, Rest(q))
    BY <1>2, <1>3, RestIs DEF Passes
  <1>5. q.op \in Writers
    BY <1>1, <1>2 DEF Allowed
  <1>6. QED
    BY <1>1, <1>4, <1>5

LEMMA JoinedIs ==
  ASSUME NEW q \in Request, NEW op
  PROVE  LET n == Joined(op, q) IN
         /\ n.op = q.op /\ n.calls = q.calls /\ n.lists = q.lists
         /\ n.alone => q.alone /\ op \notin Writers
  BY DEF Joined, Request

LEMMA EditServes ==
  ASSUME EditInv, AInv', NEW p \in Proc, Stepped(p)
  PROVE  EditInv'
  <1> DEFINE q == req[p]
  <1>0. AInv /\ q.op # None
    BY DEF EditInv, Stepped
  <1>1. /\ \A o \in Proc : req[o] \in Request /\ Shaped(req[o]) /\ EditFit(req[o], config)
        /\ \A o \in Proc : req'[o] \in Request
    BY <1>0 DEF EditInv, AInv, TypeOK
  <1>2. Moves(q, req'[p])
    BY DEF Stepped
  <1>3. config' = config \/ (/\ Head(q.calls) \in Saves /\ config' = Saved(q, Head(q.calls))
                             /\ Passes(q, req'[p]) /\ q.op \in Writers)
    BY <1>0, SavesIs
  <1>4. /\ EditFit(req'[p], config')
        /\ req'[p].alone => q.alone
        /\ req'[p].op \in Writers => q.op \in Writers
    BY <1>0, <1>1, <1>2, <1>3, EditMoves
  <1>5. ASSUME NEW o \in Proc, o # p
        PROVE  /\ req'[o].op = req[o].op /\ req'[o].calls = req[o].calls
               /\ req'[o].lists = req[o].lists /\ req'[o].alone = req[o].alone
    <2>1. req'[o] = req[o] \/ req'[o] = Lifted(req[o])
      BY <1>5 DEF Stepped
    <2>2. QED
      BY <1>1, <2>1 DEF Lifted, Request
  <1>6. ASSUME NEW o \in Proc, o # p
        PROVE  EditFit(req'[o], config')
    <2>1. CASE config' = config
      BY <1>1, <1>5, <1>6, <2>1 DEF EditFit, Kept
    <2>2. CASE q.op \in Writers
      <3>1. ~ req[o].alone
        BY <1>6, <2>2 DEF EditInv
      <3>2. QED
        BY <1>5, <1>6, <3>1 DEF EditFit
    <2>3. QED
      BY <1>3, <2>1, <2>2
  <1>7. ASSUME NEW x \in Proc, NEW y \in Proc, x # y, req'[x].alone
        PROVE  req'[y].op \notin Writers
    <2>1. req[x].alone /\ (req'[y].op \in Writers => req[y].op \in Writers)
      BY <1>4, <1>5, <1>7
    <2>2. QED
      BY <1>7, <2>1 DEF EditInv
  <1>8. QED
    BY <1>4, <1>6, <1>7 DEF EditInv

LEMMA EditComes ==
  ASSUME EditInv, AInv', NEW p \in Proc, Comes(p)
  PROVE  EditInv'
  <1> DEFINE n == req'[p]
  <1>0. AInv
    BY DEF EditInv
  <1>1. \A o \in Proc : req[o] \in Request /\ EditFit(req[o], config)
    BY <1>0 DEF EditInv, AInv, TypeOK
  <1>2. /\ config' = config /\ Arrival(n.op, n.who, n.calls) /\ n.alone = NoWriter
        /\ \A o \in Proc \ {p} : req'[o] = Joined(n.op, req[o])
    BY DEF Comes
  <1>3. ASSUME NEW o \in Proc, o # p
        PROVE  /\ req'[o].op = req[o].op /\ req'[o].calls = req[o].calls
               /\ req'[o].lists = req[o].lists
               /\ req'[o].alone => req[o].alone /\ n.op \notin Writers
    BY <1>1, <1>2, <1>3, JoinedIs
  <1>4. EditFit(n, config')
    <2> SUFFICES ASSUME n.op = "post", NEW d \in Documents
                 PROVE  Due(n.calls, d[1], d[2])
      BY DEF EditFit, Kept
    <2>1. QED
      BY <1>2 DEF Arrival, Documents
  <1>5. ASSUME NEW o \in Proc, o # p
        PROVE  EditFit(req'[o], config')
    BY <1>1, <1>2, <1>3, <1>5 DEF EditFit, Kept
  <1>6. ASSUME NEW x \in Proc, NEW y \in Proc, x # y, req'[x].alone
        PROVE  req'[y].op \notin Writers
    <2>1. CASE x = p
      <3>1. NoWriter /\ req'[y].op = req[y].op
        BY <1>2, <1>3, <1>6, <2>1
      <3>2. None \notin Writers
        BY PolicyAssumption DEF AllOps, Writers
      <3>3. QED
        BY <3>1, <3>2 DEF NoWriter, Busy
    <2>2. CASE x # p
      <3>1. req[x].alone /\ n.op \notin Writers
        BY <1>3, <1>6, <2>2
      <3>2. y # p => req'[y].op = req[y].op
        BY <1>3
      <3>3. QED
        BY <1>6, <3>1, <3>2 DEF EditInv
    <2>3. QED
      BY <2>1, <2>2
  <1>7. QED
    BY <1>4, <1>5, <1>6 DEF EditInv

LEMMA EditStep ==
  ASSUME EditInv, [Next]_vars
  PROVE  EditInv'
  <1>0. AInv
    BY DEF EditInv
  <1>1. AInv'
    BY <1>0, NextIs, StutterIs
  <1>2. CASE UNCHANGED vars
    BY <1>1, <1>2 DEF vars, EditInv
  <1>3. CASE Tick
    <2>1. (\A o \in Proc : Lates(req[o], req'[o])) /\ config' = config
      BY <1>0, <1>3, TickIs
    <2>2. \A o \in Proc : /\ EditFit(req[o], config) => EditFit(req'[o], config)
                          /\ req'[o].alone = req[o].alone /\ req'[o].op = req[o].op
      BY <2>1 DEF EditFit, Kept, Lates
    <2>3. QED
      BY <1>1, <2>1, <2>2 DEF EditInv
  <1>4. ASSUME NEW p \in Proc, Comes(p)
        PROVE  EditInv'
    BY <1>1, <1>4, EditComes
  <1>5. ASSUME NEW p \in Proc, Serves(p), Stepped(p)
        PROVE  EditInv'
    BY <1>1, <1>5, EditServes
  <1>6. QED
    BY <1>0, <1>2, <1>3, <1>4, <1>5, NextIs

(* What a save drops: what the request removes, if it is alone and no      *)
(* import                                                                  *)
LEMMA Dropped ==
  ASSUME EditInv, NEW p \in Proc, Stepped(p), NEW l \in List,
         NEW a \in config[l] \ config'[l]
  PROVE  \/ req[p].op = "import" \/ req[p].change = <<"remove", l, a>>
         \/ req[p].op \in Writers /\ ~req[p].alone
  <1> DEFINE q == req[p]
             h == Head(q.calls)
  <1>0. AInv /\ q.op # None
    BY DEF EditInv, Stepped
  <1>1. /\ h \in Saves /\ config' = Saved(q, h) /\ q.op \in Writers
    BY <1>0, SavesIs
  <1> SUFFICES ASSUME q.op = "post", q.alone
               PROVE  q.change = <<"remove", l, a>>
    BY <1>1 DEF Writers
  <1>2. PICK d \in Documents : d[2] = h
    BY <1>1 DEF Saves, Documents
  <1>3. /\ q \in Request /\ q.calls \in Seq(Call) /\ q.calls # <<>> /\ q.lists \in Lists
        /\ q.change \in Changes \cup {None}
    BY <1>0, HeadIs DEF Request
  <1>4. \A x \in In(h) : q.lists[x] = config[x]
    <2>1. ~ Due(q.calls, d[1], d[2])
      <3>1. Loads \cap Saves = {}
        BY DEF Loads, Saves
      <3>2. h # d[1]
        BY <1>2, <3>1, DocumentsAre
      <3>3. QED
        BY <1>2, <1>3, <3>2, TailDue
    <2>2. Kept(q, d, config)
      BY DEF EditInv, EditFit
    <2>3. QED
      BY <1>2, <2>1, <2>2, DocumentsAre DEF Kept
  <1>5. config'[l] = IF l \in In(h) THEN Edited(q.lists, q.change)[l] ELSE config[l]
    BY <1>1 DEF Saved
  <1>6. l \in In(h) /\ a \notin Edited(q.lists, q.change)[l] /\ a \in q.lists[l]
    BY <1>4, <1>5
  <1>7. q.change \in Changes
    BY <1>3, <1>6 DEF Edited
  <1>8. PICK v \in {"add", "remove"}, m \in List, b \in Applicant : q.change = <<v, m, b>>
    BY <1>7 DEF Changes
  <1>9. q.change # None
    BY <1>7, PolicyAssumption
  <1>10. Edited(q.lists, q.change)[l] =
           IF l # m THEN q.lists[l]
           ELSE IF v = "add" THEN q.lists[l] \cup {b} ELSE q.lists[l] \ {b}
    <2>1. PICK ls \in Lists : ls = q.lists
      BY <1>3
    <2>2. q.change[1] = v /\ q.change[2] = m /\ q.change[3] = b
      BY <1>8
    <2>3. Edited(ls, q.change) =
            [ls EXCEPT ![m] = IF v = "add" THEN @ \cup {b} ELSE @ \ {b}]
      BY <1>9, <2>2 DEF Edited
    <2>4. Edited(ls, q.change)[l] =
            IF l # m THEN ls[l] ELSE IF v = "add" THEN ls[m] \cup {b} ELSE ls[m] \ {b}
      BY <2>3 DEF Lists
    <2>5. QED
      BY <2>1, <2>4
  <1>11. m = l /\ v = "remove" /\ b = a
    BY <1>6, <1>8, <1>10
  <1>12. QED
    BY <1>8, <1>11

(* An entry leaves its list only by its removal or by an import, as long   *)
(* as no two changes of the lists overlap, whatever else comes in between  *)
(* the loads and the saves of a change (handleAdminConfigPost,             *)
(* handleAdminImportConfig).                                               *)
THEOREM WorkerPolicyEntriesStay == Spec => EntriesStay
  <1>1. Init => EditInv
    <2> SUFFICES ASSUME Init PROVE EditInv
      OBVIOUS
    <2>1. AInv /\ \A p \in Proc : req[p].alone = FALSE
      BY InitIs, NoRequestIs
    <2>2. QED
      BY <2>1 DEF EditInv, EditFit
  <1>2. EditInv /\ [Next]_vars => EditInv'
    BY EditStep
  <1>3. EditInv /\ [Next]_vars =>
          [\A l \in List : \A a \in config[l] \ config'[l] :
             \E p \in Busy : \/ req[p].op = "import" \/ req[p].change = <<"remove", l, a>>
                             \/ req[p].op \in Writers /\ ~req[p].alone]_vars
    <2> SUFFICES ASSUME EditInv, [Next]_vars, NEW l \in List, NEW a \in config[l] \ config'[l]
                 PROVE  \E p \in Busy :
                          \/ req[p].op = "import" \/ req[p].change = <<"remove", l, a>>
                          \/ req[p].op \in Writers /\ ~req[p].alone
      OBVIOUS
    <2>0. AInv
      BY DEF EditInv
    <2>1. config' # config
      OBVIOUS
    <2>2. ~ UNCHANGED vars /\ ~ Tick /\ ~ \E p \in Proc : Comes(p)
      BY <2>1 DEF vars, Tick, Comes
    <2>3. PICK p \in Proc : Stepped(p)
      BY <2>0, <2>2, NextIs
    <2>4. p \in Busy
      BY <2>3 DEF Stepped, Busy
    <2>5. QED
      BY <2>3, <2>4, Dropped
  <1>4. QED
    BY <1>1, <1>2, <1>3, PTL DEF Spec, EntriesStay
=============================================================================
