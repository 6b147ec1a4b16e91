-------------------------- MODULE FluxSessionsProofs --------------------------
(***************************************************************************)
(* Proofs about FluxSessions for any number of sessions and transfers, any *)
(* depth of the queue and any length of send_events[]: the list, the       *)
(* callback reservations and what is reported stay consistent through      *)
(* every interleaving of the transmit task with ONE control task.  With    *)
(* two, flux_session_destroy's list head can be stale when it is used.     *)
(***************************************************************************)
EXTENDS FluxSessions, FiniteSetTheorems, SequenceTheorems, TLAPS

\* Sessions are created and destroyed by one task: the NimBLE host is the only
\* caller the GATT adapter has.
OneControl == \A c, d \in Controls : c = d

------------------------------------------------------------------------------
(* The inductive invariant *)

\* A control task is at one of these places of a call about x.
At(x, places) == \E c \in Controls : control[c].at \in places /\ control[c].x = {x}
Inserting == {"insert"}
Unlinking == {"unlink"}
Waiting == {"drop", "drain"}
Leaving == {"reap", "free"}

\* A call under way is about one session, which exists.
Calls ==
  \A c \in Controls :
    \/ control[c].at = "idle" /\ control[c].x = {}
    \/ \E x \in Sessions : control[c].x = {x} /\ life[x] = "alive"

\* The list holds no session twice, and those it holds exist and are neither on
\* their way in nor on their way out.
ListSound ==
  /\ \A m, n \in DOMAIN list : list[m] = list[n] => m = n
  /\ \A x \in Sessions : Listed(x) =>
        life[x] = "alive" /\ ~At(x, Inserting \cup Waiting \cup Leaving)

\* What a call of destroy knows about the list is true when it is used.
CallerKnows ==
  \A c \in Controls :
    /\ control[c].at = "unlink" => list # <<>> /\ control[c].head = {Head(list)}
    /\ control[c].at \in Waiting \cup Leaving => (control[c].last <=> list = <<>>)
    /\ control[c].at = "reap" => control[c].last

\* The transmit task exists while a session is listed or a call needs it.
TaskServes ==
  /\ list # <<>> => running
  /\ \A c \in Controls : control[c].at \notin {"idle", "free"} => running
  /\ ~running => tx.todo = {} /\ tx.now = {}

Due == tx.todo \cup tx.now
ReservedFor(x) == {e \in tx.todo : e.x = x}
RunningFor(x) == {e \in tx.now : e.x = x}

\* The two counters count the callbacks that are reserved and that run, and all
\* of them are of sessions not yet past the wait in destroy.
Reservations ==
  /\ tx.at \notin {"report", "callback"} => tx.todo = {}
  /\ tx.at # "callback" => tx.now = {}
  /\ tx.at = "callback" => \E e \in Events : tx.now = {e}
  /\ tx.todo \cap tx.now = {}
  /\ \A x \in Sessions :
        /\ pending[x] = Cardinality(ReservedFor(x))
        /\ inflight[x] = Cardinality(RunningFor(x))
  /\ \A e \in Due : Listed(e.x) \/ At(e.x, Waiting)

\* A transfer destroy is about to report as dropped.
Dropping(x, k) ==
  \E c \in Controls : control[c].at = "drop" /\ control[c].x = {x} /\ k \in control[c].drop

\* A transfer is in one place only: reported, in its slot, due to be reported by
\* the transmit task, or by destroy.
OnePlace(x, k) ==
  /\ told[x][k] <= 1
  /\ slot[x][k] # "free" => k \in begun[x]
  /\ told[x][k] = 1 => k \in begun[x] /\ slot[x][k] = "free"
  /\ Completion(x, k) \in Due =>
        k \in begun[x] /\ told[x][k] = 0 /\ slot[x][k] = "free"
  /\ Dropping(x, k) =>
        /\ k \in begun[x] /\ told[x][k] = 0 /\ slot[x][k] = "free"
        /\ Completion(x, k) \notin Due

Reports == \A x \in Sessions, k \in Transfers : OnePlace(x, k)

IInv ==
  /\ TypeOK /\ Calls /\ ListSound /\ CallerKnows /\ TaskServes /\ Reservations
  /\ Reports

------------------------------------------------------------------------------
(* Values *)

LEMMA TransfersAreNumbers == Transfers \subseteq Nat \ {0} /\ IsFiniteSet(Transfers)
BY SessionConstants, FS_Interval DEF Transfers

LEMMA EventFields ==
  /\ \A x \in Sessions, k \in Transfers :
        Completion(x, k) \in Completions /\ Completion(x, k).x = x /\ Completion(x, k).k = k
  /\ \A x \in Sessions : Happening(x) \in Events /\ Happening(x).x = x /\ Happening(x).k = 0
  /\ \A e \in Completions : e.x \in Sessions /\ e.k \in Transfers /\ e = Completion(e.x, e.k)
  /\ \A e \in Events : e.x \in Sessions
  /\ Completions \subseteq Events
  /\ \A x \in Sessions : Happening(x) \notin Completions
<1>1. \A x \in Sessions, k \in Transfers :
        Completion(x, k) \in Completions /\ Completion(x, k).x = x /\ Completion(x, k).k = k
  BY DEF Completion, Completions
<1>2. \A x \in Sessions : Happening(x) \in Events /\ Happening(x).x = x /\ Happening(x).k = 0
  BY DEF Happening, Events
<1>3. \A e \in Completions : e.x \in Sessions /\ e.k \in Transfers /\ e = Completion(e.x, e.k)
  <2>1. SUFFICES ASSUME NEW e \in Completions
                 PROVE  e.x \in Sessions /\ e.k \in Transfers /\ e = Completion(e.x, e.k)
    OBVIOUS
  <2>2. PICK x \in Sessions, k \in Transfers : e = Completion(x, k)
    BY DEF Completions
  <2> QED BY <1>1, <2>2
<1>4. Completions \subseteq Events
  BY DEF Events
<1>5. \A e \in Events : e.x \in Sessions
  BY <1>2, <1>3 DEF Events
<1>6. \A x \in Sessions : Happening(x) \notin Completions
  BY <1>2, <1>3, TransfersAreNumbers
<1> QED BY <1>1, <1>2, <1>3, <1>4, <1>5, <1>6

LEMMA RestingFields ==
  /\ Resting.at = "wait" /\ Resting.x = {} /\ Resting.todo = {} /\ Resting.now = {}
BY DEF Resting

LEMMA ReportingFields ==
  ASSUME NEW todo
  PROVE  /\ Reporting(todo).x = {} /\ Reporting(todo).todo = todo
         /\ Reporting(todo).now = {}
         /\ Reporting(todo).at = IF todo = {} THEN "wait" ELSE "report"
         /\ Reporting(todo) = [at |-> IF todo = {} THEN "wait" ELSE "report",
                               x |-> {}, todo |-> todo, now |-> {}]
BY DEF Reporting, Resting

LEMMA ReportingType ==
  ASSUME NEW todo \in SUBSET Events
  PROVE  Reporting(todo) \in TaskStates /\ Resting \in TaskStates
<1>1. Reporting(todo) \in TaskStates
  BY ReportingFields DEF TaskStates
<1>2. Resting \in TaskStates
  BY DEF Resting, TaskStates
<1> QED BY <1>1, <1>2

LEMMA IdleType ==
  /\ Idle \in Callers /\ Idle.at = "idle" /\ Idle.x = {}
BY DEF Idle, Callers

LEMMA EventsFinite == IsFiniteSet(Events)
<1>1. IsFiniteSet(Sessions) /\ IsFiniteSet(Transfers)
  BY SessionConstants, TransfersAreNumbers
<1>2. IsFiniteSet(Sessions \X Transfers)
  BY <1>1, FS_Product
<1> DEFINE f == [p \in Sessions \X Transfers |-> Completion(p[1], p[2])]
           g == [x \in Sessions |-> Happening(x)]
<1>3. /\ f \in [Sessions \X Transfers -> Completions]
      /\ \A e \in Completions : \E p \in Sessions \X Transfers : f[p] = e
  <2>1. \A p \in Sessions \X Transfers : f[p] \in Completions
    BY EventFields
  <2>2. ASSUME NEW e \in Completions
        PROVE  \E p \in Sessions \X Transfers : f[p] = e
    <3>1. <<e.x, e.k>> \in Sessions \X Transfers /\ f[<<e.x, e.k>>] = Completion(e.x, e.k)
      BY EventFields
    <3> QED BY <3>1, EventFields
  <2> QED BY <2>1, <2>2
<1>4. f \in Surjection(Sessions \X Transfers, Completions)
  BY <1>3 DEF Surjection
<1>5. IsFiniteSet(Completions)
  BY <1>2, <1>4, FS_Surjection
<1>6. g \in Surjection(Sessions, {Happening(x) : x \in Sessions})
  BY DEF Surjection
<1>7. IsFiniteSet({Happening(x) : x \in Sessions})
  BY <1>1, <1>6, FS_Surjection
<1> QED BY <1>5, <1>7, FS_Union DEF Events

------------------------------------------------------------------------------
(* The queue without a session's packets, the list without a session *)

LEMMA WithoutType ==
  ASSUME NEW q \in Seq(Sessions), NEW x, NEW r \in Without(q, x)
  PROVE  r \in Seq(Sessions) /\ Len(r) <= Len(q)
<1> DEFINE S == {n \in DOMAIN q : q[n] # x}
<1>1. DOMAIN q = 1 .. Len(q) /\ Len(q) \in Nat
  BY LenProperties
<1>2. IsFiniteSet(1 .. Len(q)) /\ Cardinality(1 .. Len(q)) = Len(q)
  BY <1>1, FS_Interval
<1>3. IsFiniteSet(S) /\ Cardinality(S) <= Len(q) /\ Cardinality(S) \in Nat
  BY <1>1, <1>2, FS_Subset, FS_CardinalityType
<1>4. PICK a \in InOrder(S) : r = [k \in DOMAIN a |-> q[a[k]]]
  BY DEF Without
<1>5. a \in [1 .. Cardinality(S) -> S]
  BY DEF InOrder
<1>6. \A k \in 1 .. Cardinality(S) : q[a[k]] \in Sessions
  BY <1>1, <1>5, ElementOfSeq
<1> DEFINE c == Cardinality(S)
<1>7. c \in Nat /\ c <= Len(q) /\ DOMAIN a = 1 .. c /\ \A k \in 1 .. c : q[a[k]] \in Sessions
  BY <1>3, <1>5, <1>6
<1> HIDE DEF S, c
<1>8. r \in [1 .. c -> Sessions]
  BY <1>4, <1>7
<1> QED BY <1>7, <1>8

\* No element occurs twice.
Distinct(l) == \A m, n \in DOMAIN l : l[m] = l[n] => m = n
Holds(l, x) == \E n \in DOMAIN l : l[n] = x

\* l is r without x.
Removed(l, r, x) ==
  /\ l \in Seq(Sessions) /\ Distinct(l)
  /\ ~Holds(l, x)
  /\ \A y \in Sessions : y # x => (Holds(l, y) <=> Holds(r, y))

LEMMA TailRemoves ==
  ASSUME NEW r \in Seq(Sessions), r # <<>>, Distinct(r)
  PROVE  Removed(Tail(r), r, Head(r))
<1>1. /\ Tail(r) \in Seq(Sessions) /\ Head(r) = r[1] /\ Len(r) \in Nat \ {0}
      /\ DOMAIN r = 1 .. Len(r) /\ Len(Tail(r)) = Len(r) - 1
      /\ DOMAIN Tail(r) = 1 .. Len(r) - 1
      /\ \A i \in 1 .. Len(r) - 1 : Tail(r)[i] = r[i + 1]
  BY HeadTailProperties, LenProperties, EmptySeq
<1> DEFINE t == Tail(r)
           L == Len(r)
<1>2. /\ t \in Seq(Sessions) /\ L \in Nat \ {0} /\ DOMAIN r = 1 .. L /\ DOMAIN t = 1 .. L - 1
      /\ \A i \in 1 .. L - 1 : t[i] = r[i + 1]
  BY <1>1
<1> HIDE DEF t, L
<1>3. Distinct(t)
  <2>1. SUFFICES ASSUME NEW m \in 1 .. L - 1, NEW n \in 1 .. L - 1, t[m] = t[n]
                 PROVE  m = n
    BY <1>2 DEF Distinct
  <2>2. m + 1 \in 1 .. L /\ n + 1 \in 1 .. L /\ r[m + 1] = r[n + 1]
    BY <1>2, <2>1
  <2>3. m + 1 = n + 1
    BY <1>2, <2>2 DEF Distinct
  <2> QED BY <2>3
<1>4. ~Holds(t, r[1])
  BY <1>2 DEF Distinct, Holds
<1>5. ASSUME NEW y \in Sessions, y # r[1]
      PROVE  Holds(t, y) <=> Holds(r, y)
  <2>1. ASSUME Holds(r, y) PROVE Holds(t, y)
    <3>1. PICK n \in 1 .. L : r[n] = y
      BY <1>2, <2>1 DEF Holds
    <3>2. n # 1 /\ n - 1 \in 1 .. L - 1 /\ t[n - 1] = y
      BY <1>2, <1>5, <3>1
    <3> QED BY <1>2, <3>2 DEF Holds
  <2>2. ASSUME Holds(t, y) PROVE Holds(r, y)
    BY <1>2, <2>2 DEF Holds
  <2> QED BY <2>1, <2>2
<1> QED BY <1>1, <1>2, <1>3, <1>4, <1>5 DEF Removed, t

LEMMA CutRemoves ==
  ASSUME NEW r \in Seq(Sessions), Distinct(r), NEW p \in 1 .. Len(r)
  PROVE  Removed(SubSeq(r, 1, p - 1) \o SubSeq(r, p + 1, Len(r)), r, r[p])
<1> DEFINE L == Len(r)
           a == SubSeq(r, 1, p - 1)
           b == SubSeq(r, p + 1, L)
           t == a \o b
<1>1. L \in Nat /\ DOMAIN r = 1 .. L /\ p \in 1 .. L
  BY LenProperties
<1>2. a \in Seq(Sessions) /\ Len(a) = p - 1 /\ \A i \in 1 .. p - 1 : a[i] = r[i]
  BY <1>1, SubSeqProperties
<1>3. b \in Seq(Sessions) /\ Len(b) = L - p /\ \A i \in 1 .. L - p : b[i] = r[p + i]
  <2>1. p + 1 \in Int /\ L \in Int /\ \A i \in p + 1 .. L : r[i] \in Sessions
    BY <1>1
  <2> HIDE DEF L
  <2>2. /\ b \in Seq(Sessions) /\ Len(b) = IF p + 1 <= L THEN L - (p + 1) + 1 ELSE 0
        /\ \A i \in 1 .. L - (p + 1) + 1 : b[i] = r[(p + 1) + i - 1]
    BY <2>1, SubSeqProperties
  <2>3. L - (p + 1) + 1 = L - p /\ \A i \in Int : (p + 1) + i - 1 = p + i
    BY <1>1
  <2>4. Len(b) = L - p
    BY <1>1, <2>2
  <2> HIDE DEF b
  <2> QED BY <2>2, <2>3, <2>4
<1> HIDE DEF a, b, L
<1>4. /\ t \in Seq(Sessions) /\ Len(t) = Len(a) + Len(b)
      /\ \A i \in 1 .. Len(a) + Len(b) :
            t[i] = IF i <= Len(a) THEN a[i] ELSE b[i - Len(a)]
  BY <1>2, <1>3, ConcatProperties
<1> HIDE DEF t
<1>5. /\ DOMAIN t = 1 .. L - 1
      /\ \A i \in 1 .. L - 1 : t[i] = IF i < p THEN r[i] ELSE r[i + 1]
  <2>1. Len(t) = L - 1 /\ DOMAIN t = 1 .. Len(t)
    BY <1>1, <1>2, <1>3, <1>4, LenProperties
  <2>2. ASSUME NEW i \in 1 .. L - 1, i < p PROVE t[i] = r[i]
    BY <1>1, <1>2, <1>3, <1>4, <2>2
  <2>3. ASSUME NEW i \in 1 .. L - 1, ~(i < p) PROVE t[i] = r[i + 1]
    <3>1. i - (p - 1) \in 1 .. L - p /\ p + (i - (p - 1)) = i + 1
      BY <1>1, <2>3
    <3>2. t[i] = b[i - (p - 1)]
      BY <1>1, <1>2, <1>3, <1>4, <2>3
    <3> QED BY <1>3, <3>1, <3>2
  <2> QED BY <2>1, <2>2, <2>3
<1> DEFINE at(i) == IF i < p THEN i ELSE i + 1
<1>9. \A i \in 1 .. L - 1 : at(i) \in 1 .. L /\ at(i) # p /\ t[i] = r[at(i)]
  BY <1>1, <1>5
<1>10. \A i, j \in 1 .. L - 1 : at(i) = at(j) => i = j
  BY <1>1
<1> HIDE DEF at
<1>6. Distinct(t)
  <2>1. SUFFICES ASSUME NEW m \in 1 .. L - 1, NEW n \in 1 .. L - 1, t[m] = t[n]
                 PROVE  m = n
    BY <1>5 DEF Distinct
  <2>2. at(m) = at(n)
    BY <1>1, <1>9, <2>1 DEF Distinct
  <2> QED BY <1>10, <2>2
<1>7. ~Holds(t, r[p])
  <2>1. SUFFICES ASSUME NEW n \in 1 .. L - 1, t[n] = r[p] PROVE FALSE
    BY <1>5 DEF Holds
  <2>2. at(n) = p
    BY <1>1, <1>9, <2>1 DEF Distinct
  <2> QED BY <1>9, <2>2
<1>8. ASSUME NEW y \in Sessions, y # r[p]
      PROVE  Holds(t, y) <=> Holds(r, y)
  <2>1. ASSUME Holds(r, y) PROVE Holds(t, y)
    <3>1. PICK n \in 1 .. L : r[n] = y
      BY <1>1, <2>1 DEF Holds
    <3>2. CASE n < p
      BY <1>1, <1>5, <3>1, <3>2 DEF Holds
    <3>3. CASE n > p
      <4>1. n - 1 \in 1 .. L - 1 /\ t[n - 1] = r[n]
        BY <1>1, <1>5, <3>1, <3>3
      <4> QED BY <1>5, <3>1, <4>1 DEF Holds
    <3> QED BY <1>1, <1>8, <3>1, <3>2, <3>3
  <2>2. ASSUME Holds(t, y) PROVE Holds(r, y)
    BY <1>1, <1>5, <2>2 DEF Holds
  <2> QED BY <2>1, <2>2
<1> QED BY <1>4, <1>6, <1>7, <1>8 DEF Removed, t, a, b, L

LEMMA PushAdds ==
  ASSUME NEW r \in Seq(Sessions), Distinct(r), NEW x \in Sessions, ~Holds(r, x)
  PROVE  /\ <<x>> \o r \in Seq(Sessions) /\ Distinct(<<x>> \o r) /\ <<x>> \o r # <<>>
         /\ \A y \in Sessions : Holds(<<x>> \o r, y) <=> y = x \/ Holds(r, y)
<1> DEFINE a == <<x>>
           t == a \o r
           L == Len(r)
<1>1. L \in Nat /\ DOMAIN r = 1 .. L
  BY LenProperties
<1>2. a \in Seq(Sessions) /\ Len(a) = 1 /\ a[1] = x
  OBVIOUS
<1> HIDE DEF a
<1>3. /\ t \in Seq(Sessions) /\ Len(t) = Len(a) + Len(r)
      /\ \A i \in 1 .. Len(a) + Len(r) :
            t[i] = IF i <= Len(a) THEN a[i] ELSE r[i - Len(a)]
  BY <1>2, ConcatProperties
<1> HIDE DEF t, L
<1>4. /\ DOMAIN t = 1 .. L + 1 /\ t[1] = x /\ Len(t) = L + 1
      /\ \A i \in 2 .. L + 1 : t[i] = r[i - 1]
  BY <1>1, <1>2, <1>3, LenProperties DEF L
<1>5. t # <<>>
  BY <1>1, <1>3, <1>4, EmptySeq
<1>6. Distinct(t)
  <2>1. SUFFICES ASSUME NEW m \in 1 .. L + 1, NEW n \in 1 .. L + 1, t[m] = t[n]
                 PROVE  m = n
    BY <1>4 DEF Distinct
  <2>2. \A i \in 1 .. L + 1 : i # 1 => i - 1 \in 1 .. L /\ t[i] = r[i - 1] /\ t[i] # x
    <3>1. SUFFICES ASSUME NEW i \in 1 .. L + 1, i # 1
                   PROVE  i - 1 \in 1 .. L /\ t[i] = r[i - 1] /\ t[i] # x
      OBVIOUS
    <3>2. i - 1 \in 1 .. L /\ i \in 2 .. L + 1
      BY <1>1, <3>1
    <3> QED BY <1>1, <1>4, <3>2 DEF Holds
  <2>3. CASE m # 1 /\ n # 1
    <3>1. m - 1 = n - 1
      BY <1>1, <2>1, <2>2, <2>3 DEF Distinct
    <3> QED BY <1>1, <3>1
  <2>4. CASE m = 1 \/ n = 1
    BY <1>4, <2>1, <2>2, <2>4
  <2> QED BY <2>3, <2>4
<1>7. ASSUME NEW y \in Sessions PROVE Holds(t, y) <=> y = x \/ Holds(r, y)
  <2>1. ASSUME Holds(r, y) PROVE Holds(t, y)
    <3>1. PICK n \in 1 .. L : r[n] = y
      BY <1>1, <2>1 DEF Holds
    <3>2. n + 1 \in 2 .. L + 1 /\ t[n + 1] = y /\ n + 1 \in 1 .. L + 1
      <4>1. n + 1 \in 2 .. L + 1 /\ n + 1 \in 1 .. L + 1 /\ (n + 1) - 1 = n
        BY <1>1, <3>1
      <4> QED BY <1>4, <3>1, <4>1
    <3> QED BY <1>4, <3>2 DEF Holds
  <2>2. ASSUME y = x PROVE Holds(t, y)
    BY <1>1, <1>4, <2>2 DEF Holds
  <2>3. ASSUME Holds(t, y) PROVE y = x \/ Holds(r, y)
    <3>1. PICK n \in 1 .. L + 1 : t[n] = y
      BY <1>4, <2>3 DEF Holds
    <3>2. CASE n = 1
      BY <1>4, <3>1, <3>2
    <3>3. CASE n # 1
      <4>1. n \in 2 .. L + 1 /\ n - 1 \in 1 .. L
        BY <1>1, <3>1, <3>3
      <4> QED BY <1>1, <1>4, <3>1, <4>1 DEF Holds
    <3> QED BY <3>2, <3>3
  <2> QED BY <2>1, <2>2, <2>3
<1> QED BY <1>3, <1>5, <1>6, <1>7 DEF t, a

------------------------------------------------------------------------------
(* The records the steps assign *)

LEMMA PacketFields ==
  ASSUME NEW t \in TaskStates, NEW x \in Sessions
  PROVE  LET s == [t EXCEPT !.at = "packet", !.x = {x}]
         IN  s \in TaskStates /\ s.at = "packet" /\ s.todo = t.todo /\ s.now = t.now
BY DEF TaskStates

LEMMA PassFields ==
  ASSUME NEW t \in TaskStates
  PROVE  LET s == [t EXCEPT !.at = "pass"]
         IN  s \in TaskStates /\ s.at = "pass" /\ s.todo = t.todo /\ s.now = t.now
BY DEF TaskStates

LEMMA CallbackFields ==
  ASSUME NEW t \in TaskStates, NEW e \in Events
  PROVE  LET s == [t EXCEPT !.at = "callback", !.now = {e}, !.todo = @ \ {e}]
         IN  s \in TaskStates /\ s.at = "callback" /\ s.todo = t.todo \ {e} /\ s.now = {e}
BY DEF TaskStates

LEMMA InsertFields ==
  ASSUME NEW x \in Sessions
  PROVE  LET s == [Idle EXCEPT !.at = "insert", !.x = {x}]
         IN  s \in Callers /\ s.at = "insert" /\ s.x = {x}
BY DEF Idle, Callers

LEMMA UnlinkFields ==
  ASSUME NEW x \in Sessions, NEW h \in Sessions
  PROVE  LET s == [Idle EXCEPT !.at = "unlink", !.x = {x}, !.head = {h}]
         IN  s \in Callers /\ s.at = "unlink" /\ s.x = {x} /\ s.head = {h}
BY DEF Idle, Callers

LEMMA PlaceFields ==
  ASSUME NEW r \in Callers, NEW a \in {"drain", "reap", "free"}
  PROVE  LET s == [r EXCEPT !.at = a]
         IN  s \in Callers /\ s.at = a /\ s.x = r.x /\ s.last = r.last
BY DEF Callers

\* What the control task's record becomes, when there is one such task.
LEMMA ControlSet ==
  ASSUME OneControl, control \in [Controls -> Callers], NEW c \in Controls,
         NEW r \in Callers, control' = [control EXCEPT ![c] = r]
  PROVE  /\ control' \in [Controls -> Callers] /\ control'[c] = r
         /\ \A d \in Controls : d = c
BY DEF OneControl

\* Without a step of the control task its call stays where it is.
LEMMA AtOne ==
  ASSUME NEW c \in Controls, \A d \in Controls : d = c
  PROVE  /\ \A x, places : At(x, places) <=> control[c].at \in places /\ control[c].x = {x}
         /\ \A x, places : At(x, places)' <=> control'[c].at \in places /\ control'[c].x = {x}
BY DEF At

------------------------------------------------------------------------------
(* What a step leaves alone *)

LEMMA KeepCalls ==
  ASSUME Calls, UNCHANGED <<control, life>>
  PROVE  Calls'
BY DEF Calls

LEMMA KeepList ==
  ASSUME ListSound, CallerKnows, UNCHANGED <<list, life, control>>
  PROVE  ListSound' /\ CallerKnows'
BY DEF ListSound, CallerKnows, Listed, At

LEMMA KeepServes ==
  ASSUME TaskServes, UNCHANGED <<list, running, control>>, running
  PROVE  TaskServes'
BY DEF TaskServes

LEMMA KeepReservations ==
  ASSUME Reservations, UNCHANGED <<list, control, tx, pending, inflight>>
  PROVE  Reservations'
BY DEF Reservations, Listed, At, Due, ReservedFor, RunningFor

\* Events may leave the transmit task, never join it, and then nothing about
\* the places of a transfer goes wrong.
LEMMA KeepReports ==
  ASSUME Reports, UNCHANGED <<told, slot, begun, control>>, Due' \subseteq Due
  PROVE  Reports'
BY DEF Reports, OnePlace, Dropping

------------------------------------------------------------------------------
(* The application and the transport adapter *)

LEMMA StartSendStep ==
  ASSUME IInv, NEW x \in Sessions, NEW k \in Transfers, StartSend(x, k)
  PROVE  IInv'
<1> USE TransfersAreNumbers
<1>1. TypeOK'
  BY DEF IInv, TypeOK, StartSend
<1>2. Calls' /\ ListSound' /\ CallerKnows' /\ Reservations'
  BY KeepCalls, KeepList, KeepReservations DEF IInv, StartSend
<1>3. TaskServes'
  BY DEF IInv, StartSend, TaskServes
<1>4. Reports'
  <2>1. k \notin begun[x]
    BY DEF StartSend
  <2>2. SUFFICES ASSUME NEW y \in Sessions, NEW j \in Transfers PROVE OnePlace(y, j)'
    BY DEF Reports
  <2>3. OnePlace(y, j)
    BY DEF IInv, Reports
  <2>4. /\ UNCHANGED <<told, tx, control>>
        /\ slot \in [Sessions -> [Transfers -> {"free", "active", "completed"}]]
        /\ begun \in [Sessions -> SUBSET Transfers]
        /\ slot' = [slot EXCEPT ![x][k] = "active"]
        /\ begun' = [begun EXCEPT ![x] = @ \cup {k}]
    BY DEF IInv, TypeOK, StartSend
  <2>5. CASE y = x /\ j = k
    BY <2>1, <2>3, <2>4, <2>5 DEF OnePlace, Dropping, Due
  <2>6. CASE ~(y = x /\ j = k)
    <3>1. slot'[y][j] = slot[y][j] /\ (j \in begun'[y] <=> j \in begun[y])
      BY <2>4, <2>6
    <3> QED BY <2>3, <2>4, <3>1 DEF OnePlace, Dropping, Due
  <2> QED BY <2>5, <2>6
<1> QED BY <1>1, <1>2, <1>3, <1>4 DEF IInv

LEMMA FeedStep ==
  ASSUME IInv, NEW x \in Sessions, Feed(x)
  PROVE  IInv'
<1>1. TypeOK'
  <2>1. Append(queue, x) \in Seq(Sessions) /\ Len(Append(queue, x)) = Len(queue) + 1
    BY AppendProperties DEF IInv, TypeOK
  <2>2. Len(queue) \in Nat /\ QueueCap \in Nat
    BY SessionConstants, LenProperties DEF IInv, TypeOK
  <2> QED BY <2>1, <2>2 DEF IInv, TypeOK, Feed, sessionVars
<1>2. Calls' /\ ListSound' /\ CallerKnows' /\ Reservations' /\ TaskServes'
  BY KeepCalls, KeepList, KeepReservations, KeepServes DEF IInv, Feed, sessionVars
<1>3. Reports'
  BY KeepReports DEF IInv, Feed, sessionVars, Due
<1> QED BY <1>1, <1>2, <1>3 DEF IInv

------------------------------------------------------------------------------
(* The transmit task *)

LEMMA NothingDue ==
  ASSUME TypeOK, Reservations, tx.at \notin {"report", "callback"}
  PROVE  /\ tx.todo = {} /\ tx.now = {} /\ Due = {}
         /\ \A x \in Sessions : pending[x] = 0 /\ inflight[x] = 0
<1>1. tx.todo = {} /\ tx.now = {} /\ Due = {}
  BY DEF Reservations, Due
<1>2. \A x : ReservedFor(x) = {} /\ RunningFor(x) = {}
  BY <1>1 DEF ReservedFor, RunningFor
<1> QED BY <1>1, <1>2, FS_EmptySet DEF Reservations

\* When the task sets out to report events of listed sessions, each reserved
\* with its session, the counters count them.
LEMMA FreshlyDue ==
  ASSUME TypeOK, Reservations, tx.at \notin {"report", "callback"},
         NEW todo \in SUBSET Events, tx' = Reporting(todo),
         \A x \in Sessions : pending'[x] = Cardinality({e \in todo : e.x = x}),
         \A e \in todo : Listed(e.x),
         UNCHANGED <<list, control, inflight>>
  PROVE  Reservations' /\ Due' = todo
<1>1. /\ tx'.todo = todo /\ tx'.now = {}
      /\ tx'.at = IF todo = {} THEN "wait" ELSE "report"
  BY ReportingFields
<1>2. \A x \in Sessions : inflight'[x] = 0
  BY NothingDue
<1>3. \A x : RunningFor(x)' = {} /\ ReservedFor(x)' = {e \in todo : e.x = x}
  BY <1>1 DEF RunningFor, ReservedFor
<1>4. Due' = todo
  BY <1>1 DEF Due
<1>5. \A e \in todo : Listed(e.x)'
  BY DEF Listed
<1> QED BY <1>1, <1>2, <1>3, <1>4, <1>5, FS_EmptySet DEF Reservations

LEMMA TakePacketStep ==
  ASSUME IInv, TakePacket
  PROVE  IInv'
<1>1. Head(queue) \in Sessions /\ Tail(queue) \in Seq(Sessions) /\ Len(Tail(queue)) <= QueueCap
  <2>1. queue # <<>> /\ queue \in Seq(Sessions) /\ Len(queue) <= QueueCap /\ QueueCap \in Nat
    BY SessionConstants DEF IInv, TypeOK, TakePacket
  <2>2. Len(queue) \in Nat
    BY <2>1, LenProperties
  <2> QED BY <2>1, <2>2, HeadTailProperties
<1>2. /\ tx' \in TaskStates /\ tx'.at = "packet" /\ tx'.todo = tx.todo /\ tx'.now = tx.now
  BY <1>1, PacketFields DEF IInv, TypeOK, TakePacket
<1>3. TypeOK'
  BY <1>1, <1>2 DEF IInv, TypeOK, TakePacket, sessionVars
<1>4. Calls' /\ ListSound' /\ CallerKnows'
  BY KeepCalls, KeepList DEF IInv, TakePacket, sessionVars
<1>5. TaskServes'
  BY <1>2, KeepServes DEF IInv, TakePacket, TaskServes
<1>6. Reservations'
  BY <1>2, NothingDue
     DEF IInv, TakePacket, Reservations, Due, ReservedFor, RunningFor, Listed, At, sessionVars
<1>7. Reports'
  BY <1>2, KeepReports DEF IInv, TakePacket, sessionVars, Due
<1> QED BY <1>3, <1>4, <1>5, <1>6, <1>7 DEF IInv

LEMMA BeginPassStep ==
  ASSUME IInv, BeginPass
  PROVE  IInv'
<1>1. /\ tx' \in TaskStates /\ tx'.at = "pass" /\ tx'.todo = tx.todo /\ tx'.now = tx.now
  BY PassFields DEF IInv, TypeOK, BeginPass
<1>2. TypeOK'
  BY <1>1 DEF IInv, TypeOK, BeginPass, sessionVars
<1>3. Calls' /\ ListSound' /\ CallerKnows'
  BY KeepCalls, KeepList DEF IInv, BeginPass, sessionVars
<1>4. TaskServes'
  BY KeepServes DEF IInv, BeginPass
<1>5. Reservations'
  BY <1>1, NothingDue
     DEF IInv, BeginPass, Reservations, Due, ReservedFor, RunningFor, Listed, At, sessionVars
<1>6. Reports'
  BY <1>1, KeepReports DEF IInv, BeginPass, sessionVars, Due
<1> QED BY <1>2, <1>3, <1>4, <1>5, <1>6 DEF IInv

\* One transfer's slot goes from active to completed.
LEMMA CompletedInPlace ==
  ASSUME TypeOK, Reports, NEW x \in Sessions, NEW k \in Transfers,
         slot[x][k] = "active", slot' = [slot EXCEPT ![x][k] = "completed"],
         UNCHANGED <<told, begun, control>>,
         \A e \in Completions : e \notin Due'
  PROVE  Reports'
<1>1. SUFFICES ASSUME NEW y \in Sessions, NEW j \in Transfers PROVE OnePlace(y, j)'
  BY DEF Reports
<1>2. slot'[y][j] = "free" <=> slot[y][j] = "free"
  BY DEF TypeOK
<1>3. Completion(y, j) \notin Due'
  BY EventFields
<1> QED BY <1>2, <1>3 DEF Reports, OnePlace, Dropping

LEMMA HandlePacketStep ==
  ASSUME IInv, NEW x \in Sessions, HandlePacket(x)
  PROVE  IInv'
<1>1. /\ tx.at = "packet" /\ running /\ Due = {} /\ tx.todo = {} /\ tx.now = {}
      /\ \A y \in Sessions : pending[y] = 0
      /\ UNCHANGED <<list, life, destroying, inflight, begun, told, queue, running, mutex,
                   control>>
  BY NothingDue DEF IInv, HandlePacket
<1>2. Calls' /\ ListSound' /\ CallerKnows' /\ TaskServes'
  BY <1>1, KeepCalls, KeepList, KeepServes DEF IInv
<1>3. CASE tx' = Resting /\ UNCHANGED <<pending, slot>>
  <2>1. Resting = Reporting({}) /\ {} \in SUBSET Events
    BY DEF Reporting
  <2>2. \A y \in Sessions : pending'[y] = Cardinality({e \in {} : e.x = y})
    <3>1. \A y : {e \in {} : e.x = y} = {}
      OBVIOUS
    <3> QED BY <1>1, <1>3, <3>1, FS_EmptySet
  <2>3. Reservations' /\ Due' = {}
    <3> DEFINE E == {}
    <3>1. E \in SUBSET Events /\ tx' = Reporting(E) /\ E = {}
          /\ \A y \in Sessions : pending'[y] = Cardinality({e \in E : e.x = y})
      BY <1>3, <2>1, <2>2
    <3> HIDE DEF E
    <3> QED BY <1>1, <3>1, FreshlyDue DEF IInv
  <2>4. TypeOK'
    BY <1>1, <1>3, ReportingType DEF IInv, TypeOK
  <2>5. Reports'
    BY <1>1, <1>3, <2>3, KeepReports DEF IInv
  <2> QED BY <1>2, <2>3, <2>4, <2>5 DEF IInv
<1>4. ASSUME Listed(x), NEW n \in {0, 1},
             \/ UNCHANGED slot
             \/ \E k \in Transfers :
                    /\ slot[x][k] = "active"
                    /\ slot' = [slot EXCEPT ![x][k] = "completed"],
             pending' = [pending EXCEPT ![x] = @ + n],
             tx' = Reporting({Happening(x) : m \in 1 .. n})
      PROVE  IInv'
  <2> DEFINE todo == {Happening(x) : m \in 1 .. n}
  <2>1. /\ todo \in SUBSET Events /\ tx' = Reporting(todo)
        /\ \A e \in todo : e = Happening(x)
        /\ n = 0 => todo = {} 
        /\ n = 1 => todo = {Happening(x)}
    BY <1>4, EventFields
  <2> HIDE DEF todo
  <2>2. \A y \in Sessions : pending'[y] = Cardinality({e \in todo : e.x = y})
    <3>1. SUFFICES ASSUME NEW y \in Sessions
                   PROVE  pending'[y] = Cardinality({e \in todo : e.x = y})
      OBVIOUS
    <3>2. pending'[y] = IF y = x /\ n = 1 THEN 1 ELSE 0
      BY <1>1, <1>4 DEF IInv, TypeOK
    <3>3. {e \in todo : e.x = y} = IF y = x /\ n = 1 THEN {Happening(x)} ELSE {}
      BY <1>4, <2>1, EventFields
    <3> QED BY <3>2, <3>3, FS_EmptySet, FS_Singleton
  <2>3. \A e \in todo : Listed(e.x)
    BY <1>4, <2>1, EventFields
  <2>4. Reservations' /\ Due' = todo
    BY <1>1, <2>1, <2>2, <2>3, FreshlyDue DEF IInv
  <2>5. TypeOK'
    <3>1. tx' \in TaskStates /\ pending' \in [Sessions -> Nat]
      BY <1>4, <2>1, ReportingType DEF IInv, TypeOK
    <3>2. slot' \in [Sessions -> [Transfers -> {"free", "active", "completed"}]]
      <4>1. CASE UNCHANGED slot
        BY <4>1 DEF IInv, TypeOK
      <4>2. ASSUME NEW k \in Transfers, slot' = [slot EXCEPT ![x][k] = "completed"]
            PROVE  slot' \in [Sessions -> [Transfers -> {"free", "active", "completed"}]]
        BY <4>2 DEF IInv, TypeOK
      <4> QED BY <1>4, <4>1, <4>2
    <3> QED BY <1>1, <3>1, <3>2 DEF IInv, TypeOK
  <2>6. \A e \in Completions : e \notin Due'
    BY <2>1, <2>4, EventFields
  <2>7. Reports'
    <3>1. CASE UNCHANGED slot
      BY <1>1, <2>6, <3>1, EventFields DEF IInv, Reports, OnePlace, Dropping
    <3>2. CASE ~UNCHANGED slot
      <4>1. PICK k \in Transfers : /\ slot[x][k] = "active"
                                   /\ slot' = [slot EXCEPT ![x][k] = "completed"]
        BY <1>4, <3>2
      <4> QED BY <1>1, <2>6, <4>1, CompletedInPlace DEF IInv
    <3> QED BY <3>1, <3>2
  <2> QED BY <1>2, <2>4, <2>5, <2>7 DEF IInv
<1>5. \/ tx' = Resting /\ UNCHANGED <<pending, slot>>
      \/ /\ Listed(x)
         /\ \/ UNCHANGED slot
            \/ \E k \in Transfers :
                    /\ slot[x][k] = "active"
                    /\ slot' = [slot EXCEPT ![x][k] = "completed"]
         /\ \E n \in {0, 1} :
                /\ pending' = [pending EXCEPT ![x] = @ + n]
                /\ tx' = Reporting({Happening(x) : m \in 1 .. n})
  BY DEF HandlePacket
<1> QED BY <1>3, <1>4, <1>5

LEMMA EndPassStep ==
  ASSUME IInv, EndPass
  PROVE  IInv'
<1>1. /\ tx.at = "pass" /\ running /\ Due = {} /\ tx.todo = {} /\ tx.now = {}
      /\ \A y \in Sessions : pending[y] = 0
      /\ UNCHANGED <<list, life, destroying, inflight, begun, told, queue, running, control>>
      /\ mutex' = Nobody
  BY NothingDue DEF IInv, EndPass
<1>2. PICK late \in SUBSET Started, more \in SUBSET {x \in Sessions : Listed(x)} :
        LET done  == Ended \cup late
            heard == {e \in done : ~destroying[e.x]}
        IN  \E kept \in SUBSET heard :
            LET todo == kept \cup {Happening(x) : x \in {y \in more : ~destroying[y]}}
            IN  /\ slot' = [x \in Sessions |-> [k \in Transfers |->
                              IF Completion(x, k) \in done THEN "free" ELSE slot[x][k]]]
                /\ pending' = [x \in Sessions |->
                      pending[x] + Cardinality({e \in todo : e.x = x})]
                /\ tx' = Reporting(todo)
  BY DEF EndPass
<1> DEFINE done == Ended \cup late
<1>3. PICK kept \in SUBSET {e \in done : ~destroying[e.x]} :
            LET todo == kept \cup {Happening(x) : x \in {y \in more : ~destroying[y]}}
            IN  /\ slot' = [x \in Sessions |-> [k \in Transfers |->
                              IF Completion(x, k) \in done THEN "free" ELSE slot[x][k]]]
                /\ pending' = [x \in Sessions |->
                      pending[x] + Cardinality({e \in todo : e.x = x})]
                /\ tx' = Reporting(todo)
  BY <1>2
<1> DEFINE heard == {Happening(x) : x \in {y \in more : ~destroying[y]}}
           todo == kept \cup heard
<1>4. /\ done \subseteq Completions
      /\ \A e \in done : Listed(e.x) /\ slot[e.x][e.k] # "free"
  BY <1>2 DEF Ended, Started
<1>5. /\ heard \in SUBSET Events
      /\ \A e \in heard : Listed(e.x) /\ e \notin Completions
  BY <1>2, EventFields
<1>6. /\ slot' = [x \in Sessions |-> [k \in Transfers |->
                    IF Completion(x, k) \in done THEN "free" ELSE slot[x][k]]]
      /\ pending' = [x \in Sessions |-> pending[x] + Cardinality({e \in todo : e.x = x})]
      /\ tx' = Reporting(todo)
      /\ kept \subseteq done
  BY <1>3
<1> HIDE DEF done, heard
<1>7. todo \in SUBSET Events /\ \A e \in todo : Listed(e.x)
  BY <1>4, <1>5, <1>6, EventFields
<1>8. \A e \in Completions : e \in todo => e \in done
  BY <1>5, <1>6
<1> HIDE DEF todo
<1>9. \A x \in Sessions : Cardinality({e \in todo : e.x = x}) \in Nat
  BY <1>7, EventsFinite, FS_Subset, FS_CardinalityType
<1>10. \A x \in Sessions : pending'[x] = Cardinality({e \in todo : e.x = x})
  BY <1>1, <1>6, <1>9
<1>11. Reservations' /\ Due' = todo
  BY <1>1, <1>6, <1>7, <1>10, FreshlyDue DEF IInv
<1>12. TypeOK'
  <2>1. pending' \in [Sessions -> Nat]
    BY <1>1, <1>6, <1>9
  <2>2. tx' \in TaskStates
    BY <1>6, <1>7, ReportingType
  <2>3. slot' \in [Sessions -> [Transfers -> {"free", "active", "completed"}]]
    BY <1>6 DEF IInv, TypeOK
  <2> QED BY <1>1, <2>1, <2>2, <2>3 DEF IInv, TypeOK
<1>13. Calls' /\ ListSound' /\ CallerKnows' /\ TaskServes'
  BY <1>1, KeepCalls, KeepList, KeepServes DEF IInv
<1>14. Reports'
  <2>1. SUFFICES ASSUME NEW x \in Sessions, NEW k \in Transfers PROVE OnePlace(x, k)'
    BY DEF Reports
  <2>2. OnePlace(x, k)
    BY DEF IInv, Reports
  <2>3. Completion(x, k) \in Completions /\ Completion(x, k).x = x /\ Completion(x, k).k = k
    BY EventFields
  <2>4. UNCHANGED <<told, begun, control>> /\ told[x][k] \in Nat
    BY <1>1 DEF IInv, TypeOK
  <2>5. CASE Completion(x, k) \in done
    <3>1. slot[x][k] # "free" /\ slot'[x][k] = "free"
      BY <1>4, <1>6, <2>3, <2>5
    <3>2. k \in begun[x] /\ told[x][k] # 1 /\ told[x][k] <= 1 /\ ~Dropping(x, k)
      BY <2>2, <3>1 DEF OnePlace
    <3>3. told'[x][k] = 0 /\ k \in begun'[x] /\ ~Dropping(x, k)'
      BY <2>4, <3>2 DEF Dropping
    <3> QED BY <3>1, <3>3 DEF OnePlace
  <2>6. CASE Completion(x, k) \notin done
    <3>1. slot'[x][k] = slot[x][k] /\ Completion(x, k) \notin Due'
      BY <1>6, <1>8, <1>11, <2>3, <2>6
    <3> QED BY <2>2, <2>4, <3>1 DEF OnePlace, Dropping
  <2> QED BY <2>5, <2>6
<1> QED BY <1>11, <1>12, <1>13, <1>14 DEF IInv

LEMMA BeginCallbackStep ==
  ASSUME IInv, NEW e \in Events, BeginCallback(e)
  PROVE  IInv'
<1>1. /\ tx.at = "report" /\ running /\ e \in tx.todo /\ tx.now = {} /\ Due = tx.todo
      /\ tx.todo \in SUBSET Events /\ tx \in TaskStates
      /\ UNCHANGED <<list, life, destroying, slot, begun, told, queue, running, mutex, control>>
      /\ pending \in [Sessions -> Nat] /\ inflight \in [Sessions -> Nat] /\ e.x \in Sessions
  BY EventFields DEF IInv, Reservations, BeginCallback, Due, TypeOK, TaskStates
<1>2. /\ tx' \in TaskStates /\ tx'.todo = tx.todo \ {e}
      /\ \/ tx'.now = {} /\ tx'.at # "callback" /\ inflight' = inflight
            /\ (tx'.at # "report" => tx'.todo = {})
         \/ /\ tx'.now = {e} /\ tx'.at = "callback"
            /\ inflight' = [inflight EXCEPT ![e.x] = @ + 1]
  <2>1. CASE destroying[e.x]
    <3>1. tx' = Reporting(tx.todo \ {e}) /\ inflight' = inflight
      BY <2>1 DEF BeginCallback
    <3>2. tx.todo \ {e} \in SUBSET Events
      BY <1>1
    <3> QED BY <3>1, <3>2, ReportingFields, ReportingType
  <2>2. CASE ~destroying[e.x]
    <3>1. /\ tx' = [tx EXCEPT !.at = "callback", !.now = {e}, !.todo = @ \ {e}]
          /\ inflight' = [inflight EXCEPT ![e.x] = @ + 1]
      BY <2>2 DEF BeginCallback
    <3> QED BY <1>1, <3>1, CallbackFields
  <2> QED BY <2>1, <2>2
<1>3. \A x \in Sessions : pending[x] = Cardinality(ReservedFor(x)) /\ IsFiniteSet(ReservedFor(x))
  <2>1. \A x : ReservedFor(x) \subseteq Events
    BY <1>1 DEF ReservedFor
  <2> QED BY <2>1, EventsFinite, FS_Subset DEF IInv, Reservations
<1>4. pending' = [pending EXCEPT ![e.x] = IF @ > 0 THEN @ - 1 ELSE 0]
  BY DEF BeginCallback
<1>5. \A x \in Sessions : pending'[x] = Cardinality(ReservedFor(x)')
  <2>1. SUFFICES ASSUME NEW x \in Sessions PROVE pending'[x] = Cardinality(ReservedFor(x)')
    OBVIOUS
  <2>2. CASE x = e.x
    <3>1. e \in ReservedFor(x) /\ ReservedFor(x)' = ReservedFor(x) \ {e}
      BY <1>1, <1>2, <2>2 DEF ReservedFor
    <3>2. Cardinality(ReservedFor(x) \ {e}) = Cardinality(ReservedFor(x)) - 1
          /\ Cardinality(ReservedFor(x) \ {e}) \in Nat
      BY <1>3, <3>1, FS_RemoveElement, FS_CardinalityType
    <3>3. pending[x] > 0 /\ pending'[x] = pending[x] - 1
      BY <1>1, <1>3, <1>4, <2>2, <3>2
    <3> QED BY <1>3, <3>1, <3>2, <3>3
  <2>3. CASE x # e.x
    <3>1. ReservedFor(x)' = ReservedFor(x)
      BY <1>2, <2>3 DEF ReservedFor
    <3> QED BY <1>1, <1>3, <1>4, <2>3, <3>1
  <2> QED BY <2>2, <2>3
<1>6. \A x \in Sessions : inflight[x] = 0
  <2>1. \A x : RunningFor(x) = {}
    BY <1>1 DEF RunningFor
  <2> QED BY <2>1, FS_EmptySet DEF IInv, Reservations
<1>7. \A x \in Sessions : inflight'[x] = Cardinality(RunningFor(x)')
  <2>1. SUFFICES ASSUME NEW x \in Sessions PROVE inflight'[x] = Cardinality(RunningFor(x)')
    OBVIOUS
  <2>2. CASE tx'.now = {}
    <3>1. RunningFor(x)' = {}
      BY <2>2 DEF RunningFor
    <3> QED BY <1>2, <1>6, <2>2, <3>1, FS_EmptySet
  <2>3. CASE tx'.now = {e} /\ inflight' = [inflight EXCEPT ![e.x] = @ + 1]
    <3>1. RunningFor(x)' = IF x = e.x THEN {e} ELSE {}
      BY <2>3 DEF RunningFor
    <3>2. inflight'[x] = IF x = e.x THEN 1 ELSE 0
      BY <1>1, <1>6, <2>3
    <3> QED BY <3>1, <3>2, FS_EmptySet, FS_Singleton
  <2> QED BY <1>2, <2>2, <2>3
<1>8. Due' \subseteq Due
  BY <1>1, <1>2 DEF Due
<1>9. Reservations'
  <2>1. \A d \in Due' : Listed(d.x)' \/ At(d.x, Waiting)'
    BY <1>1, <1>8 DEF IInv, Reservations, Listed, At
  <2> QED BY <1>1, <1>2, <1>5, <1>7, <2>1 DEF Reservations
<1>10. TypeOK'
  <2>1. pending' \in [Sessions -> Nat] /\ inflight' \in [Sessions -> Nat]
    BY <1>1, <1>2, <1>4
  <2> QED BY <1>1, <1>2, <2>1 DEF IInv, TypeOK
<1>11. Calls' /\ ListSound' /\ CallerKnows' /\ TaskServes'
  BY <1>1, KeepCalls, KeepList, KeepServes DEF IInv
<1>12. Reports'
  BY <1>1, <1>8, KeepReports DEF IInv
<1> QED BY <1>9, <1>10, <1>11, <1>12 DEF IInv

LEMMA EndCallbackStep ==
  ASSUME IInv, NEW e \in Events, EndCallback(e)
  PROVE  IInv'
<1>1. /\ tx.at = "callback" /\ running /\ tx.now = {e} /\ Due = tx.todo \cup {e}
      /\ e \notin tx.todo /\ tx.todo \in SUBSET Events
      /\ UNCHANGED <<list, life, destroying, pending, slot, begun, queue, running, mutex, control>>
      /\ inflight \in [Sessions -> Nat] /\ e.x \in Sessions
      /\ told \in [Sessions -> [Transfers -> Nat]]
  BY EventFields DEF IInv, Reservations, EndCallback, Due, TypeOK, TaskStates
<1>2. /\ tx' \in TaskStates /\ tx'.todo = tx.todo /\ tx'.now = {} /\ tx'.at # "callback"
      /\ (tx'.at # "report" => tx'.todo = {})
  BY <1>1, ReportingFields, ReportingType DEF EndCallback
<1>3. \A x \in Sessions : inflight[x] = IF x = e.x THEN 1 ELSE 0
  <2>1. \A x : RunningFor(x) = IF x = e.x THEN {e} ELSE {}
    BY <1>1 DEF RunningFor
  <2> QED BY <2>1, FS_EmptySet, FS_Singleton DEF IInv, Reservations
<1>4. inflight' = [inflight EXCEPT ![e.x] = IF @ > 0 THEN @ - 1 ELSE 0]
  BY DEF EndCallback
<1>5. \A x \in Sessions : inflight'[x] = Cardinality(RunningFor(x)')
  <2>1. \A x : RunningFor(x)' = {}
    BY <1>2 DEF RunningFor
  <2>2. \A x \in Sessions : inflight'[x] = 0
    BY <1>1, <1>3, <1>4
  <2> QED BY <2>1, <2>2, FS_EmptySet
<1>6. Due' = tx.todo /\ Due' \subseteq Due
  BY <1>1, <1>2 DEF Due
<1>7. Reservations'
  <2>1. \A d \in Due' : Listed(d.x)' \/ At(d.x, Waiting)'
    BY <1>1, <1>6 DEF IInv, Reservations, Listed, At
  <2>2. \A x \in Sessions : pending'[x] = Cardinality(ReservedFor(x)')
    BY <1>1, <1>2 DEF IInv, Reservations, ReservedFor
  <2> QED BY <1>1, <1>2, <1>5, <2>1, <2>2 DEF Reservations
<1>8. told' = IF e \in Completions THEN [told EXCEPT ![e.x][e.k] = @ + 1] ELSE told
  BY DEF EndCallback
<1>9. TypeOK'
  <2>1. inflight' \in [Sessions -> Nat]
    BY <1>1, <1>4
  <2>2. told' \in [Sessions -> [Transfers -> Nat]]
    BY <1>1, <1>8, EventFields
  <2> QED BY <1>1, <1>2, <2>1, <2>2 DEF IInv, TypeOK
<1>10. Calls' /\ ListSound' /\ CallerKnows' /\ TaskServes'
  BY <1>1, KeepCalls, KeepList, KeepServes DEF IInv
<1>11. Reports'
  <2>1. SUFFICES ASSUME NEW x \in Sessions, NEW k \in Transfers PROVE OnePlace(x, k)'
    BY DEF Reports
  <2>2. OnePlace(x, k)
    BY DEF IInv, Reports
  <2>3. CASE e = Completion(x, k)
    <3>1. e \in Completions /\ e.x = x /\ e.k = k
      BY <2>3, EventFields
    <3>2. told[x][k] = 0 /\ told'[x][k] = 1
      BY <1>1, <1>8, <2>2, <2>3, <3>1 DEF OnePlace
    <3>3. k \in begun[x] /\ slot[x][k] = "free" /\ ~Dropping(x, k)
      BY <1>1, <2>2, <2>3 DEF OnePlace
    <3>4. e \notin Due'
      BY <1>1, <1>6
    <3> QED BY <1>1, <2>3, <3>2, <3>3, <3>4 DEF OnePlace, Dropping
  <2>4. CASE e # Completion(x, k)
    <3>1. told'[x][k] = told[x][k]
      BY <1>1, <1>8, <2>4, EventFields
    <3> QED BY <1>1, <1>6, <2>2, <3>1 DEF OnePlace, Dropping
  <2> QED BY <2>3, <2>4
<1> QED BY <1>7, <1>9, <1>10, <1>11 DEF IInv

------------------------------------------------------------------------------
(* The control task *)

\* The facts about the control task every step of it starts from.
LEMMA CallerFacts ==
  ASSUME OneControl, IInv, NEW c \in Controls
  PROVE  /\ \A d \in Controls : d = c
         /\ control[c] \in Callers
         /\ \A x, places : At(x, places) <=> control[c].at \in places /\ control[c].x = {x}
         /\ \A x, places : At(x, places)' <=> control'[c].at \in places /\ control'[c].x = {x}
<1>1. \A d \in Controls : d = c
  BY DEF OneControl
<1> QED BY <1>1, AtOne DEF IInv, TypeOK

LEMMA ListHolds == \A x : (Listed(x) <=> Holds(list, x)) /\ (Listed(x)' <=> Holds(list', x))
BY DEF Listed, Holds

LEMMA CreateBeginStep ==
  ASSUME OneControl, IInv, NEW c \in Controls, NEW x \in Sessions, CreateBegin(c, x)
  PROVE  IInv'
<1> DEFINE r == [Idle EXCEPT !.at = "insert", !.x = {x}]
<1>1. r \in Callers /\ r.at = "insert" /\ r.x = {x}
  BY InsertFields
<1>2. control' = [control EXCEPT ![c] = r]
  BY DEF CreateBegin
<1> HIDE DEF r
<1>3. control' \in [Controls -> Callers] /\ control'[c] = r /\ \A d \in Controls : d = c
  BY <1>1, <1>2, ControlSet DEF IInv, TypeOK
<1>4. /\ control[c].at = "idle" /\ life[x] = "none"
      /\ life' = [life EXCEPT ![x] = "alive"] /\ running'
      /\ running => UNCHANGED <<queue, tx>>
      /\ ~running => queue' = <<>> /\ tx' = Resting
      /\ UNCHANGED <<list, destroying, pending, inflight, slot, begun, told, mutex>>
  BY DEF CreateBegin, IInv, TypeOK
<1>5. \A y, places : "idle" \notin places => ~At(y, places)
  BY <1>4, CallerFacts
<1>6. TypeOK'
  <2>1. queue' \in Seq(Sessions) /\ Len(queue') <= QueueCap
    <3>1. <<>> \in Seq(Sessions) /\ Len(<<>>) = 0 /\ 0 <= QueueCap
      BY SessionConstants
    <3>2. queue' = queue \/ queue' = <<>>
      BY <1>4
    <3> QED BY <3>1, <3>2 DEF IInv, TypeOK
  <2>2. tx' \in TaskStates
    BY <1>4, ReportingType DEF IInv, TypeOK
  <2> QED BY <1>3, <1>4, <2>1, <2>2 DEF IInv, TypeOK
<1>7. Calls'
  BY <1>1, <1>3, <1>4 DEF Calls, IInv, TypeOK
<1>8. ListSound'
  <2>1. \A y \in Sessions : Listed(y)' => Listed(y) /\ y # x /\ life'[y] = "alive"
    BY <1>4 DEF IInv, ListSound, Listed, TypeOK
  <2>2. \A y \in Sessions : y # x =>
            ~At(y, Inserting \cup Waiting \cup Leaving)'
    BY <1>1, <1>3, CallerFacts
  <2> QED BY <1>4, <2>1, <2>2 DEF IInv, ListSound
<1>9. CallerKnows'
  BY <1>1, <1>3 DEF CallerKnows, Waiting, Leaving
<1>10. TaskServes'
  BY <1>4 DEF TaskServes
<1>11. /\ UNCHANGED <<pending, inflight>>
       /\ \/ tx' = tx
          \/ tx.todo = {} /\ tx.now = {} /\ tx' = Resting
  BY <1>4 DEF IInv, TaskServes
<1>12. Due' \subseteq Due
  BY <1>11, RestingFields DEF Due
<1>13. Reservations'
  <2>1. \A e \in Due' : Listed(e.x)'
    BY <1>4, <1>5, <1>12 DEF IInv, Reservations, Listed, Waiting
  <2>2. \A y \in Sessions : ReservedFor(y)' = ReservedFor(y) /\ RunningFor(y)' = RunningFor(y)
    BY <1>11, RestingFields DEF ReservedFor, RunningFor
  <2> QED BY <1>11, <2>1, <2>2, RestingFields DEF IInv, Reservations
<1>14. Reports'
  <2>1. \A y, k : ~Dropping(y, k)'
    BY <1>1, <1>3 DEF Dropping
  <2> QED BY <1>4, <1>12, <2>1 DEF IInv, Reports, OnePlace
<1> QED BY <1>6, <1>7, <1>8, <1>9, <1>10, <1>13, <1>14 DEF IInv

LEMMA CreateEndStep ==
  ASSUME OneControl, IInv, NEW c \in Controls, NEW x \in Sessions, CreateEnd(c, x)
  PROVE  IInv'
<1>1. /\ control' \in [Controls -> Callers] /\ control'[c] = Idle /\ \A d \in Controls : d = c
  BY IdleType, ControlSet DEF IInv, TypeOK, CreateEnd
<1>2. /\ control[c].at = "insert" /\ control[c].x = {x} /\ list' = <<x>> \o list
      /\ UNCHANGED <<sessionVars, queue, running, tx, mutex>>
  BY DEF CreateEnd
<1>3. life[x] = "alive" /\ running
  BY <1>2 DEF IInv, Calls, TaskServes
<1>4. list \in Seq(Sessions) /\ Distinct(list) /\ ~Holds(list, x)
  <2>1. At(x, Inserting \cup Waiting \cup Leaving)
    BY <1>2 DEF At, Inserting
  <2> QED BY <2>1, ListHolds DEF IInv, TypeOK, ListSound, Distinct
<1>5. /\ list' \in Seq(Sessions) /\ Distinct(list')
      /\ \A y \in Sessions : Listed(y)' <=> y = x \/ Listed(y)
  BY <1>2, <1>4, PushAdds, ListHolds
<1>6. \A y, places : "idle" \notin places => ~At(y, places)'
  BY <1>1, IdleType, CallerFacts
<1>7. TypeOK'
  BY <1>1, <1>2, <1>5 DEF IInv, TypeOK, sessionVars
<1>8. Calls'
  BY <1>1, IdleType DEF Calls
<1>9. ListSound'
  <2>1. \A y \in Sessions : Listed(y)' => life'[y] = "alive"
    BY <1>2, <1>3, <1>5 DEF IInv, ListSound, sessionVars
  <2>2. "idle" \notin Inserting \cup Waiting \cup Leaving
    BY DEF Inserting, Waiting, Leaving
  <2> QED BY <1>5, <1>6, <2>1, <2>2 DEF ListSound, Distinct
<1>10. CallerKnows' /\ TaskServes'
  BY <1>1, <1>2, <1>3, IdleType DEF CallerKnows, TaskServes, Waiting, Leaving
<1>11. Reservations'
  <2>1. Due' = Due /\ \A y : ReservedFor(y)' = ReservedFor(y) /\ RunningFor(y)' = RunningFor(y)
    BY <1>2 DEF Due, ReservedFor, RunningFor
  <2>2. \A e \in Due : Listed(e.x)
    <3>1. \A y : ~At(y, Waiting)
      BY <1>2, CallerFacts DEF Waiting
    <3> QED BY <3>1 DEF IInv, Reservations
  <2>3. \A e \in Due : e.x \in Sessions
    BY EventFields DEF IInv, TypeOK, TaskStates, Due
  <2>4. \A e \in Due' : Listed(e.x)'
    BY <1>5, <2>1, <2>2, <2>3
  <2> QED BY <1>2, <2>1, <2>4 DEF IInv, Reservations, sessionVars
<1>12. Reports'
  <2>1. \A y, k : ~Dropping(y, k)'
    BY <1>1, IdleType DEF Dropping
  <2>2. Due' = Due
    BY <1>2 DEF Due
  <2> QED BY <1>2, <2>1, <2>2 DEF IInv, Reports, OnePlace, sessionVars
<1> QED BY <1>7, <1>8, <1>9, <1>10, <1>11, <1>12 DEF IInv

LEMMA DestroyBeginStep ==
  ASSUME OneControl, IInv, NEW c \in Controls, NEW x \in Sessions, DestroyBegin(c, x)
  PROVE  IInv'
<1> DEFINE r == [Idle EXCEPT !.at = "unlink", !.x = {x}, !.head = {Head(list)}]
<1>1. Listed(x) /\ list # <<>> /\ Head(list) \in Sessions /\ life[x] = "alive"
  <2>1. Listed(x) /\ life[x] = "alive" /\ list \in Seq(Sessions)
    BY DEF DestroyBegin, InUse, IInv, TypeOK
  <2>2. list # <<>>
    BY <2>1, EmptySeq DEF Listed
  <2> QED BY <2>1, <2>2, HeadTailProperties
<1>2. r \in Callers /\ r.at = "unlink" /\ r.x = {x} /\ r.head = {Head(list)}
  BY <1>1, UnlinkFields
<1>3. control' = [control EXCEPT ![c] = r]
  BY DEF DestroyBegin
<1> HIDE DEF r
<1>4. control' \in [Controls -> Callers] /\ control'[c] = r /\ \A d \in Controls : d = c
  BY <1>2, <1>3, ControlSet DEF IInv, TypeOK
<1>5. control[c].at = "idle" /\ UNCHANGED <<list, sessionVars, queue, running, tx, mutex>>
  BY DEF DestroyBegin
<1>6. TypeOK'
  BY <1>4, <1>5 DEF IInv, TypeOK, sessionVars
<1>7. Calls'
  BY <1>1, <1>2, <1>4, <1>5 DEF Calls, sessionVars
<1>8. ListSound'
  <2>1. \A y : ~At(y, Inserting \cup Waiting \cup Leaving)'
    BY <1>2, <1>4, CallerFacts DEF Inserting, Waiting, Leaving
  <2> QED BY <1>5, <2>1 DEF IInv, ListSound, Listed, sessionVars
<1>9. CallerKnows' /\ TaskServes'
  BY <1>1, <1>2, <1>4, <1>5 DEF IInv, CallerKnows, TaskServes, Waiting, Leaving
<1>10. Reservations'
  <2>1. Due' = Due /\ \A y : ReservedFor(y)' = ReservedFor(y) /\ RunningFor(y)' = RunningFor(y)
    BY <1>5 DEF Due, ReservedFor, RunningFor
  <2>2. \A e \in Due : Listed(e.x)
    BY <1>5, CallerFacts DEF IInv, Reservations, Waiting
  <2>3. \A e \in Due' : Listed(e.x)'
    BY <1>5, <2>1, <2>2 DEF Listed
  <2> QED BY <1>5, <2>1, <2>3 DEF IInv, Reservations, sessionVars
<1>11. Reports'
  <2>1. \A y, k : ~Dropping(y, k)'
    BY <1>2, <1>4 DEF Dropping
  <2>2. Due' = Due
    BY <1>5 DEF Due
  <2> QED BY <1>5, <2>1, <2>2 DEF IInv, Reports, OnePlace, sessionVars
<1> QED BY <1>6, <1>7, <1>8, <1>9, <1>10, <1>11 DEF IInv

\* The walk from a head that is still the list's takes the session out.
LEMMA UnlinkedEffect ==
  ASSUME TypeOK, ListSound, NEW x \in Sessions, list # <<>>
  PROVE  Removed(Unlinked(x, {Head(list)}), list, x)
<1>1. list \in Seq(Sessions) /\ Distinct(list) /\ DOMAIN list = 1 .. Len(list)
  BY LenProperties DEF TypeOK, ListSound, Distinct
<1>2. Head(list) = list[1] /\ Len(list) \in Nat \ {0} /\ Head(list) \in Sessions
  BY <1>1, HeadTailProperties, LenProperties, EmptySeq
<1>3. CASE Head(list) = x
  <2>1. Unlinked(x, {Head(list)}) = Tail(list)
    BY <1>3 DEF Unlinked
  <2> QED BY <1>1, <1>3, <2>1, TailRemoves
<1>4. CASE Head(list) # x /\ Listed(x)
  <2>1. Position(x) \in DOMAIN list /\ list[Position(x)] = x
    BY <1>4 DEF Listed, Position
  <2>2. Listed(Head(list)) /\ Position(Head(list)) = 1
    <3>1. 1 \in DOMAIN list
      BY <1>1, <1>2
    <3>2. Position(Head(list)) \in DOMAIN list /\ list[Position(Head(list))] = list[1]
      BY <1>2, <3>1 DEF Position
    <3> QED BY <1>1, <1>2, <3>1, <3>2 DEF Listed, Distinct
  <2>3. Position(Head(list)) < Position(x)
    BY <1>1, <1>2, <1>4, <2>1, <2>2
  <2>4. Unlinked(x, {Head(list)}) =
            SubSeq(list, 1, Position(x) - 1) \o SubSeq(list, Position(x) + 1, Len(list))
    BY <1>4, <2>2, <2>3 DEF Unlinked
  <2> QED BY <1>1, <2>1, <2>4, CutRemoves
<1>5. CASE Head(list) # x /\ ~Listed(x)
  BY <1>1, <1>5, ListHolds DEF Unlinked, Removed
<1> QED BY <1>3, <1>4, <1>5

LEMMA DestroyUnlinkStep ==
  ASSUME OneControl, IInv, NEW c \in Controls, NEW x \in Sessions, DestroyUnlink(c, x)
  PROVE  IInv'
<1> DEFINE r == [control[c] EXCEPT !.at = "drop", !.last = LastSession(list'), !.drop = Dropped(x)]
<1>1. /\ control[c].at = "unlink" /\ control[c].x = {x}
      /\ list' = Unlinked(x, control[c].head) /\ queue' \in Without(queue, x)
      /\ destroying' = [destroying EXCEPT ![x] = TRUE]
      /\ slot' = [slot EXCEPT ![x] = [k \in Transfers |-> "free"]]
      /\ UNCHANGED <<life, pending, inflight, begun, told, running, tx, mutex>>
  BY DEF DestroyUnlink
<1>2. LastSession(list') \in BOOLEAN /\ Dropped(x) \in SUBSET Transfers
  BY DEF LastSession, Dropped
<1>3. /\ r \in Callers /\ r.at = "drop" /\ r.x = {x} /\ r.last = (list' = <<>>)
      /\ r.drop = Dropped(x)
  <2>1. control[c] \in Callers
    BY DEF IInv, TypeOK
  <2> DEFINE last == LastSession(list')
             drop == Dropped(x)
             was == control[c]
             s == [was EXCEPT !.at = "drop", !.last = last, !.drop = drop]
  <2>2. last \in BOOLEAN /\ drop \in SUBSET Transfers /\ r = s
        /\ last = (list' = <<>>) /\ drop = Dropped(x) /\ was = control[c] /\ was \in Callers
    BY <1>2, <2>1 DEF LastSession
  <2> HIDE DEF last, drop, was, r
  <2>3. /\ s \in Callers /\ s.at = "drop" /\ s.x = was.x /\ s.last = last
        /\ s.drop = drop
    BY <2>2 DEF Callers
  <2> HIDE DEF s
  <2> QED BY <1>1, <2>2, <2>3
<1>4. control' = [control EXCEPT ![c] = r]
  BY DEF DestroyUnlink
<1> HIDE DEF r
<1>5. control' \in [Controls -> Callers] /\ control'[c] = r /\ \A d \in Controls : d = c
  BY <1>3, <1>4, ControlSet DEF IInv, TypeOK
<1>6. life[x] = "alive" /\ running /\ list # <<>> /\ control[c].head = {Head(list)}
  BY <1>1 DEF IInv, Calls, TaskServes, CallerKnows
<1>7. Removed(list', list, x)
  BY <1>1, <1>6, UnlinkedEffect DEF IInv
<1>8. ~Listed(x)' /\ \A y \in Sessions : y # x => (Listed(y)' <=> Listed(y))
  BY <1>7, ListHolds DEF Removed
<1>9. TypeOK'
  <2>1. queue' \in Seq(Sessions) /\ Len(queue') <= QueueCap
    <3>1. queue \in Seq(Sessions) /\ Len(queue) <= QueueCap /\ QueueCap \in Nat
      BY SessionConstants DEF IInv, TypeOK
    <3>2. queue' \in Seq(Sessions) /\ Len(queue') <= Len(queue)
      BY <1>1, <3>1, WithoutType
    <3>3. Len(queue') \in Nat /\ Len(queue) \in Nat
      BY <3>1, <3>2, LenProperties
    <3> QED BY <3>1, <3>2, <3>3
  <2>2. slot' \in [Sessions -> [Transfers -> {"free", "active", "completed"}]]
    BY <1>1 DEF IInv, TypeOK
  <2> QED BY <1>1, <1>5, <1>7, <2>1, <2>2 DEF IInv, TypeOK, Removed
<1>10. Calls'
  BY <1>1, <1>3, <1>5, <1>6 DEF Calls
<1>11. \A y, places : At(y, places)' <=> "drop" \in places /\ y = x
  BY <1>3, <1>5, CallerFacts
<1>12. ListSound'
  BY <1>1, <1>7, <1>8, <1>11 DEF IInv, ListSound, Removed, Distinct
<1>13. CallerKnows' /\ TaskServes'
  BY <1>1, <1>3, <1>5, <1>6 DEF CallerKnows, TaskServes, Waiting, Leaving
<1>14. Reservations'
  <2>1. Due' = Due /\ \A y : ReservedFor(y)' = ReservedFor(y) /\ RunningFor(y)' = RunningFor(y)
    BY <1>1 DEF Due, ReservedFor, RunningFor
  <2>2. \A e \in Due : Listed(e.x) /\ e.x \in Sessions
    <3>1. \A y : ~At(y, Waiting)
      BY <1>1, CallerFacts DEF Waiting
    <3> QED BY <3>1, EventFields DEF IInv, Reservations, TypeOK, TaskStates, Due
  <2>3. \A e \in Due' : Listed(e.x)' \/ At(e.x, Waiting)'
    BY <1>8, <1>11, <2>1, <2>2 DEF Waiting
  <2> QED BY <1>1, <2>1, <2>3 DEF IInv, Reservations
<1>15. Reports'
  <2>1. SUFFICES ASSUME NEW y \in Sessions, NEW k \in Transfers PROVE OnePlace(y, k)'
    BY DEF Reports
  <2>2. OnePlace(y, k) /\ told[y][k] \in Nat
    BY DEF IInv, Reports, TypeOK
  <2>3. Due' = Due /\ UNCHANGED <<told, begun>>
    BY <1>1 DEF Due
  <2>4. Dropping(y, k)' <=> y = x /\ k \in Dropped(x)
    BY <1>3, <1>5 DEF Dropping
  <2>5. slot'[y][k] = IF y = x THEN "free" ELSE slot[y][k]
    BY <1>1 DEF IInv, TypeOK
  <2>6. CASE y = x /\ k \in Dropped(x)
    <3>1. slot[y][k] # "free"
      BY <2>6 DEF Dropped
    <3> QED BY <2>2, <2>3, <2>4, <2>5, <2>6, <3>1 DEF OnePlace
  <2>7. CASE ~(y = x /\ k \in Dropped(x))
    <3>1. slot'[y][k] = slot[y][k] /\ ~Dropping(y, k)'
      BY <2>4, <2>5, <2>7 DEF Dropped
    <3> QED BY <2>2, <2>3, <3>1 DEF OnePlace
  <2> QED BY <2>6, <2>7
<1> QED BY <1>9, <1>10, <1>12, <1>13, <1>14, <1>15 DEF IInv

LEMMA DestroyDropStep ==
  ASSUME OneControl, IInv, NEW c \in Controls, NEW x \in Sessions, DestroyDrop(c, x)
  PROVE  IInv'
<1> DEFINE r == [control[c] EXCEPT !.at = "drain"]
<1>1. /\ control[c].at = "drop" /\ control[c].x = {x}
      /\ told' = [told EXCEPT ![x] =
            [k \in Transfers |-> IF k \in control[c].drop THEN @[k] + 1 ELSE @[k]]]
      /\ UNCHANGED <<list, life, destroying, pending, inflight, slot, begun, queue, running, tx, mutex>>
  BY DEF DestroyDrop
<1>2. r \in Callers /\ r.at = "drain" /\ r.x = {x} /\ r.last = control[c].last
  <2>1. control[c] \in Callers
    BY DEF IInv, TypeOK
  <2> QED BY <1>1, <2>1, PlaceFields
<1>3. control' = [control EXCEPT ![c] = r]
  BY DEF DestroyDrop
<1> HIDE DEF r
<1>4. control' \in [Controls -> Callers] /\ control'[c] = r /\ \A d \in Controls : d = c
  BY <1>2, <1>3, ControlSet DEF IInv, TypeOK
<1>5. life[x] = "alive" /\ running /\ (control[c].last <=> list = <<>>)
  BY <1>1 DEF IInv, Calls, TaskServes, CallerKnows, Waiting
<1>6. \A y, k : Dropping(y, k) <=> y = x /\ k \in control[c].drop
  BY <1>1, <1>4 DEF Dropping
<1>7. \A y \in Sessions, k \in Transfers : told'[y][k] =
          IF Dropping(y, k) THEN told[y][k] + 1 ELSE told[y][k]
  BY <1>1, <1>6 DEF IInv, TypeOK
<1>8. TypeOK'
  <2>1. told' \in [Sessions -> [Transfers -> Nat]]
    BY <1>1 DEF IInv, TypeOK
  <2> QED BY <1>1, <1>4, <2>1 DEF IInv, TypeOK
<1>9. Calls'
  BY <1>1, <1>2, <1>4, <1>5 DEF Calls
<1>10. \A y : At(y, Waiting)' <=> At(y, Waiting)
  BY <1>1, <1>2, <1>4, CallerFacts DEF Waiting
<1>11. ListSound'
  <2>1. \A y : At(y, Inserting \cup Waiting \cup Leaving)'
                    <=> At(y, Inserting \cup Waiting \cup Leaving)
    BY <1>1, <1>2, <1>4, CallerFacts DEF Waiting
  <2> QED BY <1>1, <2>1 DEF IInv, ListSound, Listed
<1>12. CallerKnows' /\ TaskServes'
  BY <1>1, <1>2, <1>4, <1>5 DEF CallerKnows, TaskServes, Waiting, Leaving
<1>13. Reservations'
  BY <1>1, <1>10 DEF IInv, Reservations, Listed, Due, ReservedFor, RunningFor
<1>14. Reports'
  <2>1. SUFFICES ASSUME NEW y \in Sessions, NEW k \in Transfers PROVE OnePlace(y, k)'
    BY DEF Reports
  <2>2. OnePlace(y, k) /\ told[y][k] \in Nat
    BY DEF IInv, Reports, TypeOK
  <2>3. ~Dropping(y, k)' /\ Due' = Due /\ UNCHANGED <<slot, begun>>
    BY <1>1, <1>2, <1>4 DEF Dropping, Due
  <2> QED BY <1>7, <2>2, <2>3 DEF OnePlace
<1> QED BY <1>8, <1>9, <1>11, <1>12, <1>13, <1>14 DEF IInv

LEMMA DestroyDrainStep ==
  ASSUME OneControl, IInv, NEW c \in Controls, NEW x \in Sessions, DestroyDrain(c, x)
  PROVE  IInv'
<1> DEFINE a == IF control[c].last THEN "reap" ELSE "free"
           r == [control[c] EXCEPT !.at = a]
<1>1. /\ control[c].at = "drain" /\ control[c].x = {x} /\ pending[x] = 0 /\ inflight[x] = 0
      /\ UNCHANGED <<list, sessionVars, queue, running, tx, mutex>>
  BY DEF DestroyDrain
<1>2. a \in {"drain", "reap", "free"} /\ (a = "reap" <=> control[c].last) /\ a # "drain"
  OBVIOUS
<1>3. control' = [control EXCEPT ![c] = r]
  BY DEF DestroyDrain
<1> HIDE DEF a
<1>4. r \in Callers /\ r.at = a /\ r.x = {x} /\ r.last = control[c].last
  <2>1. control[c] \in Callers
    BY DEF IInv, TypeOK
  <2> QED BY <1>1, <1>2, <2>1, PlaceFields
<1> HIDE DEF r
<1>5. control' \in [Controls -> Callers] /\ control'[c] = r /\ \A d \in Controls : d = c
  BY <1>3, <1>4, ControlSet DEF IInv, TypeOK
<1>6. life[x] = "alive" /\ running /\ (control[c].last <=> list = <<>>)
  BY <1>1 DEF IInv, Calls, TaskServes, CallerKnows, Waiting
<1>7. TypeOK'
  BY <1>1, <1>5 DEF IInv, TypeOK, sessionVars
<1>8. Calls'
  BY <1>1, <1>4, <1>5, <1>6 DEF Calls, sessionVars
<1>9. ListSound'
  <2>1. \A y : At(y, Inserting \cup Waiting \cup Leaving)'
                    => At(y, Inserting \cup Waiting \cup Leaving)
    BY <1>1, <1>4, <1>5, CallerFacts DEF Waiting
  <2> QED BY <1>1, <2>1 DEF IInv, ListSound, Listed, sessionVars
<1>10. CallerKnows' /\ TaskServes'
  BY <1>1, <1>2, <1>4, <1>5, <1>6 DEF IInv, CallerKnows, TaskServes, Waiting, Leaving
<1>11. Reservations'
  <2>1. Due' = Due /\ \A y : ReservedFor(y)' = ReservedFor(y) /\ RunningFor(y)' = RunningFor(y)
    BY <1>1 DEF Due, ReservedFor, RunningFor
  <2>2. IsFiniteSet(ReservedFor(x)) /\ IsFiniteSet(RunningFor(x))
    <3>1. ReservedFor(x) \subseteq Events /\ RunningFor(x) \subseteq Events
      BY DEF IInv, TypeOK, TaskStates, ReservedFor, RunningFor
    <3> QED BY <3>1, EventsFinite, FS_Subset
  <2>3. ReservedFor(x) = {} /\ RunningFor(x) = {}
    BY <1>1, <2>2, FS_EmptySet DEF IInv, Reservations
  <2>4. \A e \in Due : e.x # x
    BY <2>3 DEF Due, ReservedFor, RunningFor
  <2>5. \A e \in Due : Listed(e.x)
    <3>1. \A y : At(y, Waiting) => y = x
      BY <1>1, CallerFacts
    <3> QED BY <2>4, <3>1 DEF IInv, Reservations
  <2>6. \A e \in Due' : Listed(e.x)'
    BY <1>1, <2>1, <2>5 DEF Listed
  <2> QED BY <1>1, <2>1, <2>6 DEF IInv, Reservations, sessionVars
<1>12. Reports'
  <2>1. \A y, k : ~Dropping(y, k)'
    BY <1>2, <1>4, <1>5 DEF Dropping
  <2>2. Due' = Due
    BY <1>1 DEF Due
  <2> QED BY <1>1, <2>1, <2>2 DEF IInv, Reports, OnePlace, sessionVars
<1> QED BY <1>7, <1>8, <1>9, <1>10, <1>11, <1>12 DEF IInv

\* Past the wait no event is of the session the control task destroys.
LEMMA DrainedEvents ==
  ASSUME OneControl, IInv, NEW c \in Controls, control[c].at \in Leaving
  PROVE  \A e \in Due : Listed(e.x) /\ {e.x} # control[c].x
<1>1. SUFFICES ASSUME NEW e \in Due PROVE Listed(e.x) /\ {e.x} # control[c].x
  OBVIOUS
<1>2. ~At(e.x, Waiting)
  BY CallerFacts DEF Waiting, Leaving
<1>3. Listed(e.x) /\ e.x \in Sessions
  BY <1>2, EventFields DEF IInv, Reservations, TypeOK, TaskStates, Due
<1>4. ~At(e.x, Inserting \cup Waiting \cup Leaving)
  BY <1>3 DEF IInv, ListSound
<1> QED BY <1>3, <1>4, CallerFacts

LEMMA DestroyReapStep ==
  ASSUME OneControl, IInv, NEW c \in Controls, NEW x \in Sessions, DestroyReap(c, x)
  PROVE  IInv'
<1> DEFINE r == [control[c] EXCEPT !.at = "free"]
<1>1. /\ control[c].at = "reap" /\ control[c].x = {x}
      /\ running' = FALSE /\ queue' = <<>> /\ tx' = Resting
      /\ UNCHANGED <<list, sessionVars, mutex>>
  BY DEF DestroyReap
<1>2. r \in Callers /\ r.at = "free" /\ r.x = {x} /\ r.last = control[c].last
  <2>1. control[c] \in Callers
    BY DEF IInv, TypeOK
  <2> QED BY <1>1, <2>1, PlaceFields
<1>3. control' = [control EXCEPT ![c] = r]
  BY DEF DestroyReap
<1> HIDE DEF r
<1>4. control' \in [Controls -> Callers] /\ control'[c] = r /\ \A d \in Controls : d = c
  BY <1>2, <1>3, ControlSet DEF IInv, TypeOK
<1>5. life[x] = "alive" /\ control[c].last /\ list = <<>>
  BY <1>1 DEF IInv, Calls, CallerKnows, Leaving
<1>6. Due = {} /\ tx.todo = {} /\ tx.now = {}
  <2>1. \A e \in Due : FALSE
    BY <1>1, <1>5, DrainedEvents, EmptySeq DEF Leaving, Listed
  <2> QED BY <2>1 DEF Due
<1>7. TypeOK'
  <2>1. <<>> \in Seq(Sessions) /\ Len(<<>>) = 0 /\ 0 <= QueueCap
    BY SessionConstants
  <2> QED BY <1>1, <1>4, <2>1, ReportingType DEF IInv, TypeOK, sessionVars
<1>8. Calls'
  BY <1>1, <1>2, <1>4, <1>5 DEF Calls, sessionVars
<1>9. ListSound'
  <2>1. \A y : At(y, Inserting \cup Waiting \cup Leaving)'
                    => At(y, Inserting \cup Waiting \cup Leaving)
    BY <1>1, <1>2, <1>4, CallerFacts DEF Leaving
  <2> QED BY <1>1, <2>1 DEF IInv, ListSound, Listed, sessionVars
<1>10. CallerKnows' /\ TaskServes'
  BY <1>1, <1>2, <1>4, <1>5, RestingFields DEF CallerKnows, TaskServes, Waiting, Leaving
<1>11. Reservations' /\ Due' = {}
  <2> DEFINE E == {}
  <2>1. \A y \in Sessions : pending[y] = 0 /\ inflight[y] = 0
    <3>1. \A y : ReservedFor(y) = {} /\ RunningFor(y) = {}
      BY <1>6 DEF ReservedFor, RunningFor
    <3> QED BY <3>1, FS_EmptySet DEF IInv, Reservations
  <2>2. Due' = {} /\ \A y : ReservedFor(y)' = {} /\ RunningFor(y)' = {}
    BY <1>1, RestingFields DEF Due, ReservedFor, RunningFor
  <2> QED BY <1>1, <2>1, <2>2, RestingFields, FS_EmptySet DEF Reservations, sessionVars
<1>12. Reports'
  <2>1. \A y, k : ~Dropping(y, k)'
    BY <1>2, <1>4 DEF Dropping
  <2> QED BY <1>1, <1>11, <2>1 DEF IInv, Reports, OnePlace, sessionVars
<1> QED BY <1>7, <1>8, <1>9, <1>10, <1>11, <1>12 DEF IInv

LEMMA DestroyEndStep ==
  ASSUME OneControl, IInv, NEW c \in Controls, NEW x \in Sessions, DestroyEnd(c, x)
  PROVE  IInv'
<1>1. /\ control' \in [Controls -> Callers] /\ control'[c] = Idle /\ \A d \in Controls : d = c
  BY IdleType, ControlSet DEF IInv, TypeOK, DestroyEnd
<1>2. /\ control[c].at = "free" /\ control[c].x = {x} /\ life' = [life EXCEPT ![x] = "freed"]
      /\ UNCHANGED <<list, destroying, pending, inflight, slot, begun, told, queue, running, tx, mutex>>
  BY DEF DestroyEnd
<1>3. \A y, places : "idle" \notin places => ~At(y, places)'
  BY <1>1, IdleType, CallerFacts
<1>4. TypeOK'
  BY <1>1, <1>2 DEF IInv, TypeOK
<1>5. Calls'
  BY <1>1, IdleType DEF Calls
<1>6. ListSound'
  <2>1. ~Listed(x)
    <3>1. At(x, Inserting \cup Waiting \cup Leaving)
      BY <1>2 DEF At, Leaving
    <3> QED BY <3>1 DEF IInv, ListSound
  <2>2. \A y \in Sessions : Listed(y)' => life'[y] = "alive"
    BY <1>2, <2>1 DEF IInv, ListSound, Listed, TypeOK
  <2>3. "idle" \notin Inserting \cup Waiting \cup Leaving
    BY DEF Inserting, Waiting, Leaving
  <2> QED BY <1>2, <1>3, <2>2, <2>3 DEF IInv, ListSound
<1>7. CallerKnows' /\ TaskServes'
  BY <1>1, <1>2, IdleType DEF IInv, CallerKnows, TaskServes, Waiting, Leaving
<1>8. Reservations'
  <2>1. Due' = Due /\ \A y : ReservedFor(y)' = ReservedFor(y) /\ RunningFor(y)' = RunningFor(y)
    BY <1>2 DEF Due, ReservedFor, RunningFor
  <2>2. \A e \in Due' : Listed(e.x)'
    BY <1>2, <2>1, DrainedEvents DEF Leaving, Listed
  <2> QED BY <1>2, <2>1, <2>2 DEF IInv, Reservations
<1>9. Reports'
  <2>1. \A y, k : ~Dropping(y, k)'
    BY <1>1, IdleType DEF Dropping
  <2>2. Due' = Due
    BY <1>2 DEF Due
  <2> QED BY <1>2, <2>1, <2>2 DEF IInv, Reports, OnePlace
<1> QED BY <1>4, <1>5, <1>6, <1>7, <1>8, <1>9 DEF IInv

------------------------------------------------------------------------------
(* The theorems *)

LEMMA IInvInit == Init => IInv
<1> SUFFICES ASSUME Init PROVE IInv
  OBVIOUS
<1>1. tx.todo = {} /\ tx.now = {} /\ tx.at = "wait" /\ Due = {} /\ tx \in TaskStates
  BY RestingFields, ReportingType DEF Init, Due
<1>2. \A c \in Controls : control[c].at = "idle" /\ control[c].x = {}
  BY IdleType DEF Init
<1>3. TypeOK
  <2>1. <<>> \in Seq(Sessions) /\ Len(<<>>) = 0 /\ 0 <= QueueCap
    BY SessionConstants
  <2> QED BY <1>1, <2>1, IdleType DEF Init, TypeOK
<1>4. Calls /\ CallerKnows /\ TaskServes
  BY <1>1, <1>2 DEF Init, Calls, CallerKnows, TaskServes, Waiting, Leaving
<1>5. ListSound
  BY EmptySeq DEF Init, ListSound, Listed
<1>6. Reservations
  <2>1. \A x : ReservedFor(x) = {} /\ RunningFor(x) = {}
    BY <1>1 DEF ReservedFor, RunningFor
  <2> QED BY <1>1, <2>1, FS_EmptySet DEF Reservations, Init
<1>7. Reports
  BY <1>1, <1>2 DEF Init, Reports, OnePlace, Dropping
<1> QED BY <1>3, <1>4, <1>5, <1>6, <1>7 DEF IInv

LEMMA IInvStep == OneControl /\ IInv /\ [Next]_vars => IInv'
<1> SUFFICES ASSUME OneControl, IInv, [Next]_vars PROVE IInv'
  OBVIOUS
<1>1. ASSUME NEW x \in Sessions, Feed(x) PROVE IInv'
  BY <1>1, FeedStep
<1>2. ASSUME NEW x \in Sessions, NEW k \in Transfers, StartSend(x, k) PROVE IInv'
  BY <1>2, StartSendStep
<1>3. CASE TaskStep
  BY <1>3, TakePacketStep, BeginPassStep, EndPassStep, BeginCallbackStep, EndCallbackStep,
     HandlePacketStep DEF TaskStep
<1>4. ASSUME NEW c \in Controls, ControlStep(c) PROVE IInv'
  BY <1>4, CreateBeginStep, CreateEndStep, DestroyBeginStep, DestroyUnlinkStep,
     DestroyDropStep, DestroyDrainStep, DestroyReapStep, DestroyEndStep DEF ControlStep
<1>5. CASE UNCHANGED vars
  <2>1. UNCHANGED <<list, life, destroying, pending, inflight, slot, begun, told, queue,
                    running, tx, mutex, control>>
    BY <1>5 DEF vars
  <2>2. TypeOK' /\ Calls' /\ ListSound' /\ CallerKnows' /\ Reservations' /\ Reports'
    BY <2>1, KeepCalls, KeepList, KeepReservations, KeepReports DEF IInv, TypeOK, Due
  <2>3. TaskServes'
    BY <2>1 DEF IInv, TaskServes
  <2> QED BY <2>2, <2>3 DEF IInv
<1> QED BY <1>1, <1>2, <1>3, <1>4, <1>5 DEF Next

\* Every property below is a part of the inductive invariant or follows from it.
LEMMA Inductive == OneControl => (Spec => []IInv)
<1> SUFFICES ASSUME OneControl PROVE Spec => []IInv
  OBVIOUS
<1>1. Init => IInv
  BY IInvInit
<1>2. IInv /\ [Next]_vars => IInv'
  BY IInvStep
<1> QED BY <1>1, <1>2, PTL DEF Spec

\* The list, the queue and the callers' locals keep their types, and the queue
\* its depth: in particular no walk of destroy takes a head from an empty list.
THEOREM SessionsTypes == OneControl => (Spec => []TypeOK)
<1>1. IInv => TypeOK
  BY DEF IInv
<1> QED BY <1>1, Inductive, PTL

\* The transmit task never reaches freed memory, neither through the session list
\* nor through an event it has taken out of a slot and not yet reported.
THEOREM SessionsNoUseAfterFree == OneControl => (Spec => []NoUseAfterFree)
<1>1. IInv => NoUseAfterFree
  <2> SUFFICES ASSUME IInv PROVE NoUseAfterFree
    OBVIOUS
  <2>1. ASSUME NEW n \in DOMAIN list PROVE life[list[n]] = "alive"
    <3>1. list[n] \in Sessions
      BY LenProperties, ElementOfSeq DEF IInv, TypeOK
    <3> QED BY <3>1 DEF IInv, ListSound, Listed
  <2>2. ASSUME NEW e \in Due PROVE life[e.x] = "alive"
    <3>1. e.x \in Sessions /\ (Listed(e.x) \/ At(e.x, Waiting))
      BY EventFields DEF IInv, Reservations, TypeOK, TaskStates, Due
    <3>2. At(e.x, Waiting) => life[e.x] = "alive"
      BY DEF IInv, Calls, At, Waiting
    <3> QED BY <3>1, <3>2 DEF IInv, ListSound
  <2> QED BY <2>1, <2>2 DEF NoUseAfterFree, Due
<1> QED BY <1>1, Inductive, PTL

\* When the wait in flux_session_destroy is over, no callback of the session is
\* reserved or runs, whatever the task was doing when destroy began.
THEOREM SessionsDestroyDrains == OneControl => (Spec => []DestroyDrains)
<1> SUFFICES ASSUME OneControl PROVE Spec => []DestroyDrains
  OBVIOUS
<1>1. IInv => DestroyDrains
  BY DrainedEvents DEF DestroyDrains, Leaving, Due
<1> QED BY <1>1, Inductive, PTL

\* While a session is listed its transmit task exists: the task is only deleted
\* after the last one, and a session created meanwhile starts it again.
THEOREM SessionsAreServed == OneControl => (Spec => []SessionsServed)
<1>1. IInv => SessionsServed
  BY DEF IInv, TaskServes, SessionsServed
<1> QED BY <1>1, Inductive, PTL

\* No transfer is reported twice, by the transmit task and by destroy or by two
\* passes of the task, for any length of send_events[].
THEOREM SessionsToldOnce == OneControl => (Spec => []ToldOnce)
<1>1. IInv => ToldOnce
  BY DEF IInv, Reports, OnePlace, ToldOnce
<1> QED BY <1>1, Inductive, PTL
==============================================================================
