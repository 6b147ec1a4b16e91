--------------------------- MODULE FileTransferProofs --------------------------
(***************************************************************************)
(* What holds of every file transfer, whatever the sizes of files, pipe    *)
(* and queues and however often things fail: a transfer reported as        *)
(* completed was saved by the other device; whoever waits in               *)
(* esp_file_transfer_abort has its command in the queue; a transfer put    *)
(* down is driven by its timer; and a block that counts as transferred     *)
(* was taken.                                                              *)
(***************************************************************************)
EXTENDS FileTransfer, FiniteSetTheorems, SequenceTheorems, WellFoundedInduction, TLAPS

------------------------------------------------------------------------------
(* The inductive invariant *)

FrameKinds == {"meta", "metarsp", "data", "datarsp", "final", "abort"}
UrgentKinds == {"final", "abort"}

\* A FINAL that says ok is about one of these transfers.
Truthful(e, T) == e.kind = "final" /\ e.status = "ok" => e.tid \in T

\* A sequence of events of these kinds, whose FINALs are truthful.
Carries(s, K, T) == \E S : s \in Seq(S) /\ \A e \in S : e.kind \in K /\ Truthful(e, T)

\* The fields of a context.
IsContext(c) ==
    c = [role |-> c.role, state |-> c.state, tid |-> c.tid, total |-> c.total,
         next |-> c.next, pipe |-> c.pipe, told |-> c.told, early |-> c.early,
         whole |-> c.whole]
GoodContext(c, T) == IsContext(c) /\ (c.early = "ok" => c.tid \in T)

\* A FINAL that says ok, wherever it is, and a success reported are about a file that
\* was saved on the other device.
Transfers ==
    /\ ctx = [e \in Devices |-> ctx[e]] /\ DOMAIN net = Devices
    /\ DOMAIN saved = Devices /\ DOMAIN completed = Devices
    /\ \A d \in Devices :
        /\ GoodContext(ctx[d], saved[Peer(d)])
        /\ Carries(net[d], FrameKinds, saved[Peer(d)])
        /\ completed[d] \subseteq saved[Peer(d)]

\* The frame the input handler makes room for is urgent and truthful.
GoodHand(h, T) ==
    /\ h = [at |-> h.at, frame |-> h.frame, aside |-> h.aside] /\ h.aside \in Nat
    /\ h.at # "none" => h.frame.kind \in UrgentKinds /\ Truthful(h.frame, T)
Hands ==
    /\ hand = [d \in Devices |-> hand[d]]
    /\ \A d \in Devices : GoodHand(hand[d], saved[Peer(d)])

\* The command of a caller who waits is in the queue, and no other is.
Commands(s) == {n \in DOMAIN s : s[n].kind = "abortcmd"}
Answered(s, at_) == IF at_ = "waiting" THEN \E n : Commands(s) = {n} ELSE Commands(s) = {}
Waits ==
    /\ DOMAIN queue = Devices /\ DOMAIN urgent = Devices /\ DOMAIN app = Devices
    /\ Hands
    /\ \A d \in Devices :
        /\ Carries(queue[d], Events, saved[Peer(d)])
        /\ Carries(urgent[d], UrgentKinds, saved[Peer(d)])
        /\ Answered(queue[d], app[d])

IInv == Transfers /\ Waits

------------------------------------------------------------------------------
(* Sequences of events *)

\* Nothing is carried in an empty sequence.
LEMMA CarriesNone ==
    ASSUME NEW K, NEW T
    PROVE  Carries(<<>>, K, T)
<1> DEFINE E == {}
<1>1. <<>> \in Seq(E)
  BY EmptySeq
<1>2. \A e \in E : e.kind \in K /\ Truthful(e, T)
  OBVIOUS
<1> HIDE DEF E
<1> QED BY <1>1, <1>2 DEF Carries

\* More transfers, or more kinds, allow what fewer do.
LEMMA CarriesMore ==
    ASSUME NEW s, NEW K, NEW L, NEW T, NEW U, Carries(s, K, T), K \subseteq L, T \subseteq U
    PROVE  Carries(s, L, U)
  BY DEF Carries, Truthful

\* An event more.
LEMMA CarriesAppend ==
    ASSUME NEW s, NEW K, NEW T, NEW e, Carries(s, K, T), e.kind \in K, Truthful(e, T)
    PROVE  /\ Carries(Append(s, e), K, T)
           /\ Commands(Append(s, e)) =
                  Commands(s) \cup (IF e.kind = "abortcmd" THEN {Len(s) + 1} ELSE {})
<1>1. PICK S : s \in Seq(S) /\ \A x \in S : x.kind \in K /\ Truthful(x, T)
  BY DEF Carries
<1>2. s \in Seq(S \cup {e}) /\ \A x \in S \cup {e} : x.kind \in K /\ Truthful(x, T)
  BY <1>1, SeqMonotonic
<1>3. Append(s, e) \in Seq(S \cup {e})
  BY <1>2, AppendProperties
<1>4. DOMAIN Append(s, e) = 1 .. Len(s) + 1 /\ DOMAIN s = 1 .. Len(s) /\ Len(s) \in Nat
  BY <1>2, AppendProperties, LenProperties
<1>5. /\ \A n \in 1 .. Len(s) : Append(s, e)[n] = s[n]
      /\ Append(s, e)[Len(s) + 1] = e
  BY <1>2, AppendProperties
<1>6. Commands(Append(s, e)) =
          Commands(s) \cup (IF e.kind = "abortcmd" THEN {Len(s) + 1} ELSE {})
  BY <1>4, <1>5 DEF Commands
<1> QED BY <1>2, <1>3, <1>6 DEF Carries

\* Two sequences one after the other.
LEMMA CarriesBoth ==
    ASSUME NEW s, NEW t, NEW K, NEW T, Carries(s, K, T), Carries(t, K, T)
    PROVE  Carries(s \o t, K, T)
<1>1. PICK S : s \in Seq(S) /\ \A x \in S : x.kind \in K /\ Truthful(x, T)
  BY DEF Carries
<1>2. PICK U : t \in Seq(U) /\ \A x \in U : x.kind \in K /\ Truthful(x, T)
  BY DEF Carries
<1>3. s \in Seq(S \cup U) /\ t \in Seq(S \cup U)
  BY <1>1, <1>2, SeqMonotonic
<1>4. s \o t \in Seq(S \cup U)
  BY <1>3, ConcatProperties
<1>5. \A x \in S \cup U : x.kind \in K /\ Truthful(x, T)
  BY <1>1, <1>2
<1> QED BY <1>4, <1>5 DEF Carries

\* The first event taken off.
LEMMA CarriesTail ==
    ASSUME NEW s, NEW K, NEW T, Carries(s, K, T), s # <<>>
    PROVE  /\ Carries(Tail(s), K, T)
           /\ Head(s).kind \in K /\ Truthful(Head(s), T)
<1>1. PICK S : s \in Seq(S) /\ \A x \in S : x.kind \in K /\ Truthful(x, T)
  BY DEF Carries
<1>2. Head(s) \in S /\ Tail(s) \in Seq(S)
  BY <1>1, HeadTailProperties
<1> QED BY <1>1, <1>2 DEF Carries

\* What is left, place by place, when an event in the middle is taken out.
LEMMA CutIs ==
    ASSUME NEW S, NEW s \in Seq(S), NEW k \in DOMAIN s
    PROVE  /\ Cut(s, k) \in Seq(S) /\ Len(Cut(s, k)) = Len(s) - 1
           /\ \A i \in 1 .. Len(s) - 1 : Cut(s, k)[i] = IF i < k THEN s[i] ELSE s[i + 1]
           /\ DOMAIN Cut(s, k) = 1 .. Len(s) - 1
<1> DEFINE r == Cut(s, k)
<1>2. DOMAIN s = 1 .. Len(s) /\ Len(s) \in Nat /\ k \in 1 .. Len(s)
      /\ \A i \in 1 .. Len(s) : s[i] \in S
  BY LenProperties, ElementOfSeq
<1> DEFINE a == SubSeq(s, 1, k - 1)
           b == SubSeq(s, k + 1, Len(s))
<1>3. /\ a \in Seq(S) /\ Len(a) = k - 1
      /\ \A i \in 1 .. k - 1 : a[i] = s[i]
  <2>1. 1 \in Int /\ k - 1 \in Int /\ \A i \in 1 .. k - 1 : s[i] \in S
    BY <1>2
  <2>2. /\ SubSeq(s, 1, k - 1) \in Seq(S)
        /\ Len(SubSeq(s, 1, k - 1)) = IF 1 <= k - 1 THEN k - 1 - 1 + 1 ELSE 0
        /\ \A i \in 1 .. k - 1 - 1 + 1 : SubSeq(s, 1, k - 1)[i] = s[1 + i - 1]
    BY <2>1, SubSeqProperties
  <2> QED BY <2>2, <1>2
<1>4. /\ b \in Seq(S) /\ Len(b) = Len(s) - k
      /\ \A i \in 1 .. Len(s) - k : b[i] = s[k + i]
  <2>1. k + 1 \in Int /\ Len(s) \in Int /\ \A i \in k + 1 .. Len(s) : s[i] \in S
    BY <1>2
  <2>2. /\ SubSeq(s, k + 1, Len(s)) \in Seq(S)
        /\ Len(SubSeq(s, k + 1, Len(s))) = IF k + 1 <= Len(s) THEN Len(s) - (k + 1) + 1 ELSE 0
        /\ \A i \in 1 .. Len(s) - (k + 1) + 1 : SubSeq(s, k + 1, Len(s))[i] = s[k + 1 + i - 1]
    BY <2>1, SubSeqProperties
  <2> QED BY <2>2, <1>2
<1> HIDE DEF a, b
<1>5. /\ r \in Seq(S) /\ DOMAIN r = 1 .. Len(s) - 1 /\ Len(r) = Len(s) - 1
      /\ \A i \in 1 .. Len(s) - 1 : r[i] = IF i < k THEN s[i] ELSE s[i + 1]
  <2>1. r = a \o b
    BY DEF a, b, Cut
  <2>0. /\ a \o b \in Seq(S) /\ Len(a \o b) = Len(a) + Len(b)
        /\ \A i \in 1 .. Len(a) + Len(b) :
              (a \o b)[i] = IF i <= Len(a) THEN a[i] ELSE b[i - Len(a)]
    BY <1>3, <1>4, ConcatProperties
  <2>2. /\ r \in Seq(S) /\ Len(r) = (k - 1) + (Len(s) - k)
        /\ \A i \in 1 .. (k - 1) + (Len(s) - k) :
              r[i] = IF i <= k - 1 THEN a[i] ELSE b[i - (k - 1)]
    BY <2>0, <2>1, <1>3, <1>4
  <2>3. Len(r) = Len(s) - 1
    BY <2>2, <1>2, <1>3, <1>4
  <2>4. ASSUME NEW i \in 1 .. Len(s) - 1
        PROVE  r[i] = IF i < k THEN s[i] ELSE s[i + 1]
    <3>1. CASE i < k
      BY <3>1, <2>2, <1>2, <1>3, <1>4
    <3>2. CASE i >= k
      <4>0. /\ i \in 1 .. (k - 1) + (Len(s) - k) /\ ~(i <= k - 1)
            /\ i - (k - 1) \in 1 .. Len(s) - k
        BY <3>2, <1>2
      <4>1. r[i] = b[i - (k - 1)]
        BY <4>0, <2>2
      <4>2. r[i] = s[k + (i - (k - 1))]
        BY <4>0, <4>1, <1>4
      <4>3. k + (i - (k - 1)) = i + 1
        BY <1>2
      <4>4. ~(i < k)
        BY <3>2, <1>2
      <4> QED BY <4>2, <4>3, <4>4
    <3> QED BY <3>1, <3>2, <1>2
  <2> QED BY <2>2, <2>3, <2>4, LenProperties
<1> QED BY <1>5

\* An event in the middle taken out: the command of the caller who waits is answered
\* with it, any other leaves it where it is.
LEMMA CarriesCut ==
    ASSUME NEW s, NEW K, NEW T, Carries(s, K, T), NEW k \in DOMAIN s
    PROVE  /\ Carries(Cut(s, k), K, T)
           /\ s[k].kind \in K /\ Truthful(s[k], T)
           /\ s[k].kind # "abortcmd" => \A w : Answered(s, w) => Answered(Cut(s, k), w)
           /\ s[k].kind = "abortcmd" =>
                  \A w : Answered(s, w) => Answered(Cut(s, k), "idle")
<1> DEFINE r == Cut(s, k)
<1>1. PICK S : s \in Seq(S) /\ \A x \in S : x.kind \in K /\ Truthful(x, T)
  BY DEF Carries
<1>2. DOMAIN s = 1 .. Len(s) /\ Len(s) \in Nat /\ k \in 1 .. Len(s)
      /\ \A i \in 1 .. Len(s) : s[i] \in S
  BY <1>1, LenProperties, ElementOfSeq
<1>5. /\ r \in Seq(S) /\ DOMAIN r = 1 .. Len(s) - 1
      /\ \A i \in 1 .. Len(s) - 1 : r[i] = IF i < k THEN s[i] ELSE s[i + 1]
  BY <1>1, CutIs
<1> HIDE DEF r
<1>6. Carries(r, K, T)
  BY <1>1, <1>5 DEF Carries
<1>7. \A i \in Commands(r) : IF i < k THEN i \in Commands(s) ELSE i + 1 \in Commands(s)
  <2> SUFFICES ASSUME NEW i \in Commands(r)
               PROVE  IF i < k THEN i \in Commands(s) ELSE i + 1 \in Commands(s)
    OBVIOUS
  <2>1. i \in 1 .. Len(s) - 1 /\ r[i].kind = "abortcmd"
    BY <1>5 DEF Commands
  <2>2. i \in 1 .. Len(s) /\ i + 1 \in 1 .. Len(s)
    BY <2>1, <1>2
  <2>3. r[i] = IF i < k THEN s[i] ELSE s[i + 1]
    BY <2>1, <1>5
  <2> QED BY <2>1, <2>2, <2>3, <1>2 DEF Commands
<1>8. Commands(s) = {} => Commands(r) = {}
  BY <1>7
<1>9. ASSUME NEW n, Commands(s) = {n}, s[k].kind # "abortcmd"
      PROVE  \E m : Commands(r) = {m}
  <2>1. n \in 1 .. Len(s) /\ n # k /\ s[n].kind = "abortcmd"
    BY <1>9, <1>2 DEF Commands
  <2> DEFINE m == IF n < k THEN n ELSE n - 1
  <2>2. m \in Commands(r)
    <3>1. m \in 1 .. Len(s) - 1 /\ (IF m < k THEN m = n ELSE m + 1 = n)
      BY <2>1, <1>2
    <3>2. r[m] = s[n]
      BY <3>1, <1>5
    <3> QED BY <2>1, <3>1, <3>2, <1>5 DEF Commands
  <2>3. ASSUME NEW i \in Commands(r)
        PROVE  i = m
    <3>1. i \in 1 .. Len(s) - 1 /\ (IF i < k THEN i = n ELSE i + 1 = n)
      BY <1>5, <1>7, <1>9 DEF Commands
    <3> QED BY <3>1, <2>1, <1>2
  <2> QED BY <2>2, <2>3
<1>10. s[k].kind # "abortcmd" => \A w : Answered(s, w) => Answered(r, w)
  BY <1>8, <1>9 DEF Answered
<1>11. ASSUME NEW n, Commands(s) = {n}, s[k].kind = "abortcmd"
       PROVE  Commands(r) = {}
  <2>1. n = k
    BY <1>2, <1>11 DEF Commands
  <2>2. ASSUME NEW i \in Commands(r)
        PROVE  FALSE
    <3>1. i \in 1 .. Len(s) - 1 /\ (IF i < k THEN i = n ELSE i + 1 = n)
      BY <1>5, <1>7, <1>11, <2>2 DEF Commands
    <3> QED BY <2>1, <3>1, <1>2
  <2> QED BY <2>2
<1>12. s[k].kind = "abortcmd" => \A w : Answered(s, w) => Answered(r, "idle")
  BY <1>8, <1>11 DEF Answered
<1>13. s[k] \in S
  BY <1>2
<1> QED BY <1>1, <1>6, <1>10, <1>12, <1>13 DEF r

\* Head is the first element.
LEMMA HeadIsFirst ==
    ASSUME NEW S, NEW s \in Seq(S)
    PROVE  Head(s) = s[1]
  OBVIOUS

\* A single event.
LEMMA CarriesOne ==
    ASSUME NEW e, NEW K, NEW T, e.kind \in K, Truthful(e, T)
    PROVE  Carries(<<e>>, K, T)
<1> DEFINE E == {e}
<1>1. <<e>> \in Seq(E)
  OBVIOUS
<1>2. \A x \in E : x.kind \in K /\ Truthful(x, T)
  OBVIOUS
<1> HIDE DEF E
<1> QED BY <1>1, <1>2 DEF Carries

------------------------------------------------------------------------------
(* The transfer of one device *)

\* Each device is the other's peer.
LEMMA PeerOfPeer ==
    ASSUME NEW d \in Devices
    PROVE  Peer(d) \in Devices /\ Peer(d) # d /\ Peer(Peer(d)) = d
<1> DEFINE R == Devices \ {d}
<1>1. IsFiniteSet(Devices) /\ Cardinality(Devices) = 2
  BY FileTransferConstants
<1>2. IsFiniteSet(R) /\ Cardinality(R) = 1
  BY <1>1, FS_RemoveElement
<1>3. PICK e : R = {e}
  BY <1>2, FS_Singleton
<1>4. e \in Devices /\ e # d /\ Devices = {d, e}
  BY <1>3
<1>5. Peer(d) = e /\ Peer(e) = d
  BY <1>4 DEF Peer
<1> QED BY <1>4, <1>5

\* A device goes on with c and sends some frames, while files may be saved and
\* transfers reported.
LEMMA Moves ==
    ASSUME Transfers, NEW d \in Devices, NEW c, NEW frames,
           Sent(d, frames), ctx' = [ctx EXCEPT ![d] = c],
           DOMAIN saved' = Devices, \A e \in Devices : saved[e] \subseteq saved'[e],
           DOMAIN completed' = Devices,
           \A e \in Devices : completed'[e] \subseteq saved'[Peer(e)],
           GoodContext(c, saved'[Peer(d)]), Carries(frames, FrameKinds, saved'[d])
    PROVE  Transfers'
<1>1. ctx' = [e \in Devices |-> ctx'[e]] /\ DOMAIN net' = Devices
  BY DEF Transfers, Sent
<1>2. ASSUME NEW e \in Devices
      PROVE  GoodContext(ctx'[e], saved'[Peer(e)])
  <2>1. CASE e = d
    BY <2>1 DEF Transfers
  <2>2. CASE e # d
    <3>1. ctx'[e] = ctx[e]
      BY <2>2 DEF Transfers
    <3>2. GoodContext(ctx[e], saved[Peer(e)]) /\ saved[Peer(e)] \subseteq saved'[Peer(e)]
      BY PeerOfPeer DEF Transfers
    <3> QED BY <3>1, <3>2 DEF GoodContext
  <2> QED BY <2>1, <2>2
<1>3. ASSUME NEW e \in Devices
      PROVE  Carries(net'[e], FrameKinds, saved'[Peer(e)])
  <2>1. Carries(net[e], FrameKinds, saved'[Peer(e)])
    BY PeerOfPeer, CarriesMore DEF Transfers
  <2>2. CASE e = Peer(d)
    <3>1. Carries(frames, FrameKinds, saved'[Peer(e)])
      BY <2>2, PeerOfPeer
    <3>2. net'[e] = net[e] \o frames
      BY <2>2 DEF Sent, Transfers
    <3> QED BY <2>1, <3>1, <3>2, CarriesBoth
  <2>3. CASE e # Peer(d)
    BY <2>1, <2>3 DEF Sent, Transfers
  <2> QED BY <2>2, <2>3
<1> QED BY <1>1, <1>2, <1>3 DEF Transfers

\* A transfer that goes on.
LEMMA KeepMoves ==
    ASSUME Transfers, NEW d \in Devices, NEW c, NEW t, NEW frames, Keep(d, c, t, frames),
           GoodContext(c, saved[Peer(d)]), Carries(frames, FrameKinds, saved[d])
    PROVE  Transfers' /\ saved' = saved
<1>1. /\ Sent(d, frames) /\ ctx' = [ctx EXCEPT ![d] = c]
      /\ saved' = saved /\ completed' = completed
  BY DEF Keep
<1> QED BY <1>1, Moves DEF Transfers

\* A transfer that is given up.
LEMMA FinishMoves ==
    ASSUME Transfers, NEW d \in Devices, NEW frames, Finish(d, frames),
           Carries(frames, FrameKinds, saved[d])
    PROVE  Transfers' /\ saved' = saved
<1>1. /\ Sent(d, frames) /\ ctx' = [ctx EXCEPT ![d] = Idle]
      /\ saved' = saved /\ completed' = completed
  BY DEF Finish, Over
<1>2. GoodContext(Idle, saved[Peer(d)])
  BY DEF GoodContext, IsContext, Idle
<1> QED BY <1>1, <1>2, Moves DEF Transfers

\* A transfer given up with an ABORT, if it is due.
LEMMA AbortMoves ==
    ASSUME Transfers, NEW d \in Devices, AbortActive(d)
    PROVE  Transfers' /\ saved' = saved
<1>1. Carries(Notice(d), FrameKinds, saved[d])
  <2>1. CASE ctx[d].told
    <3>1. Carries(<<Abort(ctx[d].tid)>>, FrameKinds, saved[d])
      BY CarriesOne DEF Abort, FrameKinds, Truthful
    <3> QED BY <2>1, <3>1 DEF Notice
  <2>2. CASE ~ctx[d].told
    BY <2>2, CarriesNone DEF Notice
  <2> QED BY <2>1, <2>2
<1> QED BY <1>1, FinishMoves DEF AbortActive

\* A transfer that is reported as completed.
LEMMA CompleteMoves ==
    ASSUME Transfers, NEW d \in Devices, Complete(d), ctx[d].tid \in saved[Peer(d)]
    PROVE  Transfers' /\ saved' = saved
<1>1. /\ Sent(d, <<>>) /\ ctx' = [ctx EXCEPT ![d] = Idle] /\ saved' = saved
      /\ completed' = [completed EXCEPT ![d] = @ \cup {ctx[d].tid}]
  BY DEF Complete, Over
<1>2. GoodContext(Idle, saved[Peer(d)])
  BY DEF GoodContext, IsContext, Idle
<1>3. /\ DOMAIN completed' = Devices
      /\ \A e \in Devices : completed'[e] \subseteq saved[Peer(e)]
  BY <1>1 DEF Transfers
<1> QED BY <1>1, <1>2, <1>3, CarriesNone, Moves DEF Transfers

\* Nothing happens to the transfer.
LEMMA StayMoves ==
    ASSUME Transfers, UNCHANGED <<ctx, net, saved, completed>>
    PROVE  Transfers' /\ saved' = saved
  BY DEF Transfers

\* A device only says something.
LEMMA SaysMoves ==
    ASSUME Transfers, NEW d \in Devices, NEW frames, Sent(d, frames),
           UNCHANGED <<ctx, saved, completed>>, Carries(frames, FrameKinds, saved[d])
    PROVE  Transfers' /\ saved' = saved
<1>1. ctx' = [ctx EXCEPT ![d] = ctx[d]]
  <2>1. ctx = [e \in Devices |-> ctx[e]]
    BY DEF Transfers
  <2>2. [ctx EXCEPT ![d] = ctx[d]] = [e \in Devices |-> IF e = d THEN ctx[d] ELSE ctx[e]]
    BY <2>1
  <2>3. [ctx EXCEPT ![d] = ctx[d]] = ctx
    BY <2>1, <2>2
  <2> QED BY <2>3
<1>2. GoodContext(ctx[d], saved[Peer(d)])
  BY DEF Transfers
<1> QED BY <1>1, <1>2, Moves DEF Transfers

\* Blocks are sent.
LEMMA FillMoves ==
    ASSUME Transfers, NEW d \in Devices, NEW c, NEW t, Fill(d, c, t),
           GoodContext(c, saved[Peer(d)])
    PROVE  Transfers' /\ saved' = saved
<1>1. CASE flags[d] # {} /\ Room(c) > 0
  <2>1. ctx' = [ctx EXCEPT ![d] = c] /\ UNCHANGED <<net, saved, completed>>
    BY <1>1 DEF Fill
  <2> QED BY <2>1 DEF Transfers
<1>2. CASE ~(flags[d] # {} /\ Room(c) > 0)
  <2>1. PICK n \in 0 .. Room(c), w \in BOOLEAN :
            \/ Keep(d, Loaded(c, n), IF n > 0 THEN Armed(d, "block") ELSE t, Blocks(c, n, w))
            \/ Keep(d, Loaded(c, n), Paused(d, c, n, t), Blocks(c, n, w))
            \/ Finish(d, Blocks(c, n, w) \o Notice(d))
    BY <1>2 DEF Fill
  <2>2. GoodContext(Loaded(c, n), saved[Peer(d)])
    <3> DEFINE r(x, y) == [c EXCEPT !.next = x, !.pipe = y]
    <3>1. ASSUME NEW x, NEW y
          PROVE  GoodContext(r(x, y), saved[Peer(d)])
      <4> DEFINE q == [c EXCEPT !.next = x]
      <4>1. GoodContext(q, saved[Peer(d)])
        BY DEF GoodContext, IsContext
      <4>2. r(x, y) = [q EXCEPT !.pipe = y]
        BY DEF GoodContext, IsContext
      <4> HIDE DEF q, r
      <4>3. GoodContext([q EXCEPT !.pipe = y], saved[Peer(d)])
        BY <4>1 DEF GoodContext, IsContext
      <4> QED BY <4>2, <4>3
    <3>2. Loaded(c, n) = r(c.next + n, c.pipe \cup (c.next .. c.next + n - 1))
      BY DEF Loaded
    <3> HIDE DEF r
    <3> QED BY <3>1, <3>2
  <2>3. Carries(Blocks(c, n, w), FrameKinds, saved[d])
    <3> DEFINE S == {Data(c.tid, c.next + m - 1, w) : m \in 1 .. n}
    <3>1. n \in Nat
      OBVIOUS
    <3>2. Blocks(c, n, w) \in Seq(S)
      <4> DEFINE block(m) == Data(c.tid, c.next + m - 1, w)
      <4>1. \A m \in 1 .. n : block(m) \in S
        OBVIOUS
      <4> HIDE DEF S
      <4>2. Blocks(c, n, w) = [m \in 1 .. n |-> block(m)]
        BY DEF Blocks
      <4> HIDE DEF block
      <4>3. [m \in 1 .. n |-> block(m)] \in [1 .. n -> S]
        BY <4>1
      <4> QED BY <3>1, <4>2, <4>3
    <3>3. \A x \in S : x.kind \in FrameKinds /\ Truthful(x, saved[d])
      BY DEF Data, FrameKinds, Truthful
    <3> HIDE DEF S
    <3> QED BY <3>2, <3>3 DEF Carries
  <2>4. Carries(Notice(d), FrameKinds, saved[d])
    <3>1. Carries(<<Abort(ctx[d].tid)>>, FrameKinds, saved[d])
      BY CarriesOne DEF Abort, FrameKinds, Truthful
    <3> QED BY <3>1, CarriesNone DEF Notice
  <2>5. Carries(Blocks(c, n, w) \o Notice(d), FrameKinds, saved[d])
    BY <2>3, <2>4, CarriesBoth
  <2> QED BY <2>1, <2>2, <2>3, <2>5, KeepMoves, FinishMoves
<1> QED BY <1>1, <1>2

\* The wait for FINAL, which may be over at once.
LEMMA WaitFinalMoves ==
    ASSUME Transfers, NEW d \in Devices, NEW c, WaitFinal(d, c),
           GoodContext(c, saved[Peer(d)]), c.tid = ctx[d].tid
    PROVE  Transfers' /\ saved' = saved
<1>1. CASE c.early = "ok"
  <2>1. Complete(d) /\ ctx[d].tid \in saved[Peer(d)]
    BY <1>1 DEF WaitFinal, GoodContext
  <2> QED BY <2>1, CompleteMoves
<1>2. CASE c.early = "failed"
  <2>1. Finish(d, <<>>)
    BY <1>2 DEF WaitFinal
  <2> QED BY <2>1, CarriesNone, FinishMoves
<1>3. CASE c.early \notin {"ok", "failed"}
  <2>1. Keep(d, [c EXCEPT !.state = "waitfinal"], Armed(d, "final"), <<>>)
    BY <1>3 DEF WaitFinal
  <2>2. GoodContext([c EXCEPT !.state = "waitfinal"], saved[Peer(d)])
    BY DEF GoodContext, IsContext
  <2> QED BY <2>1, <2>2, CarriesNone, KeepMoves
<1> QED BY <1>1, <1>2, <1>3

\* A field of a context that says nothing about FINAL.
LEMMA ContextFields ==
    ASSUME NEW c, NEW T, GoodContext(c, T), NEW x
    PROVE  /\ GoodContext([c EXCEPT !.state = x], T) /\ [c EXCEPT !.state = x].tid = c.tid
           /\ GoodContext([c EXCEPT !.pipe = x], T) /\ [c EXCEPT !.pipe = x].tid = c.tid
           /\ GoodContext([c EXCEPT !.told = x], T) /\ [c EXCEPT !.told = x].tid = c.tid
           /\ GoodContext([c EXCEPT !.next = x], T) /\ [c EXCEPT !.next = x].tid = c.tid
           /\ GoodContext([c EXCEPT !.whole = x], T) /\ [c EXCEPT !.whole = x].tid = c.tid
  BY DEF GoodContext, IsContext

\* A context without an early FINAL, and its fields.
Plain(c) == IsContext(c) /\ c.early = "none"

\* Its fields.
LEMMA PlainFields ==
    ASSUME NEW c, Plain(c), NEW x
    PROVE  /\ Plain([c EXCEPT !.role = x]) /\ Plain([c EXCEPT !.state = x])
           /\ Plain([c EXCEPT !.tid = x]) /\ Plain([c EXCEPT !.total = x])
           /\ Plain([c EXCEPT !.told = x])
  BY DEF Plain, IsContext

\* No transfer is one.
LEMMA PlainIdle == Plain(Idle)
  BY DEF Plain, IsContext, Idle

------------------------------------------------------------------------------
(* What waits for the worker *)

\* The fields of what the input handler has in hand.
LEMMA HandFields ==
    ASSUME NEW h, h = [at |-> h.at, frame |-> h.frame, aside |-> h.aside], NEW x
    PROVE  /\ [h EXCEPT !.at = x] = [at |-> x, frame |-> h.frame, aside |-> h.aside]
           /\ [h EXCEPT !.frame = x] = [at |-> h.at, frame |-> x, aside |-> h.aside]
           /\ [h EXCEPT !.aside = x] = [at |-> h.at, frame |-> h.frame, aside |-> x]
  OBVIOUS

\* Its handler goes on to another step.
LEMMA HandMoved ==
    ASSUME NEW h, h = [at |-> h.at, frame |-> h.frame, aside |-> h.aside], NEW x, NEW y
    PROVE  [h EXCEPT !.at = x, !.aside = y] = [at |-> x, frame |-> h.frame, aside |-> y]
<1> DEFINE p == [h EXCEPT !.at = x]
<1>1. p = [at |-> x, frame |-> h.frame, aside |-> h.aside]
  BY HandFields
<1> HIDE DEF p
<1>2. p = [at |-> p.at, frame |-> p.frame, aside |-> p.aside] /\ p.at = x /\ p.frame = h.frame
  BY <1>1
<1>3. [p EXCEPT !.aside = y] = [at |-> x, frame |-> h.frame, aside |-> y]
  BY <1>2, HandFields
<1> QED BY <1>3 DEF p

\* A frame taken in hand.
LEMMA FrameInHand ==
    ASSUME NEW m
    PROVE  [NoFrame EXCEPT !.at = "try", !.frame = m] = [at |-> "try", frame |-> m, aside |-> 0]
<1> DEFINE p == [NoFrame EXCEPT !.at = "try"]
<1>1. NoFrame = [at |-> NoFrame.at, frame |-> NoFrame.frame, aside |-> NoFrame.aside]
      /\ NoFrame.aside = 0
  BY DEF NoFrame
<1>2. p = [at |-> "try", frame |-> NoFrame.frame, aside |-> 0]
  BY <1>1, HandFields
<1> HIDE DEF p
<1>3. p = [at |-> p.at, frame |-> p.frame, aside |-> p.aside] /\ p.at = "try" /\ p.aside = 0
  BY <1>2
<1>4. [p EXCEPT !.frame = m] = [at |-> "try", frame |-> m, aside |-> 0]
  BY <1>3, HandFields
<1> QED BY <1>4 DEF p

\* The input handler puts its frame down, or changes nothing about it.
LEMMA HandsStay ==
    ASSUME Hands, \A e \in Devices : saved[e] \subseteq saved'[e],
           hand' = hand \/ \E d \in Devices : EmptyHanded(d)
    PROVE  Hands'
<1>1. \A T : GoodHand(NoFrame, T)
  BY DEF GoodHand, NoFrame
<1>2. hand' = [e \in Devices |-> hand'[e]]
  BY DEF Hands, EmptyHanded
<1>3. ASSUME NEW e \in Devices
      PROVE  GoodHand(hand'[e], saved'[Peer(e)])
  <2>1. GoodHand(hand[e], saved[Peer(e)]) /\ saved[Peer(e)] \subseteq saved'[Peer(e)]
    BY PeerOfPeer DEF Hands
  <2>2. GoodHand(hand[e], saved'[Peer(e)])
    BY <2>1 DEF GoodHand, Truthful
  <2>3. hand'[e] \in {hand[e], NoFrame}
    BY DEF Hands, EmptyHanded
  <2> QED BY <1>1, <2>2, <2>3
<1> QED BY <1>2, <1>3 DEF Hands

\* It takes a frame.
LEMMA HandsGo ==
    ASSUME Hands, NEW d \in Devices, NEW h, hand' = [hand EXCEPT ![d] = h],
           GoodHand(h, saved[Peer(d)]), saved' = saved
    PROVE  Hands'
<1>1. hand = [e \in Devices |-> hand[e]] /\ \A e \in Devices : GoodHand(hand[e], saved[Peer(e)])
  BY DEF Hands
<1>2. hand' = [e \in Devices |-> IF e = d THEN h ELSE hand[e]]
  BY <1>1
<1>3. hand' = [e \in Devices |-> hand'[e]]
  BY <1>2
<1>4. \A e \in Devices : GoodHand(hand'[e], saved'[Peer(e)])
  BY <1>1, <1>2
<1> QED BY <1>3, <1>4 DEF Hands

\* It goes on with its frame.
LEMMA HandsMove ==
    ASSUME Hands, NEW d \in Devices, NEW place, NEW n \in Nat, InHand(d, place, n),
           hand[d].at # "none", saved' = saved
    PROVE  Hands'
<1> DEFINE h == [hand[d] EXCEPT !.at = place, !.aside = n]
<1>1. hand' = [hand EXCEPT ![d] = h]
  BY DEF InHand
<1>2. GoodHand(hand[d], saved[Peer(d)])
  BY DEF Hands
<1>3. h = [at |-> place, frame |-> hand[d].frame, aside |-> n]
  BY <1>2, HandMoved DEF GoodHand
<1> HIDE DEF h
<1>4. h.at = place /\ h.frame = hand[d].frame /\ h.aside = n
  BY <1>3
<1>5. GoodHand(h, saved[Peer(d)])
  BY <1>2, <1>3, <1>4 DEF GoodHand
<1> QED BY <1>1, <1>5, HandsGo

\* Nothing waits longer or shorter, while files may be saved.
LEMMA WaitsStay ==
    ASSUME Waits, \A e \in Devices : saved[e] \subseteq saved'[e],
           UNCHANGED <<queue, urgent, app, hand>>
    PROVE  Waits'
<1>1. \A e \in Devices : saved[Peer(e)] \subseteq saved'[Peer(e)]
  BY PeerOfPeer
<1> QED BY <1>1, CarriesMore, HandsStay DEF Waits

\* The worker takes an event the input handler has not set aside.
LEMMA TakenPlace ==
    ASSUME Hands, NEW d \in Devices, NEW kind, Taken(d, kind), urgent[d] = <<>>,
           NEW K, NEW T, Carries(queue[d], K, T)
    PROVE  hand[d].aside + 1 \in DOMAIN queue[d]
<1>1. hand[d].aside \in Nat /\ hand[d].aside < Len(queue[d])
  BY DEF Hands, GoodHand, Taken
<1>2. PICK S : queue[d] \in Seq(S)
  BY DEF Carries
<1>3. DOMAIN queue[d] = 1 .. Len(queue[d]) /\ Len(queue[d]) \in Nat
  BY <1>2, LenProperties
<1> QED BY <1>1, <1>3

\* The worker takes an event that is not an abort command.
LEMMA WaitsTaken ==
    ASSUME Waits, NEW d \in Devices, NEW kind, kind # "abortcmd", Taken(d, kind),
           app' = app, saved' = saved
    PROVE  Waits' /\ Truthful(Event(d), saved[Peer(d)])
<1>1. /\ Carries(queue[d], Events, saved[Peer(d)])
      /\ Carries(urgent[d], UrgentKinds, saved[Peer(d)])
      /\ Answered(queue[d], app[d])
      /\ DOMAIN queue = Devices /\ DOMAIN urgent = Devices /\ DOMAIN app = Devices
  BY DEF Waits
<1>4. Hands'
  <2>1. hand' = hand
    BY DEF Taken
  <2> QED BY <2>1, HandsStay DEF Waits
<1>5. CASE urgent[d] # <<>>
  <2>1. /\ urgent' = [urgent EXCEPT ![d] = Tail(@)] /\ queue' = queue
        /\ Event(d) = Head(urgent[d])
    BY <1>5 DEF Taken, Event
  <2>2. Carries(Tail(urgent[d]), UrgentKinds, saved[Peer(d)])
        /\ Truthful(Head(urgent[d]), saved[Peer(d)])
    BY <1>1, <1>5, CarriesTail
  <2> QED BY <1>1, <1>4, <2>1, <2>2 DEF Waits
<1>6. CASE urgent[d] = <<>>
  <2> DEFINE k == hand[d].aside + 1
             q == Cut(queue[d], k)
  <2>1. /\ queue' = [queue EXCEPT ![d] = q] /\ urgent' = urgent
        /\ Event(d) = queue[d][k] /\ Event(d).kind # "abortcmd"
    BY <1>6 DEF Taken, Event
  <2>2. k \in DOMAIN queue[d]
    BY <1>1, <1>6, TakenPlace DEF Waits
  <2> HIDE DEF k
  <2>3. /\ Carries(q, Events, saved[Peer(d)]) /\ Truthful(queue[d][k], saved[Peer(d)])
        /\ Answered(q, app[d])
    BY <1>1, <2>1, <2>2, CarriesCut
  <2> QED BY <1>1, <1>4, <2>1, <2>3 DEF Waits
<1> QED BY <1>5, <1>6

\* An event that is not an abort command is queued.
LEMMA WaitsQueued ==
    ASSUME Waits, NEW d \in Devices, NEW e, Queued(d, e),
           e.kind \in Events, e.kind # "abortcmd", Truthful(e, saved[Peer(d)]),
           UNCHANGED <<urgent, app, saved>>, hand' = hand \/ EmptyHanded(d)
    PROVE  Waits'
<1>1. /\ Carries(Append(queue[d], e), Events, saved[Peer(d)])
      /\ Commands(Append(queue[d], e)) = Commands(queue[d])
  BY CarriesAppend DEF Waits
<1>2. Answered(Append(queue[d], e), app[d])
  BY <1>1 DEF Waits, Answered
<1>3. queue' = [queue EXCEPT ![d] = Append(queue[d], e)]
  BY DEF Queued
<1>4. Hands'
  BY HandsStay DEF Waits
<1> QED BY <1>1, <1>2, <1>3, <1>4 DEF Waits

\* An urgent frame is queued.
LEMMA UrgentQueued ==
    ASSUME Waits, NEW d \in Devices, NEW m, urgent' = [urgent EXCEPT ![d] = Append(@, m)],
           m.kind \in UrgentKinds, Truthful(m, saved[Peer(d)]),
           UNCHANGED <<queue, app, saved>>, hand' = hand \/ EmptyHanded(d)
    PROVE  Waits'
<1>1. Carries(Append(urgent[d], m), UrgentKinds, saved[Peer(d)])
  BY CarriesAppend DEF Waits
<1>2. Hands'
  BY HandsStay DEF Waits
<1> QED BY <1>1, <1>2 DEF Waits

------------------------------------------------------------------------------
(* The sender's steps *)

\* The command to send.
LEMMA HandleSendKeeps ==
    ASSUME IInv, NEW d \in Devices, HandleSend(d)
    PROVE  IInv'
<1>1. Transfers' /\ saved' = saved
  <2>1. CASE Stay(d)
    BY <2>1, StayMoves DEF Stay, IInv
  <2>2. CASE ~Stay(d)
    <3> DEFINE n == Event(d).total
    <3>1. /\ ctx' = [ctx EXCEPT ![d] = [Idle EXCEPT !.role = "sender",
                          !.state = "preparing", !.tid = nextId[d], !.total = n]]
          /\ UNCHANGED <<net, saved, completed>>
      BY <2>2, Zenon DEF HandleSend
    <3> HIDE DEF n
    <3>2. GoodContext([Idle EXCEPT !.role = "sender", !.state = "preparing",
                          !.tid = nextId[d], !.total = n], saved[Peer(d)])
      <4> DEFINE q == [Idle EXCEPT !.role = "sender"]
                 r == [q EXCEPT !.state = "preparing"]
                 u == [r EXCEPT !.tid = nextId[d]]
      <4>1. [Idle EXCEPT !.role = "sender", !.state = "preparing",
                          !.tid = nextId[d], !.total = n] = [u EXCEPT !.total = n]
        OBVIOUS
      <4>2. Plain(q)
        BY PlainIdle, PlainFields
      <4>3. Plain(r)
        BY <4>2, PlainFields
      <4>4. Plain(u)
        BY <4>3, PlainFields
      <4>5. Plain([u EXCEPT !.total = n])
        BY <4>4, PlainFields
      <4> QED BY <4>1, <4>5 DEF GoodContext, Plain
    <3> QED BY <3>1, <3>2 DEF IInv, Transfers
  <2> QED BY <2>1, <2>2
<1>2. Taken(d, "send") /\ app' = app
  BY DEF HandleSend
<1> QED BY <1>1, <1>2, WaitsTaken DEF IInv

\* The file is hashed and META sent.
LEMMA PrepareKeeps ==
    ASSUME IInv, NEW d \in Devices, Prepare(d)
    PROVE  IInv'
<1>1. GoodContext(ctx[d], saved[Peer(d)])
  BY DEF IInv, Transfers
<1>2. Transfers' /\ saved' = saved
  <2>1. CASE Keep(d, [ctx[d] EXCEPT !.state = "waitmeta", !.told = TRUE], Armed(d, "meta"),
                  <<Meta(ctx[d].tid, ctx[d].total)>>)
    <3> DEFINE q == [ctx[d] EXCEPT !.state = "waitmeta"]
    <3>1. GoodContext(q, saved[Peer(d)])
      BY <1>1, ContextFields
    <3>2. GoodContext([q EXCEPT !.told = TRUE], saved[Peer(d)])
      BY <3>1, ContextFields
    <3>3. [ctx[d] EXCEPT !.state = "waitmeta", !.told = TRUE] = [q EXCEPT !.told = TRUE]
      BY <1>1 DEF GoodContext, IsContext
    <3>4. Carries(<<Meta(ctx[d].tid, ctx[d].total)>>, FrameKinds, saved[d])
      BY CarriesOne DEF Meta, FrameKinds, Truthful
    <3> QED BY <2>1, <3>2, <3>3, <3>4, KeepMoves DEF IInv
  <2>2. CASE Finish(d, <<>>)
    BY <2>2, CarriesNone, FinishMoves DEF IInv
  <2>3. CASE UNCHANGED <<ctx, timer, net, saved, completed>>
    BY <2>3, StayMoves DEF IInv
  <2> QED BY <2>1, <2>2, <2>3 DEF Prepare
<1>3. UNCHANGED <<queue, urgent, app, hand>>
  BY DEF Prepare, Done
<1> QED BY <1>2, <1>3, WaitsStay DEF IInv

\* The response to META.
LEMMA HandleMetaRspKeeps ==
    ASSUME IInv, NEW d \in Devices, HandleMetaRsp(d)
    PROVE  IInv'
<1>1. GoodContext(ctx[d], saved[Peer(d)]) /\ Transfers /\ Waits
  BY DEF IInv, Transfers
<1>2. Transfers' /\ saved' = saved
  <2>1. \/ Finish(d, <<>>) \/ AbortActive(d) \/ Stay(d)
        \/ WaitFinal(d, ctx[d])
        \/ Fill(d, [ctx[d] EXCEPT !.state = "sending"], Disarmed(d))
    BY DEF HandleMetaRsp
  <2>2. GoodContext([ctx[d] EXCEPT !.state = "sending"], saved[Peer(d)])
    BY <1>1, ContextFields
  <2>3. CASE Finish(d, <<>>)
    BY <1>1, <2>3, CarriesNone, FinishMoves
  <2>4. CASE AbortActive(d)
    BY <1>1, <2>4, AbortMoves
  <2>5. CASE Stay(d)
    BY <1>1, <2>5, StayMoves DEF Stay
  <2>6. CASE WaitFinal(d, ctx[d])
    BY <1>1, <2>6, WaitFinalMoves
  <2>7. CASE Fill(d, [ctx[d] EXCEPT !.state = "sending"], Disarmed(d))
    BY <1>1, <2>2, <2>7, FillMoves
  <2> QED BY <2>1, <2>3, <2>4, <2>5, <2>6, <2>7
<1>3. Taken(d, "metarsp") /\ app' = app
  BY DEF HandleMetaRsp, Done
<1> QED BY <1>1, <1>2, <1>3, WaitsTaken DEF IInv

\* The response to a block.
LEMMA HandleDataRspKeeps ==
    ASSUME IInv, NEW d \in Devices, HandleDataRsp(d)
    PROVE  IInv'
<1>1. GoodContext(ctx[d], saved[Peer(d)]) /\ Transfers /\ Waits
  BY DEF IInv, Transfers
<1> DEFINE rest == [ctx[d] EXCEPT !.pipe = @ \ {Event(d).idx}]
<1>2. GoodContext(rest, saved[Peer(d)]) /\ rest.tid = ctx[d].tid
  BY <1>1, ContextFields
<1>3. Transfers' /\ saved' = saved
  <2>1. \/ Stay(d) \/ AbortActive(d)
        \/ WaitFinal(d, rest)
        \/ \E t : Fill(d, rest, t)
        \/ \E w \in BOOLEAN :
              Keep(d, ctx[d], Armed(d, "block"), <<Data(ctx[d].tid, Event(d).idx, w)>>)
    BY DEF HandleDataRsp
  <2> HIDE DEF rest
  <2>2. CASE Stay(d)
    BY <1>1, <2>2, StayMoves DEF Stay
  <2>3. CASE AbortActive(d)
    BY <1>1, <2>3, AbortMoves
  <2>4. CASE WaitFinal(d, rest)
    BY <1>1, <1>2, <2>4, WaitFinalMoves
  <2>5. CASE \E t : Fill(d, rest, t)
    BY <1>1, <1>2, <2>5, FillMoves
  <2>6. ASSUME NEW w \in BOOLEAN,
               Keep(d, ctx[d], Armed(d, "block"), <<Data(ctx[d].tid, Event(d).idx, w)>>)
        PROVE  Transfers' /\ saved' = saved
    <3>1. Carries(<<Data(ctx[d].tid, Event(d).idx, w)>>, FrameKinds, saved[d])
      BY CarriesOne DEF Data, FrameKinds, Truthful
    <3> QED BY <1>1, <2>6, <3>1, KeepMoves
  <2> QED BY <2>1, <2>2, <2>3, <2>4, <2>5, <2>6
<1>4. Taken(d, "datarsp") /\ app' = app
  BY DEF HandleDataRsp, Done
<1> QED BY <1>1, <1>3, <1>4, WaitsTaken DEF IInv

\* FINAL, early or in time.
LEMMA HandleFinalKeeps ==
    ASSUME IInv, NEW d \in Devices, HandleFinal(d)
    PROVE  IInv'
<1>1. GoodContext(ctx[d], saved[Peer(d)]) /\ Transfers /\ Waits
  BY DEF IInv, Transfers
<1>2. Taken(d, "final") /\ app' = app
  BY DEF HandleFinal, Done
<1>3. saved' = saved
  BY DEF HandleFinal, Stay, Complete, Finish, Keep, AbortActive
<1>4. Waits' /\ Truthful(Event(d), saved[Peer(d)]) /\ Event(d).kind = "final"
  BY <1>1, <1>2, <1>3, WaitsTaken DEF Taken
<1>5. Transfers'
  <2> DEFINE c == [ctx[d] EXCEPT !.early = Event(d).status]
  <2>1. \/ Stay(d) \/ AbortActive(d)
        \/ Finish(d, <<>>)
        \/ Complete(d) /\ Event(d).status = "ok" /\ ctx[d].tid = Event(d).tid
        \/ Keep(d, c, timer[d], <<>>) /\ ctx[d].tid = Event(d).tid
    BY DEF HandleFinal
  <2>2. ctx[d].tid = Event(d).tid => GoodContext(c, saved[Peer(d)])
    BY <1>1, <1>4 DEF GoodContext, IsContext, Truthful
  <2> HIDE DEF c
  <2>3. CASE Stay(d)
    BY <1>1, <2>3, StayMoves DEF Stay
  <2>4. CASE AbortActive(d)
    BY <1>1, <2>4, AbortMoves
  <2>5. CASE Finish(d, <<>>)
    BY <1>1, <2>5, CarriesNone, FinishMoves
  <2>6. CASE Complete(d) /\ Event(d).status = "ok" /\ ctx[d].tid = Event(d).tid
    BY <1>1, <1>4, <2>6, CompleteMoves DEF Truthful
  <2>7. CASE Keep(d, c, timer[d], <<>>) /\ ctx[d].tid = Event(d).tid
    BY <1>1, <2>2, <2>7, CarriesNone, KeepMoves
  <2> QED BY <2>1, <2>3, <2>4, <2>5, <2>6, <2>7
<1> QED BY <1>4, <1>5 DEF IInv

------------------------------------------------------------------------------
(* The receiver's steps *)

\* META is accepted, rejected or dropped.
LEMMA HandleMetaKeeps ==
    ASSUME IInv, NEW d \in Devices, HandleMeta(d)
    PROVE  IInv'
<1>1. Transfers /\ Waits /\ GoodContext(ctx[d], saved[Peer(d)])
  BY DEF IInv, Transfers
<1> DEFINE m == Event(d)
           st == IF m.total = 0 THEN "finalizing" ELSE "waitdata"
           q == [Idle EXCEPT !.role = "receiver"]
           r == [q EXCEPT !.tid = m.tid]
           u == [r EXCEPT !.total = m.total]
           v == [u EXCEPT !.told = TRUE]
           c == [Idle EXCEPT !.role = "receiver", !.tid = m.tid, !.total = m.total,
                             !.told = TRUE, !.state = st]
<1>2. Plain(c)
  <2>1. c = [v EXCEPT !.state = st]
    OBVIOUS
  <2>2. Plain(q)
    BY PlainIdle, PlainFields
  <2>3. Plain(r)
    BY <2>2, PlainFields
  <2>4. Plain(u)
    BY <2>3, PlainFields
  <2>5. Plain(v)
    BY <2>4, PlainFields
  <2> QED BY <2>1, <2>5, PlainFields
<1>3. \/ \E t : Keep(d, c, t, <<MetaRsp(m.tid, "ok")>>)
      \/ Stay(d)
      \/ /\ Sent(d, <<MetaRsp(m.tid, "rejected")>>)
         /\ UNCHANGED <<ctx, saved, completed>>
  BY DEF HandleMeta
<1>4. Taken(d, "meta") /\ app' = app
  BY DEF HandleMeta
<1> HIDE DEF m, st, q, r, u, v, c
<1>5. /\ Carries(<<MetaRsp(m.tid, "ok")>>, FrameKinds, saved[d])
      /\ Carries(<<MetaRsp(m.tid, "rejected")>>, FrameKinds, saved[d])
  BY CarriesOne DEF MetaRsp, FrameKinds, Truthful
<1>6. GoodContext(c, saved[Peer(d)])
  BY <1>2 DEF Plain, GoodContext
<1>7. Transfers' /\ saved' = saved
  <2>1. CASE \E t : Keep(d, c, t, <<MetaRsp(m.tid, "ok")>>)
    BY <1>1, <1>5, <1>6, <2>1, KeepMoves
  <2>2. CASE Stay(d)
    BY <1>1, <2>2, StayMoves DEF Stay
  <2>3. CASE /\ Sent(d, <<MetaRsp(m.tid, "rejected")>>)
             /\ UNCHANGED <<ctx, saved, completed>>
    BY <1>1, <1>5, <2>3, SaysMoves
  <2> QED BY <1>3, <2>1, <2>2, <2>3
<1> QED BY <1>1, <1>4, <1>7, WaitsTaken DEF IInv

\* A block is taken or fails the transfer.
LEMMA HandleDataKeeps ==
    ASSUME IInv, NEW d \in Devices, HandleData(d)
    PROVE  IInv'
<1>1. Transfers /\ Waits /\ GoodContext(ctx[d], saved[Peer(d)])
  BY DEF IInv, Transfers
<1> DEFINE m == Event(d)
           q == [ctx[d] EXCEPT !.next = @ + 1]
           c == [ctx[d] EXCEPT !.next = @ + 1, !.whole = @ /\ m.whole]
           no == <<DataRsp(m.tid, m.idx, "failed")>>
           yes == <<DataRsp(m.tid, m.idx, "ok")>>
<1>2. GoodContext(c, saved[Peer(d)])
  <2>1. c = [q EXCEPT !.whole = @ /\ m.whole]
    BY <1>1 DEF GoodContext, IsContext
  <2>2. GoodContext(q, saved[Peer(d)])
    BY <1>1, ContextFields
  <2> HIDE DEF q
  <2>3. GoodContext([q EXCEPT !.whole = @ /\ m.whole], saved[Peer(d)])
    BY <2>2, ContextFields
  <2> QED BY <2>1, <2>3
<1>3. \/ Sent(d, no) /\ UNCHANGED <<ctx, saved, completed>>
      \/ Finish(d, no) \/ Finish(d, <<>>)
      \/ Keep(d, c, Armed(d, "data"), yes)
      \/ Keep(d, [c EXCEPT !.state = "finalizing"], Disarmed(d), yes)
  BY DEF HandleData
<1>4. Taken(d, "data") /\ app' = app
  BY DEF HandleData, Done
<1>5. Carries(no, FrameKinds, saved[d]) /\ Carries(yes, FrameKinds, saved[d])
  BY CarriesOne DEF DataRsp, FrameKinds, Truthful
<1> HIDE DEF m, q, c, no, yes
<1>6. GoodContext([c EXCEPT !.state = "finalizing"], saved[Peer(d)])
  BY <1>2, ContextFields
<1>7. Transfers' /\ saved' = saved
  <2>1. CASE Sent(d, no) /\ UNCHANGED <<ctx, saved, completed>>
    BY <1>1, <1>5, <2>1, SaysMoves
  <2>2. CASE Finish(d, no) \/ Finish(d, <<>>)
    BY <1>1, <1>5, <2>2, CarriesNone, FinishMoves
  <2>3. CASE Keep(d, c, Armed(d, "data"), yes)
    BY <1>1, <1>2, <1>5, <2>3, KeepMoves
  <2>4. CASE Keep(d, [c EXCEPT !.state = "finalizing"], Disarmed(d), yes)
    BY <1>1, <1>5, <1>6, <2>4, KeepMoves
  <2> QED BY <1>3, <2>1, <2>2, <2>3, <2>4
<1> QED BY <1>1, <1>4, <1>7, WaitsTaken DEF IInv

\* The file is verified and renamed before FINAL says so.
LEMMA FinalizeKeeps ==
    ASSUME IInv, NEW d \in Devices, Finalize(d)
    PROVE  IInv'
<1>1. Transfers /\ Waits
  BY DEF IInv
<1>2. UNCHANGED <<queue, urgent, app, hand>>
  BY DEF Finalize, Done
<1> DEFINE t == ctx[d].tid
<1>3. CASE Finish(d, <<Final(t, "failed")>>)
  <2>1. Carries(<<Final(t, "failed")>>, FrameKinds, saved[d])
    BY CarriesOne DEF Final, FrameKinds, Truthful
  <2>2. Transfers' /\ saved' = saved
    BY <1>1, <1>3, <2>1, FinishMoves
  <2> QED BY <1>1, <1>2, <2>2, WaitsStay DEF IInv
<1>4. ASSUME NEW frames \in {<<Final(t, "ok")>>, <<>>}, Over(d, frames),
             saved' = [saved EXCEPT ![d] = @ \cup {t}], completed' = completed
      PROVE  IInv'
  <2>1. /\ DOMAIN saved' = Devices /\ t \in saved'[d]
        /\ \A e \in Devices : saved[e] \subseteq saved'[e]
    BY <1>1, <1>4 DEF Transfers
  <2>2. Carries(frames, FrameKinds, saved'[d])
    <3>1. Carries(<<Final(t, "ok")>>, FrameKinds, saved'[d])
      BY <2>1, CarriesOne DEF Final, FrameKinds, Truthful
    <3> QED BY <1>4, <3>1, CarriesNone
  <2>3. /\ DOMAIN completed' = Devices
        /\ \A e \in Devices : completed'[e] \subseteq saved'[Peer(e)]
    BY <1>1, <1>4, <2>1, PeerOfPeer DEF Transfers
  <2>4. GoodContext(Idle, saved'[Peer(d)])
    BY PlainIdle DEF Plain, GoodContext
  <2>5. Sent(d, frames) /\ ctx' = [ctx EXCEPT ![d] = Idle]
    BY <1>4 DEF Over
  <2>6. Transfers'
    BY <1>1, <2>1, <2>2, <2>3, <2>4, <2>5, Moves
  <2> QED BY <1>1, <1>2, <2>1, <2>6, WaitsStay DEF IInv
<1> QED BY <1>3, <1>4 DEF Finalize

------------------------------------------------------------------------------
(* Flags, aborts and timeouts *)

\* What a timeout does.
LEMMA ExpiredMoves ==
    ASSUME Transfers, NEW d \in Devices, Expired(d)
    PROVE  Transfers' /\ saved' = saved
<1>1. GoodContext(ctx[d], saved[Peer(d)])
  BY DEF Transfers
<1>2. AbortActive(d) \/ \E t : Fill(d, ctx[d], t)
  BY DEF Expired
<1> QED BY <1>1, <1>2, AbortMoves, FillMoves

\* A look at the pending flags.
LEMMA TerminateKeeps ==
    ASSUME IInv, NEW d \in Devices, Terminate(d)
    PROVE  IInv'
<1>1. Transfers /\ Waits
  BY DEF IInv
<1>2. \/ Finish(d, Notice(d)) \/ Finish(d, <<>>) \/ AbortActive(d) \/ Stay(d)
  BY DEF Terminate
<1>3. Transfers' /\ saved' = saved
  <2>1. CASE Finish(d, Notice(d)) \/ AbortActive(d)
    BY <1>1, <2>1, AbortMoves DEF AbortActive
  <2>2. CASE Finish(d, <<>>)
    BY <1>1, <2>2, CarriesNone, FinishMoves
  <2>3. CASE Stay(d)
    BY <1>1, <2>3, StayMoves DEF Stay
  <2> QED BY <1>2, <2>1, <2>2, <2>3
<1>4. UNCHANGED <<queue, urgent, app, hand>>
  BY DEF Terminate
<1> QED BY <1>1, <1>3, <1>4, WaitsStay DEF IInv

\* ABORT of the peer.
LEMMA HandleAbortKeeps ==
    ASSUME IInv, NEW d \in Devices, HandleAbort(d)
    PROVE  IInv'
<1>1. Transfers /\ Waits
  BY DEF IInv
<1>2. Taken(d, "abort") /\ app' = app /\ (Finish(d, <<>>) \/ Stay(d))
  BY DEF HandleAbort, Done
<1>3. Transfers' /\ saved' = saved
  <2>1. CASE Finish(d, <<>>)
    BY <1>1, <2>1, CarriesNone, FinishMoves
  <2>2. CASE Stay(d)
    BY <1>1, <2>2, StayMoves DEF Stay
  <2> QED BY <1>2, <2>1, <2>2
<1> QED BY <1>1, <1>2, <1>3, WaitsTaken DEF IInv

\* An expiry from the queue.
LEMMA HandleTimeoutKeeps ==
    ASSUME IInv, NEW d \in Devices, HandleTimeout(d)
    PROVE  IInv'
<1>1. Transfers /\ Waits
  BY DEF IInv
<1>2. Taken(d, "timeout") /\ app' = app /\ (Expired(d) \/ Stay(d))
  BY DEF HandleTimeout, Done
<1>3. Transfers' /\ saved' = saved
  BY <1>1, <1>2, ExpiredMoves, StayMoves DEF Stay
<1> QED BY <1>1, <1>2, <1>3, WaitsTaken DEF IInv

\* An expiry left pending.
LEMMA HandleLateKeeps ==
    ASSUME IInv, NEW d \in Devices, HandleLate(d)
    PROVE  IInv'
<1>1. Transfers /\ Waits
  BY DEF IInv
<1>2. UNCHANGED <<queue, urgent, app, hand>> /\ (Expired(d) \/ UNCHANGED <<ctx, net, saved, completed>>)
  BY DEF HandleLate
<1>3. Transfers' /\ saved' = saved
  BY <1>1, <1>2, ExpiredMoves, StayMoves
<1> QED BY <1>1, <1>2, <1>3, WaitsStay DEF IInv

\* The abort command ends its caller's wait; it is in the event queue.
LEMMA HandleAbortCmdKeeps ==
    ASSUME IInv, NEW d \in Devices, HandleAbortCmd(d)
    PROVE  IInv'
<1>1. Transfers /\ Waits
  BY DEF IInv
<1>2. /\ Taken(d, "abortcmd") /\ app' = [app EXCEPT ![d] = "idle"]
      /\ AbortActive(d) \/ Stay(d)
  BY DEF HandleAbortCmd
<1>3. Transfers' /\ saved' = saved
  BY <1>1, <1>2, AbortMoves, StayMoves DEF Stay
<1>4. /\ Carries(queue[d], Events, saved[Peer(d)])
      /\ Carries(urgent[d], UrgentKinds, saved[Peer(d)])
      /\ Answered(queue[d], app[d])
      /\ DOMAIN queue = Devices /\ DOMAIN urgent = Devices /\ DOMAIN app = Devices
  BY <1>1 DEF Waits
<1>5. urgent[d] = <<>>
  <2> SUFFICES ASSUME urgent[d] # <<>> PROVE FALSE
    OBVIOUS
  <2>1. Head(urgent[d]).kind \in UrgentKinds
    BY <1>4, CarriesTail
  <2> QED BY <1>2, <2>1 DEF Taken, Event, UrgentKinds
<1> DEFINE k == hand[d].aside + 1
           q == Cut(queue[d], k)
<1>6. /\ queue' = [queue EXCEPT ![d] = q] /\ urgent' = urgent /\ hand' = hand
      /\ queue[d][k].kind = "abortcmd"
  BY <1>2, <1>5 DEF Taken, Event
<1>7. k \in DOMAIN queue[d]
  BY <1>1, <1>2, <1>4, <1>5, TakenPlace DEF Waits
<1> HIDE DEF k
<1>8. Carries(q, Events, saved[Peer(d)]) /\ Answered(q, "idle")
  BY <1>4, <1>6, <1>7, CarriesCut
<1>9. Hands'
  BY <1>1, <1>3, <1>6, HandsStay DEF Waits
<1>10. Waits'
  BY <1>1, <1>2, <1>3, <1>4, <1>6, <1>8, <1>9 DEF Waits
<1> QED BY <1>3, <1>10 DEF IInv

------------------------------------------------------------------------------
(* The other tasks *)

\* The callback of the timer.
LEMMA TimerCallbackKeeps ==
    ASSUME IInv, NEW d \in Devices, TimerCallback(d)
    PROVE  IInv'
<1>1. Transfers /\ Waits /\ UNCHANGED <<ctx, net, saved, completed, urgent, app, hand>>
  BY DEF IInv, TimerCallback, timerOnly
<1>2. CASE queue' = queue
  BY <1>1, <1>2, StayMoves, WaitsStay DEF IInv
<1>3. CASE queue' # queue
  <2>1. PICK k, g : Queued(d, [kind |-> "timeout", timer |-> k, gen |-> g])
    BY <1>3 DEF TimerCallback
  <2> DEFINE e == [kind |-> "timeout", timer |-> k, gen |-> g]
  <2>2. e.kind \in Events /\ e.kind # "abortcmd" /\ Truthful(e, saved[Peer(d)])
    BY DEF Events, Truthful
  <2> HIDE DEF e
  <2>3. Queued(d, e)
    BY <2>1 DEF e
  <2> QED BY <1>1, <2>2, <2>3, StayMoves, WaitsQueued DEF IInv
<1> QED BY <1>2, <1>3

\* A frame leaves the net of one device.
LEMMA NetTaken ==
    ASSUME Transfers, NEW d \in Devices, net[d] # <<>>,
           net' = [net EXCEPT ![d] = Tail(@)], UNCHANGED <<ctx, saved, completed>>
    PROVE  /\ Transfers' /\ Head(net[d]).kind \in FrameKinds
           /\ Truthful(Head(net[d]), saved[Peer(d)])
<1>1. /\ Carries(Tail(net[d]), FrameKinds, saved[Peer(d)])
      /\ Head(net[d]).kind \in FrameKinds /\ Truthful(Head(net[d]), saved[Peer(d)])
  BY CarriesTail DEF Transfers
<1>2. Transfers'
  BY <1>1 DEF Transfers
<1> QED BY <1>1, <1>2

\* A frame for the event queue.
LEMMA ReceiveKeeps ==
    ASSUME IInv, NEW d \in Devices, Receive(d)
    PROVE  IInv'
<1>1. /\ Transfers /\ Waits /\ net[d] # <<>> /\ net' = [net EXCEPT ![d] = Tail(@)]
      /\ UNCHANGED <<ctx, saved, completed, urgent, app, hand>> /\ Queued(d, Head(net[d]))
  BY DEF IInv, Receive, Arrives, netOnly
<1>2. /\ Transfers' /\ Head(net[d]).kind \in FrameKinds
      /\ Truthful(Head(net[d]), saved[Peer(d)])
  BY <1>1, NetTaken
<1>3. Head(net[d]).kind \in Events /\ Head(net[d]).kind # "abortcmd"
  BY <1>2 DEF FrameKinds, Events
<1> QED BY <1>1, <1>2, <1>3, WaitsQueued DEF IInv

\* A frame answered at once, or dropped.
LEMMA ReceiveRefusedKeeps ==
    ASSUME IInv, NEW d \in Devices, ReceiveRefused(d)
    PROVE  IInv'
<1>1. /\ Transfers /\ Waits /\ net[d] # <<>>
      /\ UNCHANGED <<ctx, saved, completed, queue, urgent, app, hand>>
  BY DEF IInv, ReceiveRefused, Arrives, netOnly
<1>2. PICK s : net' = [net EXCEPT ![d] = Tail(@), ![Peer(d)] = @ \o Refusal(Head(net[d]), s)]
  BY DEF ReceiveRefused
<1>3. Carries(Tail(net[d]), FrameKinds, saved[Peer(d)])
  BY <1>1, CarriesTail DEF Transfers
<1>4. Carries(Refusal(Head(net[d]), s), FrameKinds, saved[d])
  <2> DEFINE m == Head(net[d])
  <2>1. /\ Carries(<<MetaRsp(m.tid, "busy")>>, FrameKinds, saved[d])
        /\ Carries(<<DataRsp(m.tid, m.idx, s)>>, FrameKinds, saved[d])
    BY CarriesOne DEF MetaRsp, DataRsp, FrameKinds, Truthful
  <2> HIDE DEF m
  <2>2. Carries(Refusal(m, s), FrameKinds, saved[d])
    BY <2>1, CarriesNone DEF Refusal
  <2> QED BY <2>2 DEF m
<1>5. Carries(net[Peer(d)] \o Refusal(Head(net[d]), s), FrameKinds, saved[d])
  <2>1. Carries(net[Peer(d)], FrameKinds, saved[d])
    BY <1>1, PeerOfPeer DEF Transfers
  <2> QED BY <2>1, <1>4, CarriesBoth
<1>6. ASSUME NEW e \in Devices
      PROVE  Carries(net'[e], FrameKinds, saved[Peer(e)])
  <2>1. CASE e = d
    <3>1. net'[e] = Tail(net[d])
      BY <1>1, <1>2, <2>1, PeerOfPeer DEF Transfers
    <3> QED BY <1>3, <2>1, <3>1
  <2>2. CASE e = Peer(d)
    <3>1. net'[e] = net[Peer(d)] \o Refusal(Head(net[d]), s)
      BY <1>1, <1>2, <2>2, PeerOfPeer DEF Transfers
    <3> QED BY <1>5, <2>2, <3>1, PeerOfPeer
  <2>3. CASE e # d /\ e # Peer(d)
    <3>1. net'[e] = net[e]
      BY <1>1, <1>2, <2>3 DEF Transfers
    <3> QED BY <1>1, <3>1 DEF Transfers
  <2> QED BY <2>1, <2>2, <2>3
<1>7. Transfers'
  BY <1>1, <1>2, <1>6 DEF Transfers
<1> QED BY <1>1, <1>7, WaitsStay DEF IInv

\* The least of a set of numbers is in it.
LEMMA LeastOf ==
    ASSUME NEW S, S \subseteq Nat, S # {}
    PROVE  Least(S) \in S /\ \A m \in S : Least(S) <= m
<1>1. PICK x \in S : \A y \in S : ~(<<y, x>> \in OpToRel(<, Nat))
  BY NatLessThanWellFounded, WFMin
<1>2. ASSUME NEW y \in S PROVE x <= y
  <2>1. x \in Nat /\ y \in Nat /\ ~(y < x)
    BY <1>1 DEF OpToRel
  <2> QED BY <2>1
<1> QED BY <1>2 DEF Least

\* FINAL and ABORT, for the urgent queue or the hand.
LEMMA ReceiveUrgentKeeps ==
    ASSUME IInv, NEW d \in Devices, ReceiveUrgent(d)
    PROVE  IInv'
<1> DEFINE m == Head(net[d])
<1>1. /\ Transfers /\ Waits /\ net[d] # <<>> /\ net' = [net EXCEPT ![d] = Tail(@)]
      /\ UNCHANGED <<ctx, saved, completed, app, queue>> /\ IsUrgent(m)
  BY DEF IInv, ReceiveUrgent, Arrives, netOnly
<1>2. Transfers' /\ Truthful(m, saved[Peer(d)])
  BY <1>1, NetTaken
<1>3. m.kind \in UrgentKinds
  BY <1>1 DEF IsUrgent, UrgentKinds
<1>4. CASE urgent' = [urgent EXCEPT ![d] = Append(@, m)] /\ hand' = hand
  BY <1>1, <1>2, <1>3, <1>4, UrgentQueued DEF IInv
<1> DEFINE h == [NoFrame EXCEPT !.at = "try", !.frame = m]
<1>5. CASE urgent' = urgent /\ hand' = [hand EXCEPT ![d] = h]
  <2>1. h = [at |-> "try", frame |-> m, aside |-> 0]
    BY FrameInHand
  <2>2. h.at = "try" /\ h.frame = m /\ h.aside = 0
    BY <2>1
  <2> HIDE DEF h, m
  <2>3. GoodHand(h, saved[Peer(d)])
    BY <1>2, <1>3, <2>1, <2>2 DEF GoodHand
  <2>4. Hands'
    BY <1>1, <1>5, <2>3, HandsGo DEF Waits
  <2> QED BY <1>1, <1>2, <1>5, <2>4 DEF Waits, IInv
<1> QED BY <1>4, <1>5 DEF ReceiveUrgent

\* The input handler looks for room, and makes it.
LEMMA MakeRoomKeeps ==
    ASSUME IInv, NEW d \in Devices, MakeRoom(d)
    PROVE  IInv'
<1> DEFINE m == hand[d].frame
           n == hand[d].aside + 1
<1>1. /\ Transfers /\ Waits /\ hand[d].at # "none"
      /\ UNCHANGED <<ctx, saved, completed, app, net>>
  BY DEF IInv, MakeRoom, TryQueue, LockQueue, TakeOut, PutBack, TryAgain, handOnly, netOnly
<1>2. /\ m.kind \in UrgentKinds /\ Truthful(m, saved[Peer(d)])
      /\ n - 1 \in Nat /\ n \in Nat
  BY <1>1 DEF Waits, Hands, GoodHand
<1>3. m.kind \in Events /\ m.kind # "abortcmd"
  BY <1>2 DEF UrgentKinds, Events
<1>4. Transfers'
  BY <1>1, StayMoves
<1>5. CASE Queued(d, m) /\ EmptyHanded(d) /\ urgent' = urgent
  BY <1>1, <1>2, <1>3, <1>4, <1>5, WaitsQueued DEF IInv
<1>6. CASE urgent' = [urgent EXCEPT ![d] = Append(@, m)] /\ EmptyHanded(d) /\ queue' = queue
  BY <1>1, <1>2, <1>4, <1>6, UrgentQueued DEF IInv
<1>7. CASE EmptyHanded(d) /\ queue' = queue /\ urgent' = urgent
  BY <1>1, <1>4, <1>7, HandsStay DEF Waits, IInv
<1>8. ASSUME NEW place, NEW k \in Nat, InHand(d, place, k), queue' = queue, urgent' = urgent
      PROVE  IInv'
  BY <1>1, <1>4, <1>8, HandsMove DEF Waits, IInv
<1>9. CASE /\ n <= Len(queue[d]) /\ Evictable(queue[d][n])
           /\ queue' = [queue EXCEPT ![d] = Cut(@, n)] /\ InHand(d, "keep", n - 1)
           /\ urgent' = urgent
  <2>1. Hands'
    BY <1>1, <1>2, <1>9, HandsMove DEF Waits
  <2>2. Carries(queue[d], Events, saved[Peer(d)]) /\ Answered(queue[d], app[d])
    BY <1>1 DEF Waits
  <2>3. PICK S : queue[d] \in Seq(S)
    BY <2>2 DEF Carries
  <2>4. n \in DOMAIN queue[d] /\ queue[d][n].kind # "abortcmd"
    BY <1>2, <1>9, <2>3, LenProperties DEF Evictable
  <2>5. /\ Carries(Cut(queue[d], n), Events, saved[Peer(d)])
        /\ Answered(Cut(queue[d], n), app[d])
    BY <2>2, <2>4, CarriesCut
  <2> QED BY <1>1, <1>4, <1>9, <2>1, <2>5 DEF Waits, IInv
<1>10. CASE TryQueue(d)
  BY <1>5, <1>8, <1>10 DEF TryQueue
<1>11. CASE LockQueue(d)
  BY <1>8, <1>11 DEF LockQueue
<1>12. CASE TakeOut(d)
  BY <1>2, <1>8, <1>9, <1>12 DEF TakeOut
<1>13. CASE PutBack(d)
  BY <1>8, <1>13 DEF PutBack
<1>14. CASE TryAgain(d)
  BY <1>5, <1>6, <1>7, <1>14 DEF TryAgain
<1> QED BY <1>10, <1>11, <1>12, <1>13, <1>14 DEF MakeRoom

\* A frame is lost.
LEMMA LoseKeeps ==
    ASSUME IInv, NEW d \in Devices, Lose(d)
    PROVE  IInv'
<1>1. /\ Transfers /\ Waits /\ net[d] # <<>> /\ net' = [net EXCEPT ![d] = Tail(@)]
      /\ UNCHANGED <<ctx, saved, completed, queue, urgent, app, hand>>
  BY DEF IInv, Lose, netOnly
<1> QED BY <1>1, NetTaken, WaitsStay DEF IInv

\* The application sends a file.
LEMMA SendKeeps ==
    ASSUME IInv, NEW d \in Devices, Send(d)
    PROVE  IInv'
<1>1. Transfers /\ Waits /\ UNCHANGED <<ctx, net, saved, completed, urgent, app, hand>>
  BY DEF IInv, Send, appOnly
<1>2. PICK n : Queued(d, [kind |-> "send", total |-> n])
  BY DEF Send
<1> DEFINE e == [kind |-> "send", total |-> n]
<1>3. e.kind \in Events /\ e.kind # "abortcmd" /\ Truthful(e, saved[Peer(d)])
  BY DEF Events, Truthful
<1>4. Queued(d, e)
  BY <1>2
<1> HIDE DEF e
<1> QED BY <1>1, <1>3, <1>4, StayMoves, WaitsQueued DEF IInv

\* The application asks for an abort: the flag, no command yet.
LEMMA AbortCallKeeps ==
    ASSUME IInv, NEW d \in Devices, AbortCall(d)
    PROVE  IInv'
<1>1. /\ Transfers /\ Waits /\ UNCHANGED <<ctx, net, saved, completed, urgent, queue, hand>>
      /\ app[d] = "idle" /\ app' = [app EXCEPT ![d] = "queueing"]
  BY DEF IInv, AbortCall, appOnly
<1>2. Waits'
  BY <1>1, HandsStay DEF Waits, Answered
<1> QED BY <1>1, <1>2, StayMoves DEF IInv

\* Its command is queued, and it waits.
LEMMA AbortQueueKeeps ==
    ASSUME IInv, NEW d \in Devices, AbortQueue(d)
    PROVE  IInv'
<1> DEFINE e == [kind |-> "abortcmd"]
<1>1. /\ Transfers /\ Waits /\ UNCHANGED <<ctx, net, saved, completed, urgent, hand>>
      /\ app[d] = "queueing" /\ app' = [app EXCEPT ![d] = "waiting"]
      /\ queue' = [queue EXCEPT ![d] = Append(@, e)]
  BY DEF IInv, AbortQueue, appOnly, Queued
<1>2. e.kind \in Events /\ e.kind = "abortcmd" /\ Truthful(e, saved[Peer(d)])
  BY DEF Events, Truthful
<1> HIDE DEF e
<1>3. /\ Carries(queue[d], Events, saved[Peer(d)]) /\ Commands(queue[d]) = {}
      /\ DOMAIN queue = Devices /\ DOMAIN app = Devices
  BY <1>1 DEF Waits, Answered
<1> DEFINE q == queue[d]
<1>4. /\ Carries(Append(q, e), Events, saved[Peer(d)])
      /\ Commands(Append(q, e)) = {Len(q) + 1}
  <2> HIDE DEF q
  <2>1. Carries(q, Events, saved[Peer(d)]) /\ Commands(q) = {}
    BY <1>3 DEF q
  <2>2. /\ Carries(Append(q, e), Events, saved[Peer(d)])
        /\ Commands(Append(q, e)) =
               Commands(q) \cup (IF e.kind = "abortcmd" THEN {Len(q) + 1} ELSE {})
    BY <2>1, <1>2, CarriesAppend
  <2> QED BY <2>1, <2>2, <1>2
<1>5. Answered(Append(queue[d], e), "waiting")
  BY <1>4 DEF Answered
<1>6. Waits'
  BY <1>1, <1>3, <1>4, <1>5, HandsStay DEF Waits
<1> QED BY <1>1, <1>6, StayMoves DEF IInv

\* The link goes down.
LEMMA LinkDownKeeps ==
    ASSUME IInv, LinkDown
    PROVE  IInv'
<1>1. /\ Transfers /\ Waits /\ net' = [d \in Devices |-> <<>>]
      /\ UNCHANGED <<ctx, saved, completed, queue, urgent, app, hand>>
  BY DEF IInv, LinkDown
<1>2. Transfers'
  BY <1>1, CarriesNone DEF Transfers
<1> QED BY <1>1, <1>2, WaitsStay DEF IInv

------------------------------------------------------------------------------
(* The theorems *)

\* Nothing is sent, waits or is saved at first.
LEMMA InitIInv == Init => IInv
<1> SUFFICES ASSUME Init PROVE IInv
  OBVIOUS
<1>1. Transfers
  <2>1. GoodContext(Idle, {})
    BY PlainIdle DEF Plain, GoodContext
  <2> QED BY <2>1, PeerOfPeer, CarriesNone DEF Init, Transfers
<1>2. Waits
  <2>1. Answered(<<>>, "idle")
    BY DEF Answered, Commands
  <2>2. Hands
    BY DEF Init, Hands, GoodHand, NoFrame
  <2> QED BY <2>1, <2>2, PeerOfPeer, CarriesNone DEF Init, Waits
<1> QED BY <1>1, <1>2 DEF IInv

\* Every step keeps the invariant.
LEMMA NextIInv == IInv /\ [Next]_vars => IInv'
<1> SUFFICES ASSUME IInv, [Next]_vars PROVE IInv'
  OBVIOUS
<1>1. CASE UNCHANGED vars
  BY <1>1, StayMoves, WaitsStay DEF vars, IInv
<1>2. CASE LinkDown
  BY <1>2, LinkDownKeeps
<1>3. ASSUME NEW d \in Devices, WorkerStep(d)
      PROVE  IInv'
  BY <1>3, TerminateKeeps, HandleLateKeeps, PrepareKeeps, FinalizeKeeps, HandleSendKeeps,
     HandleMetaRspKeeps, HandleDataRspKeeps, HandleFinalKeeps, HandleMetaKeeps,
     HandleDataKeeps, HandleAbortKeeps, HandleAbortCmdKeeps, HandleTimeoutKeeps
     DEF WorkerStep
<1>4. ASSUME NEW d \in Devices, TimerExpires(d) \/ LinkEvent(d)
      PROVE  IInv'
  <2>1. UNCHANGED <<ctx, net, saved, completed, queue, urgent, app, hand>>
    BY <1>4 DEF TimerExpires, timerOnly, LinkEvent, appOnly
  <2> QED BY <2>1, StayMoves, WaitsStay DEF IInv
<1>5. ASSUME NEW d \in Devices,
             \/ TimerCallback(d) \/ Receive(d) \/ ReceiveRefused(d) \/ ReceiveUrgent(d)
             \/ MakeRoom(d) \/ Lose(d) \/ Send(d) \/ AbortCall(d) \/ AbortQueue(d)
      PROVE  IInv'
  BY <1>5, TimerCallbackKeeps, ReceiveKeeps, ReceiveRefusedKeeps, ReceiveUrgentKeeps,
     MakeRoomKeeps, LoseKeeps, SendKeeps, AbortCallKeeps, AbortQueueKeeps
<1> QED BY <1>1, <1>2, <1>3, <1>4, <1>5 DEF Next

\* The invariant holds throughout.
LEMMA AlwaysIInv == Spec => []IInv
  BY InitIInv, NextIInv, PTL DEF Spec

\* A transfer the sender reports as completed was saved by the other device, by
\* finalize_receiver, on whichever of its paths handle_final was reached.
THEOREM FileCompletedIsSaved == Spec => []CompletedIsSaved
<1>1. IInv => CompletedIsSaved
  BY DEF IInv, Transfers, CompletedIsSaved
<1> QED BY <1>1, AlwaysIInv, PTL

\* The command of whoever waits in esp_file_transfer_abort stays in the event queue until
\* the worker takes it, whatever esp_file_transfer_on_packet puts out for urgent frames.
THEOREM FileAbortAnswered == Spec => []AbortAnswered
<1>1. IInv => AbortAnswered
  <2> SUFFICES ASSUME IInv, NEW d \in Devices
               PROVE  Cardinality(Commands(queue[d])) = IF app[d] = "waiting" THEN 1 ELSE 0
    BY DEF AbortAnswered, Commands
  <2>1. Answered(queue[d], app[d])
    BY DEF IInv, Waits
  <2>2. CASE app[d] = "waiting"
    BY <2>1, <2>2, FS_Singleton DEF Answered
  <2>3. CASE app[d] # "waiting"
    BY <2>1, <2>3, FS_EmptySet DEF Answered
  <2> QED BY <2>2, <2>3
<1> QED BY <1>1, AlwaysIInv, PTL

------------------------------------------------------------------------------
(* Types: the second invariant *)

Statuses == {"ok", "failed", "busy", "rejected"}
Frames ==
    [kind : {"meta"}, tid : Nat, total : Nat]
        \cup [kind : {"metarsp"}, tid : Nat, status : Statuses]
        \cup [kind : {"data"}, tid : Nat, idx : Nat, whole : BOOLEAN]
        \cup [kind : {"datarsp"}, tid : Nat, idx : Nat, status : Statuses]
        \cup [kind : {"final"}, tid : Nat, status : {"ok", "failed"}]
        \cup [kind : {"abort"}, tid : Nat]
Urgent == {f \in Frames : IsUrgent(f)}
Gens == 0 .. QueueLen + 1
Expiries == [kind : Kinds, gen : Gens]
Items ==
    Frames \cup [kind : {"send"}, total : Nat] \cup [kind : {"abortcmd"}]
        \cup [kind : {"timeout"}, timer : Kinds, gen : Gens]

\* Each state of a transfer belongs to one side.
RoleOf(s) ==
    CASE s = "none" -> "none"
      [] s \in {"preparing", "waitmeta", "sending", "waitfinal"} -> "sender"
      [] s \in {"waitdata", "finalizing"} -> "receiver"
Contexts ==
    [role : {"none", "sender", "receiver"}, state : States, tid : Nat, total : Nat, next : Nat,
     pipe : SUBSET Nat, told : BOOLEAN, early : {"none", "ok", "failed"}, whole : BOOLEAN]
ContextTyped(c) ==
    /\ c \in Contexts /\ c.role = RoleOf(c.state)
    /\ c.next <= c.total /\ c.pipe \subseteq 0 .. c.next - 1
    /\ Cardinality(c.pipe) <= PipeDepth
    /\ c.state \in {"preparing", "waitmeta"} => c.next = 0
    /\ c.state = "waitfinal" => c.pipe = {}
Timers == [kind : Kinds, gen : Gens, on : BOOLEAN, cb : BOOLEAN, late : Expiries]
Places == {"top", "late", "event", "prepare", "finalize"}
Flags == {"own", "other", "error", "abort"}

\* The functions of the devices.
Mapped ==
    /\ ctx = [d \in Devices |-> ctx[d]] /\ timer = [d \in Devices |-> timer[d]]
    /\ at = [d \in Devices |-> at[d]] /\ nextId = [d \in Devices |-> nextId[d]]
    /\ saved = [d \in Devices |-> saved[d]] /\ completed = [d \in Devices |-> completed[d]]
    /\ net = [d \in Devices |-> net[d]] /\ queue = [d \in Devices |-> queue[d]]
    /\ urgent = [d \in Devices |-> urgent[d]] /\ flags = [d \in Devices |-> flags[d]]
    /\ app = [d \in Devices |-> app[d]] /\ aborted = [d \in Devices |-> aborted[d]]
    /\ hand = [d \in Devices |-> hand[d]]

\* Of one device: its transfer, its worker's place, what it saved and reported, what
\* waits for it, and what other tasks asked of it.
TransferTyped(d) == ContextTyped(ctx[d]) /\ timer[d] \in Timers
PlaceTyped(d) ==
    /\ at[d] \in Places
    /\ at[d] = "prepare" => ctx[d].state = "preparing"
    /\ at[d] = "finalize" => ctx[d].state = "finalizing"
FilesTyped(d) == saved[d] \subseteq Nat /\ completed[d] \subseteq Nat /\ nextId[d] \in Nat \ {0}
NetTyped(d) == net[d] \in Seq(Frames)
HandPlaces == {"none", "try", "lock", "drain", "keep", "put"}
HandTyped(h, q) ==
    /\ h = [at |-> h.at, frame |-> h.frame, aside |-> h.aside]
    /\ h.at \in HandPlaces /\ h.aside \in 0 .. Len(q)
    /\ IF h.at = "none" THEN h = NoFrame ELSE h.frame \in Urgent
QueuesTyped(d) ==
    /\ queue[d] \in Seq(Items) /\ Len(queue[d]) <= QueueLen
    /\ urgent[d] \in Seq(Urgent) /\ Len(urgent[d]) <= UrgentLen
    /\ HandTyped(hand[d], queue[d])
AskedTyped(d) ==
    /\ flags[d] \subseteq Flags /\ ("error" \in flags[d] => "own" \in flags[d])
    /\ app[d] \in {"idle", "queueing", "waiting"} /\ aborted[d] \in BOOLEAN

Typed ==
    /\ Mapped
    /\ \A d \in Devices :
          /\ TransferTyped(d) /\ PlaceTyped(d) /\ FilesTyped(d)
          /\ NetTyped(d) /\ QueuesTyped(d) /\ AskedTyped(d)
    /\ calm \in 0 .. MaxTrouble /\ stalled \subseteq Devices

------------------------------------------------------------------------------
(* What drives a transfer *)

\* A transfer that is put down is driven by its timer or about to be given up; one the
\* worker left for another link has nothing on its way.
LeftBehind(c) ==
    \/ c.state = "preparing"
    \/ c.state = "sending" /\ c.pipe = {} /\ c.next < c.total
Put(d) == at[d] \in {"top", "late", "event"} /\ Active(d) /\ d \notin stalled
DrivenNow(d) ==
    /\ Put(d) => \/ timer[d].kind # "none" /\ Ticking(d)
                 \/ flags[d] \cap {"own", "abort"} # {}
    /\ d \in stalled /\ Active(d) => LeftBehind(ctx[d])
Drives == \A d \in Devices : DrivenNow(d)

------------------------------------------------------------------------------
(* What is transferred *)

\* The transfers METAs in a sequence are about, none of which has two, and the blocks
\* which the responses in it call taken.
Metas(s) == {n \in DOMAIN s : s[n].kind = "meta"}
Tids(s) == {s[n].tid : n \in Metas(s)}
Distinct(s) == \A n, k \in Metas(s) : s[n].tid = s[k].tid => n = k
IsOk(e) == e.kind = "datarsp" /\ e.status \notin {"busy", "failed"}
Said(s) == {<<s[n].tid, s[n].idx>> : n \in {k \in DOMAIN s : IsOk(s[k])}}

\* The METAs on their way are of different transfers.
Once(e) ==
    Distinct(net[e]) /\ Distinct(queue[e]) /\ Tids(net[e]) \cap Tids(queue[e]) = {}

\* A sender cs whose next transfer is id, a receiver cr, with the transfers O offered and
\* the responses R on their way: a transfer is prepared, offered or taken, one after the
\* other, and a block that was answered, or its answer, is of one the receiver took.
Acked(c) == (0 .. c.next - 1) \ c.pipe
Taking(cr, t) == cr.role = "receiver" /\ cr.tid = t
Preparing(cs, t) == cs.state = "preparing" /\ cs.tid = t
Agree(cs, cr, id, O, R) ==
    /\ \A t \in O : t < id /\ ~Taking(cr, t) /\ ~Preparing(cs, t)
    /\ cs.role = "sender" => cs.tid < id
    /\ cr.role = "receiver" => cr.tid < id /\ ~Preparing(cs, cr.tid)
    /\ \A r \in R : r[1] < id /\ r[1] \notin O /\ ~Preparing(cs, r[1])
    /\ \A r \in R : Taking(cr, r[1]) => r[2] < cr.next
    /\ cs.role = "sender" /\ cs.tid \in O => Acked(cs) = {}
    /\ cs.role = "sender" /\ Taking(cr, cs.tid) => \A i \in Acked(cs) : i < cr.next

Offered(e) == Tids(net[e]) \cup Tids(queue[e])
Answers(d) == Said(net[d]) \cup Said(queue[d])
Shared ==
    \A d \in Devices :
        Once(d) /\ Agree(ctx[d], ctx[Peer(d)], nextId[d], Offered(Peer(d)), Answers(d))

------------------------------------------------------------------------------
(* What sequences of events offer and answer *)

\* Two sequences one after the other.
LEMMA Joined ==
    ASSUME NEW S, NEW s \in Seq(S), NEW t \in Seq(S)
    PROVE  /\ Tids(s \o t) = Tids(s) \cup Tids(t) /\ Said(s \o t) = Said(s) \cup Said(t)
           /\ Distinct(s) /\ Distinct(t) /\ Tids(s) \cap Tids(t) = {} => Distinct(s \o t)
<1> DEFINE u == s \o t
           a == Len(s)
           b == Len(t)
<1>1. /\ a \in Nat /\ b \in Nat /\ DOMAIN s = 1 .. a /\ DOMAIN t = 1 .. b
      /\ DOMAIN u = 1 .. a + b
      /\ \A i \in 1 .. a + b : u[i] = IF i <= a THEN s[i] ELSE t[i - a]
  BY ConcatProperties, LenProperties
<1> HIDE DEF u, a, b
<1>2. ASSUME NEW i \in DOMAIN u
      PROVE  \/ i \in DOMAIN s /\ u[i] = s[i]
             \/ i - a \in DOMAIN t /\ u[i] = t[i - a] /\ i > a
  BY <1>1
<1>3. ASSUME NEW i \in DOMAIN s
      PROVE  i \in DOMAIN u /\ u[i] = s[i] /\ i <= a
  BY <1>1
<1>4. ASSUME NEW i \in DOMAIN t
      PROVE  i + a \in DOMAIN u /\ u[i + a] = t[i]
  <2>1. i + a \in 1 .. a + b /\ ~(i + a <= a) /\ i + a - a = i
    BY <1>1
  <2> QED BY <1>1, <2>1
<1>5. Tids(u) = Tids(s) \cup Tids(t)
  <2>1. ASSUME NEW x \in Tids(u)
        PROVE  x \in Tids(s) \cup Tids(t)
    <3>1. PICK i \in DOMAIN u : u[i].kind = "meta" /\ x = u[i].tid
      BY DEF Tids, Metas
    <3> QED BY <1>2, <3>1 DEF Tids, Metas
  <2>2. ASSUME NEW x \in Tids(s)
        PROVE  x \in Tids(u)
    <3>1. PICK i \in DOMAIN s : s[i].kind = "meta" /\ x = s[i].tid
      BY DEF Tids, Metas
    <3> QED BY <1>3, <3>1 DEF Tids, Metas
  <2>3. ASSUME NEW x \in Tids(t)
        PROVE  x \in Tids(u)
    <3>1. PICK i \in DOMAIN t : t[i].kind = "meta" /\ x = t[i].tid
      BY DEF Tids, Metas
    <3> QED BY <1>4, <3>1 DEF Tids, Metas
  <2> QED BY <2>1, <2>2, <2>3
<1>6. Said(u) = Said(s) \cup Said(t)
  <2>1. ASSUME NEW x \in Said(u)
        PROVE  x \in Said(s) \cup Said(t)
    <3>1. PICK i \in DOMAIN u : IsOk(u[i]) /\ x = <<u[i].tid, u[i].idx>>
      BY DEF Said
    <3> QED BY <1>2, <3>1 DEF Said
  <2>2. ASSUME NEW x \in Said(s)
        PROVE  x \in Said(u)
    <3>1. PICK i \in DOMAIN s : IsOk(s[i]) /\ x = <<s[i].tid, s[i].idx>>
      BY DEF Said
    <3> QED BY <1>3, <3>1 DEF Said
  <2>3. ASSUME NEW x \in Said(t)
        PROVE  x \in Said(u)
    <3>1. PICK i \in DOMAIN t : IsOk(t[i]) /\ x = <<t[i].tid, t[i].idx>>
      BY DEF Said
    <3> QED BY <1>4, <3>1 DEF Said
  <2> QED BY <2>1, <2>2, <2>3
<1>7. ASSUME Distinct(s), Distinct(t), Tids(s) \cap Tids(t) = {}
      PROVE  Distinct(u)
  <2> SUFFICES ASSUME NEW n \in DOMAIN u, NEW k \in DOMAIN u, u[n].kind = "meta",
                      u[k].kind = "meta", u[n].tid = u[k].tid
               PROVE  n = k
    BY DEF Distinct, Metas
  <2>1. \A i \in DOMAIN s : s[i].kind = "meta" => s[i].tid \in Tids(s)
    BY DEF Tids, Metas
  <2>2. \A i \in DOMAIN t : t[i].kind = "meta" => t[i].tid \in Tids(t)
    BY DEF Tids, Metas
  <2>3. CASE n \in DOMAIN s /\ u[n] = s[n] /\ k \in DOMAIN s /\ u[k] = s[k]
    BY <1>7, <2>3 DEF Distinct, Metas
  <2>4. CASE n \in DOMAIN s /\ u[n] = s[n] /\ k - a \in DOMAIN t /\ u[k] = t[k - a]
    BY <1>7, <2>1, <2>2, <2>4
  <2>5. CASE k \in DOMAIN s /\ u[k] = s[k] /\ n - a \in DOMAIN t /\ u[n] = t[n - a]
    BY <1>7, <2>1, <2>2, <2>5
  <2>6. CASE k - a \in DOMAIN t /\ u[k] = t[k - a] /\ n - a \in DOMAIN t /\ u[n] = t[n - a]
    <3>1. n - a = k - a
      BY <1>7, <2>6 DEF Distinct, Metas
    <3> QED BY <1>1, <3>1
  <2> QED BY <1>2, <2>3, <2>4, <2>5, <2>6
<1> QED BY <1>5, <1>6, <1>7 DEF u

\* A single event.
LEMMA Single ==
    ASSUME NEW e
    PROVE  /\ Tids(<<e>>) = (IF e.kind = "meta" THEN {e.tid} ELSE {})
           /\ Said(<<e>>) = (IF IsOk(e) THEN {<<e.tid, e.idx>>} ELSE {})
           /\ Distinct(<<e>>)
<1> DEFINE s == <<e>>
<1>1. DOMAIN s = {1} /\ s[1] = e
  OBVIOUS
<1> HIDE DEF s
<1>2. Metas(s) = IF e.kind = "meta" THEN {1} ELSE {}
  BY <1>1 DEF Metas
<1>3. {k \in DOMAIN s : IsOk(s[k])} = IF IsOk(e) THEN {1} ELSE {}
  BY <1>1
<1>4. Tids(s) = IF e.kind = "meta" THEN {e.tid} ELSE {}
  BY <1>1, <1>2 DEF Tids
<1>5. Said(s) = IF IsOk(e) THEN {<<e.tid, e.idx>>} ELSE {}
  BY <1>1, <1>3 DEF Said
<1>6. Distinct(s)
  BY <1>2 DEF Distinct
<1> QED BY <1>4, <1>5, <1>6 DEF s

\* Nothing.
LEMMA Nothing == Tids(<<>>) = {} /\ Said(<<>>) = {} /\ Distinct(<<>>)
<1> DEFINE s == <<>>
<1>1. DOMAIN s = {}
  OBVIOUS
<1> HIDE DEF s
<1>2. Tids(s) = {} /\ Said(s) = {} /\ Distinct(s)
  BY <1>1 DEF Tids, Said, Distinct, Metas
<1> QED BY <1>2 DEF s

\* An event more.
LEMMA Appended ==
    ASSUME NEW S, NEW s \in Seq(S), NEW e \in S
    PROVE  /\ Tids(Append(s, e)) = Tids(s) \cup (IF e.kind = "meta" THEN {e.tid} ELSE {})
           /\ Said(Append(s, e)) = Said(s) \cup (IF IsOk(e) THEN {<<e.tid, e.idx>>} ELSE {})
           /\ Distinct(s) /\ (e.kind = "meta" => e.tid \notin Tids(s)) => Distinct(Append(s, e))
<1> DEFINE t == <<e>>
<1>1. t \in Seq(S) /\ Append(s, e) = s \o t
  OBVIOUS
<1>2. /\ Tids(t) = (IF e.kind = "meta" THEN {e.tid} ELSE {})
      /\ Said(t) = (IF IsOk(e) THEN {<<e.tid, e.idx>>} ELSE {})
      /\ Distinct(t)
  BY Single
<1> HIDE DEF t
<1>3. /\ Tids(s \o t) = Tids(s) \cup Tids(t) /\ Said(s \o t) = Said(s) \cup Said(t)
      /\ Distinct(s) /\ Distinct(t) /\ Tids(s) \cap Tids(t) = {} => Distinct(s \o t)
  BY <1>1, Joined
<1> QED BY <1>1, <1>2, <1>3

\* The first event, and the others.
LEMMA Behead ==
    ASSUME NEW S, NEW s \in Seq(S), s # <<>>
    PROVE  /\ Tids(Tail(s)) \subseteq Tids(s) /\ Said(Tail(s)) \subseteq Said(s)
           /\ Distinct(s) => Distinct(Tail(s))
           /\ Head(s).kind = "meta" =>
                 Head(s).tid \in Tids(s) /\ (Distinct(s) => Head(s).tid \notin Tids(Tail(s)))
           /\ IsOk(Head(s)) => <<Head(s).tid, Head(s).idx>> \in Said(s)
<1> DEFINE r == Tail(s)
           a == Len(s)
<1>1. /\ Len(s) \in Nat /\ Len(s) # 0 /\ DOMAIN s = 1 .. Len(s)
      /\ DOMAIN r = 1 .. Len(s) - 1 /\ \A i \in 1 .. Len(s) - 1 : r[i] = s[i + 1]
      /\ Head(s) = s[1]
  <2>1. /\ Len(Tail(s)) = Len(s) - 1 /\ Tail(s) \in Seq(S)
        /\ \A i \in 1 .. Len(Tail(s)) : Tail(s)[i] = s[i + 1]
    BY HeadTailProperties
  <2>2. Len(s) \in Nat /\ Len(s) # 0 /\ DOMAIN s = 1 .. Len(s) /\ DOMAIN Tail(s) = 1 .. Len(Tail(s))
    BY <2>1, LenProperties, EmptySeq
  <2> QED BY <2>1, <2>2, HeadIsFirst
<1>2. /\ \A i \in DOMAIN r : i + 1 \in DOMAIN s /\ r[i] = s[i + 1] /\ i + 1 # 1 /\ i \in Nat
      /\ 1 \in DOMAIN s
  BY <1>1
<1> HIDE DEF r
<1>3. Tids(r) \subseteq Tids(s)
  <2> SUFFICES ASSUME NEW x \in Tids(r)
               PROVE  x \in Tids(s)
    OBVIOUS
  <2>1. PICK i \in DOMAIN r : r[i].kind = "meta" /\ x = r[i].tid
    BY DEF Tids, Metas
  <2> QED BY <1>2, <2>1 DEF Tids, Metas
<1>4. Said(r) \subseteq Said(s)
  <2> SUFFICES ASSUME NEW x \in Said(r)
               PROVE  x \in Said(s)
    OBVIOUS
  <2>1. PICK i \in DOMAIN r : IsOk(r[i]) /\ x = <<r[i].tid, r[i].idx>>
    BY DEF Said
  <2> QED BY <1>2, <2>1 DEF Said
<1>5. ASSUME Distinct(s)
      PROVE  Distinct(r)
  <2> SUFFICES ASSUME NEW n \in DOMAIN r, NEW k \in DOMAIN r, r[n].kind = "meta",
                      r[k].kind = "meta", r[n].tid = r[k].tid
               PROVE  n = k
    BY DEF Distinct, Metas
  <2>1. n + 1 = k + 1
    BY <1>2, <1>5 DEF Distinct, Metas
  <2> QED BY <1>2, <2>1
<1>6. ASSUME s[1].kind = "meta"
      PROVE  s[1].tid \in Tids(s) /\ (Distinct(s) => s[1].tid \notin Tids(r))
  <2>1. s[1].tid \in Tids(s)
    BY <1>2, <1>6 DEF Tids, Metas
  <2>2. ASSUME Distinct(s), s[1].tid \in Tids(r)
        PROVE  FALSE
    <3>1. PICK i \in DOMAIN r : r[i].kind = "meta" /\ s[1].tid = r[i].tid
      BY <2>2 DEF Tids, Metas
    <3> QED BY <1>2, <1>6, <2>2, <3>1 DEF Distinct, Metas
  <2> QED BY <2>1, <2>2
<1>7. IsOk(s[1]) => <<s[1].tid, s[1].idx>> \in Said(s)
  BY <1>2 DEF Said
<1> QED BY <1>1, <1>3, <1>4, <1>5, <1>6, <1>7 DEF r

\* An event in the middle taken out offers and answers nothing new.
LEMMA CutLeaves ==
    ASSUME NEW S, NEW s \in Seq(S), NEW k \in DOMAIN s
    PROVE  /\ Tids(Cut(s, k)) \subseteq Tids(s) /\ Said(Cut(s, k)) \subseteq Said(s)
           /\ Distinct(s) => Distinct(Cut(s, k))
           /\ s[k].kind = "meta" =>
                 s[k].tid \in Tids(s) /\ (Distinct(s) => s[k].tid \notin Tids(Cut(s, k)))
           /\ IsOk(s[k]) => <<s[k].tid, s[k].idx>> \in Said(s)
<1> DEFINE r == Cut(s, k)
           f(i) == IF i < k THEN i ELSE i + 1
<1>1. /\ DOMAIN s = 1 .. Len(s) /\ Len(s) \in Nat /\ k \in 1 .. Len(s)
      /\ DOMAIN r = 1 .. Len(s) - 1
      /\ \A i \in 1 .. Len(s) - 1 : r[i] = IF i < k THEN s[i] ELSE s[i + 1]
  BY CutIs, LenProperties
<1> HIDE DEF r
<1>2. \A i \in DOMAIN r : f(i) \in DOMAIN s /\ r[i] = s[f(i)]
  BY <1>1
<1>3. /\ \A i, j \in DOMAIN r : f(i) = f(j) => i = j
      /\ \A i \in DOMAIN r : f(i) # k
  BY <1>1
<1> HIDE DEF f
<1>4. Tids(r) \subseteq Tids(s)
  <2> SUFFICES ASSUME NEW x \in Tids(r)
               PROVE  x \in Tids(s)
    OBVIOUS
  <2>1. PICK i \in DOMAIN r : r[i].kind = "meta" /\ x = r[i].tid
    BY DEF Tids, Metas
  <2> QED BY <1>2, <2>1 DEF Tids, Metas
<1>5. Said(r) \subseteq Said(s)
  <2> SUFFICES ASSUME NEW x \in Said(r)
               PROVE  x \in Said(s)
    OBVIOUS
  <2>1. PICK i \in DOMAIN r : IsOk(r[i]) /\ x = <<r[i].tid, r[i].idx>>
    BY DEF Said
  <2> QED BY <1>2, <2>1 DEF Said
<1>6. ASSUME Distinct(s)
      PROVE  Distinct(r)
  <2> SUFFICES ASSUME NEW n \in DOMAIN r, NEW j \in DOMAIN r, r[n].kind = "meta",
                      r[j].kind = "meta", r[n].tid = r[j].tid
               PROVE  n = j
    BY DEF Distinct, Metas
  <2>1. f(n) = f(j)
    BY <1>2, <1>6 DEF Distinct, Metas
  <2> QED BY <1>3, <2>1
<1>7. ASSUME s[k].kind = "meta"
      PROVE  s[k].tid \in Tids(s) /\ (Distinct(s) => s[k].tid \notin Tids(r))
  <2>1. s[k].tid \in Tids(s)
    BY <1>7 DEF Tids, Metas
  <2>2. ASSUME Distinct(s), s[k].tid \in Tids(r)
        PROVE  FALSE
    <3>1. PICK i \in DOMAIN r : r[i].kind = "meta" /\ s[k].tid = r[i].tid
      BY <2>2 DEF Tids, Metas
    <3> QED BY <1>2, <1>3, <1>7, <2>2, <3>1 DEF Distinct, Metas
  <2> QED BY <2>1, <2>2
<1>8. IsOk(s[k]) => <<s[k].tid, s[k].idx>> \in Said(s)
  BY DEF Said
<1> QED BY <1>4, <1>5, <1>6, <1>7, <1>8 DEF r

\* The expiry of a tuple in a sequence of events.
Expiring(s, k, g) ==
    \E n \in DOMAIN s : s[n].kind = "timeout" /\ s[n].timer = k /\ s[n].gen = g

\* An event more keeps an expiry, and may be one.
LEMMA ExpiringAppended ==
    ASSUME NEW S, NEW s \in Seq(S), NEW e \in S, NEW k, NEW g
    PROVE  /\ Expiring(s, k, g) => Expiring(Append(s, e), k, g)
           /\ e.kind = "timeout" /\ e.timer = k /\ e.gen = g => Expiring(Append(s, e), k, g)
<1>1. /\ Len(s) \in Nat /\ DOMAIN s = 1 .. Len(s) /\ DOMAIN Append(s, e) = 1 .. Len(s) + 1
      /\ \A n \in 1 .. Len(s) : Append(s, e)[n] = s[n]
      /\ Append(s, e)[Len(s) + 1] = e
  BY AppendProperties, LenProperties
<1>2. /\ \A n \in DOMAIN s : n \in DOMAIN Append(s, e) /\ Append(s, e)[n] = s[n]
      /\ Len(s) + 1 \in DOMAIN Append(s, e)
  BY <1>1
<1> QED BY <1>1, <1>2 DEF Expiring

\* Another event taken out of the middle leaves it.
LEMMA ExpiringCut ==
    ASSUME NEW S, NEW s \in Seq(S), NEW j \in DOMAIN s, NEW k, NEW g, Expiring(s, k, g),
           ~(s[j].kind = "timeout" /\ s[j].timer = k /\ s[j].gen = g)
    PROVE  Expiring(Cut(s, j), k, g)
<1> DEFINE r == Cut(s, j)
<1>1. /\ DOMAIN s = 1 .. Len(s) /\ Len(s) \in Nat /\ j \in 1 .. Len(s)
      /\ DOMAIN r = 1 .. Len(s) - 1
      /\ \A i \in 1 .. Len(s) - 1 : r[i] = IF i < j THEN s[i] ELSE s[i + 1]
  BY CutIs, LenProperties
<1> HIDE DEF r
<1>2. PICK n \in DOMAIN s : s[n].kind = "timeout" /\ s[n].timer = k /\ s[n].gen = g
  BY DEF Expiring
<1>3. n # j
  BY <1>2
<1> DEFINE m == IF n < j THEN n ELSE n - 1
<1>4. m \in 1 .. Len(s) - 1 /\ (IF m < j THEN m = n ELSE m + 1 = n)
  BY <1>1, <1>3
<1>5. m \in DOMAIN r /\ r[m] = s[n]
  BY <1>1, <1>4
<1> QED BY <1>2, <1>5 DEF Expiring, r

\* What ticks.
LEMMA TickingIs ==
    ASSUME NEW d
    PROVE  Ticking(d) <=>
              \/ timer[d].on \/ timer[d].cb \/ Current(d, timer[d].late)
              \/ Active(d) /\ Expiring(queue[d], timer[d].kind, timer[d].gen)
  BY DEF Ticking, Expiring, Current, Posted

------------------------------------------------------------------------------
(* How a sender and a receiver keep agreeing *)

\* Less is offered, or answered.
LEMMA AgreeLess ==
    ASSUME NEW cs, NEW cr, NEW id, NEW O, NEW R, Agree(cs, cr, id, O, R),
           NEW P, NEW Q, P \subseteq O, Q \subseteq R
    PROVE  Agree(cs, cr, id, P, Q)
  BY DEF Agree

\* The sender gives its transfer up, or does not send.
LEMMA AgreeNoSender ==
    ASSUME NEW cs, NEW cr, NEW id, NEW O, NEW R, Agree(cs, cr, id, O, R),
           NEW c, ContextTyped(c), c.role # "sender"
    PROVE  Agree(c, cr, id, O, R)
<1>1. c.state # "preparing"
  BY DEF ContextTyped, RoleOf
<1> QED BY <1>1 DEF Agree, Preparing

\* The sender goes on, and learns no more than what was answered.
LEMMA AgreeSender ==
    ASSUME NEW cs, NEW cr, NEW id, NEW O, NEW R, Agree(cs, cr, id, O, R),
           cs.role = "sender", NEW c, c.tid = cs.tid,
           c.state = "preparing" => cs.state = "preparing",
           \A i \in Acked(c) : i \in Acked(cs) \/ <<c.tid, i>> \in R
    PROVE  Agree(c, cr, id, O, R)
<1> USE DEF Agree, Preparing, Taking
<1>1. ASSUME cs.tid \in O
      PROVE  Acked(c) = {}
  <2>1. \A i : <<c.tid, i>> \notin R
    <3> SUFFICES ASSUME NEW i, <<c.tid, i>> \in R
                 PROVE  FALSE
      OBVIOUS
    <3> DEFINE r == <<c.tid, i>>
    <3>1. r \in R /\ r[1] = c.tid
      OBVIOUS
    <3> HIDE DEF r
    <3> QED BY <1>1, <3>1
  <2> QED BY <1>1, <2>1
<1>2. ASSUME Taking(cr, cs.tid), NEW i \in Acked(c)
      PROVE  i < cr.next
  <2>1. CASE i \in Acked(cs)
    BY <1>2, <2>1
  <2>2. CASE <<c.tid, i>> \in R
    <3> DEFINE r == <<c.tid, i>>
    <3>1. r \in R /\ r[1] = c.tid /\ r[2] = i
      BY <2>2
    <3> HIDE DEF r
    <3> QED BY <1>2, <3>1
  <2> QED BY <1>2, <2>1, <2>2
<1> QED BY <1>1, <1>2

\* The sender begins its next transfer.
LEMMA AgreeBegins ==
    ASSUME NEW cs, NEW cr, NEW id \in Nat, NEW O, NEW R, Agree(cs, cr, id, O, R),
           O \subseteq Nat, cr.tid \in Nat, \A r \in R : r[1] \in Nat,
           NEW c, c.tid = id, Acked(c) = {}
    PROVE  Agree(c, cr, id + 1, O, R)
<1>1. \A t \in Nat : t < id => t < id + 1 /\ t # id
  OBVIOUS
<1>2. id < id + 1
  OBVIOUS
<1>3. \A t \in O : t < id + 1 /\ t # id
  BY <1>1 DEF Agree
<1>4. cr.role = "receiver" => cr.tid < id + 1 /\ cr.tid # id
  BY <1>1 DEF Agree
<1>5. \A r \in R : r[1] < id + 1 /\ r[1] # id
  BY <1>1 DEF Agree
<1>6. /\ \A r \in R : r[1] \notin O
      /\ \A r \in R : Taking(cr, r[1]) => r[2] < cr.next
      /\ \A t \in O : ~Taking(cr, t)
  BY DEF Agree
<1> QED BY <1>2, <1>3, <1>4, <1>5, <1>6 DEF Agree, Preparing

\* The sender offers the transfer it prepared.
LEMMA AgreeOffers ==
    ASSUME NEW cs, NEW cr, NEW id, NEW O, NEW R, Agree(cs, cr, id, O, R),
           cs.role = "sender", cs.state = "preparing",
           NEW c, c.tid = cs.tid, c.state # "preparing", Acked(c) = {}
    PROVE  Agree(c, cr, id, O \cup {c.tid}, R) /\ c.tid \notin O
<1>1. c.tid \notin O /\ ~Taking(cr, c.tid) /\ (\A r \in R : r[1] # c.tid) /\ c.tid < id
  BY DEF Agree, Preparing, Taking
<1> QED BY <1>1 DEF Agree, Preparing

\* The receiver gives its transfer up, or does not receive.
LEMMA AgreeNoReceiver ==
    ASSUME NEW cs, NEW cr, NEW id, NEW O, NEW R, Agree(cs, cr, id, O, R),
           NEW c, c.role # "receiver"
    PROVE  Agree(cs, c, id, O, R)
  BY DEF Agree, Taking

\* The receiver goes on, and answers only blocks it has taken.
LEMMA AgreeReceiver ==
    ASSUME NEW cs, NEW cr, NEW id, NEW O, NEW R, Agree(cs, cr, id, O, R),
           cr.role = "receiver", cr.next \in Nat, ContextTyped(cs), \A r \in R : r[2] \in Nat,
           NEW c, c.role = "receiver", c.tid = cr.tid, c.next \in Nat, cr.next <= c.next,
           NEW Q, \A r \in Q : r \in R \/ (r[1] = c.tid /\ r[2] < c.next)
    PROVE  Agree(cs, c, id, O, Q)
<1> USE DEF Agree, Taking
<1>1. \A i \in Nat : i < cr.next => i < c.next
  OBVIOUS
<1>2. \A i \in Acked(cs) : i \in Nat
  BY DEF Acked, ContextTyped, Contexts
<1>3. \A r \in Q : r[1] < id /\ r[1] \notin O /\ ~Preparing(cs, r[1])
  OBVIOUS
<1>4. \A r \in Q : Taking(c, r[1]) => r[2] < c.next
  BY <1>1
<1>5. cs.role = "sender" /\ Taking(c, cs.tid) => \A i \in Acked(cs) : i < c.next
  BY <1>1, <1>2
<1> QED BY <1>3, <1>4, <1>5

\* The receiver accepts what was offered.
LEMMA AgreeAccepts ==
    ASSUME NEW cs, NEW cr, NEW id, NEW O, NEW R, Agree(cs, cr, id, O, R),
           NEW t \in O, NEW c, c.role = "receiver", c.tid = t,
           NEW P, P \subseteq O, t \notin P
    PROVE  Agree(cs, c, id, P, R)
<1>1. t < id /\ ~Preparing(cs, t) /\ (\A r \in R : r[1] # t)
      /\ (cs.role = "sender" /\ cs.tid = t => Acked(cs) = {})
  BY DEF Agree
<1> QED BY <1>1 DEF Agree, Taking

------------------------------------------------------------------------------
(* Timers, contexts and frames *)

\* The numbers the constants are.
LEMMA Limits ==
    PipeDepth \in Nat \ {0} /\ QueueLen \in Nat \ {0} /\ UrgentLen \in Nat \ {0}
        /\ MaxTrouble \in Nat
  BY FileTransferConstants

\* A timer disarmed is a timer.
LEMMA DisarmedTyped ==
    ASSUME NEW d \in Devices, timer[d] \in Timers
    PROVE  Disarmed(d) \in Timers
<1>1. 0 \in Gens /\ "none" \in Kinds
  BY Limits DEF Gens, Kinds
<1>2. timer[d].cb \in BOOLEAN
  BY DEF Timers
<1>3. NoExpiry \in Expiries
  BY <1>1 DEF NoExpiry, Expiries
<1>4. NoTimer \in Timers
  BY <1>1, <1>3 DEF NoTimer, Timers
<1> QED BY <1>2, <1>4 DEF Disarmed, Timers

\* There are more generations than places in the queue.
LEMMA ArmedTyped ==
    ASSUME NEW d \in Devices, timer[d] \in Timers, QueuesTyped(d), NEW k \in Kinds
    PROVE  Armed(d, k) \in Timers /\ Armed(d, k).kind = k /\ Armed(d, k).on
<1> DEFINE q == queue[d]
           G == 1 .. QueueLen + 1
           P == {q[n].gen : n \in Posted(d)}
           g == Least(G \ P)
           D == 1 .. Len(q)
<1>1. QueueLen \in Nat /\ Len(q) \in Nat /\ Len(q) <= QueueLen /\ DOMAIN q = D
  BY Limits, LenProperties DEF QueuesTyped
<1>2. \A n \in Nat : IsFiniteSet(1 .. n) /\ Cardinality(1 .. n) = n
  <2>1. \A a, b \in Int : /\ IsFiniteSet(a .. b)
                          /\ Cardinality(a .. b) = IF a > b THEN 0 ELSE b - a + 1
    BY FS_Interval
  <2> SUFFICES ASSUME NEW n \in Nat
               PROVE  IsFiniteSet(1 .. n) /\ Cardinality(1 .. n) = n
    OBVIOUS
  <2>2. 1 \in Int /\ n \in Int /\ (IF 1 > n THEN 0 ELSE n - 1 + 1) = n
    OBVIOUS
  <2> QED BY <2>1, <2>2
<1>3. /\ IsFiniteSet(G) /\ Cardinality(G) = QueueLen + 1
      /\ IsFiniteSet(D) /\ Cardinality(D) = Len(q)
  BY <1>1, <1>2
<1>4. Cardinality(D) < Cardinality(G)
  BY <1>1, <1>3
<1>5. G \ P # {}
  <2> SUFFICES ASSUME G \subseteq P PROVE FALSE
    OBVIOUS
  <2> DEFINE f == [x \in G |-> CHOOSE n \in Posted(d) : q[n].gen = x]
  <2>1. \A x \in G : f[x] \in Posted(d) /\ q[f[x]].gen = x
    OBVIOUS
  <2>2. Posted(d) \subseteq D
    BY <1>1 DEF Posted
  <2>3. f \in [G -> D]
    BY <2>1, <2>2
  <2> HIDE DEF f, G, D, P
  <2>4. \E x, y \in G : x # y /\ f[x] = f[y]
    BY <1>3, <1>4, <2>3, FS_PigeonHole
  <2> QED BY <2>1, <2>4
<1>6. G \ P \subseteq Nat
  OBVIOUS
<1> HIDE DEF P
<1>7. g \in G
  BY <1>5, <1>6, LeastOf
<1>8. g \in Gens
  BY <1>1, <1>7 DEF Gens
<1>9. Disarmed(d) \in Timers
  BY DisarmedTyped
<1> DEFINE x == Disarmed(d)
           r == [x EXCEPT !.kind = k, !.on = TRUE, !.gen = g]
<1>10. Armed(d, k) = r
  BY DEF Armed, g, P
<1>11. x \in Timers
  BY <1>9
<1> HIDE DEF x, g
<1>12. r \in Timers /\ r.kind = k /\ r.on
  BY <1>8, <1>11 DEF Timers
<1> QED BY <1>10, <1>12

\* No transfer is a transfer of neither side.
LEMMA IdleTyped ==
    ContextTyped(Idle) /\ Idle.role = "none" /\ Idle.next = 0 /\ Idle.tid = 0
<1>1. Cardinality({}) = 0
  BY FS_EmptySet
<1> QED BY <1>1, Limits DEF ContextTyped, Idle, Contexts, RoleOf, States

\* A transfer in another state of the same side.
LEMMA StateTyped ==
    ASSUME NEW c, ContextTyped(c), NEW s \in States, RoleOf(s) = c.role,
           s \in {"preparing", "waitmeta"} => c.next = 0, s = "waitfinal" => c.pipe = {}
    PROVE  LET r == [c EXCEPT !.state = s]
           IN  /\ ContextTyped(r) /\ r.state = s
               /\ r.role = c.role /\ r.tid = c.tid /\ r.total = c.total
               /\ r.next = c.next /\ r.pipe = c.pipe
<1> DEFINE r == [c EXCEPT !.state = s]
<1>1. /\ r \in Contexts /\ r.state = s /\ r.role = c.role /\ r.tid = c.tid
      /\ r.total = c.total /\ r.next = c.next /\ r.pipe = c.pipe
  BY DEF ContextTyped, Contexts
<1> HIDE DEF r
<1>2. ContextTyped(r)
  BY <1>1 DEF ContextTyped
<1> QED BY <1>1, <1>2 DEF r

\* A sender that goes on to its blocks.
LEMMA SendingTyped ==
    ASSUME NEW c, ContextTyped(c), c.role = "sender"
    PROVE  LET r == [c EXCEPT !.state = "sending"]
           IN  /\ ContextTyped(r) /\ r.state = "sending"
               /\ r.role = c.role /\ r.tid = c.tid /\ r.total = c.total
               /\ r.next = c.next /\ r.pipe = c.pipe
<1>1. "sending" \in States /\ RoleOf("sending") = c.role
  BY DEF States, RoleOf
<1> QED BY <1>1, StateTyped

\* The other device has been told.
LEMMA ToldTyped ==
    ASSUME NEW c, ContextTyped(c)
    PROVE  LET r == [c EXCEPT !.told = TRUE]
           IN  /\ ContextTyped(r) /\ r.state = c.state
               /\ r.role = c.role /\ r.tid = c.tid /\ r.total = c.total
               /\ r.next = c.next /\ r.pipe = c.pipe
<1> DEFINE r == [c EXCEPT !.told = TRUE]
<1>1. /\ r \in Contexts /\ r.state = c.state /\ r.role = c.role /\ r.tid = c.tid
      /\ r.total = c.total /\ r.next = c.next /\ r.pipe = c.pipe
  BY DEF ContextTyped, Contexts
<1> HIDE DEF r
<1>2. ContextTyped(r)
  BY <1>1 DEF ContextTyped
<1> QED BY <1>1, <1>2 DEF r

\* FINAL came early.
LEMMA EarlyTyped ==
    ASSUME NEW c, ContextTyped(c), NEW x \in {"ok", "failed"}
    PROVE  LET r == [c EXCEPT !.early = x]
           IN  /\ ContextTyped(r) /\ r.state = c.state
               /\ r.role = c.role /\ r.tid = c.tid /\ r.total = c.total
               /\ r.next = c.next /\ r.pipe = c.pipe
<1> DEFINE r == [c EXCEPT !.early = x]
<1>1. /\ r \in Contexts /\ r.state = c.state /\ r.role = c.role /\ r.tid = c.tid
      /\ r.total = c.total /\ r.next = c.next /\ r.pipe = c.pipe
  BY DEF ContextTyped, Contexts
<1> HIDE DEF r
<1>2. ContextTyped(r)
  BY <1>1 DEF ContextTyped
<1> QED BY <1>1, <1>2 DEF r

\* The pipe of a transfer is finite.
LEMMA PipeFinite ==
    ASSUME NEW c, ContextTyped(c)
    PROVE  IsFiniteSet(c.pipe) /\ Cardinality(c.pipe) \in Nat
<1> DEFINE k == c.next - 1
<1>1. k \in Int /\ 0 \in Int /\ c.pipe \subseteq 0 .. k
  BY DEF ContextTyped, Contexts
<1> HIDE DEF k
<1>2. IsFiniteSet(0 .. k)
  BY <1>1, FS_Interval
<1>3. IsFiniteSet(c.pipe)
  BY <1>1, <1>2, FS_Subset
<1> QED BY <1>3, FS_CardinalityType

\* A block answered.
LEMMA AnsweredTyped ==
    ASSUME NEW c, ContextTyped(c), NEW i
    PROVE  LET r == [c EXCEPT !.pipe = @ \ {i}]
           IN  /\ ContextTyped(r) /\ r.state = c.state
               /\ r.role = c.role /\ r.tid = c.tid /\ r.total = c.total
               /\ r.next = c.next /\ r.pipe = c.pipe \ {i}
               /\ Acked(r) \subseteq Acked(c) \cup {i}
<1> DEFINE r == [c EXCEPT !.pipe = @ \ {i}]
<1>1. /\ r \in Contexts /\ r.state = c.state /\ r.role = c.role /\ r.tid = c.tid
      /\ r.total = c.total /\ r.next = c.next /\ r.pipe = c.pipe \ {i}
  BY DEF ContextTyped, Contexts
<1> HIDE DEF r
<1>2. Cardinality(c.pipe \ {i}) <= PipeDepth
  <2>1. /\ IsFiniteSet(c.pipe) /\ Cardinality(c.pipe) \in Nat /\ Cardinality(c.pipe) <= PipeDepth
    BY PipeFinite DEF ContextTyped
  <2>2. Cardinality(c.pipe \ {i}) = IF i \in c.pipe THEN Cardinality(c.pipe) - 1
                                    ELSE Cardinality(c.pipe)
    BY <2>1, FS_RemoveElement
  <2> QED BY <2>1, <2>2, Limits
<1>3. ContextTyped(r)
  BY <1>1, <1>2 DEF ContextTyped
<1>4. Acked(r) \subseteq Acked(c) \cup {i}
  BY <1>1 DEF Acked
<1> QED BY <1>1, <1>3, <1>4 DEF r

\* Blocks put into the pipe: none of them has been answered.
LEMMA LoadedTyped ==
    ASSUME NEW c, ContextTyped(c), c.state = "sending", NEW n \in 0 .. Room(c)
    PROVE  /\ Room(c) \in Nat /\ n \in Nat
           /\ ContextTyped(Loaded(c, n)) /\ Loaded(c, n).state = "sending"
           /\ Loaded(c, n).role = c.role /\ Loaded(c, n).tid = c.tid
           /\ Loaded(c, n).total = c.total /\ Loaded(c, n).next = c.next + n
           /\ Loaded(c, n).pipe = c.pipe \cup (c.next .. c.next + n - 1)
           /\ Acked(Loaded(c, n)) = Acked(c)
<1> DEFINE k == Cardinality(c.pipe)
           S == {c.total - c.next, PipeDepth - k}
           x == c.next
           r == Loaded(c, n)
           N == x .. x + n - 1
<1>1. /\ x \in Nat /\ c.total \in Nat /\ x <= c.total /\ k \in Nat /\ k <= PipeDepth
      /\ IsFiniteSet(c.pipe) /\ c.pipe \subseteq 0 .. x - 1
  BY PipeFinite DEF ContextTyped, Contexts
<1>2. S \subseteq Nat /\ S # {}
  BY <1>1, Limits
<1> HIDE DEF k
<1>3. Room(c) = Least(S)
  BY DEF Room, k
<1>4. Least(S) \in S /\ \A m \in S : Least(S) <= m
  <2> HIDE DEF S
  <2> QED BY <1>2, LeastOf
<1>5. Room(c) \in Nat /\ Room(c) <= c.total - x /\ Room(c) <= PipeDepth - k
  BY <1>2, <1>3, <1>4
<1>6. n \in Nat /\ x + n <= c.total /\ k + n <= PipeDepth
  BY <1>1, <1>5, Limits
<1>7. /\ r \in Contexts /\ r.state = "sending" /\ r.role = c.role /\ r.tid = c.tid
      /\ r.total = c.total /\ r.next = x + n /\ r.pipe = c.pipe \cup N
  <2> DEFINE q == [c EXCEPT !.next = x + n]
  <2>1. /\ q \in Contexts /\ q.state = "sending" /\ q.role = c.role /\ q.tid = c.tid
        /\ q.total = c.total /\ q.next = x + n /\ q.pipe = c.pipe
    BY <1>1, <1>6 DEF ContextTyped, Contexts
  <2>2. r = [q EXCEPT !.pipe = c.pipe \cup N]
    BY DEF Loaded, ContextTyped, Contexts
  <2>3. N \subseteq Nat /\ c.pipe \subseteq Nat
    BY <1>1, <1>6
  <2> HIDE DEF q, N, r
  <2> QED BY <2>1, <2>2, <2>3 DEF Contexts
<1>8. r.pipe \subseteq 0 .. r.next - 1
  BY <1>1, <1>6, <1>7
<1>9. Cardinality(c.pipe \cup N) <= PipeDepth
  <2> DEFINE b == x + n - 1
  <2>1. x \in Int /\ b \in Int /\ N = x .. b
    BY <1>1, <1>6
  <2>1a. (IF x > b THEN 0 ELSE b - x + 1) = n
    BY <1>1, <1>6
  <2> HIDE DEF b, N
  <2>2. IsFiniteSet(N) /\ Cardinality(N) = n
    <3>1. \A u, v \in Int : /\ IsFiniteSet(u .. v)
                            /\ Cardinality(u .. v) = IF u > v THEN 0 ELSE v - u + 1
      BY FS_Interval
    <3>2. /\ IsFiniteSet(x .. b)
          /\ Cardinality(x .. b) = IF x > b THEN 0 ELSE b - x + 1
      BY <2>1, <3>1, Zenon
    <3> QED BY <2>1, <2>1a, <3>2
  <2>3. Cardinality(c.pipe \cup N) = Cardinality(c.pipe) + Cardinality(N) - Cardinality(c.pipe \cap N)
    BY <1>1, <2>2, FS_Union
  <2>4. Cardinality(c.pipe \cap N) \in Nat
    BY <1>1, FS_Intersection, FS_CardinalityType
  <2> QED BY <2>2, <2>3, <2>4, <1>1, <1>6, Limits DEF k
<1> HIDE DEF r
<1>10. ContextTyped(r)
  <2>1. r.role = RoleOf(r.state)
    BY <1>7 DEF ContextTyped
  <2>2. r.next <= r.total
    BY <1>6, <1>7
  <2>3. Cardinality(r.pipe) <= PipeDepth
    BY <1>7, <1>9
  <2> QED BY <1>7, <1>8, <2>1, <2>2, <2>3 DEF ContextTyped
<1>11. Acked(r) = Acked(c)
  <2>1. ASSUME NEW i \in 0 .. r.next - 1, i \notin r.pipe
        PROVE  i \in 0 .. c.next - 1 /\ i \notin c.pipe
    BY <2>1, <1>1, <1>6, <1>7
  <2>2. ASSUME NEW i \in 0 .. c.next - 1, i \notin c.pipe
        PROVE  i \in 0 .. r.next - 1 /\ i \notin r.pipe
    BY <2>2, <1>1, <1>6, <1>7
  <2> QED BY <2>1, <2>2 DEF Acked
<1> QED BY <1>5, <1>6, <1>7, <1>10, <1>11 DEF r

\* Frames that offer nothing and call nothing taken.
Quiet(fs) == fs \in Seq(Frames) /\ Tids(fs) = {} /\ Said(fs) = {}

\* Frames of which none is META or a response to a block.
LEMMA QuietAll ==
    ASSUME NEW fs \in Seq(Frames), \A n \in DOMAIN fs : fs[n].kind \notin {"meta", "datarsp"}
    PROVE  Quiet(fs)
<1>1. Metas(fs) = {} /\ {k \in DOMAIN fs : IsOk(fs[k])} = {}
  BY DEF Metas, IsOk
<1> QED BY <1>1 DEF Quiet, Tids, Said

\* A single frame.
LEMMA QuietOne ==
    ASSUME NEW e \in Frames, e.kind # "meta", ~IsOk(e)
    PROVE  Quiet(<<e>>)
<1>1. <<e>> \in Seq(Frames)
  OBVIOUS
<1> QED BY <1>1, Single DEF Quiet

\* No frame.
LEMMA QuietNone == Quiet(<<>>)
<1>1. <<>> \in Seq(Frames)
  BY EmptySeq
<1> QED BY <1>1, Nothing DEF Quiet

\* Quiet frames one after the other.
LEMMA QuietBoth ==
    ASSUME NEW s, NEW t, Quiet(s), Quiet(t)
    PROVE  Quiet(s \o t)
<1>1. s \o t \in Seq(Frames)
  BY ConcatProperties DEF Quiet
<1>2. Tids(s \o t) = Tids(s) \cup Tids(t) /\ Said(s \o t) = Said(s) \cup Said(t)
  BY Joined DEF Quiet
<1> QED BY <1>1, <1>2 DEF Quiet

\* ABORT.
LEMMA QuietNotice ==
    ASSUME NEW d \in Devices, TransferTyped(d)
    PROVE  Quiet(Notice(d))
<1>1. Abort(ctx[d].tid) \in Frames /\ Abort(ctx[d].tid).kind = "abort"
  BY DEF TransferTyped, ContextTyped, Contexts, Abort, Frames
<1>2. Quiet(<<Abort(ctx[d].tid)>>)
  BY <1>1, QuietOne DEF IsOk
<1> QED BY <1>2, QuietNone DEF Notice

\* Blocks.
LEMMA QuietBlocks ==
    ASSUME NEW c, ContextTyped(c), NEW n \in Nat, NEW w \in BOOLEAN
    PROVE  Quiet(Blocks(c, n, w))
<1> DEFINE block(m) == Data(c.tid, c.next + m - 1, w)
           b == [m \in 1 .. n |-> block(m)]
<1>1. \A m \in 1 .. n : block(m) \in Frames /\ block(m).kind = "data"
  <2> SUFFICES ASSUME NEW m \in 1 .. n
               PROVE  block(m) \in Frames /\ block(m).kind = "data"
    OBVIOUS
  <2>1. c.tid \in Nat /\ c.next + m - 1 \in Nat
    BY DEF ContextTyped, Contexts
  <2> QED BY <2>1 DEF Data, Frames
<1> HIDE DEF block
<1>2. b \in [1 .. n -> Frames]
  BY <1>1
<1>3. b \in Seq(Frames) /\ DOMAIN b = 1 .. n
  BY <1>2
<1>4. \A m \in DOMAIN b : b[m].kind \notin {"meta", "datarsp"}
  BY <1>1, <1>3
<1>5. Quiet(b)
  <2> HIDE DEF b
  <2> QED BY <1>3, <1>4, QuietAll
<1> QED BY <1>5 DEF Blocks, b, block

------------------------------------------------------------------------------
(* How a transfer goes on *)

\* The transfer of d goes on as c with timer t, and the frames fs are sent.
Goes(d, c, t, fs) ==
    /\ ctx' = [ctx EXCEPT ![d] = c] /\ timer' = [timer EXCEPT ![d] = t] /\ Sent(d, fs)
    /\ ContextTyped(c) /\ t \in Timers /\ fs \in Seq(Frames)

\* Files are saved and reported, and no device but d is left behind or found again.
Records(d) ==
    /\ saved' = [e \in Devices |-> saved'[e]] /\ completed' = [e \in Devices |-> completed'[e]]
    /\ \A e \in Devices : saved'[e] \subseteq Nat /\ completed'[e] \subseteq Nat
    /\ stalled' \subseteq Devices
    /\ \A e \in Devices \ {d} : e \in stalled' <=> e \in stalled

\* What then drives it.
Onward(d, c, t) ==
    \/ c.role = "none"
    \/ d \in stalled' /\ LeftBehind(c)
    \/ /\ d \notin stalled'
       /\ \/ t.kind # "none" /\ t.on
          \/ flags[d] \cap {"own", "abort"} # {}

\* The sender's transfer goes on from c0, or ends.
GoesFrom(d, c0) ==
    \E c, t, fs :
        /\ Goes(d, c, t, fs) /\ Records(d) /\ Quiet(fs) /\ Onward(d, c, t)
        /\ c.role = "none" \/ (/\ c.role = "sender" /\ c0.role = "sender" /\ c.tid = c0.tid
                               /\ c.state # "preparing" /\ Acked(c) = Acked(c0))

\* Nothing is recorded, or only that the device is no longer left behind.
LEMMA RecordsNothing ==
    ASSUME Typed, NEW d \in Devices, UNCHANGED <<saved, completed>>,
           stalled' = stalled \ {d} \/ stalled' = stalled \cup {d} \/ stalled' = stalled
    PROVE  Records(d)
  BY DEF Typed, Mapped, FilesTyped, Records

\* The transfer goes on as Keep says.
LEMMA KeepGoes ==
    ASSUME Typed, NEW d \in Devices, NEW c, NEW t, NEW fs, Keep(d, c, t, fs),
           ContextTyped(c), t \in Timers, fs \in Seq(Frames)
    PROVE  Goes(d, c, t, fs) /\ Records(d) /\ d \notin stalled'
  BY RecordsNothing DEF Keep, Goes

\* It ends.
LEMMA FinishGoes ==
    ASSUME Typed, NEW d \in Devices, NEW fs, Finish(d, fs), Quiet(fs), NEW c0
    PROVE  GoesFrom(d, c0)
<1>1. Records(d)
  BY RecordsNothing DEF Finish, Over
<1>2. Disarmed(d) \in Timers
  BY DisarmedTyped DEF Typed, TransferTyped
<1>3. Goes(d, Idle, Disarmed(d), fs)
  BY <1>2, IdleTyped DEF Finish, Over, Goes, Quiet
<1> QED BY <1>1, <1>3, IdleTyped DEF GoesFrom, Onward

\* It is aborted.
LEMMA AbortGoes ==
    ASSUME Typed, NEW d \in Devices, AbortActive(d), NEW c0
    PROVE  GoesFrom(d, c0)
<1>1. Quiet(Notice(d))
  BY QuietNotice DEF Typed
<1> QED BY <1>1, FinishGoes DEF AbortActive

\* It ends and is reported as completed.
LEMMA CompleteGoes ==
    ASSUME Typed, NEW d \in Devices, Complete(d), NEW c0
    PROVE  GoesFrom(d, c0)
<1>1. Records(d)
  <2>1. ctx[d].tid \in Nat
    BY DEF Typed, TransferTyped, ContextTyped, Contexts
  <2>2. /\ saved' = saved /\ stalled' = stalled \ {d}
        /\ completed' = [completed EXCEPT ![d] = @ \cup {ctx[d].tid}]
    BY DEF Complete, Over
  <2>3. /\ completed' = [e \in Devices |-> completed'[e]]
        /\ \A e \in Devices : completed'[e] \subseteq Nat
    BY <2>1, <2>2 DEF Typed, Mapped, FilesTyped
  <2> QED BY <2>2, <2>3 DEF Typed, Mapped, FilesTyped, Records
<1>2. Disarmed(d) \in Timers
  BY DisarmedTyped DEF Typed, TransferTyped
<1>3. Goes(d, Idle, Disarmed(d), <<>>)
  BY <1>2, IdleTyped, QuietNone DEF Complete, Over, Goes, Quiet
<1> QED BY <1>1, <1>3, IdleTyped, QuietNone DEF GoesFrom, Onward

\* Blocks are sent.  Something was to be sent, or the timer runs for what was.
LEMMA FillGoes ==
    ASSUME Typed, NEW d \in Devices, NEW c, NEW t, Fill(d, c, t),
           ContextTyped(c), c.state = "sending", t \in Timers,
           c.pipe = {} => c.next < c.total,
           c.pipe # {} => t.kind # "none" /\ t.on /\ d \notin stalled
    PROVE  GoesFrom(d, c)
<1>1. timer[d] \in Timers /\ QueuesTyped(d) /\ TransferTyped(d) /\ "block" \in Kinds
  BY DEF Typed, TransferTyped, Kinds
<1>2. /\ Armed(d, "block") \in Timers /\ Armed(d, "block").kind = "block"
      /\ Armed(d, "block").on
  BY <1>1, ArmedTyped
<1>3. c.role = "sender" /\ c.next \in Nat /\ c.total \in Nat /\ c.next <= c.total
  BY DEF ContextTyped, RoleOf, Contexts
<1>4. Quiet(Notice(d))
  BY <1>1, QuietNotice
<1>5. CASE flags[d] # {} /\ Room(c) > 0
  <2>1. /\ ctx' = [ctx EXCEPT ![d] = c] /\ timer' = [timer EXCEPT ![d] = t]
        /\ stalled' = IF "other" \in flags[d] /\ c.pipe = {} THEN stalled \cup {d} ELSE stalled
        /\ UNCHANGED <<net, saved, completed>>
    BY <1>5 DEF Fill
  <2>2. Sent(d, <<>>)
    <3>1. net = [e \in Devices |-> net[e]] /\ \A e \in Devices : net[e] \in Seq(Frames)
      BY DEF Typed, Mapped, NetTyped
    <3>2. \A e \in Devices : net[e] \o <<>> = net[e]
      BY <3>1, ConcatEmptySeq
    <3>3. [net EXCEPT ![Peer(d)] = @ \o <<>>] = [e \in Devices |-> net[e]]
      BY <3>1, <3>2
    <3> QED BY <2>1, <3>1, <3>3 DEF Sent
  <2>3. Goes(d, c, t, <<>>) /\ Records(d)
    BY <2>1, <2>2, QuietNone, RecordsNothing DEF Goes, Quiet
  <2>4. Onward(d, c, t)
    <3>1. flags[d] \subseteq Flags /\ ("error" \in flags[d] => "own" \in flags[d])
      BY DEF Typed, AskedTyped
    <3>2. CASE "other" \in flags[d] /\ c.pipe = {}
      BY <2>1, <3>2 DEF Onward, LeftBehind
    <3>3. CASE d \in stalled /\ c.pipe = {}
      BY <2>1, <3>3 DEF Onward, LeftBehind
    <3>4. CASE d \notin stalled /\ ~("other" \in flags[d] /\ c.pipe = {})
      <4>1. c.pipe # {} \/ flags[d] \cap {"own", "abort"} # {}
        BY <1>5, <3>1, <3>4 DEF Flags
      <4> QED BY <2>1, <3>4, <4>1 DEF Onward
    <3> QED BY <3>2, <3>3, <3>4
  <2> QED BY <1>3, <2>3, <2>4, QuietNone DEF GoesFrom
<1>6. CASE ~(flags[d] # {} /\ Room(c) > 0)
  <2>1. PICK n \in 0 .. Room(c), w \in BOOLEAN :
            \/ /\ n = Room(c)
               /\ Keep(d, Loaded(c, n), IF n > 0 THEN Armed(d, "block") ELSE t, Blocks(c, n, w))
            \/ Keep(d, Loaded(c, n), Paused(d, c, n, t), Blocks(c, n, w))
            \/ Finish(d, Blocks(c, n, w) \o Notice(d))
    BY <1>6 DEF Fill
  <2> DEFINE r == Loaded(c, n)
             fs == Blocks(c, n, w)
  <2>2. /\ n \in Nat /\ ContextTyped(r) /\ r.state = "sending" /\ r.role = c.role
        /\ r.tid = c.tid /\ Acked(r) = Acked(c)
    BY LoadedTyped
  <2>3. Quiet(fs) /\ Quiet(fs \o Notice(d))
    BY <1>4, <2>2, QuietBlocks, QuietBoth
  <2>4. n = Room(c) /\ ~(n > 0) => c.pipe # {}
    <3> SUFFICES ASSUME n = Room(c), ~(n > 0), c.pipe = {} PROVE FALSE
      OBVIOUS
    <3>1. Cardinality(c.pipe) = 0
      BY FS_EmptySet
    <3> DEFINE S == {c.total - c.next, PipeDepth - Cardinality(c.pipe)}
    <3>2. S \subseteq Nat \ {0} /\ S # {}
      BY <1>3, <3>1, Limits
    <3>3. Room(c) = Least(S)
      BY DEF Room
    <3> HIDE DEF S
    <3>4. Least(S) \in S
      BY <3>2, LeastOf
    <3> QED BY <2>2, <3>2, <3>3, <3>4
  <2> HIDE DEF fs, r
  <2>5. ASSUME NEW u \in Timers, u.kind # "none", u.on, Keep(d, r, u, fs)
        PROVE  GoesFrom(d, c)
    <3>1. Goes(d, r, u, fs) /\ Records(d) /\ d \notin stalled'
      BY <2>2, <2>3, <2>5, KeepGoes DEF Quiet
    <3> QED BY <1>3, <2>2, <2>3, <2>5, <3>1 DEF GoesFrom, Onward
  <2>6. CASE n = Room(c) /\ Keep(d, r, IF n > 0 THEN Armed(d, "block") ELSE t, fs)
    BY <1>2, <2>4, <2>5, <2>6
  <2>7. CASE Keep(d, r, Paused(d, c, n, t), fs)
    BY <1>2, <2>5, <2>7 DEF Paused
  <2>8. CASE Finish(d, fs \o Notice(d))
    BY <2>3, <2>8, FinishGoes
  <2> QED BY <2>1, <2>6, <2>7, <2>8 DEF r, fs
<1> QED BY <1>5, <1>6

\* The wait for FINAL, which may be over at once.
LEMMA WaitFinalGoes ==
    ASSUME Typed, NEW d \in Devices, NEW c, WaitFinal(d, c), ContextTyped(c), c.role = "sender",
           c.pipe = {}
    PROVE  GoesFrom(d, c)
<1>1. CASE c.early = "ok"
  BY <1>1, CompleteGoes DEF WaitFinal
<1>2. CASE c.early = "failed"
  BY <1>2, QuietNone, FinishGoes DEF WaitFinal
<1>3. CASE c.early \notin {"ok", "failed"}
  <2> DEFINE r == [c EXCEPT !.state = "waitfinal"]
  <2>1. Keep(d, r, Armed(d, "final"), <<>>)
    BY <1>3 DEF WaitFinal
  <2>2. /\ ContextTyped(r) /\ r.state = "waitfinal" /\ r.role = "sender"
        /\ r.tid = c.tid /\ r.next = c.next /\ r.pipe = c.pipe
    BY StateTyped DEF States, RoleOf
  <2>3. timer[d] \in Timers /\ QueuesTyped(d) /\ "final" \in Kinds
    BY DEF Typed, TransferTyped, Kinds
  <2>4. /\ Armed(d, "final") \in Timers /\ Armed(d, "final").kind = "final"
        /\ Armed(d, "final").on
    BY <2>3, ArmedTyped
  <2> HIDE DEF r
  <2>5. Goes(d, r, Armed(d, "final"), <<>>) /\ Records(d) /\ d \notin stalled'
    BY <2>1, <2>2, <2>4, QuietNone, KeepGoes DEF Quiet
  <2> QED BY <2>2, <2>4, <2>5, QuietNone DEF GoesFrom, Onward, Acked
<1> QED BY <1>1, <1>2, <1>3

\* What a timeout does.
LEMMA ExpiredGoes ==
    ASSUME Typed, NEW d \in Devices, Expired(d)
    PROVE  GoesFrom(d, ctx[d])
<1>1. CASE ctx[d].state = "sending" /\ ctx[d].pipe = {} /\ ctx[d].next < ctx[d].total
  <2> DEFINE t == [timer[d] EXCEPT !.late = NoExpiry]
  <2>1. Fill(d, ctx[d], t)
    BY <1>1 DEF Expired
  <2>2. t \in Timers
    <3>1. NoExpiry \in Expiries
      BY Limits DEF NoExpiry, Expiries, Gens, Kinds
    <3> QED BY <3>1 DEF Typed, TransferTyped, Timers
  <2>3. ContextTyped(ctx[d])
    BY DEF Typed, TransferTyped
  <2> HIDE DEF t
  <2> QED BY <1>1, <2>1, <2>2, <2>3, FillGoes
<1>2. CASE AbortActive(d)
  BY <1>2, AbortGoes
<1> QED BY <1>1, <1>2 DEF Expired

\* There are no more devices.
LEMMA DeviceOrPeer ==
    ASSUME NEW d \in Devices, NEW e \in Devices
    PROVE  e = d \/ e = Peer(d)
<1> DEFINE R == Devices \ {d}
<1>1. IsFiniteSet(Devices) /\ Cardinality(Devices) = 2
  BY FileTransferConstants
<1>2. IsFiniteSet(R) /\ Cardinality(R) = 1
  BY <1>1, FS_RemoveElement
<1>3. PICK f : R = {f}
  BY <1>2, FS_Singleton
<1> QED BY <1>3, PeerOfPeer

------------------------------------------------------------------------------
(* A step of the worker *)

SInv == Typed /\ Drives /\ Shared

\* What waits afterwards offers and answers no more than what waited.
Less(s, r) ==
    /\ Tids(r) \subseteq Tids(s) /\ Said(r) \subseteq Said(s)
    /\ Distinct(s) => Distinct(r)

\* The queues of d may lose events.
QueuesGo(d) ==
    /\ queue' = [e \in Devices |-> queue'[e]] /\ urgent' = [e \in Devices |-> urgent'[e]]
    /\ hand' = [e \in Devices |-> hand'[e]]
    /\ \A e \in Devices : QueuesTyped(e)'
    /\ \A e \in Devices \ {d} : queue'[e] = queue[e]
    /\ Less(queue[d], queue'[d])

\* What other tasks asked of the devices stays within its types.
AskedGo ==
    /\ flags' = [e \in Devices |-> flags'[e]] /\ app' = [e \in Devices |-> app'[e]]
    /\ aborted' = [e \in Devices |-> aborted'[e]]
    /\ \A e \in Devices : AskedTyped(e)'
    /\ calm' \in 0 .. MaxTrouble

\* The worker comes to its rest.
Rests(d) ==
    /\ \E p \in {"event", "top"} : at' = [at EXCEPT ![d] = p]
    /\ UNCHANGED <<flags, nextId>>
    /\ QueuesGo(d) /\ AskedGo

\* Trouble is taken from what is left of it.
LEMMA CalmTyped ==
    ASSUME Typed, \/ calm' = calm \/ Trouble(0) \/ Trouble(1) \/ Trouble(2)
    PROVE  calm' \in 0 .. MaxTrouble
  BY Limits DEF Typed, Trouble

\* Nobody asks anything.
LEMMA AskedStays ==
    ASSUME Typed, UNCHANGED <<flags, app, aborted>>, calm' \in 0 .. MaxTrouble
    PROVE  AskedGo
  BY DEF Typed, Mapped, AskedTyped, AskedGo

\* Nothing is queued or taken.
LEMMA QueuesStay ==
    ASSUME Typed, UNCHANGED <<queue, urgent, hand>>, NEW d \in Devices
    PROVE  QueuesGo(d)
  BY DEF Typed, Mapped, QueuesTyped, QueuesGo, Less

\* A hand with nothing in it.
LEMMA EmptyHand ==
    ASSUME NEW S, NEW q \in Seq(S)
    PROVE  HandTyped(NoFrame, q)
  BY LenProperties DEF HandTyped, NoFrame, HandPlaces

\* A hand for a queue that is longer, or not too short.
LEMMA HandLonger ==
    ASSUME NEW S, NEW q \in Seq(S), NEW r \in Seq(S), NEW h, HandTyped(h, q),
           h.aside <= Len(r)
    PROVE  HandTyped(h, r)
  BY LenProperties DEF HandTyped

\* The worker takes an event, of which the urgent ones offer and answer nothing.
LEMMA TakenGoes ==
    ASSUME Typed, NEW d \in Devices, NEW k, Taken(d, k)
    PROVE  /\ QueuesGo(d) /\ Event(d) \in Items /\ Event(d).kind = k /\ at[d] = "event"
           /\ \A x, g : Expiring(queue[d], x, g) =>
                 \/ Expiring(queue'[d], x, g)
                 \/ k = "timeout" /\ Event(d).timer = x /\ Event(d).gen = g
           /\ k = "meta" =>
                 /\ Event(d).tid \in Tids(queue[d])
                 /\ Distinct(queue[d]) => Event(d).tid \notin Tids(queue'[d])
           /\ IsOk(Event(d)) => <<Event(d).tid, Event(d).idx>> \in Said(queue[d])
<1> DEFINE q == queue[d]
           u == urgent[d]
           h == hand[d]
           n == h.aside + 1
<1>1. /\ q \in Seq(Items) /\ Len(q) <= QueueLen /\ Len(q) \in Nat
      /\ u \in Seq(Urgent) /\ Len(u) <= UrgentLen /\ Len(u) \in Nat
      /\ DOMAIN queue = Devices /\ DOMAIN urgent = Devices /\ HandTyped(h, q)
      /\ \A e \in Devices : QueuesTyped(e)
  BY LenProperties DEF Typed, Mapped, QueuesTyped
<1>2. Event(d).kind = k /\ at[d] = "event" /\ hand' = hand
  BY DEF Taken
<1>3. ASSUME NEW v, NEW w, queue' = [queue EXCEPT ![d] = v], urgent' = [urgent EXCEPT ![d] = w],
             v \in Seq(Items), Len(v) <= QueueLen, HandTyped(h, v), Less(q, v),
             w \in Seq(Urgent), Len(w) <= UrgentLen
      PROVE  QueuesGo(d) /\ queue'[d] = v
  <2>1. /\ queue' = [e \in Devices |-> queue'[e]] /\ urgent' = [e \in Devices |-> urgent'[e]]
        /\ hand' = [e \in Devices |-> hand'[e]]
    BY <1>2, <1>3 DEF Typed, Mapped
  <2>2. /\ queue'[d] = v /\ urgent'[d] = w
        /\ \A e \in Devices \ {d} : queue'[e] = queue[e] /\ urgent'[e] = urgent[e]
    BY <1>1, <1>3
  <2>3. ASSUME NEW e \in Devices
        PROVE  QueuesTyped(e)'
    <3>1. CASE e = d
      BY <1>2, <1>3, <2>2, <3>1 DEF QueuesTyped
    <3>2. CASE e # d
      BY <1>1, <1>2, <2>2, <3>2 DEF QueuesTyped
    <3> QED BY <3>1, <3>2
  <2> QED BY <1>3, <2>1, <2>2, <2>3 DEF QueuesGo
<1>4. CASE u # <<>>
  <2>1. urgent' = [urgent EXCEPT ![d] = Tail(u)] /\ queue' = queue /\ Event(d) = Head(u)
    BY <1>4 DEF Taken, Event
  <2>2. /\ Head(u) \in Urgent /\ Tail(u) \in Seq(Urgent) /\ Len(Tail(u)) = Len(u) - 1
    BY <1>1, <1>4, HeadTailProperties
  <2>3. queue' = [queue EXCEPT ![d] = q]
    BY <2>1 DEF Typed, Mapped
  <2>4. Len(Tail(u)) <= UrgentLen
    BY <1>1, <2>2, Limits
  <2>5. Event(d) \in Items /\ k \in {"final", "abort"} /\ ~IsOk(Event(d))
    BY <1>2, <2>1, <2>2 DEF Urgent, Items, IsUrgent, IsOk
  <2> HIDE DEF q, u, h, n
  <2>6. QueuesGo(d)
    BY <1>1, <1>3, <2>1, <2>2, <2>3, <2>4 DEF Less
  <2> QED BY <1>2, <2>1, <2>5, <2>6
<1>5. CASE u = <<>>
  <2> DEFINE c == Cut(q, n)
  <2>1. /\ queue' = [queue EXCEPT ![d] = c] /\ urgent' = urgent /\ Event(d) = q[n]
        /\ h.aside < Len(q)
    BY <1>5 DEF Taken, Event
  <2>2. urgent' = [urgent EXCEPT ![d] = u]
    BY <2>1 DEF Typed, Mapped
  <2> HIDE DEF q, u, h
  <2>3. n \in DOMAIN q /\ q[n] \in Items
    <3>1. DOMAIN q = 1 .. Len(q) /\ n \in 1 .. Len(q)
      BY <1>1, <2>1, LenProperties DEF HandTyped
    <3> QED BY <1>1, <3>1, ElementOfSeq
  <2>4. /\ Tids(c) \subseteq Tids(q) /\ Said(c) \subseteq Said(q)
        /\ Distinct(q) => Distinct(c)
        /\ q[n].kind = "meta" =>
              q[n].tid \in Tids(q) /\ (Distinct(q) => q[n].tid \notin Tids(c))
        /\ IsOk(q[n]) => <<q[n].tid, q[n].idx>> \in Said(q)
    BY <1>1, <2>3, CutLeaves
  <2>5. \A x, g : Expiring(q, x, g) =>
            Expiring(c, x, g) \/ (q[n].kind = "timeout" /\ q[n].timer = x /\ q[n].gen = g)
    BY <1>1, <2>3, ExpiringCut
  <2>6. c \in Seq(Items) /\ Len(c) = Len(q) - 1
    BY <1>1, <2>3, CutIs
  <2> HIDE DEF c
  <2>7. Len(c) <= QueueLen
    BY <1>1, <2>6, Limits
  <2>8. HandTyped(h, c)
    BY <1>1, <2>1, <2>6, HandLonger DEF HandTyped
  <2>9. QueuesGo(d) /\ queue'[d] = c
    BY <1>1, <1>3, <2>1, <2>2, <2>4, <2>6, <2>7, <2>8 DEF Less
  <2> HIDE DEF n
  <2> QED BY <1>2, <2>1, <2>3, <2>4, <2>5, <2>9 DEF q
<1> QED BY <1>4, <1>5

\* The worker takes an event that is no expiry: no expiry is lost.
LEMMA TakenOther ==
    ASSUME Typed, NEW d \in Devices, NEW k, Taken(d, k), k # "timeout"
    PROVE  /\ QueuesGo(d) /\ Event(d) \in Items /\ Event(d).kind = k /\ at[d] = "event"
           /\ \A x, g : Expiring(queue[d], x, g) => Expiring(queue'[d], x, g)
<1>1. \A x, g : Expiring(queue[d], x, g) =>
          Expiring(queue'[d], x, g) \/ (k = "timeout" /\ Event(d).timer = x /\ Event(d).gen = g)
  BY TakenGoes
<1>2. QueuesGo(d) /\ Event(d) \in Items /\ Event(d).kind = k /\ at[d] = "event"
  BY TakenGoes
<1> QED BY <1>1, <1>2

\* It takes an expiry, which is the one that may be lost.
LEMMA TakenExpiry ==
    ASSUME Typed, NEW d \in Devices, Taken(d, "timeout")
    PROVE  /\ QueuesGo(d) /\ at[d] = "event"
           /\ \A x, g : Expiring(queue[d], x, g) =>
                 Expiring(queue'[d], x, g) \/ (Event(d).timer = x /\ Event(d).gen = g)
<1>1. \A x, g : Expiring(queue[d], x, g) =>
          \/ Expiring(queue'[d], x, g)
          \/ "timeout" = "timeout" /\ Event(d).timer = x /\ Event(d).gen = g
  BY TakenGoes
<1>2. QueuesGo(d) /\ at[d] = "event"
  BY TakenGoes
<1> QED BY <1>1, <1>2

\* The types are kept.
LEMMA TypedGoes ==
    ASSUME Typed, NEW d \in Devices, NEW c, NEW t, NEW fs, Goes(d, c, t, fs), Records(d),
           QueuesGo(d), AskedGo, NEW p \in Places, at' = [at EXCEPT ![d] = p],
           p = "prepare" => c.state = "preparing", p = "finalize" => c.state = "finalizing",
           nextId' = [e \in Devices |-> nextId'[e]], \A e \in Devices : nextId'[e] \in Nat \ {0}
    PROVE  Typed'
<1>1. /\ ctx' = [ctx EXCEPT ![d] = c] /\ timer' = [timer EXCEPT ![d] = t]
      /\ net' = [net EXCEPT ![Peer(d)] = @ \o fs]
      /\ ContextTyped(c) /\ t \in Timers /\ fs \in Seq(Frames)
  BY DEF Goes, Sent
<1>2. Mapped'
  BY <1>1 DEF Typed, Mapped, Records, QueuesGo, AskedGo
<1>3. ASSUME NEW e \in Devices
      PROVE  TransferTyped(e)' /\ PlaceTyped(e)'
  <2>1. TransferTyped(e) /\ PlaceTyped(e)
    BY DEF Typed
  <2>2. CASE e = d
    <3>1. ctx'[e] = c /\ timer'[e] = t /\ at'[e] = p
      BY <1>1, <2>2 DEF Typed, Mapped
    <3> QED BY <1>1, <3>1 DEF TransferTyped, PlaceTyped
  <2>3. CASE e # d
    <3>1. ctx'[e] = ctx[e] /\ timer'[e] = timer[e] /\ at'[e] = at[e]
      BY <1>1, <2>3 DEF Typed, Mapped
    <3> QED BY <2>1, <3>1 DEF TransferTyped, PlaceTyped
  <2> QED BY <2>2, <2>3
<1>4. ASSUME NEW e \in Devices
      PROVE  NetTyped(e)'
  <2>1. net[e] \in Seq(Frames) /\ net[e] \o fs \in Seq(Frames)
    BY <1>1, ConcatProperties DEF Typed, NetTyped
  <2>2. net'[e] = net[e] \o fs \/ net'[e] = net[e]
    BY <1>1 DEF Typed, Mapped
  <2> QED BY <2>1, <2>2 DEF NetTyped
<1>5. ASSUME NEW e \in Devices
      PROVE  FilesTyped(e)' /\ QueuesTyped(e)' /\ AskedTyped(e)'
  BY DEF FilesTyped, Records, QueuesGo, AskedGo
<1> QED BY <1>2, <1>3, <1>4, <1>5 DEF Typed, Records, AskedGo

\* The two devices agree if the one that moves does.
LEMMA SharedGoes ==
    ASSUME Typed, Shared, NEW d \in Devices, NEW c, NEW t, NEW fs, Goes(d, c, t, fs),
           QueuesGo(d), nextId'[Peer(d)] = nextId[Peer(d)],
           Distinct(fs), Tids(fs) \cap Offered(Peer(d)) = {},
           Agree(c, ctx[Peer(d)], nextId'[d], Offered(Peer(d)) \cup Tids(fs), Answers(d)),
           Agree(ctx[Peer(d)], c, nextId[Peer(d)],
                 Tids(net[d]) \cup Tids(queue'[d]), Answers(Peer(d)) \cup Said(fs))
    PROVE  Shared'
<1> DEFINE f == Peer(d)
<1>1. f \in Devices /\ f # d /\ Peer(f) = d
  BY PeerOfPeer
<1>2. /\ ctx' = [ctx EXCEPT ![d] = c] /\ net' = [net EXCEPT ![f] = @ \o fs]
      /\ fs \in Seq(Frames)
  BY DEF Goes, Sent
<1>3. /\ ctx'[d] = c /\ ctx'[f] = ctx[f] /\ net'[d] = net[d] /\ net'[f] = net[f] \o fs
      /\ queue'[f] = queue[f] /\ Less(queue[d], queue'[d])
  BY <1>1, <1>2 DEF Typed, Mapped, QueuesGo
<1>4. /\ Tids(net[f] \o fs) = Tids(net[f]) \cup Tids(fs)
      /\ Said(net[f] \o fs) = Said(net[f]) \cup Said(fs)
      /\ Distinct(net[f]) /\ Distinct(fs) /\ Tids(net[f]) \cap Tids(fs) = {} =>
            Distinct(net[f] \o fs)
  <2>1. net[f] \in Seq(Frames)
    BY <1>1 DEF Typed, NetTyped
  <2> QED BY <1>2, <2>1, Joined
<1>5. Once(d) /\ Once(f)
  BY <1>1 DEF Shared
<1>6. Once(d)'
  BY <1>3, <1>5 DEF Once, Less
<1>7. Once(f)'
  BY <1>3, <1>4, <1>5 DEF Once, Offered
<1>8. /\ Offered(f)' = Offered(f) \cup Tids(fs) /\ Answers(d)' \subseteq Answers(d)
      /\ Offered(d)' = Tids(net[d]) \cup Tids(queue'[d])
      /\ Answers(f)' = Answers(f) \cup Said(fs)
  BY <1>3, <1>4 DEF Offered, Answers, Less
<1>9. Agree(ctx'[d], ctx'[f], nextId'[d], Offered(f)', Answers(d)')
  BY <1>3, <1>8, AgreeLess
<1>10. Agree(ctx'[f], ctx'[d], nextId'[f], Offered(d)', Answers(f)')
  BY <1>3, <1>8
<1> QED BY <1>1, <1>6, <1>7, <1>9, <1>10, DeviceOrPeer DEF Shared

\* A transfer that is the same to the other device.
Same(c, b) ==
    /\ c.role = b.role /\ c.state = b.state /\ c.tid = b.tid /\ c.total = b.total
    /\ c.next = b.next /\ c.pipe = b.pipe

\* The agreement of two devices does not tell them from their likes.
LEMMA AgreeSame ==
    ASSUME NEW cs, NEW cr, NEW id, NEW O, NEW R, Agree(cs, cr, id, O, R), NEW c
    PROVE  /\ Same(c, cs) => Agree(c, cr, id, O, R)
           /\ Same(c, cr) => Agree(cs, c, id, O, R)
<1>1. ASSUME Same(c, cs)
      PROVE  Agree(c, cr, id, O, R)
  <2>1. Acked(c) = Acked(cs)
    BY <1>1 DEF Same, Acked
  <2> QED BY <1>1, <2>1 DEF Same, Agree, Preparing
<1>2. ASSUME Same(c, cr)
      PROVE  Agree(cs, c, id, O, R)
  BY <1>2 DEF Same, Agree, Taking
<1> QED BY <1>1, <1>2

\* The hypotheses of both devices.
LEMMA SharedBoth ==
    ASSUME Shared, NEW d \in Devices
    PROVE  /\ Agree(ctx[d], ctx[Peer(d)], nextId[d], Offered(Peer(d)), Answers(d))
           /\ Agree(ctx[Peer(d)], ctx[d], nextId[Peer(d)], Offered(d), Answers(Peer(d)))
  BY PeerOfPeer DEF Shared

\* A device whose transfer stays what it is says nothing that matters.
LEMMA SharedSame ==
    ASSUME Typed, Shared, NEW d \in Devices, NEW c, NEW t, NEW fs, Goes(d, c, t, fs),
           Quiet(fs), Same(c, ctx[d]), QueuesGo(d), nextId' = nextId
    PROVE  Shared'
<1> DEFINE f == Peer(d)
           O == Tids(net[d]) \cup Tids(queue'[d])
<1>1. f \in Devices
  BY PeerOfPeer
<1>2. Tids(fs) = {} /\ Said(fs) = {} /\ Distinct(fs)
  BY DEF Quiet, Tids, Distinct
<1>3. O \subseteq Offered(d)
  BY DEF Offered, QueuesGo, Less
<1>4. Agree(c, ctx[f], nextId[d], Offered(f), Answers(d))
  BY SharedBoth, AgreeSame
<1>5. Agree(ctx[f], c, nextId[f], Offered(d), Answers(f))
  BY SharedBoth, AgreeSame
<1>6. Agree(ctx[f], c, nextId[f], O, Answers(f))
  BY <1>3, <1>5, AgreeLess
<1>7. /\ Offered(f) \cup Tids(fs) = Offered(f) /\ Answers(f) \cup Said(fs) = Answers(f)
      /\ Tids(fs) \cap Offered(f) = {} /\ nextId'[f] = nextId[f] /\ nextId'[d] = nextId[d]
  BY <1>2
<1> HIDE DEF f
<1>8. /\ Agree(c, ctx[f], nextId'[d], Offered(f) \cup Tids(fs), Answers(d))
      /\ Agree(ctx[f], c, nextId[f], Tids(net[d]) \cup Tids(queue'[d]), Answers(f) \cup Said(fs))
  BY <1>4, <1>6, <1>7
<1> QED BY <1>2, <1>7, <1>8, SharedGoes DEF f

\* A sender goes on or ends, and has learnt what was answered.
LEMMA SharedFrom ==
    ASSUME Typed, Shared, NEW d \in Devices, NEW c0, GoesFrom(d, c0),
           QueuesGo(d), nextId' = nextId,
           c0.role = "sender" => ctx[d].role = "sender" /\ c0.tid = ctx[d].tid,
           \A i \in Acked(c0) : i \in Acked(ctx[d]) \/ <<c0.tid, i>> \in Answers(d)
    PROVE  Shared'
<1> DEFINE f == Peer(d)
           O == Tids(net[d]) \cup Tids(queue'[d])
<1>1. PICK c, t, fs :
          /\ Goes(d, c, t, fs) /\ Quiet(fs)
          /\ c.role = "none" \/ (/\ c.role = "sender" /\ c0.role = "sender" /\ c.tid = c0.tid
                                 /\ c.state # "preparing" /\ Acked(c) = Acked(c0))
  BY DEF GoesFrom
<1>2. Tids(fs) = {} /\ Said(fs) = {} /\ Distinct(fs) /\ ContextTyped(c)
  BY <1>1 DEF Quiet, Tids, Distinct, Goes
<1>3. O \subseteq Offered(d)
  BY DEF Offered, QueuesGo, Less
<1>4. Agree(c, ctx[f], nextId[d], Offered(f), Answers(d))
  <2>1. Agree(ctx[d], ctx[f], nextId[d], Offered(f), Answers(d))
    BY SharedBoth
  <2> HIDE DEF f
  <2>2. CASE c.role # "sender"
    BY <1>2, <2>1, <2>2, AgreeNoSender
  <2>3. CASE c.role = "sender"
    <3>1. /\ ctx[d].role = "sender" /\ c.tid = ctx[d].tid /\ c.state # "preparing"
          /\ \A i \in Acked(c) : i \in Acked(ctx[d]) \/ <<c.tid, i>> \in Answers(d)
      BY <1>1, <2>3
    <3> QED BY <2>1, <3>1, AgreeSender
  <2> QED BY <2>2, <2>3
<1>5. Agree(ctx[f], c, nextId[f], Offered(d), Answers(f))
  BY <1>1, SharedBoth, AgreeNoReceiver
<1>6. Agree(ctx[f], c, nextId[f], O, Answers(f))
  BY <1>3, <1>5, AgreeLess
<1>7. /\ Offered(f) \cup Tids(fs) = Offered(f) /\ Answers(f) \cup Said(fs) = Answers(f)
      /\ Tids(fs) \cap Offered(f) = {} /\ nextId'[f] = nextId[f] /\ nextId'[d] = nextId[d]
  BY <1>2
<1> HIDE DEF f
<1>8. /\ Agree(c, ctx[f], nextId'[d], Offered(f) \cup Tids(fs), Answers(d))
      /\ Agree(ctx[f], c, nextId[f], Tids(net[d]) \cup Tids(queue'[d]), Answers(f) \cup Said(fs))
  BY <1>4, <1>6, <1>7
<1> QED BY <1>1, <1>2, <1>7, <1>8, SharedGoes DEF f

------------------------------------------------------------------------------
(* What drives the transfers after a step *)

\* A device that nothing happens to.
LEMMA DrivenStays ==
    ASSUME NEW e \in Devices, DrivenNow(e),
           ctx'[e] = ctx[e], timer'[e] = timer[e], at'[e] = at[e],
           queue'[e] = queue[e], flags[e] \subseteq flags'[e],
           e \in stalled' <=> e \in stalled
    PROVE  DrivenNow(e)'
<1>1. Ticking(e)' <=> Ticking(e)
  BY DEF Ticking, Current, Active, Posted
<1>2. Put(e)' <=> Put(e)
  BY DEF Put, Active
<1> QED BY <1>1, <1>2 DEF DrivenNow, Active

\* A device that goes on as Onward says.
LEMMA DrivesOnward ==
    ASSUME Typed, Drives, NEW d \in Devices, NEW c, NEW t, NEW fs, Goes(d, c, t, fs),
           Records(d), Onward(d, c, t), flags' = flags, NEW p, at' = [at EXCEPT ![d] = p],
           \A e \in Devices \ {d} : queue'[e] = queue[e]
    PROVE  Drives'
<1> SUFFICES ASSUME NEW e \in Devices
             PROVE  DrivenNow(e)'
  BY DEF Drives
<1>1. /\ ctx' = [ctx EXCEPT ![d] = c] /\ timer' = [timer EXCEPT ![d] = t]
      /\ DOMAIN ctx = Devices /\ DOMAIN timer = Devices /\ DOMAIN at = Devices
  BY DEF Goes, Typed, Mapped
<1>2. CASE e # d
  <2>1. /\ ctx'[e] = ctx[e] /\ timer'[e] = timer[e] /\ at'[e] = at[e]
        /\ queue'[e] = queue[e] /\ flags'[e] = flags[e] /\ (e \in stalled' <=> e \in stalled)
    BY <1>1, <1>2 DEF Records
  <2> QED BY <2>1, DrivenStays DEF Drives
<1>3. CASE e = d
  <2>1. ctx'[d] = c /\ timer'[d] = t /\ flags'[d] = flags[d]
    BY <1>1
  <2>2. t.on => Ticking(d)'
    BY <2>1 DEF Ticking
  <2> QED BY <1>3, <2>1, <2>2 DEF DrivenNow, Onward, Put, Active
<1> QED BY <1>2, <1>3

\* A device whose transfer goes on with the same timer.
LEMMA DrivesSame ==
    ASSUME Typed, Drives, NEW d \in Devices, NEW c, ctx' = [ctx EXCEPT ![d] = c],
           c.role = ctx[d].role, LeftBehind(ctx[d]) => LeftBehind(c),
           timer' = timer, stalled' = stalled, flags' = flags,
           NEW p, at' = [at EXCEPT ![d] = p], at[d] \in {"top", "late", "event"},
           \A e \in Devices \ {d} : queue'[e] = queue[e],
           Active(d) /\ Expiring(queue[d], timer[d].kind, timer[d].gen) =>
              Expiring(queue'[d], timer[d].kind, timer[d].gen)
    PROVE  Drives'
<1> SUFFICES ASSUME NEW e \in Devices
             PROVE  DrivenNow(e)'
  BY DEF Drives
<1>1. DOMAIN ctx = Devices /\ DOMAIN at = Devices
  BY DEF Typed, Mapped
<1>2. CASE e # d
  <2>1. /\ ctx'[e] = ctx[e] /\ timer'[e] = timer[e] /\ at'[e] = at[e]
        /\ queue'[e] = queue[e] /\ flags'[e] = flags[e]
    BY <1>1, <1>2
  <2> QED BY <2>1, DrivenStays DEF Drives
<1>3. CASE e = d
  <2>1. ctx'[d] = c /\ (Active(d)' <=> Active(d))
    BY <1>1 DEF Active
  <2>2. Put(d)' => Put(d)
    BY <2>1 DEF Put
  <2>3. Ticking(d) /\ Active(d) => Ticking(d)'
    <3>1. Ticking(d) <=>
              \/ timer[d].on \/ timer[d].cb \/ Current(d, timer[d].late)
              \/ Active(d) /\ Expiring(queue[d], timer[d].kind, timer[d].gen)
      BY TickingIs
    <3>2. Ticking(d)' <=>
              \/ timer'[d].on \/ timer'[d].cb \/ Current(d, timer[d].late)'
              \/ Active(d)' /\ Expiring(queue'[d], timer'[d].kind, timer'[d].gen)
      BY DEF Ticking, Expiring, Current, Posted
    <3>3. Current(d, timer[d].late) => Current(d, timer[d].late)'
      BY <2>1 DEF Current
    <3> QED BY <2>1, <3>1, <3>2, <3>3
  <2> QED BY <1>3, <2>1, <2>2, <2>3 DEF DrivenNow, Drives, Put
<1> QED BY <1>2, <1>3

------------------------------------------------------------------------------
(* The worker at rest *)

\* A sender that went on or ended.
LEMMA RestsFrom ==
    ASSUME SInv, NEW d \in Devices, NEW c0, GoesFrom(d, c0), Rests(d),
           c0.role = "sender" => ctx[d].role = "sender" /\ c0.tid = ctx[d].tid,
           \A i \in Acked(c0) : i \in Acked(ctx[d]) \/ <<c0.tid, i>> \in Answers(d)
    PROVE  SInv'
<1>1. Typed /\ Drives /\ Shared /\ QueuesGo(d) /\ AskedGo /\ flags' = flags /\ nextId' = nextId
  BY DEF SInv, Rests
<1>2. PICK p \in {"event", "top"} : at' = [at EXCEPT ![d] = p]
  BY DEF Rests
<1>3. PICK c, t, fs : Goes(d, c, t, fs) /\ Records(d) /\ Onward(d, c, t)
  BY DEF GoesFrom
<1>4. Typed'
  <2>1. p \in Places /\ p \notin {"prepare", "finalize"}
    BY DEF Places
  <2>2. nextId' = [e \in Devices |-> nextId'[e]] /\ \A e \in Devices : nextId'[e] \in Nat \ {0}
    BY <1>1 DEF Typed, Mapped, FilesTyped
  <2> QED BY <1>1, <1>2, <1>3, <2>1, <2>2, TypedGoes
<1>5. Drives'
  BY <1>1, <1>2, <1>3, DrivesOnward DEF QueuesGo
<1>6. Shared'
  BY <1>1, SharedFrom
<1> QED BY <1>4, <1>5, <1>6 DEF SInv

\* A transfer that stays what it is.
LEMMA RestsSame ==
    ASSUME SInv, NEW d \in Devices, NEW c, NEW fs, Goes(d, c, timer[d], fs), Quiet(fs),
           Same(c, ctx[d]), UNCHANGED <<saved, completed, stalled>>, Rests(d),
           at[d] \in {"top", "late", "event"},
           Active(d) /\ Expiring(queue[d], timer[d].kind, timer[d].gen) =>
              Expiring(queue'[d], timer[d].kind, timer[d].gen)
    PROVE  SInv'
<1>1. Typed /\ Drives /\ Shared /\ QueuesGo(d) /\ AskedGo /\ flags' = flags /\ nextId' = nextId
  BY DEF SInv, Rests
<1>2. PICK p \in {"event", "top"} : at' = [at EXCEPT ![d] = p]
  BY DEF Rests
<1>3. Records(d)
  BY <1>1, RecordsNothing
<1>4. Typed'
  <2>1. p \in Places /\ p \notin {"prepare", "finalize"}
    BY DEF Places
  <2>2. nextId' = [e \in Devices |-> nextId'[e]] /\ \A e \in Devices : nextId'[e] \in Nat \ {0}
    BY <1>1 DEF Typed, Mapped, FilesTyped
  <2> QED BY <1>1, <1>2, <1>3, <2>1, <2>2, TypedGoes
<1>5. Drives'
  <2>1. ctx' = [ctx EXCEPT ![d] = c] /\ timer' = timer
    <3>1. timer = [e \in Devices |-> timer[e]]
      BY <1>1 DEF Typed, Mapped
    <3>2. [timer EXCEPT ![d] = timer[d]] = [e \in Devices |-> IF e = d THEN timer[d] ELSE timer[e]]
      BY <3>1
    <3>3. [timer EXCEPT ![d] = timer[d]] = timer
      BY <3>1, <3>2
    <3> QED BY <3>3 DEF Goes
  <2>2. c.role = ctx[d].role /\ (LeftBehind(ctx[d]) => LeftBehind(c))
    BY DEF Same, LeftBehind
  <2> QED BY <1>1, <1>2, <2>1, <2>2, DrivesSame DEF QueuesGo
<1>6. Shared'
  BY <1>1, SharedSame
<1> QED BY <1>4, <1>5, <1>6 DEF SInv

\* Nothing happens to the transfer.
LEMMA RestsStay ==
    ASSUME SInv, NEW d \in Devices, Stay(d), Rests(d), at[d] \in {"top", "late", "event"},
           Active(d) /\ Expiring(queue[d], timer[d].kind, timer[d].gen) =>
              Expiring(queue'[d], timer[d].kind, timer[d].gen)
    PROVE  SInv'
<1>1. Goes(d, ctx[d], timer[d], <<>>)
  <2>1. /\ ctx = [e \in Devices |-> ctx[e]] /\ timer = [e \in Devices |-> timer[e]]
        /\ net = [e \in Devices |-> net[e]] /\ \A e \in Devices : net[e] \in Seq(Frames)
    BY DEF SInv, Typed, Mapped, NetTyped
  <2>2. \A e \in Devices : net[e] \o <<>> = net[e]
    BY <2>1, ConcatEmptySeq
  <2>3. [net EXCEPT ![Peer(d)] = @ \o <<>>] = [e \in Devices |-> net[e]]
    BY <2>1, <2>2
  <2>4. [ctx EXCEPT ![d] = ctx[d]] = [e \in Devices |-> ctx[e]]
    BY <2>1
  <2>5. [timer EXCEPT ![d] = timer[d]] = [e \in Devices |-> timer[e]]
    BY <2>1
  <2>6. ContextTyped(ctx[d]) /\ timer[d] \in Timers
    BY DEF SInv, Typed, TransferTyped
  <2> QED BY <2>1, <2>3, <2>4, <2>5, <2>6, QuietNone DEF Stay, Goes, Sent, Quiet
<1>2. Same(ctx[d], ctx[d])
  BY DEF Same
<1> QED BY <1>1, <1>2, QuietNone, RestsSame DEF Stay

------------------------------------------------------------------------------
(* The worker's steps keep the second invariant *)

\* The worker is done with an event.
LEMMA RestsDone ==
    ASSUME Typed, NEW d \in Devices, QueuesGo(d), Done(d), calm' \in 0 .. MaxTrouble
    PROVE  Rests(d)
<1>1. UNCHANGED <<flags, nextId, app, aborted>> /\ at' = [at EXCEPT ![d] = RestAfter(d, flags[d])]
  BY DEF Done, Rested
<1>2. RestAfter(d, flags[d]) \in {"event", "top"}
  BY DEF RestAfter
<1> QED BY <1>1, <1>2, AskedStays DEF Rests

\* The trouble of sending blocks.
LEMMA FillCalm ==
    ASSUME Typed, NEW d \in Devices, NEW c, NEW t, Fill(d, c, t)
    PROVE  calm' \in 0 .. MaxTrouble
<1>1. CASE flags[d] # {} /\ Room(c) > 0
  <2>1. calm' = calm
    BY <1>1 DEF Fill
  <2> QED BY <2>1, CalmTyped
<1>2. CASE ~(flags[d] # {} /\ Room(c) > 0)
  <2>1. PICK w \in BOOLEAN : Trouble(IF w THEN 0 ELSE 1) \/ Trouble((IF w THEN 0 ELSE 1) + 1)
    BY <1>2 DEF Fill
  <2>2. Trouble(0) \/ Trouble(1) \/ Trouble(2)
    <3>1. CASE w
      <4>1. (IF w THEN 0 ELSE 1) = 0 /\ (IF w THEN 0 ELSE 1) + 1 = 1
        BY <3>1
      <4> QED BY <2>1, <4>1
    <3>2. CASE ~w
      <4>1. (IF w THEN 0 ELSE 1) = 1 /\ (IF w THEN 0 ELSE 1) + 1 = 2
        BY <3>2
      <4> QED BY <2>1, <4>1
    <3> QED BY <3>1, <3>2
  <2> QED BY <2>2, CalmTyped
<1> QED BY <1>1, <1>2

\* The trouble of an expiry.
LEMMA ExpiredCalm ==
    ASSUME Typed, NEW d \in Devices, Expired(d)
    PROVE  calm' \in 0 .. MaxTrouble
<1>1. calm' = calm \/ \E t : Fill(d, ctx[d], t)
  BY DEF Expired
<1> QED BY <1>1, FillCalm, CalmTyped

\* The response to META.
LEMMA HandleMetaRspServes ==
    ASSUME SInv, NEW d \in Devices, HandleMetaRsp(d)
    PROVE  SInv'
<1> DEFINE c == ctx[d]
           s == [c EXCEPT !.state = "sending"]
<1>1. Typed /\ Taken(d, "metarsp") /\ Done(d) /\ ContextTyped(c)
  BY DEF SInv, Typed, TransferTyped, HandleMetaRsp
<1>2. QueuesGo(d) /\ at[d] = "event"
      /\ \A x, g : Expiring(queue[d], x, g) => Expiring(queue'[d], x, g)
  BY <1>1, TakenOther
<1>3. \/ (Finish(d, <<>>) \/ AbortActive(d) \/ Stay(d)) /\ calm' = calm
      \/ /\ c.role = "sender" /\ c.state = "waitmeta"
         /\ \/ WaitFinal(d, c) /\ calm' = calm
            \/ c.total # 0 /\ Fill(d, s, Disarmed(d))
  BY DEF HandleMetaRsp, WaitFinal
<1>4. calm' \in 0 .. MaxTrouble
  BY <1>1, <1>3, CalmTyped, FillCalm
<1>5. Rests(d)
  BY <1>1, <1>2, <1>4, RestsDone
<1>6. CASE Stay(d)
  BY <1>2, <1>5, <1>6, RestsStay
<1>7. CASE Finish(d, <<>>) \/ AbortActive(d)
  <2>1. GoesFrom(d, c)
    BY <1>1, <1>7, QuietNone, FinishGoes, AbortGoes
  <2> QED BY <1>5, <2>1, RestsFrom
<1>8. CASE c.role = "sender" /\ c.state = "waitmeta" /\ WaitFinal(d, c)
  <2>1. c.pipe = {}
    BY <1>1, <1>8 DEF ContextTyped, Contexts
  <2>2. GoesFrom(d, c)
    BY <1>1, <1>8, <2>1, WaitFinalGoes
  <2> QED BY <1>5, <2>2, RestsFrom
<1>9. CASE c.role = "sender" /\ c.state = "waitmeta" /\ c.total # 0 /\ Fill(d, s, Disarmed(d))
  <2>1. c.pipe = {} /\ c.next = 0 /\ c.total \in Nat
    BY <1>1, <1>9 DEF ContextTyped, Contexts
  <2>2. /\ ContextTyped(s) /\ s.state = "sending" /\ s.role = c.role /\ s.tid = c.tid
        /\ s.total = c.total /\ s.next = c.next /\ s.pipe = c.pipe
    BY <1>1, <1>9, SendingTyped
  <2>3. Disarmed(d) \in Timers
    BY <1>1, DisarmedTyped DEF Typed, TransferTyped
  <2> HIDE DEF s
  <2>4. s.next < s.total
    BY <1>9, <2>1, <2>2
  <2>5. GoesFrom(d, s)
    BY <1>1, <1>9, <2>1, <2>2, <2>3, <2>4, FillGoes
  <2>6. Acked(s) = Acked(ctx[d])
    BY <2>2 DEF Acked
  <2> QED BY <1>5, <1>9, <2>2, <2>5, <2>6, RestsFrom
<1> QED BY <1>3, <1>6, <1>7, <1>8, <1>9

\* The response to a block: an answer to a block it had sent, if it counts.
LEMMA HandleDataRspServes ==
    ASSUME SInv, NEW d \in Devices, HandleDataRsp(d)
    PROVE  SInv'
<1> DEFINE c == ctx[d]
           m == Event(d)
           i == m.idx
           rest == [c EXCEPT !.pipe = @ \ {i}]
           t == IF rest.pipe = {} THEN Disarmed(d) ELSE Armed(d, "block")
<1>1. /\ Typed /\ Drives /\ Taken(d, "datarsp") /\ Done(d) /\ ContextTyped(c)
      /\ timer[d] \in Timers /\ QueuesTyped(d)
  BY DEF SInv, Typed, TransferTyped, HandleDataRsp
<1>2. /\ QueuesGo(d) /\ at[d] = "event" /\ m \in Items /\ m.kind = "datarsp"
      /\ \A x, g : Expiring(queue[d], x, g) => Expiring(queue'[d], x, g)
      /\ IsOk(m) => <<m.tid, i>> \in Said(queue[d])
  <2> DEFINE k == "datarsp"
  <2>1. k # "timeout" /\ Taken(d, k)
    BY <1>1
  <2> HIDE DEF k
  <2> QED BY <1>1, <2>1, TakenGoes DEF k
<1>3. m.status \in Statuses /\ m.tid \in Nat /\ i \in Nat
  <2> HIDE DEF m
  <2> QED BY <1>2 DEF Items, Frames
<1>4. \/ Stay(d) /\ calm' = calm
      \/ /\ c.role = "sender" /\ c.tid = m.tid /\ i \in c.pipe
         /\ \/ /\ m.status = "busy"
               /\ \E w \in BOOLEAN :
                     /\ Keep(d, c, Armed(d, "block"), <<Data(c.tid, i, w)>>)
                     /\ Trouble(IF w THEN 0 ELSE 1)
            \/ AbortActive(d) /\ (Trouble(1) \/ calm' = calm)
            \/ /\ m.status \notin {"busy", "failed"}
               /\ \/ /\ rest.next >= rest.total /\ rest.pipe = {}
                     /\ WaitFinal(d, rest) /\ calm' = calm
                  \/ /\ ~(rest.next >= rest.total /\ rest.pipe = {})
                     /\ Fill(d, rest, t)
  BY DEF HandleDataRsp, WaitFinal
<1>5. calm' \in 0 .. MaxTrouble
  <2>1. ASSUME NEW w \in BOOLEAN, Trouble(IF w THEN 0 ELSE 1)
        PROVE  Trouble(0) \/ Trouble(1)
    BY <2>1
  <2> HIDE DEF rest, t, m
  <2> QED BY <1>1, <1>4, <2>1, CalmTyped, FillCalm
<1>6. Rests(d)
  BY <1>1, <1>2, <1>5, RestsDone
<1>7. CASE Stay(d)
  BY <1>2, <1>6, <1>7, RestsStay
<1>8. CASE AbortActive(d)
  <2>1. GoesFrom(d, c)
    BY <1>1, <1>8, AbortGoes
  <2> QED BY <1>6, <2>1, RestsFrom
<1> HIDE DEF m, t
<1>9. /\ ContextTyped(rest) /\ rest.state = c.state /\ rest.role = c.role /\ rest.tid = c.tid
      /\ rest.total = c.total /\ rest.next = c.next /\ rest.pipe = c.pipe \ {i}
      /\ Acked(rest) \subseteq Acked(c) \cup {i}
  BY <1>1, AnsweredTyped
<1>10. /\ Armed(d, "block") \in Timers /\ Armed(d, "block").kind = "block"
       /\ Armed(d, "block").on
  <2>1. "block" \in Kinds
    BY DEF Kinds
  <2> QED BY <1>1, <2>1, ArmedTyped
<1>11. ASSUME c.role = "sender", i \in c.pipe
       PROVE  c.state = "sending" /\ d \notin stalled
  <2>1. c.state = "sending"
    BY <1>1, <1>11 DEF ContextTyped, Contexts, RoleOf, States
  <2>2. ~LeftBehind(c)
    BY <1>11, <2>1 DEF LeftBehind
  <2> QED BY <1>1, <1>11, <2>1, <2>2 DEF Drives, DrivenNow, Active
<1>12. ASSUME c.role = "sender", c.tid = m.tid, i \in c.pipe, m.status \notin {"busy", "failed"},
              GoesFrom(d, rest)
       PROVE  SInv'
  <2>1. <<m.tid, i>> \in Answers(d)
    <3>1. IsOk(m)
      BY <1>2, <1>12 DEF IsOk
    <3> QED BY <1>2, <3>1 DEF Answers
  <2>2. \A j \in Acked(rest) : j \in Acked(c) \/ <<rest.tid, j>> \in Answers(d)
    BY <1>9, <1>12, <2>1
  <2> HIDE DEF rest
  <2> QED BY <1>6, <1>9, <1>12, <2>2, RestsFrom
<1>13. CASE /\ c.role = "sender" /\ i \in c.pipe
            /\ \E w \in BOOLEAN : Keep(d, c, Armed(d, "block"), <<Data(c.tid, i, w)>>)
  <2>1. PICK w \in BOOLEAN : Keep(d, c, Armed(d, "block"), <<Data(c.tid, i, w)>>)
    BY <1>13
  <2>2. Quiet(<<Data(c.tid, i, w)>>)
    <3>1. Data(c.tid, i, w) \in Frames /\ Data(c.tid, i, w).kind = "data"
      BY <1>1, <1>3 DEF Data, Frames, ContextTyped, Contexts
    <3> QED BY <3>1, QuietOne DEF IsOk
  <2>3. Goes(d, c, Armed(d, "block"), <<Data(c.tid, i, w)>>) /\ Records(d) /\ d \notin stalled'
    BY <1>1, <1>10, <2>1, <2>2, KeepGoes DEF Quiet
  <2>4. GoesFrom(d, c)
    BY <1>10, <1>11, <1>13, <2>2, <2>3 DEF GoesFrom, Onward
  <2> QED BY <1>6, <2>4, RestsFrom
<1>14. CASE /\ c.role = "sender" /\ c.tid = m.tid /\ i \in c.pipe
            /\ m.status \notin {"busy", "failed"}
            /\ rest.pipe = {} /\ WaitFinal(d, rest)
  <2>1. GoesFrom(d, rest)
    BY <1>1, <1>9, <1>14, WaitFinalGoes
  <2> QED BY <1>12, <1>14, <2>1
<1>15. CASE /\ c.role = "sender" /\ c.tid = m.tid /\ i \in c.pipe
            /\ m.status \notin {"busy", "failed"}
            /\ ~(rest.next >= rest.total /\ rest.pipe = {}) /\ Fill(d, rest, t)
  <2>1. rest.pipe = {} => rest.next < rest.total
    BY <1>9, <1>15 DEF ContextTyped, Contexts
  <2>2. Disarmed(d) \in Timers
    BY <1>1, DisarmedTyped
  <2>3. t \in Timers /\ (rest.pipe # {} => t.kind # "none" /\ t.on)
    BY <1>10, <2>2 DEF t
  <2>4. GoesFrom(d, rest)
    BY <1>1, <1>9, <1>11, <1>15, <2>1, <2>3, FillGoes
  <2> QED BY <1>12, <1>15, <2>4
<1> QED BY <1>4, <1>7, <1>8, <1>13, <1>14, <1>15

\* FINAL, early or in time.
LEMMA HandleFinalServes ==
    ASSUME SInv, NEW d \in Devices, HandleFinal(d)
    PROVE  SInv'
<1> DEFINE c == ctx[d]
           m == Event(d)
           r == [c EXCEPT !.early = m.status]
<1>1. /\ Typed /\ Drives /\ Taken(d, "final") /\ Done(d) /\ ContextTyped(c)
      /\ timer[d] \in Timers /\ calm' = calm
  BY DEF SInv, Typed, TransferTyped, HandleFinal
<1>2. /\ QueuesGo(d) /\ at[d] = "event" /\ m \in Items /\ m.kind = "final"
      /\ \A x, g : Expiring(queue[d], x, g) => Expiring(queue'[d], x, g)
  BY <1>1, TakenOther
<1>3. m.status \in {"ok", "failed"}
  <2> HIDE DEF m
  <2> QED BY <1>2 DEF Items, Frames
<1>4. \/ Stay(d) \/ Complete(d) \/ Finish(d, <<>>) \/ AbortActive(d)
      \/ /\ Keep(d, r, timer[d], <<>>) /\ c.role = "sender"
         /\ \/ c.state = "waitmeta"
            \/ c.state = "sending" /\ c.next >= c.total
  BY DEF HandleFinal
<1> HIDE DEF m
<1>5. Rests(d)
  BY <1>1, <1>2, RestsDone, CalmTyped
<1>6. CASE Stay(d)
  BY <1>2, <1>5, <1>6, RestsStay
<1>7. CASE Complete(d) \/ Finish(d, <<>>) \/ AbortActive(d)
  <2>1. GoesFrom(d, c)
    BY <1>1, <1>7, QuietNone, CompleteGoes, FinishGoes, AbortGoes
  <2> QED BY <1>5, <2>1, RestsFrom
<1>8. CASE /\ Keep(d, r, timer[d], <<>>) /\ c.role = "sender"
           /\ \/ c.state = "waitmeta"
              \/ c.state = "sending" /\ c.next >= c.total
  <2>1. /\ ContextTyped(r) /\ r.state = c.state /\ r.role = c.role /\ r.tid = c.tid
        /\ r.total = c.total /\ r.next = c.next /\ r.pipe = c.pipe
    BY <1>1, <1>3, EarlyTyped
  <2>2. d \notin stalled
    <3>1. ~LeftBehind(c)
      BY <1>1, <1>8 DEF LeftBehind, ContextTyped, Contexts
    <3> QED BY <1>1, <1>8, <3>1 DEF Drives, DrivenNow, Active
  <2> HIDE DEF r
  <2>3. Goes(d, r, timer[d], <<>>)
    BY <1>1, <1>8, <2>1, QuietNone, KeepGoes DEF Quiet
  <2>4. UNCHANGED <<saved, completed, stalled>>
    BY <1>8, <2>2 DEF Keep
  <2> QED BY <1>2, <1>5, <2>1, <2>3, <2>4, QuietNone, RestsSame DEF Same
<1> QED BY <1>4, <1>6, <1>7, <1>8

\* ABORT of the peer.
LEMMA HandleAbortServes ==
    ASSUME SInv, NEW d \in Devices, HandleAbort(d)
    PROVE  SInv'
<1>1. Typed /\ Taken(d, "abort") /\ Done(d) /\ calm' = calm /\ (Finish(d, <<>>) \/ Stay(d))
  BY DEF SInv, HandleAbort
<1>2. QueuesGo(d) /\ at[d] = "event"
      /\ \A x, g : Expiring(queue[d], x, g) => Expiring(queue'[d], x, g)
  BY <1>1, TakenOther
<1>3. Rests(d)
  BY <1>1, <1>2, RestsDone, CalmTyped
<1>4. CASE Finish(d, <<>>)
  <2>1. GoesFrom(d, ctx[d])
    BY <1>1, <1>4, QuietNone, FinishGoes
  <2> QED BY <1>3, <2>1, RestsFrom
<1> QED BY <1>1, <1>2, <1>3, <1>4, RestsStay

\* The abort command.
LEMMA HandleAbortCmdServes ==
    ASSUME SInv, NEW d \in Devices, HandleAbortCmd(d)
    PROVE  SInv'
<1>1. /\ Typed /\ Taken(d, "abortcmd") /\ Rested(d) /\ calm' = calm
      /\ AbortActive(d) \/ Stay(d)
      /\ aborted' = [aborted EXCEPT ![d] = FALSE] /\ app' = [app EXCEPT ![d] = "idle"]
  BY DEF SInv, HandleAbortCmd
<1>2. QueuesGo(d) /\ at[d] = "event"
      /\ \A x, g : Expiring(queue[d], x, g) => Expiring(queue'[d], x, g)
  <2> DEFINE k == "abortcmd"
  <2>1. k # "timeout" /\ Taken(d, k)
    BY <1>1
  <2> HIDE DEF k
  <2> QED BY <1>1, <2>1, TakenGoes
<1>3. Rests(d)
  <2>1. at' = [at EXCEPT ![d] = RestAfter(d, flags[d])] /\ UNCHANGED <<flags, nextId>>
    BY <1>1 DEF Rested
  <2>2. RestAfter(d, flags[d]) \in {"event", "top"}
    BY DEF RestAfter
  <2>3. AskedGo
    <3>1. /\ flags' = [e \in Devices |-> flags'[e]] /\ app' = [e \in Devices |-> app'[e]]
          /\ aborted' = [e \in Devices |-> aborted'[e]]
      BY <1>1, <2>1 DEF Typed, Mapped
    <3>2. \A e \in Devices : AskedTyped(e)'
      BY <1>1, <2>1 DEF Typed, Mapped, AskedTyped
    <3> QED BY <1>1, <3>1, <3>2, CalmTyped DEF AskedGo
  <2> QED BY <1>2, <2>1, <2>2, <2>3 DEF Rests
<1>4. CASE AbortActive(d)
  <2>1. GoesFrom(d, ctx[d])
    BY <1>1, <1>4, AbortGoes
  <2> QED BY <1>3, <2>1, RestsFrom
<1> QED BY <1>1, <1>2, <1>3, <1>4, RestsStay

\* An expiry from the queue: the one that is dropped drives nothing.
LEMMA HandleTimeoutServes ==
    ASSUME SInv, NEW d \in Devices, HandleTimeout(d)
    PROVE  SInv'
<1>1. /\ Typed /\ Taken(d, "timeout") /\ Done(d)
      /\ \/ Expired(d)
         \/ /\ ~Current(d, [kind |-> Event(d).timer, gen |-> Event(d).gen])
            /\ Stay(d) /\ calm' = calm
  BY DEF SInv, HandleTimeout
<1>2. QueuesGo(d) /\ at[d] = "event"
      /\ \A x, g : Expiring(queue[d], x, g) =>
            Expiring(queue'[d], x, g) \/ (Event(d).timer = x /\ Event(d).gen = g)
  BY <1>1, TakenExpiry
<1>3. Rests(d)
  BY <1>1, <1>2, RestsDone, CalmTyped, ExpiredCalm
<1>4. CASE Expired(d)
  <2>1. GoesFrom(d, ctx[d])
    BY <1>1, <1>4, ExpiredGoes
  <2> QED BY <1>3, <2>1, RestsFrom
<1>5. CASE ~Current(d, [kind |-> Event(d).timer, gen |-> Event(d).gen]) /\ Stay(d)
  <2>1. Active(d) => ~(Event(d).timer = timer[d].kind /\ Event(d).gen = timer[d].gen)
    BY <1>5 DEF Current
  <2> QED BY <1>2, <1>3, <1>5, <2>1, RestsStay
<1> QED BY <1>1, <1>4, <1>5

\* An expiry left pending.
LEMMA HandleLateServes ==
    ASSUME SInv, NEW d \in Devices, HandleLate(d)
    PROVE  SInv'
<1>1. /\ Typed /\ Drives /\ Shared /\ at' = [at EXCEPT ![d] = "event"]
      /\ UNCHANGED <<queue, urgent, hand, flags, app, aborted, nextId>>
      /\ at[d] \in {"top", "late", "event"}
  BY DEF SInv, HandleLate
<1>2. QueuesGo(d)
  BY <1>1, QueuesStay
<1>3. CASE Expired(d)
  <2>1. GoesFrom(d, ctx[d])
    BY <1>1, <1>3, ExpiredGoes
  <2>2. Rests(d)
    BY <1>1, <1>2, <1>3, ExpiredCalm, AskedStays DEF Rests
  <2> QED BY <2>1, <2>2, RestsFrom
<1>4. CASE /\ ~Current(d, timer[d].late) /\ timer' = [timer EXCEPT ![d].late = NoExpiry]
           /\ UNCHANGED <<ctx, net, saved, completed, stalled, calm>>
  <2> DEFINE t == [timer[d] EXCEPT !.late = NoExpiry]
  <2>1. timer' = [timer EXCEPT ![d] = t]
    BY <1>4
  <2>2. /\ t \in Timers /\ t.kind = timer[d].kind /\ t.gen = timer[d].gen
        /\ t.on = timer[d].on /\ t.cb = timer[d].cb
    <3>1. NoExpiry \in Expiries
      BY Limits DEF NoExpiry, Expiries, Gens, Kinds
    <3> QED BY <1>1, <3>1 DEF Typed, TransferTyped, Timers
  <2> HIDE DEF t
  <2>3. timer'[d] = t /\ \A e \in Devices \ {d} : timer'[e] = timer[e]
    BY <1>1, <2>1 DEF Typed, Mapped
  <2>4. Typed'
    <3>1. Mapped'
      BY <1>1, <1>4, <2>1 DEF Typed, Mapped
    <3>2. \A e \in Devices : TransferTyped(e)' /\ PlaceTyped(e)'
      BY <1>1, <1>4, <2>2, <2>3 DEF Typed, Mapped, TransferTyped, PlaceTyped, Places
    <3>3. \A e \in Devices : FilesTyped(e)' /\ NetTyped(e)' /\ QueuesTyped(e)' /\ AskedTyped(e)'
      BY <1>1, <1>4 DEF Typed, FilesTyped, NetTyped, QueuesTyped, AskedTyped
    <3> QED BY <1>1, <1>4, <3>1, <3>2, <3>3 DEF Typed
  <2>5. Drives'
    <3> SUFFICES ASSUME NEW e \in Devices
                 PROVE  DrivenNow(e)'
      BY DEF Drives
    <3>1. CASE e # d
      <4>1. timer'[e] = timer[e] /\ at'[e] = at[e]
        BY <1>1, <2>3, <3>1 DEF Typed, Mapped
      <4> QED BY <1>1, <1>4, <4>1, DrivenStays DEF Drives
    <3>2. CASE e = d
      <4>1. Put(d)' => Put(d)
        BY <1>1, <1>4 DEF Put, Active
      <4>2. Ticking(d) => Ticking(d)'
        <5>1. /\ Active(d)' <=> Active(d)
              /\ \A n : n \in Posted(d)' <=> n \in Posted(d)
          BY <1>1, <1>4 DEF Active, Posted
        <5> QED BY <1>1, <1>4, <2>2, <2>3, <5>1 DEF Ticking, Current
      <4> QED BY <1>1, <1>4, <2>2, <2>3, <3>2, <4>1, <4>2 DEF Drives, DrivenNow, Active
    <3> QED BY <3>1, <3>2
  <2>6. Shared'
    BY <1>1, <1>4 DEF Shared, Once, Offered, Answers
  <2> QED BY <2>4, <2>5, <2>6 DEF SInv
<1> QED BY <1>3, <1>4 DEF HandleLate

\* The file is verified, saved and reported, or not.
LEMMA FinalizeServes ==
    ASSUME SInv, NEW d \in Devices, Finalize(d)
    PROVE  SInv'
<1> DEFINE t == ctx[d].tid
<1>1. /\ Typed /\ Done(d) /\ UNCHANGED <<queue, urgent, hand>> /\ t \in Nat
      /\ timer[d] \in Timers
  BY DEF SInv, Typed, TransferTyped, ContextTyped, Contexts, Finalize
<1>2. \/ Finish(d, <<Final(t, "failed")>>)
      \/ /\ Over(d, <<Final(t, "ok")>>) \/ Over(d, <<>>)
         /\ saved' = [saved EXCEPT ![d] = @ \cup {t}] /\ completed' = completed
  BY DEF Finalize
<1>3. calm' \in 0 .. MaxTrouble
  <2>1. calm' = calm \/ Trouble(0) \/ Trouble(1)
    <3>1. ASSUME Trouble(IF ctx[d].whole THEN 1 ELSE 0)
          PROVE  Trouble(0) \/ Trouble(1)
      BY <3>1
    <3> QED BY <3>1 DEF Finalize
  <2> QED BY <1>1, <2>1, CalmTyped
<1>4. Rests(d)
  BY <1>1, <1>3, QueuesStay, RestsDone
<1>5. /\ Quiet(<<Final(t, "ok")>>) /\ Quiet(<<Final(t, "failed")>>) /\ Quiet(<<>>)
  <2>1. ASSUME NEW s \in {"ok", "failed"}
        PROVE  Quiet(<<Final(t, s)>>)
    <3>1. Final(t, s) \in Frames /\ Final(t, s).kind = "final"
      BY <1>1 DEF Final, Frames
    <3> QED BY <3>1, QuietOne DEF IsOk
  <2> QED BY <2>1, QuietNone
<1>6. CASE Finish(d, <<Final(t, "failed")>>)
  <2>1. GoesFrom(d, ctx[d])
    BY <1>1, <1>5, <1>6, FinishGoes
  <2> QED BY <1>4, <2>1, RestsFrom
<1>7. ASSUME NEW fs, Quiet(fs), Over(d, fs),
             saved' = [saved EXCEPT ![d] = @ \cup {t}], completed' = completed
      PROVE  SInv'
  <2>1. Records(d)
    BY <1>1, <1>7 DEF Over, Typed, Mapped, FilesTyped, Records
  <2>2. Goes(d, Idle, Disarmed(d), fs)
    BY <1>1, <1>7, DisarmedTyped, IdleTyped DEF Over, Goes, Quiet
  <2>3. GoesFrom(d, ctx[d])
    BY <1>7, <2>1, <2>2, IdleTyped DEF GoesFrom, Onward
  <2> QED BY <1>4, <2>3, RestsFrom
<1> QED BY <1>2, <1>5, <1>6, <1>7

\* A device that keeps its timer, and its transfer or its frames.
LEMMA TimerStays ==
    ASSUME Typed, NEW d \in Devices, UNCHANGED timer, NEW c, ContextTyped(c),
           \/ ctx' = [ctx EXCEPT ![d] = c]
           \/ UNCHANGED ctx /\ c = ctx[d],
           NEW fs \in Seq(Frames), Sent(d, fs) \/ (UNCHANGED net /\ fs = <<>>)
    PROVE  Goes(d, c, timer[d], fs)
<1>1. /\ ctx = [e \in Devices |-> ctx[e]] /\ timer = [e \in Devices |-> timer[e]]
      /\ net = [e \in Devices |-> net[e]] /\ \A e \in Devices : net[e] \in Seq(Frames)
  BY DEF Typed, Mapped, NetTyped
<1>2. Sent(d, fs)
  <2>1. \A e \in Devices : net[e] \o <<>> = net[e]
    BY <1>1, ConcatEmptySeq
  <2>2. [net EXCEPT ![Peer(d)] = @ \o <<>>] = [e \in Devices |-> net[e]]
    BY <1>1, <2>1
  <2> QED BY <1>1, <2>2 DEF Sent
<1>3. [ctx EXCEPT ![d] = ctx[d]] = [e \in Devices |-> ctx[e]]
  BY <1>1
<1>4. [timer EXCEPT ![d] = timer[d]] = [e \in Devices |-> timer[e]]
  BY <1>1
<1>5. timer[d] \in Timers
  BY DEF Typed, TransferTyped
<1> QED BY <1>1, <1>2, <1>3, <1>4, <1>5 DEF Goes

\* A device that puts no transfer down: it prepares, or finalizes.
LEMMA DrivesBusy ==
    ASSUME Typed, Drives, NEW d \in Devices, NEW c, NEW t, NEW fs, Goes(d, c, t, fs),
           Records(d), flags' = flags, NEW p \in {"prepare", "finalize"},
           at' = [at EXCEPT ![d] = p], d \in stalled' => LeftBehind(c),
           \A e \in Devices \ {d} : queue'[e] = queue[e]
    PROVE  Drives'
<1> SUFFICES ASSUME NEW e \in Devices
             PROVE  DrivenNow(e)'
  BY DEF Drives
<1>1. /\ ctx' = [ctx EXCEPT ![d] = c] /\ timer' = [timer EXCEPT ![d] = t]
      /\ DOMAIN ctx = Devices /\ DOMAIN timer = Devices /\ DOMAIN at = Devices
  BY DEF Goes, Typed, Mapped
<1>2. CASE e # d
  <2>1. /\ ctx'[e] = ctx[e] /\ timer'[e] = timer[e] /\ at'[e] = at[e]
        /\ queue'[e] = queue[e] /\ flags'[e] = flags[e] /\ (e \in stalled' <=> e \in stalled)
    BY <1>1, <1>2 DEF Records
  <2> QED BY <2>1, DrivenStays DEF Drives
<1>3. CASE e = d
  <2>1. ctx'[d] = c /\ at'[d] = p
    BY <1>1
  <2>2. ~Put(d)'
    BY <2>1 DEF Put
  <2> QED BY <1>3, <2>1, <2>2 DEF DrivenNow
<1> QED BY <1>2, <1>3

\* What is offered and answered is numbered.
LEMMA Numbered ==
    ASSUME Typed, NEW e \in Devices
    PROVE  Offered(e) \subseteq Nat /\ \A r \in Answers(e) : r[1] \in Nat /\ r[2] \in Nat
<1>1. net[e] \in Seq(Frames) /\ queue[e] \in Seq(Items)
  BY DEF Typed, NetTyped, QueuesTyped
<1>2. net[e] \in Seq(Items)
  <2>1. Frames \subseteq Items
    BY DEF Items
  <2> QED BY <1>1, <2>1, SeqMonotonic
<1>3. ASSUME NEW x \in Items
      PROVE  /\ x.kind = "meta" => x.tid \in Nat
             /\ x.kind = "datarsp" => x.tid \in Nat /\ x.idx \in Nat
  BY <1>3 DEF Items, Frames
<1>4. ASSUME NEW s \in Seq(Items)
      PROVE  Tids(s) \subseteq Nat /\ \A r \in Said(s) : r[1] \in Nat /\ r[2] \in Nat
  <2>1. \A n \in DOMAIN s : s[n] \in Items
    BY ElementOfSeq, LenProperties
  <2>2. Tids(s) \subseteq Nat
    BY <1>3, <2>1 DEF Tids, Metas
  <2>3. ASSUME NEW r \in Said(s)
        PROVE  r[1] \in Nat /\ r[2] \in Nat
    <3>1. PICK n \in DOMAIN s : IsOk(s[n]) /\ r = <<s[n].tid, s[n].idx>>
      BY DEF Said
    <3>2. s[n].tid \in Nat /\ s[n].idx \in Nat
      BY <1>3, <2>1, <3>1 DEF IsOk
    <3> QED BY <3>1, <3>2
  <2> QED BY <2>2, <2>3
<1>5. /\ Tids(net[e]) \subseteq Nat /\ Tids(queue[e]) \subseteq Nat
      /\ \A r \in Said(net[e]) : r[1] \in Nat /\ r[2] \in Nat
      /\ \A r \in Said(queue[e]) : r[1] \in Nat /\ r[2] \in Nat
  BY <1>1, <1>2, <1>4
<1> QED BY <1>5 DEF Offered, Answers

\* META is sent.
LEMMA PrepareServes ==
    ASSUME SInv, NEW d \in Devices, Prepare(d)
    PROVE  SInv'
<1> DEFINE c == ctx[d]
           f == Peer(d)
<1>1. /\ Typed /\ Drives /\ Shared /\ Done(d) /\ UNCHANGED <<queue, urgent, hand>>
      /\ at[d] = "prepare" /\ c.state = "preparing" /\ ContextTyped(c) /\ c.role = "sender"
      /\ timer[d] \in Timers /\ QueuesTyped(d) /\ flags[d] \subseteq Flags
      /\ ("error" \in flags[d] => "own" \in flags[d])
  BY DEF SInv, Prepare, Typed, PlaceTyped, TransferTyped, ContextTyped, RoleOf, AskedTyped
<1>2. QueuesGo(d)
  BY <1>1, QueuesStay
<1>3. f \in Devices /\ f # d
  BY PeerOfPeer
<1>4. calm' = calm \/ Trouble(1)
  BY DEF Prepare
<1>5. Rests(d)
  BY <1>1, <1>2, <1>4, CalmTyped, RestsDone
<1>6. PICK p \in {"event", "top"} : at' = [at EXCEPT ![d] = p]
  BY <1>5 DEF Rests
<1>7. /\ p \in Places /\ p \notin {"prepare", "finalize"} /\ nextId' = nextId /\ flags' = flags
      /\ AskedGo /\ nextId' = [e \in Devices |-> nextId'[e]]
      /\ \A e \in Devices : nextId'[e] \in Nat \ {0}
  BY <1>1, <1>5 DEF Rests, Places, Typed, Mapped, FilesTyped
<1>8. ASSUME NEW k, NEW t, NEW fs, Goes(d, k, t, fs), Records(d), Onward(d, k, t), Shared'
      PROVE  SInv'
  <2>1. Typed'
    BY <1>1, <1>2, <1>6, <1>7, <1>8, TypedGoes
  <2>2. Drives'
    BY <1>1, <1>2, <1>6, <1>7, <1>8, DrivesOnward DEF QueuesGo
  <2> QED BY <1>8, <2>1, <2>2 DEF SInv
<1>9. CASE Finish(d, <<>>)
  <2>1. GoesFrom(d, c)
    BY <1>1, <1>9, QuietNone, FinishGoes
  <2> QED BY <1>5, <2>1, RestsFrom
<1>10. CASE /\ flags[d] # {}
            /\ stalled' = IF "other" \in flags[d] THEN stalled \cup {d} ELSE stalled
            /\ UNCHANGED <<ctx, timer, net, saved, completed, calm>>
  <2>1. <<>> \in Seq(Frames)
    BY EmptySeq
  <2>2. Goes(d, c, timer[d], <<>>)
    BY <1>1, <1>10, <2>1, TimerStays
  <2>3. Records(d)
    BY <1>1, <1>10, RecordsNothing
  <2>4. Onward(d, c, timer[d])
    <3>1. d \in stalled' => LeftBehind(c)
      BY <1>1 DEF LeftBehind
    <3>2. d \notin stalled' => flags[d] \cap {"own", "abort"} # {}
      BY <1>1, <1>10 DEF Flags
    <3> QED BY <3>1, <3>2 DEF Onward
  <2>5. Shared'
    BY <1>1, <1>2, <1>7, <2>2, QuietNone, SharedSame DEF Same
  <2> QED BY <1>8, <2>2, <2>3, <2>4, <2>5
<1>11. CASE Keep(d, [c EXCEPT !.state = "waitmeta", !.told = TRUE], Armed(d, "meta"),
                 <<Meta(c.tid, c.total)>>)
  <2> DEFINE r == [c EXCEPT !.state = "waitmeta", !.told = TRUE]
             m == Meta(c.tid, c.total)
             fs == <<m>>
             t == Armed(d, "meta")
  <2>1. /\ r \in Contexts /\ r.state = "waitmeta" /\ r.role = c.role /\ r.tid = c.tid
        /\ r.total = c.total /\ r.next = 0 /\ r.pipe = c.pipe
    BY <1>1 DEF ContextTyped, Contexts, States
  <2>2. m \in Frames /\ m.kind = "meta" /\ m.tid = c.tid
    BY <1>1 DEF ContextTyped, Contexts, Meta, Frames
  <2>3. t \in Timers /\ t.kind = "meta" /\ t.on
    <3>1. "meta" \in Kinds
      BY DEF Kinds
    <3> QED BY <1>1, <3>1, ArmedTyped
  <2> HIDE DEF r, m, t
  <2>4. ContextTyped(r) /\ Acked(r) = {}
    <3>1. ContextTyped(r)
      BY <1>1, <2>1 DEF ContextTyped, RoleOf
    <3>2. 0 .. 0 - 1 = {}
      OBVIOUS
    <3> QED BY <2>1, <3>1, <3>2 DEF Acked
  <2>5. fs \in Seq(Frames) /\ Tids(fs) = {c.tid} /\ Said(fs) = {} /\ Distinct(fs)
    <3>1. fs \in Seq(Frames)
      BY <2>2
    <3>2. ~IsOk(m)
      BY <2>2 DEF IsOk
    <3> QED BY <2>2, <3>1, <3>2, Single
  <2>6. Keep(d, r, t, fs)
    BY <1>11 DEF r, m, t
  <2> HIDE DEF fs
  <2>7. Goes(d, r, t, fs) /\ Records(d) /\ d \notin stalled'
    BY <1>1, <2>3, <2>4, <2>5, <2>6, KeepGoes
  <2>8. Onward(d, r, t)
    BY <2>3, <2>7 DEF Onward
  <2>9. Shared'
    <3> HIDE DEF f
    <3>1. /\ Agree(c, ctx[f], nextId[d], Offered(f), Answers(d))
          /\ Agree(ctx[f], c, nextId[f], Offered(d), Answers(f))
      BY <1>1, SharedBoth DEF f
    <3>2. Agree(r, ctx[f], nextId[d], Offered(f) \cup {r.tid}, Answers(d)) /\ r.tid \notin Offered(f)
      BY <1>1, <2>1, <2>4, <3>1, AgreeOffers
    <3>3. Agree(ctx[f], r, nextId[f], Offered(d), Answers(f))
      BY <1>1, <2>1, <3>1, AgreeNoReceiver
    <3>4. /\ nextId'[f] = nextId[f] /\ nextId'[d] = nextId[d]
          /\ Offered(f) \cup Tids(fs) = Offered(f) \cup {r.tid} /\ Tids(fs) \cap Offered(f) = {}
          /\ Tids(net[d]) \cup Tids(queue'[d]) = Offered(d) /\ Answers(f) \cup Said(fs) = Answers(f)
      BY <1>1, <1>7, <2>1, <2>5, <3>2 DEF Offered
    <3>5. /\ Agree(r, ctx[f], nextId'[d], Offered(f) \cup Tids(fs), Answers(d))
          /\ Agree(ctx[f], r, nextId[f], Tids(net[d]) \cup Tids(queue'[d]), Answers(f) \cup Said(fs))
      BY <3>2, <3>3, <3>4
    <3> QED BY <1>1, <1>2, <2>5, <2>7, <3>4, <3>5, SharedGoes DEF f
  <2> QED BY <1>8, <2>7, <2>8, <2>9
<1> QED BY <1>9, <1>10, <1>11 DEF Prepare

\* The command to send a file.
LEMMA HandleSendServes ==
    ASSUME SInv, NEW d \in Devices, HandleSend(d)
    PROVE  SInv'
<1> DEFINE f == Peer(d)
           m == Event(d)
<1>1. /\ Typed /\ Drives /\ Shared /\ Taken(d, "send") /\ UNCHANGED <<flags, app, aborted>>
      /\ timer[d] \in Timers /\ nextId[d] \in Nat /\ nextId[d] # 0
  BY DEF SInv, Typed, TransferTyped, FilesTyped, HandleSend
<1>2. /\ QueuesGo(d) /\ at[d] = "event" /\ m \in Items /\ m.kind = "send"
      /\ \A x, g : Expiring(queue[d], x, g) => Expiring(queue'[d], x, g)
  <2> DEFINE k == "send"
  <2>1. k # "timeout" /\ Taken(d, k)
    BY <1>1
  <2> HIDE DEF k
  <2> QED BY <1>1, <2>1, TakenGoes DEF k
<1>3. m.total \in Nat
  <2> HIDE DEF m
  <2> QED BY <1>2 DEF Items, Frames
<1>4. CASE /\ Trouble(IF Active(d) THEN 0 ELSE 1)
           /\ Stay(d) /\ at' = [at EXCEPT ![d] = RestAfter(d, flags[d])] /\ UNCHANGED nextId
  <2>1. Trouble(0) \/ Trouble(1)
    BY <1>4
  <2>2. Done(d)
    BY <1>1, <1>4 DEF Done, Rested
  <2>3. Rests(d)
    BY <1>1, <1>2, <2>1, <2>2, CalmTyped, RestsDone
  <2> QED BY <1>2, <1>4, <2>3, RestsStay
<1> DEFINE c == [Idle EXCEPT !.role = "sender", !.state = "preparing", !.tid = nextId[d],
                             !.total = m.total]
<1>5. CASE /\ ~Active(d) /\ ctx' = [ctx EXCEPT ![d] = c]
           /\ nextId' = [nextId EXCEPT ![d] = @ + 1]
           /\ at' = [at EXCEPT ![d] = "prepare"]
           /\ UNCHANGED <<timer, net, saved, completed, stalled, calm>>
  <2>1. /\ c \in Contexts /\ c.role = "sender" /\ c.state = "preparing" /\ c.tid = nextId[d]
        /\ c.next = 0 /\ c.pipe = {} /\ c.total \in Nat
    BY <1>1, <1>3 DEF Idle, Contexts, States
  <2> HIDE DEF c, m
  <2>2. ContextTyped(c) /\ Acked(c) = {} /\ LeftBehind(c)
    <3>1. Cardinality({}) = 0
      BY FS_EmptySet
    <3>2. ContextTyped(c)
      BY <2>1, <3>1, Limits DEF ContextTyped, RoleOf
    <3>3. 0 .. 0 - 1 = {}
      OBVIOUS
    <3> QED BY <2>1, <3>2, <3>3 DEF Acked, LeftBehind
  <2>3. <<>> \in Seq(Frames)
    BY EmptySeq
  <2>4. Goes(d, c, timer[d], <<>>)
    BY <1>1, <1>5, <2>2, <2>3, TimerStays
  <2>5. Records(d) /\ AskedGo
    BY <1>1, <1>5, RecordsNothing, AskedStays DEF Typed
  <2>6. /\ nextId' = [e \in Devices |-> nextId'[e]] /\ nextId'[d] = nextId[d] + 1
        /\ \A e \in Devices : nextId'[e] \in Nat \ {0}
        /\ \A e \in Devices \ {d} : nextId'[e] = nextId[e]
    <3>1. nextId[d] + 1 \in Nat \ {0}
      BY <1>1
    <3>2. \A e \in Devices : nextId[e] \in Nat \ {0}
      BY <1>1 DEF Typed, FilesTyped
    <3> QED BY <1>1, <1>5, <3>1, <3>2 DEF Typed, Mapped
  <2>7. Typed'
    <3> DEFINE p == "prepare"
    <3>1. p \in Places /\ p # "finalize" /\ at' = [at EXCEPT ![d] = p]
      BY <1>5 DEF Places
    <3> HIDE DEF p
    <3> QED BY <1>1, <1>2, <2>1, <2>4, <2>5, <2>6, <3>1, TypedGoes
  <2>8. Drives'
    BY <1>1, <1>2, <1>5, <2>2, <2>4, <2>5, DrivesBusy DEF QueuesGo
  <2>9. Shared'
    <3> HIDE DEF f
    <3>1. f \in Devices /\ f # d
      BY PeerOfPeer DEF f
    <3>2. /\ Agree(ctx[d], ctx[f], nextId[d], Offered(f), Answers(d))
          /\ Agree(ctx[f], ctx[d], nextId[f], Offered(d), Answers(f))
      BY <1>1, SharedBoth DEF f
    <3>3. ctx[f].tid \in Nat /\ Offered(f) \subseteq Nat /\ \A r \in Answers(d) : r[1] \in Nat
      BY <1>1, <3>1, Numbered DEF Typed, TransferTyped, ContextTyped, Contexts
    <3>4. Agree(c, ctx[f], nextId[d] + 1, Offered(f), Answers(d))
      BY <1>1, <2>1, <2>2, <3>2, <3>3, AgreeBegins
    <3>5. Tids(net[d]) \cup Tids(queue'[d]) \subseteq Offered(d)
      BY <1>2 DEF Offered, QueuesGo, Less
    <3>6. Agree(ctx[f], c, nextId[f], Offered(d), Answers(f))
      BY <2>1, <3>2, AgreeNoReceiver
    <3>7. Agree(ctx[f], c, nextId[f], Tids(net[d]) \cup Tids(queue'[d]), Answers(f))
      BY <3>5, <3>6, AgreeLess
    <3>8. Tids(<<>>) = {} /\ Said(<<>>) = {} /\ Distinct(<<>>)
      BY Nothing
    <3> DEFINE fs == <<>>
    <3> HIDE DEF fs
    <3>9. /\ Offered(f) \cup Tids(fs) = Offered(f) /\ Answers(f) \cup Said(fs) = Answers(f)
          /\ Tids(fs) \cap Offered(f) = {} /\ Distinct(fs) /\ Goes(d, c, timer[d], fs)
      BY <2>4, <3>8 DEF fs
    <3>10. /\ Agree(c, ctx[f], nextId'[d], Offered(f) \cup Tids(fs), Answers(d))
           /\ Agree(ctx[f], c, nextId[f], Tids(net[d]) \cup Tids(queue'[d]), Answers(f) \cup Said(fs))
      BY <2>6, <3>4, <3>7, <3>9
    <3> QED BY <1>1, <1>2, <2>6, <3>1, <3>9, <3>10, SharedGoes DEF f
  <2> QED BY <2>7, <2>8, <2>9 DEF SInv
<1> QED BY <1>4, <1>5 DEF HandleSend

\* A META is taken: its transfer is offered no more.
LEMMA MetaTaken ==
    ASSUME Typed, Shared, NEW d \in Devices, Taken(d, "meta")
    PROVE  /\ Event(d).tid \in Offered(d) /\ Event(d).tid \in Nat /\ Event(d).total \in Nat
           /\ Event(d).tid \notin Tids(net[d]) \cup Tids(queue'[d])
           /\ Tids(net[d]) \cup Tids(queue'[d]) \subseteq Offered(d)
<1> DEFINE m == Event(d)
           k == "meta"
           q == queue[d]
<1>1. /\ k \notin {"final", "abort"} /\ k = "meta" /\ Taken(d, k)
      /\ q \in Seq(Items) /\ DOMAIN queue = Devices /\ Once(d)
  BY DEF Typed, Mapped, QueuesTyped, Shared
<1> HIDE DEF k, m
<1>2. /\ m \in Items /\ m.kind = "meta" /\ m.tid \in Tids(q) /\ Less(q, queue'[d])
      /\ Distinct(q) => m.tid \notin Tids(queue'[d])
  BY <1>1, TakenGoes DEF m, QueuesGo
<1>3. m.tid \in Nat /\ m.total \in Nat
  BY <1>2 DEF Items, Frames
<1> HIDE DEF q
<1>4. Distinct(q) /\ Tids(net[d]) \cap Tids(q) = {}
  BY <1>1 DEF Once, q
<1>5. Offered(d) = Tids(net[d]) \cup Tids(q)
  BY DEF Offered, q
<1> QED BY <1>2, <1>3, <1>4, <1>5 DEF m, Less

\* META is accepted, dropped or refused.
LEMMA HandleMetaServes ==
    ASSUME SInv, NEW d \in Devices, HandleMeta(d)
    PROVE  SInv'
<1> DEFINE f == Peer(d)
           m == Event(d)
<1>1. /\ Typed /\ Drives /\ Shared /\ Taken(d, "meta") /\ UNCHANGED <<flags, app, aborted, nextId>>
      /\ timer[d] \in Timers /\ QueuesTyped(d) /\ ContextTyped(ctx[d])
  BY DEF SInv, Typed, TransferTyped, HandleMeta
<1>2. /\ QueuesGo(d) /\ at[d] = "event"
      /\ \A x, g : Expiring(queue[d], x, g) => Expiring(queue'[d], x, g)
  <2> DEFINE k == "meta"
  <2>1. k # "timeout" /\ Taken(d, k)
    BY <1>1
  <2> HIDE DEF k
  <2> QED BY <1>1, <2>1, TakenGoes
<1>3. /\ m.tid \in Offered(d) /\ m.tid \in Nat /\ m.total \in Nat
      /\ m.tid \notin Tids(net[d]) \cup Tids(queue'[d])
      /\ Tids(net[d]) \cup Tids(queue'[d]) \subseteq Offered(d)
  BY <1>1, MetaTaken
<1>4. ASSUME NEW s \in Statuses
      PROVE  <<MetaRsp(m.tid, s)>> \in Seq(Frames) /\ Quiet(<<MetaRsp(m.tid, s)>>)
  <2>1. MetaRsp(m.tid, s) \in Frames /\ MetaRsp(m.tid, s).kind = "metarsp"
    BY <1>3, <1>4 DEF MetaRsp, Frames
  <2> QED BY <2>1, QuietOne DEF IsOk
<1>5. ASSUME at' = [at EXCEPT ![d] = RestAfter(d, flags[d])],
             calm' = calm \/ Trouble(0) \/ Trouble(1)
      PROVE  Rests(d)
  <2>1. Done(d)
    BY <1>1, <1>5 DEF Done, Rested
  <2> QED BY <1>1, <1>2, <1>5, <2>1, CalmTyped, RestsDone
<1>6. CASE /\ ~Active(d) /\ Trouble(1)
           /\ Stay(d) /\ at' = [at EXCEPT ![d] = RestAfter(d, flags[d])]
  BY <1>2, <1>5, <1>6, RestsStay
<1>7. CASE /\ Sent(d, <<MetaRsp(m.tid, "rejected")>>)
           /\ Trouble(IF Active(d) THEN 0 ELSE 1)
           /\ UNCHANGED <<ctx, timer, saved, completed, stalled>>
           /\ at' = [at EXCEPT ![d] = RestAfter(d, flags[d])]
  <2> DEFINE fs == <<MetaRsp(m.tid, "rejected")>>
  <2>1. fs \in Seq(Frames) /\ Quiet(fs)
    BY <1>4 DEF Statuses
  <2>2. Trouble(0) \/ Trouble(1)
    BY <1>7
  <2>3. Sent(d, fs) /\ Same(ctx[d], ctx[d])
    BY <1>7 DEF Same
  <2> HIDE DEF fs
  <2>4. Goes(d, ctx[d], timer[d], fs)
    BY <1>1, <1>7, <2>1, <2>3, TimerStays
  <2> QED BY <1>2, <1>5, <1>7, <2>1, <2>2, <2>3, <2>4, RestsSame
<1> DEFINE c == [Idle EXCEPT !.role = "receiver", !.tid = m.tid, !.total = m.total, !.told = TRUE,
                             !.state = IF m.total = 0 THEN "finalizing" ELSE "waitdata"]
           t == IF m.total = 0 THEN timer[d] ELSE Armed(d, "data")
           p == IF m.total = 0 THEN "finalize" ELSE RestAfter(d, flags[d])
           fs == <<MetaRsp(m.tid, "ok")>>
<1>8. CASE /\ ~Active(d) /\ UNCHANGED calm /\ Keep(d, c, t, fs) /\ at' = [at EXCEPT ![d] = p]
  <2>1. /\ c \in Contexts /\ c.role = "receiver" /\ c.tid = m.tid /\ c.next = 0 /\ c.pipe = {}
        /\ c.state = (IF m.total = 0 THEN "finalizing" ELSE "waitdata") /\ c.total \in Nat
    BY <1>3 DEF Idle, Contexts, States
  <2>2. fs \in Seq(Frames) /\ Tids(fs) = {} /\ Said(fs) = {} /\ Distinct(fs)
    BY <1>4 DEF Statuses, Quiet, Tids, Distinct
  <2>3. /\ Armed(d, "data") \in Timers /\ Armed(d, "data").kind = "data"
        /\ Armed(d, "data").on
    <3>1. "data" \in Kinds
      BY DEF Kinds
    <3> QED BY <1>1, <3>1, ArmedTyped
  <2>4. t \in Timers /\ (m.total # 0 => t.kind # "none" /\ t.on)
    BY <1>1, <2>3
  <2>5. /\ p \in Places /\ p # "prepare" /\ (p = "finalize" => c.state = "finalizing")
        /\ p = "finalize" \/ m.total # 0
    BY <2>1 DEF Places, RestAfter
  <2> HIDE DEF c, t, p, fs, m
  <2>6. ContextTyped(c)
    <3>1. Cardinality({}) = 0
      BY FS_EmptySet
    <3> QED BY <2>1, <3>1, Limits DEF ContextTyped, RoleOf
  <2>7. Goes(d, c, t, fs) /\ Records(d) /\ d \notin stalled'
    BY <1>1, <1>8, <2>2, <2>4, <2>6, KeepGoes
  <2>8. AskedGo
    BY <1>1, <1>8, AskedStays DEF Typed
  <2>9. Typed'
    <3>1. nextId' = [e \in Devices |-> nextId'[e]] /\ \A e \in Devices : nextId'[e] \in Nat \ {0}
      BY <1>1 DEF Typed, Mapped, FilesTyped
    <3> QED BY <1>1, <1>2, <1>8, <2>5, <2>7, <2>8, <3>1, TypedGoes
  <2>10. Drives'
    <3>1. CASE p = "finalize"
      BY <1>1, <1>2, <1>8, <2>7, <3>1, DrivesBusy DEF QueuesGo
    <3>2. CASE m.total # 0
      <4>1. Onward(d, c, t)
        BY <2>4, <2>7, <3>2 DEF Onward
      <4> QED BY <1>1, <1>2, <1>8, <2>7, <4>1, DrivesOnward DEF QueuesGo
    <3> QED BY <2>5, <3>1, <3>2
  <2>11. Shared'
    <3> DEFINE P == Tids(net[d]) \cup Tids(queue'[d])
    <3> HIDE DEF f
    <3>1. /\ Agree(ctx[d], ctx[f], nextId[d], Offered(f), Answers(d))
          /\ Agree(ctx[f], ctx[d], nextId[f], Offered(d), Answers(f))
      BY <1>1, SharedBoth DEF f
    <3>2. Agree(c, ctx[f], nextId[d], Offered(f), Answers(d))
      BY <2>1, <2>6, <3>1, AgreeNoSender
    <3>3. Agree(ctx[f], c, nextId[f], P, Answers(f))
      <4> HIDE DEF P
      <4>1. m.tid \in Offered(d) /\ P \subseteq Offered(d) /\ m.tid \notin P
        BY <1>3 DEF m, P
      <4> QED BY <2>1, <3>1, <4>1, AgreeAccepts
    <3>4. /\ nextId'[f] = nextId[f] /\ nextId'[d] = nextId[d]
          /\ Offered(f) \cup Tids(fs) = Offered(f) /\ Tids(fs) \cap Offered(f) = {}
          /\ Answers(f) \cup Said(fs) = Answers(f)
      BY <1>1, <2>2
    <3>5. /\ Agree(c, ctx[f], nextId'[d], Offered(f) \cup Tids(fs), Answers(d))
          /\ Agree(ctx[f], c, nextId[f], P, Answers(f) \cup Said(fs))
      BY <3>2, <3>3, <3>4
    <3> QED BY <1>1, <1>2, <2>2, <2>7, <3>4, <3>5, SharedGoes DEF f
  <2> QED BY <2>9, <2>10, <2>11 DEF SInv
<1> QED BY <1>6, <1>7, <1>8 DEF HandleMeta

\* A block is taken, or not.
LEMMA HandleDataServes ==
    ASSUME SInv, NEW d \in Devices, HandleData(d)
    PROVE  SInv'
<1> DEFINE f == Peer(d)
           m == Event(d)
           x == ctx[d]
           no == <<DataRsp(m.tid, m.idx, "failed")>>
           yes == <<DataRsp(m.tid, m.idx, "ok")>>
           c == [x EXCEPT !.next = @ + 1, !.whole = @ /\ m.whole]
           z == [c EXCEPT !.state = "finalizing"]
<1>1. /\ Typed /\ Drives /\ Shared /\ Taken(d, "data")
      /\ timer[d] \in Timers /\ QueuesTyped(d) /\ ContextTyped(x)
  BY DEF SInv, Typed, TransferTyped, HandleData
<1>2. /\ QueuesGo(d) /\ at[d] = "event" /\ m \in Items /\ m.kind = "data"
      /\ \A y, g : Expiring(queue[d], y, g) => Expiring(queue'[d], y, g)
  <2> DEFINE k == "data"
  <2>1. k # "timeout" /\ Taken(d, k)
    BY <1>1
  <2> HIDE DEF k
  <2> QED BY <1>1, <2>1, TakenGoes DEF k
<1>3. m.tid \in Nat /\ m.idx \in Nat /\ m.whole \in BOOLEAN
  <2> HIDE DEF m
  <2> QED BY <1>2 DEF Items, Frames
<1>4. /\ no \in Seq(Frames) /\ Quiet(no) /\ yes \in Seq(Frames)
      /\ Tids(yes) = {} /\ Said(yes) = {<<m.tid, m.idx>>} /\ Distinct(yes)
  <2> DEFINE r(s) == DataRsp(m.tid, m.idx, s)
  <2>1. ASSUME NEW s \in Statuses
        PROVE  /\ r(s) \in Frames /\ r(s).kind = "datarsp" /\ r(s).status = s
               /\ r(s).tid = m.tid /\ r(s).idx = m.idx
    BY <1>3, <2>1 DEF DataRsp, Frames
  <2>2. /\ "ok" \in Statuses /\ "failed" \in Statuses
    BY DEF Statuses
  <2> HIDE DEF r
  <2>3. <<r("failed")>> \in Seq(Frames) /\ Quiet(<<r("failed")>>)
    BY <2>1, <2>2, QuietOne DEF IsOk
  <2>4. /\ <<r("ok")>> \in Seq(Frames) /\ Tids(<<r("ok")>>) = {} /\ Distinct(<<r("ok")>>)
        /\ Said(<<r("ok")>>) = {<<m.tid, m.idx>>}
    <3> DEFINE e == r("ok")
    <3>1. e \in Frames /\ e.kind = "datarsp" /\ e.status = "ok" /\ e.tid = m.tid /\ e.idx = m.idx
      BY <2>1, <2>2
    <3> HIDE DEF e
    <3>2. IsOk(e) /\ e.kind # "meta"
      BY <3>1 DEF IsOk
    <3>3. Tids(<<e>>) = {} /\ Distinct(<<e>>) /\ Said(<<e>>) = {<<e.tid, e.idx>>}
      BY <3>2, Single
    <3>4. <<e>> \in Seq(Frames)
      BY <3>1
    <3> QED BY <3>1, <3>3, <3>4 DEF e
  <2> QED BY <2>3, <2>4 DEF r
<1>5. \/ Sent(d, no) /\ UNCHANGED <<ctx, timer, saved, completed, stalled, calm>> /\ Done(d)
      \/ (Finish(d, no) \/ Finish(d, <<>>)) /\ Done(d) /\ (calm' = calm \/ Trouble(1))
      \/ /\ x.state = "waitdata" /\ m.tid = x.tid /\ m.idx = x.next
         /\ \/ /\ c.next < c.total /\ Keep(d, c, Armed(d, "data"), yes) /\ Done(d) /\ calm' = calm
            \/ /\ c.next = c.total /\ Keep(d, z, Disarmed(d), yes)
               /\ at' = [at EXCEPT ![d] = "finalize"]
               /\ UNCHANGED <<flags, app, aborted, nextId, calm>>
  BY DEF HandleData
<1>6. ASSUME Done(d), calm' = calm \/ Trouble(1)
      PROVE  Rests(d)
  BY <1>1, <1>2, <1>6, CalmTyped, RestsDone
<1>7. CASE Sent(d, no) /\ UNCHANGED <<ctx, timer, saved, completed, stalled, calm>> /\ Done(d)
  <2> HIDE DEF no
  <2>1. Goes(d, x, timer[d], no) /\ Same(x, x)
    BY <1>1, <1>4, <1>7, TimerStays DEF Same
  <2> QED BY <1>2, <1>4, <1>6, <1>7, <2>1, RestsSame
<1>8. CASE (Finish(d, no) \/ Finish(d, <<>>)) /\ Done(d) /\ (calm' = calm \/ Trouble(1))
  <2> HIDE DEF no
  <2>1. GoesFrom(d, x)
    BY <1>1, <1>4, <1>8, QuietNone, FinishGoes
  <2> QED BY <1>6, <1>8, <2>1, RestsFrom
<1> HIDE DEF no, m, yes
<1>9. ASSUME x.state = "waitdata", x.next + 1 <= x.total
      PROVE  /\ ContextTyped(c) /\ c.role = "receiver" /\ c.tid = x.tid /\ c.next = x.next + 1
             /\ c.total = x.total /\ c.state = "waitdata"
             /\ ContextTyped(z) /\ z.role = "receiver" /\ z.tid = x.tid /\ z.next = x.next + 1
             /\ z.state = "finalizing"
  <2>1. x.role = "receiver" /\ x.next \in Nat /\ x.pipe \subseteq 0 .. x.next - 1
    BY <1>1, <1>9 DEF ContextTyped, RoleOf, Contexts
  <2>2. /\ c \in Contexts /\ c.role = x.role /\ c.tid = x.tid /\ c.next = x.next + 1
        /\ c.total = x.total /\ c.state = "waitdata" /\ c.pipe = x.pipe
    <3> DEFINE w == x.whole /\ m.whole
               k == [x EXCEPT !.next = @ + 1, !.whole = w]
    <3>1. x \in Contexts /\ w \in BOOLEAN
      BY <1>1, <1>3 DEF ContextTyped
    <3> HIDE DEF w, x
    <3> DEFINE n == x.next + 1
               j == [x EXCEPT !.next = n, !.whole = w]
    <3>5. n \in Nat
      BY <2>1
    <3> HIDE DEF n
    <3>6. j \in Contexts /\ j.role = x.role /\ j.tid = x.tid /\ j.next = n
      BY <3>1, <3>5 DEF Contexts
    <3>2. k \in Contexts /\ k.role = x.role /\ k.tid = x.tid /\ k.next = x.next + 1
      <4>1. k = j
        BY DEF n
      <4> QED BY <3>6, <4>1 DEF n
    <3>3. k.total = x.total /\ k.state = "waitdata" /\ k.pipe = x.pipe
      BY <1>9, <3>1 DEF Contexts
    <3>4. c = k
      BY DEF w
    <3> QED BY <3>2, <3>3, <3>4
  <2> HIDE DEF c
  <2>3. 0 .. x.next - 1 \subseteq 0 .. x.next + 1 - 1
    BY <2>1
  <2>4. ContextTyped(c)
    BY <1>1, <1>9, <2>1, <2>2, <2>3 DEF ContextTyped, RoleOf
  <2>5. /\ ContextTyped(z) /\ z.state = "finalizing" /\ z.role = c.role /\ z.tid = c.tid
        /\ z.next = c.next
    <3>1. "finalizing" \in States /\ RoleOf("finalizing") = c.role
      BY <2>1, <2>2 DEF States, RoleOf
    <3> QED BY <2>2, <2>4, <3>1, StateTyped
  <2> QED BY <2>1, <2>2, <2>4, <2>5
<1>10. /\ Armed(d, "data") \in Timers /\ Armed(d, "data").kind = "data"
       /\ Armed(d, "data").on /\ Disarmed(d) \in Timers
  <2>1. "data" \in Kinds
    BY DEF Kinds
  <2> QED BY <1>1, <2>1, ArmedTyped, DisarmedTyped
<1>11. ASSUME x.state = "waitdata", m.tid = x.tid, m.idx = x.next, nextId' = nextId,
              NEW r, r.role = "receiver", r.tid = x.tid, r.next = x.next + 1,
              NEW t, Goes(d, r, t, yes), ContextTyped(r)
       PROVE  Shared'
  <2> HIDE DEF f
  <2>1. /\ Agree(x, ctx[f], nextId[d], Offered(f), Answers(d))
        /\ Agree(ctx[f], x, nextId[f], Offered(d), Answers(f))
    BY <1>1, SharedBoth DEF f
  <2>2. f \in Devices
    BY PeerOfPeer DEF f
  <2>3. Agree(r, ctx[f], nextId[d], Offered(f), Answers(d))
    BY <1>11, <2>1, AgreeNoSender
  <2>4. /\ x.role = "receiver" /\ x.next \in Nat /\ r.next \in Nat /\ x.next <= r.next
        /\ x.next < r.next
    BY <1>1, <1>11 DEF ContextTyped, Contexts, RoleOf
  <2> DEFINE Q == Answers(f) \cup Said(yes)
             P == Tids(net[d]) \cup Tids(queue'[d])
  <2>5. \A a \in Q : a \in Answers(f) \/ (a[1] = r.tid /\ a[2] < r.next)
    <3>1. \A a \in Said(yes) : a[1] = m.tid /\ a[2] = m.idx
      BY <1>4
    <3> QED BY <1>11, <2>4, <3>1
  <2>6. P \subseteq Offered(d)
    BY <1>2 DEF QueuesGo, Less, Offered
  <2>7. ContextTyped(ctx[f]) /\ \A a \in Answers(f) : a[2] \in Nat
    BY <1>1, <2>2, Numbered DEF Typed, TransferTyped
  <2> HIDE DEF Q, P, x
  <2>8. Agree(ctx[f], r, nextId[f], Offered(d), Q)
    BY <1>11, <2>1, <2>4, <2>5, <2>7, AgreeReceiver
  <2>9. Agree(ctx[f], r, nextId[f], P, Q)
    BY <2>6, <2>8, AgreeLess
  <2>10. /\ nextId'[f] = nextId[f] /\ nextId'[d] = nextId[d]
         /\ Offered(f) \cup Tids(yes) = Offered(f) /\ Tids(yes) \cap Offered(f) = {}
    BY <1>4, <1>11
  <2>11. /\ Agree(r, ctx[f], nextId'[d], Offered(f) \cup Tids(yes), Answers(d))
         /\ Agree(ctx[f], r, nextId[f], Tids(net[d]) \cup Tids(queue'[d]), Answers(f) \cup Said(yes))
    BY <2>3, <2>9, <2>10 DEF P, Q
  <2> QED BY <1>1, <1>2, <1>4, <1>11, <2>10, <2>11, SharedGoes DEF f
<1>12. x.state = "waitdata" => x.next \in Nat /\ x.total \in Nat /\ c.next = x.next + 1
          /\ c.total = x.total
  BY <1>1 DEF ContextTyped, Contexts
<1>13. CASE /\ x.state = "waitdata" /\ m.tid = x.tid /\ m.idx = x.next
            /\ c.next < c.total /\ Keep(d, c, Armed(d, "data"), yes) /\ Done(d) /\ calm' = calm
  <2>0. x.next + 1 <= x.total
    BY <1>12, <1>13
  <2>1. /\ ContextTyped(c) /\ c.role = "receiver" /\ c.tid = x.tid /\ c.next = x.next + 1
    BY <1>9, <1>13, <2>0
  <2> HIDE DEF c
  <2>2. Goes(d, c, Armed(d, "data"), yes) /\ Records(d) /\ d \notin stalled'
    BY <1>1, <1>4, <1>10, <1>13, <2>1, KeepGoes
  <2>3. Onward(d, c, Armed(d, "data"))
    BY <1>10, <2>2 DEF Onward
  <2>4. Rests(d)
    BY <1>6, <1>13
  <2>5. PICK p \in {"event", "top"} : at' = [at EXCEPT ![d] = p]
    BY <2>4 DEF Rests
  <2>6. /\ p \in Places /\ p \notin {"prepare", "finalize"} /\ nextId' = nextId /\ flags' = flags
        /\ AskedGo /\ nextId' = [e \in Devices |-> nextId'[e]]
        /\ \A e \in Devices : nextId'[e] \in Nat \ {0}
    BY <1>1, <2>4 DEF Rests, Places, Typed, Mapped, FilesTyped
  <2>7. Typed'
    BY <1>1, <1>2, <2>2, <2>5, <2>6, TypedGoes
  <2>8. Drives'
    BY <1>1, <1>2, <2>2, <2>3, <2>5, <2>6, DrivesOnward DEF QueuesGo
  <2>9. Shared'
    BY <1>11, <1>13, <2>1, <2>2, <2>6
  <2> QED BY <2>7, <2>8, <2>9 DEF SInv
<1>14. CASE /\ x.state = "waitdata" /\ m.tid = x.tid /\ m.idx = x.next
            /\ c.next = c.total /\ Keep(d, z, Disarmed(d), yes)
            /\ at' = [at EXCEPT ![d] = "finalize"]
            /\ UNCHANGED <<flags, app, aborted, nextId, calm>>
  <2>0. x.next + 1 <= x.total
    BY <1>12, <1>14
  <2>1. /\ ContextTyped(z) /\ z.role = "receiver" /\ z.tid = x.tid /\ z.next = x.next + 1
        /\ z.state = "finalizing"
    BY <1>9, <1>14, <2>0
  <2> HIDE DEF z
  <2>2. Goes(d, z, Disarmed(d), yes) /\ Records(d) /\ d \notin stalled'
    BY <1>1, <1>4, <1>10, <1>14, <2>1, KeepGoes
  <2>3. AskedGo
    BY <1>1, <1>14, AskedStays DEF Typed
  <2>4. Typed'
    <3> DEFINE p == "finalize"
    <3>1. p \in Places /\ p # "prepare" /\ at' = [at EXCEPT ![d] = p]
      BY <1>14 DEF Places
    <3>2. nextId' = [e \in Devices |-> nextId'[e]] /\ \A e \in Devices : nextId'[e] \in Nat \ {0}
      BY <1>1, <1>14 DEF Typed, Mapped, FilesTyped
    <3> HIDE DEF p
    <3> QED BY <1>1, <1>2, <2>1, <2>2, <2>3, <3>1, <3>2, TypedGoes
  <2>5. Drives'
    BY <1>1, <1>2, <1>14, <2>2, DrivesBusy DEF QueuesGo
  <2>6. Shared'
    BY <1>11, <1>14, <2>1, <2>2
  <2> QED BY <2>4, <2>5, <2>6 DEF SInv
<1> QED BY <1>5, <1>7, <1>8, <1>13, <1>14

\* A pending flag ends the transfer, or not.
LEMMA TerminateServes ==
    ASSUME SInv, NEW d \in Devices, Terminate(d)
    PROVE  SInv'
<1> DEFINE c == ctx[d]
<1>1. /\ Typed /\ Drives /\ Shared /\ UNCHANGED <<queue, urgent, hand, app, nextId, calm>>
      /\ AskedTyped(d) /\ PlaceTyped(d) /\ TransferTyped(d) /\ DrivenNow(d)
  BY DEF SInv, Terminate, Typed, Drives
<1>2. QueuesGo(d)
  BY <1>1, QueuesStay
<1>3. \/ GoesFrom(d, c) /\ ctx'[d].role = "none"
      \/ /\ Stay(d)
         /\ Active(d) => flags[d] \cap {"own", "other"} # {} /\ "own" \notin flags[d]
  <2>1. ASSUME NEW fs, Quiet(fs), Finish(d, fs)
        PROVE  GoesFrom(d, c) /\ ctx'[d].role = "none"
    <3>1. ctx' = [ctx EXCEPT ![d] = Idle] /\ DOMAIN ctx = Devices
      BY <1>1, <2>1 DEF Finish, Over, Typed, Mapped
    <3> QED BY <1>1, <2>1, <3>1, FinishGoes, IdleTyped
  <2>2. Quiet(Notice(d)) /\ Quiet(<<>>)
    BY <1>1, QuietNotice, QuietNone
  <2>3. \/ Finish(d, <<>>) \/ Finish(d, Notice(d))
        \/ /\ Stay(d)
           /\ Active(d) => flags[d] \cap {"own", "other"} # {} /\ "own" \notin flags[d]
    BY DEF Terminate, AbortActive
  <2> QED BY <2>1, <2>2, <2>3
<1>4. /\ flags' = [e \in Devices |-> flags'[e]] /\ \A e \in Devices \ {d} : flags'[e] = flags[e]
      /\ flags'[d] \subseteq flags[d] /\ ("error" \in flags'[d] => "own" \in flags'[d])
      /\ flags[d] \cap {"own", "other"} # {} => ("abort" \in flags[d] => "abort" \in flags'[d])
  <2>1. DOMAIN flags = Devices
    BY <1>1 DEF Typed, Mapped
  <2>2. CASE flags[d] \cap {"own", "other"} # {}
    <3>1. flags' = [flags EXCEPT ![d] = @ \ {"own", "other", "error"}]
      BY <2>2 DEF Terminate
    <3> QED BY <2>1, <3>1
  <2>3. CASE flags[d] \cap {"own", "other"} = {}
    <3>1. flags' = [flags EXCEPT ![d] = @ \ {"abort"}]
      BY <2>3 DEF Terminate
    <3> QED BY <1>1, <2>1, <2>3, <3>1 DEF AskedTyped
  <2> QED BY <2>2, <2>3
<1>5. AskedGo
  <2>1. aborted' = aborted \/ aborted' = [aborted EXCEPT ![d] = TRUE]
    BY DEF Terminate
  <2>2. aborted' = [e \in Devices |-> aborted'[e]] /\ \A e \in Devices : aborted'[e] \in BOOLEAN
    BY <1>1, <2>1 DEF Typed, Mapped, AskedTyped
  <2>3. \A e \in Devices : flags'[e] \subseteq Flags /\ ("error" \in flags'[e] => "own" \in flags'[e])
    <3> SUFFICES ASSUME NEW e \in Devices
                 PROVE  flags'[e] \subseteq Flags /\ ("error" \in flags'[e] => "own" \in flags'[e])
      OBVIOUS
    <3>1. AskedTyped(e)
      BY <1>1 DEF Typed
    <3>2. CASE e = d
      BY <1>4, <3>1, <3>2 DEF AskedTyped
    <3>3. CASE e # d
      BY <1>4, <3>1, <3>3 DEF AskedTyped
    <3> QED BY <3>2, <3>3
  <2>4. app' = [e \in Devices |-> app'[e]] /\ \A e \in Devices : app'[e] \in {"idle", "queueing", "waiting"}
    BY <1>1 DEF Typed, Mapped, AskedTyped
  <2> QED BY <1>1, <1>4, <2>2, <2>3, <2>4 DEF AskedGo, AskedTyped, Typed
<1>6. PICK p : /\ at' = [at EXCEPT ![d] = p]
               /\ \/ p \in {"event", "top", "late"} /\ (at[d] # "finalize" \/ ctx'[d].role = "none")
                  \/ p = "finalize" /\ at[d] = "finalize" /\ ctx'[d].role # "none"
  <2> DEFINE p == IF at[d] = "finalize"
                  THEN IF ctx'[d].role = "none" THEN RestAfter(d, flags'[d]) ELSE at[d]
                  ELSE IF timer'[d].late = NoExpiry THEN "event" ELSE "late"
  <2>1. at' = [at EXCEPT ![d] = p]
    BY DEF Terminate
  <2>2. RestAfter(d, flags'[d]) \in {"event", "top"}
    BY DEF RestAfter
  <2>3. \/ p \in {"event", "top", "late"} /\ (at[d] # "finalize" \/ ctx'[d].role = "none")
        \/ p = "finalize" /\ at[d] = "finalize" /\ ctx'[d].role # "none"
    BY <2>2
  <2> HIDE DEF p
  <2> QED BY <2>1, <2>3
<1>7. /\ p \in Places /\ p # "prepare" /\ nextId' = [e \in Devices |-> nextId'[e]]
      /\ \A e \in Devices : nextId'[e] \in Nat \ {0}
      /\ DOMAIN ctx = Devices /\ DOMAIN timer = Devices /\ DOMAIN at = Devices
  BY <1>1, <1>6 DEF Places, Typed, Mapped, FilesTyped
<1>8. ASSUME NEW k, NEW t, NEW fs, Goes(d, k, t, fs), Records(d), DrivenNow(d)',
             ctx'[d] = ctx[d] \/ ctx'[d].role = "none", Shared'
      PROVE  SInv'
  <2>1. /\ ctx' = [ctx EXCEPT ![d] = k] /\ timer' = [timer EXCEPT ![d] = t] /\ ctx'[d] = k
    BY <1>7, <1>8 DEF Goes
  <2>2. p = "finalize" => k.state = "finalizing"
    BY <1>1, <1>6, <1>8, <2>1 DEF PlaceTyped
  <2>3. Typed'
    BY <1>1, <1>2, <1>5, <1>6, <1>7, <1>8, <2>2, TypedGoes
  <2>4. ASSUME NEW e \in Devices, e # d
        PROVE  DrivenNow(e)'
    <3>1. /\ ctx'[e] = ctx[e] /\ timer'[e] = timer[e] /\ at'[e] = at[e]
          /\ queue'[e] = queue[e] /\ flags'[e] = flags[e] /\ (e \in stalled' <=> e \in stalled)
      BY <1>1, <1>4, <1>6, <1>7, <1>8, <2>1, <2>4 DEF Records
    <3> QED BY <1>1, <3>1, DrivenStays DEF Drives
  <2> QED BY <1>8, <2>3, <2>4 DEF SInv, Drives
<1>9. CASE GoesFrom(d, c) /\ ctx'[d].role = "none"
  <2>1. PICK k, t, fs : Goes(d, k, t, fs) /\ Records(d)
    BY <1>9 DEF GoesFrom
  <2>2. DrivenNow(d)'
    BY <1>9 DEF DrivenNow, Put, Active
  <2>3. Shared'
    BY <1>1, <1>2, <1>9, SharedFrom
  <2> QED BY <1>8, <1>9, <2>1, <2>2, <2>3
<1>10. CASE /\ Stay(d)
            /\ Active(d) => flags[d] \cap {"own", "other"} # {} /\ "own" \notin flags[d]
  <2>1. /\ UNCHANGED <<ctx, timer, net, saved, completed, stalled>> /\ <<>> \in Seq(Frames)
        /\ ContextTyped(c)
    BY <1>1, <1>10, EmptySeq DEF Stay, TransferTyped
  <2>2. Goes(d, c, timer[d], <<>>)
    BY <1>1, <2>1, TimerStays
  <2>3. Records(d)
    BY <1>1, <2>1, RecordsNothing
  <2>4. DrivenNow(d)'
    <3>1. /\ Active(d)' <=> Active(d)
          /\ Ticking(d)' <=> Ticking(d)
          /\ LeftBehind(ctx[d])' <=> LeftBehind(ctx[d])
      BY <1>1, <2>1 DEF Active, Ticking, Current, Posted
    <3>2. Put(d)' => Put(d)
      <4>1. at'[d] = p
        BY <1>6, <1>7
      <4>2. ASSUME Put(d)'
            PROVE  at[d] \in {"top", "event", "finalize"} /\ at[d] # "finalize"
        <5>1. at[d] \in {"top", "event", "finalize"}
          BY DEF Terminate
        <5>2. ctx'[d].role # "none" /\ p # "finalize"
          BY <4>1, <4>2 DEF Put, Active
        <5> QED BY <1>6, <5>1, <5>2
      <4> QED BY <2>1, <3>1, <4>2 DEF Put
    <3>3. Active(d) /\ flags[d] \cap {"own", "abort"} # {} => "abort" \in flags'[d]
      BY <1>4, <1>10
    <3> QED BY <1>1, <2>1, <3>1, <3>2, <3>3 DEF DrivenNow, Put
  <2>5. Shared'
    BY <1>1, <1>2, <2>2, QuietNone, SharedSame DEF Same
  <2> QED BY <1>8, <2>1, <2>2, <2>3, <2>4, <2>5
<1> QED BY <1>3, <1>9, <1>10

------------------------------------------------------------------------------
(* The other tasks *)

\* What is on its way to a device after a step is no more than before, and once.
NoMore(e) == Once(e)' /\ Offered(e)' \subseteq Offered(e) /\ Answers(e)' \subseteq Answers(e)
NetGoes == net' = [e \in Devices |-> net'[e]] /\ \A e \in Devices : NetTyped(e)'
QueuesKept ==
    /\ queue' = [e \in Devices |-> queue'[e]] /\ urgent' = [e \in Devices |-> urgent'[e]]
    /\ hand' = [e \in Devices |-> hand'[e]]
    /\ \A e \in Devices : QueuesTyped(e)'
TimersGo ==
    /\ timer' = [e \in Devices |-> timer'[e]]
    /\ \A e \in Devices :
          /\ timer'[e] \in Timers /\ timer'[e].kind = timer[e].kind
          /\ Active(e) /\ timer[e].kind # "none" /\ Ticking(e) => Ticking(e)'

\* A step of another task leaves the transfers alone.
LEMMA OtherTask ==
    ASSUME SInv, UNCHANGED <<ctx, at, saved, nextId, completed, stalled>>,
           NetGoes, QueuesKept, AskedGo, TimersGo,
           \A e \in Devices : flags[e] \subseteq flags'[e] /\ NoMore(e)
    PROVE  SInv'
<1>1. Typed /\ Drives /\ Shared
  BY DEF SInv
<1>2. Typed'
  <2>1. Mapped'
    BY <1>1 DEF Typed, Mapped, NetGoes, QueuesKept, AskedGo, TimersGo
  <2>2. \A e \in Devices : TransferTyped(e)' /\ PlaceTyped(e)' /\ FilesTyped(e)'
    BY <1>1 DEF Typed, TransferTyped, PlaceTyped, FilesTyped, TimersGo
  <2>3. \A e \in Devices : NetTyped(e)' /\ QueuesTyped(e)' /\ AskedTyped(e)'
    BY DEF NetGoes, QueuesKept, AskedGo
  <2>4. calm' \in 0 .. MaxTrouble /\ stalled' \subseteq Devices
    BY <1>1 DEF AskedGo, Typed
  <2> QED BY <2>1, <2>2, <2>3, <2>4 DEF Typed
<1>3. Drives'
  <2> SUFFICES ASSUME NEW e \in Devices
               PROVE  DrivenNow(e)'
    BY DEF Drives
  <2>1. DrivenNow(e)
    BY <1>1 DEF Drives
  <2>2. /\ Put(e)' <=> Put(e)
        /\ Active(e)' <=> Active(e)
    BY DEF Put, Active
  <2>3. Put(e) /\ timer[e].kind # "none" /\ Ticking(e) => timer'[e].kind # "none" /\ Ticking(e)'
    BY DEF TimersGo, Put
  <2>4. flags[e] \cap {"own", "abort"} # {} => flags'[e] \cap {"own", "abort"} # {}
    OBVIOUS
  <2> QED BY <2>1, <2>2, <2>3, <2>4 DEF DrivenNow
<1>4. Shared'
  <2> SUFFICES ASSUME NEW d \in Devices
               PROVE  (Once(d) /\ Agree(ctx[d], ctx[Peer(d)], nextId[d], Offered(Peer(d)), Answers(d)))'
    BY DEF Shared
  <2> DEFINE f == Peer(d)
  <2>1. f \in Devices
    BY PeerOfPeer
  <2>2. Agree(ctx[d], ctx[f], nextId[d], Offered(f), Answers(d))
    BY <1>1 DEF Shared
  <2>3. Once(d)' /\ Offered(f)' \subseteq Offered(f) /\ Answers(d)' \subseteq Answers(d)
    BY <2>1 DEF NoMore
  <2> HIDE DEF f
  <2>4. Agree(ctx[d], ctx[f], nextId[d], Offered(f)', Answers(d)')
    BY <2>2, <2>3, AgreeLess
  <2>5. ctx'[d] = ctx[d] /\ ctx'[f] = ctx[f] /\ nextId'[d] = nextId[d]
    OBVIOUS
  <2>6. Agree(ctx'[d], ctx'[f], nextId'[d], Offered(f)', Answers(d)')
    BY <2>4, <2>5
  <2> QED BY <2>3, <2>6 DEF f
<1> QED BY <1>2, <1>3, <1>4 DEF SInv

\* The pieces of such a step.
LEMMA NetStays ==
    ASSUME Typed, UNCHANGED net
    PROVE  NetGoes
  BY DEF Typed, Mapped, NetTyped, NetGoes

\* The queues stay as they are.
LEMMA QueuesKeep ==
    ASSUME Typed, UNCHANGED <<queue, urgent, hand>>
    PROVE  QueuesKept
  BY DEF Typed, Mapped, QueuesTyped, QueuesKept

\* The timers stay as they are, and expiries wait on.
LEMMA TimersKeep ==
    ASSUME Typed, UNCHANGED <<ctx, timer>>,
           \A e \in Devices : \A k, g : Expiring(queue[e], k, g) => Expiring(queue'[e], k, g)
    PROVE  TimersGo
<1>1. ASSUME NEW e \in Devices, Ticking(e)
      PROVE  Ticking(e)'
  <2>1. Ticking(e)' <=>
            \/ timer'[e].on \/ timer'[e].cb \/ Current(e, timer[e].late)'
            \/ Active(e)' /\ Expiring(queue'[e], timer'[e].kind, timer'[e].gen)
    BY DEF Ticking, Expiring, Current, Posted
  <2>2. (Current(e, timer[e].late)' <=> Current(e, timer[e].late)) /\ (Active(e)' <=> Active(e))
    BY DEF Current, Active
  <2> QED BY <1>1, <2>1, <2>2, TickingIs
<1> QED BY <1>1 DEF Typed, Mapped, TransferTyped, TimersGo

\* Less waits and is on its way.
LEMMA LessNoMore ==
    ASSUME Shared, NEW e \in Devices, Less(net[e], net'[e]), Less(queue[e], queue'[e])
    PROVE  NoMore(e)
<1>1. Once(e)
  BY DEF Shared
<1> QED BY <1>1 DEF NoMore, Once, Less, Offered, Answers

\* An event more that is neither META nor an answer.
LEMMA LessQuiet ==
    ASSUME NEW S, NEW s \in Seq(S), NEW e \in S, e.kind # "meta", ~IsOk(e)
    PROVE  Less(s, Append(s, e))
<1> DEFINE A == IF e.kind = "meta" THEN {e.tid} ELSE {}
           B == IF IsOk(e) THEN {<<e.tid, e.idx>>} ELSE {}
<1>1. /\ Tids(Append(s, e)) = Tids(s) \cup A /\ Said(Append(s, e)) = Said(s) \cup B
      /\ Distinct(s) => Distinct(Append(s, e))
  BY Appended
<1>2. A = {} /\ B = {}
  OBVIOUS
<1> HIDE DEF A, B
<1> QED BY <1>1, <1>2 DEF Less

\* The same.
LEMMA LessSame == ASSUME NEW s PROVE Less(s, s)
  BY DEF Less

\* The first event is gone.
LEMMA LessTail ==
    ASSUME NEW S, NEW s \in Seq(S), s # <<>>
    PROVE  Less(s, Tail(s))
  BY Behead DEF Less

\* An event is queued.
LEMMA QueuedKept ==
    ASSUME Typed, NEW d \in Devices, NEW x \in Items, Queued(d, x), ~Full(d), UNCHANGED urgent,
           hand' = hand \/ EmptyHanded(d)
    PROVE  /\ QueuesKept /\ queue'[d] = Append(queue[d], x)
           /\ \A e \in Devices \ {d} : queue'[e] = queue[e]
           /\ \A e \in Devices : \A k, g : Expiring(queue[e], k, g) => Expiring(queue'[e], k, g)
           /\ x.kind = "timeout" => Expiring(queue'[d], x.timer, x.gen)
<1> DEFINE q == queue[d]
           r == Append(queue[d], x)
<1>1. /\ q \in Seq(Items) /\ DOMAIN queue = Devices /\ queue' = [queue EXCEPT ![d] = r]
      /\ \A e \in Devices : QueuesTyped(e)
  BY DEF Typed, Mapped, QueuesTyped, Queued
<1>2. queue'[d] = r /\ \A e \in Devices \ {d} : queue'[e] = queue[e]
  BY <1>1
<1>3. r \in Seq(Items) /\ Len(r) = Len(q) + 1 /\ Len(q) \in Nat
  BY <1>1, AppendProperties, LenProperties
<1>4. Len(r) <= QueueLen
  BY <1>3, Limits DEF Full
<1> HIDE DEF r
<1>7. hand'[d] \in {hand[d], NoFrame} /\ \A e \in Devices \ {d} : hand'[e] = hand[e]
  BY DEF Typed, Mapped, EmptyHanded
<1>8. HandTyped(hand'[d], r)
  <2>1. HandTyped(hand[d], q)
    BY <1>1 DEF QueuesTyped
  <2>2. HandTyped(hand[d], r)
    BY <1>1, <1>3, <2>1, HandLonger DEF HandTyped
  <2> QED BY <1>3, <1>7, <2>2, EmptyHand
<1>5. QueuesKept
  <2>1. /\ queue' = [e \in Devices |-> queue'[e]] /\ urgent' = [e \in Devices |-> urgent'[e]]
        /\ hand' = [e \in Devices |-> hand'[e]]
    <3>1. /\ queue = [e \in Devices |-> queue[e]] /\ urgent = [e \in Devices |-> urgent[e]]
          /\ hand = [e \in Devices |-> hand[e]]
      BY DEF Typed, Mapped
    <3>2. queue' = [e \in Devices |-> queue'[e]]
      BY <1>1, <3>1
    <3>3. hand' = [e \in Devices |-> hand'[e]]
      BY <3>1 DEF EmptyHanded
    <3> QED BY <3>1, <3>2, <3>3
  <2>2. ASSUME NEW e \in Devices
        PROVE  QueuesTyped(e)'
    <3>1. CASE e = d
      BY <1>1, <1>2, <1>3, <1>4, <1>8, <3>1 DEF QueuesTyped
    <3>2. CASE e # d
      BY <1>1, <1>2, <1>7, <3>2 DEF QueuesTyped
    <3> QED BY <3>1, <3>2
  <2> QED BY <2>1, <2>2 DEF QueuesKept
<1>6. /\ \A k, g : Expiring(q, k, g) => Expiring(r, k, g)
      /\ x.kind = "timeout" => Expiring(r, x.timer, x.gen)
  BY <1>1, ExpiringAppended DEF r
<1> QED BY <1>2, <1>5, <1>6 DEF r

\* The first frame on its way is gone.
LEMMA NetLess ==
    ASSUME Typed, NEW d \in Devices, net[d] # <<>>, net' = [net EXCEPT ![d] = Tail(@)]
    PROVE  /\ NetGoes /\ net'[d] = Tail(net[d]) /\ \A e \in Devices \ {d} : net'[e] = net[e]
           /\ Head(net[d]) \in Frames /\ \A e \in Devices : Less(net[e], net'[e])
<1>1. DOMAIN net = Devices /\ \A e \in Devices : net[e] \in Seq(Frames)
  BY DEF Typed, Mapped, NetTyped
<1>2. net'[d] = Tail(net[d]) /\ \A e \in Devices \ {d} : net'[e] = net[e]
  BY <1>1
<1>3. Tail(net[d]) \in Seq(Frames) /\ Head(net[d]) \in Frames
  BY <1>1, HeadTailProperties
<1>4. NetGoes
  <2>1. net' = [e \in Devices |-> net'[e]]
    BY <1>1
  <2>2. \A e \in Devices : NetTyped(e)'
    BY <1>1, <1>2, <1>3 DEF NetTyped
  <2> QED BY <2>1, <2>2 DEF NetGoes
<1>5. \A e \in Devices : Less(net[e], net'[e])
  BY <1>1, <1>2, LessTail, LessSame
<1> QED BY <1>2, <1>3, <1>4, <1>5

\* The timer expires: its callback is under way.
LEMMA TimerExpiresServes ==
    ASSUME SInv, NEW d \in Devices, TimerExpires(d)
    PROVE  SInv'
<1> DEFINE t == [timer[d] EXCEPT !.on = FALSE, !.cb = TRUE]
<1>1. /\ Typed /\ Shared /\ UNCHANGED <<timerOnly, queue>> /\ timer[d] \in Timers
      /\ timer' = [timer EXCEPT ![d] = t]
  BY DEF SInv, TimerExpires, Typed, TransferTyped
<1>2. UNCHANGED <<ctx, at, saved, nextId, completed, stalled, net, queue, urgent, hand, flags, app,
                  aborted, calm>>
  BY <1>1 DEF timerOnly
<1>3. t \in Timers /\ t.kind = timer[d].kind /\ t.cb
  BY <1>1 DEF Timers
<1> HIDE DEF t
<1>4. timer'[d] = t /\ \A e \in Devices \ {d} : timer'[e] = timer[e]
  BY <1>1 DEF Typed, Mapped
<1>5. TimersGo
  <2>1. timer' = [e \in Devices |-> timer'[e]]
    BY <1>1 DEF Typed, Mapped
  <2>2. ASSUME NEW e \in Devices
        PROVE  /\ timer'[e] \in Timers /\ timer'[e].kind = timer[e].kind
               /\ Ticking(e) => Ticking(e)'
    <3>1. CASE e = d
      BY <1>3, <1>4, <3>1 DEF Ticking
    <3>2. CASE e # d
      <4>1. timer'[e] = timer[e] /\ timer[e] \in Timers
        BY <1>1, <1>4, <3>2 DEF Typed, TransferTyped
      <4>2. Ticking(e)' <=> Ticking(e)
        BY <1>2, <4>1 DEF Ticking, Current, Active, Posted
      <4> QED BY <4>1, <4>2
    <3> QED BY <3>1, <3>2
  <2> QED BY <2>1, <2>2 DEF TimersGo
<1>6. NetGoes /\ QueuesKept /\ AskedGo
  BY <1>1, <1>2, NetStays, QueuesKeep, AskedStays DEF Typed
<1>7. \A e \in Devices : flags[e] \subseteq flags'[e] /\ NoMore(e)
  BY <1>1, <1>2, LessSame, LessNoMore
<1> QED BY <1>2, <1>5, <1>6, <1>7, OtherTask

\* The callback queues the expiry of the tuple it finds, or leaves it pending.
LEMMA TimerCallbackServes ==
    ASSUME SInv, NEW d \in Devices, TimerCallback(d)
    PROVE  SInv'
<1> DEFINE x == [kind |-> timer[d].kind, gen |-> timer[d].gen]
           y == [kind |-> "timeout", timer |-> timer[d].kind, gen |-> timer[d].gen]
           t == [timer[d] EXCEPT !.cb = FALSE]
           l == Left(t, x)
<1>1. Typed /\ Shared /\ UNCHANGED timerOnly /\ timer[d] \in Timers
  BY DEF SInv, TimerCallback, Typed, TransferTyped
<1>2. UNCHANGED <<ctx, at, saved, nextId, completed, stalled, net, urgent, hand, flags, app,
                  aborted, calm>>
  BY <1>1 DEF timerOnly
<1>3. \/ ~Full(d) /\ timer' = [timer EXCEPT ![d] = t] /\ Queued(d, y)
      \/ /\ UNCHANGED queue
         /\ \/ timer[d].kind = "none" /\ timer' = [timer EXCEPT ![d] = t]
            \/ timer[d].kind # "none" /\ timer' = [timer EXCEPT ![d] = l]
  BY DEF TimerCallback
<1>4. /\ t \in Timers /\ t.kind = timer[d].kind /\ t.gen = timer[d].gen
      /\ x \in Expiries /\ x.kind = timer[d].kind /\ x.gen = timer[d].gen
      /\ y \in Items /\ y.kind = "timeout" /\ y.timer = timer[d].kind /\ y.gen = timer[d].gen
  BY <1>1 DEF Timers, Expiries, Items
<1> HIDE DEF t, x, y
<1>5. l \in Timers /\ l.kind = timer[d].kind /\ l.gen = timer[d].gen /\ l.late = x
  BY <1>4 DEF Left, Timers
<1> HIDE DEF l
<1>6. DOMAIN timer = Devices
  BY <1>1 DEF Typed, Mapped
<1>7. NetGoes /\ AskedGo
  BY <1>1, <1>2, NetStays, AskedStays DEF Typed
<1>8. ASSUME QueuesKept, NEW r \in Timers, timer' = [timer EXCEPT ![d] = r],
             r.kind = timer[d].kind,
             Active(d) /\ timer[d].kind # "none" => Ticking(d)',
             \A e \in Devices \ {d} : queue'[e] = queue[e], Less(queue[d], queue'[d])
      PROVE  SInv'
  <2>1. timer'[d] = r /\ \A e \in Devices \ {d} : timer'[e] = timer[e]
    BY <1>6, <1>8
  <2>2. timer' = [e \in Devices |-> timer'[e]]
    BY <1>1, <1>8 DEF Typed, Mapped
  <2>3. ASSUME NEW e \in Devices
        PROVE  /\ timer'[e] \in Timers /\ timer'[e].kind = timer[e].kind
               /\ Active(e) /\ timer[e].kind # "none" /\ Ticking(e) => Ticking(e)'
               /\ NoMore(e)
    <3>1. CASE e = d
      BY <1>1, <1>2, <1>8, <2>1, <3>1, LessSame, LessNoMore
    <3>2. CASE e # d
      <4>1. timer'[e] = timer[e] /\ timer[e] \in Timers /\ queue'[e] = queue[e]
        BY <1>1, <1>8, <2>1, <3>2 DEF Typed, TransferTyped
      <4>2. Ticking(e)' <=> Ticking(e)
        BY <1>2, <4>1 DEF Ticking, Current, Active, Posted
      <4> QED BY <1>1, <1>2, <4>1, <4>2, LessSame, LessNoMore
    <3> QED BY <3>1, <3>2
  <2>4. TimersGo
    BY <2>2, <2>3 DEF TimersGo
  <2> QED BY <1>2, <1>7, <1>8, <2>3, <2>4, OtherTask
<1>9. CASE ~Full(d) /\ timer' = [timer EXCEPT ![d] = t] /\ Queued(d, y)
  <2>1. /\ QueuesKept /\ queue'[d] = Append(queue[d], y)
        /\ \A e \in Devices \ {d} : queue'[e] = queue[e]
        /\ Expiring(queue'[d], timer[d].kind, timer[d].gen)
    BY <1>1, <1>2, <1>4, <1>9, QueuedKept
  <2>2. Less(queue[d], queue'[d])
    <3>1. queue[d] \in Seq(Items) /\ ~IsOk(y)
      BY <1>1, <1>4 DEF Typed, QueuesTyped, IsOk
    <3> QED BY <1>4, <2>1, <3>1, LessQuiet
  <2>3. Active(d) => Ticking(d)'
    <3>1. timer'[d] = t
      BY <1>6, <1>9
    <3>2. Active(d) => Active(d)'
      BY <1>2 DEF Active
    <3>3. Expiring(queue'[d], timer'[d].kind, timer'[d].gen)
      BY <1>4, <2>1, <3>1
    <3>4. Ticking(d)' <=>
              \/ timer'[d].on \/ timer'[d].cb \/ Current(d, timer[d].late)'
              \/ Active(d)' /\ Expiring(queue'[d], timer'[d].kind, timer'[d].gen)
      BY DEF Ticking, Expiring, Current, Posted
    <3> QED BY <3>2, <3>3, <3>4
  <2> QED BY <1>4, <1>8, <1>9, <2>1, <2>2, <2>3
<1>10. CASE UNCHANGED queue /\ timer[d].kind = "none" /\ timer' = [timer EXCEPT ![d] = t]
  BY <1>1, <1>2, <1>4, <1>8, <1>10, QueuesKeep, LessSame
<1>11. CASE UNCHANGED queue /\ timer[d].kind # "none" /\ timer' = [timer EXCEPT ![d] = l]
  <2>1. timer'[d] = l
    BY <1>6, <1>11
  <2>2. Active(d) => Ticking(d)'
    BY <1>2, <1>4, <1>5, <2>1 DEF Ticking, Current, Active
  <2> QED BY <1>1, <1>2, <1>5, <1>8, <1>11, <2>2, QueuesKeep, LessSame
<1> QED BY <1>3, <1>9, <1>10, <1>11

\* What the tasks that leave the timers alone have to keep.
LEMMA CalmTask ==
    ASSUME SInv, UNCHANGED <<ctx, at, timer, saved, nextId, completed, stalled>>,
           NetGoes, QueuesKept, AskedGo,
           \A e \in Devices : flags[e] \subseteq flags'[e] /\ NoMore(e),
           \A e \in Devices : \A k, g : Expiring(queue[e], k, g) => Expiring(queue'[e], k, g)
    PROVE  SInv'
<1>1. TimersGo
  BY TimersKeep DEF SInv
<1> QED BY <1>1, OtherTask

\* A frame waits in the event queue instead of on its way.
LEMMA ReceiveServes ==
    ASSUME SInv, NEW d \in Devices, Receive(d)
    PROVE  SInv'
<1> DEFINE n == net[d]
           q == queue[d]
           x == Head(n)
<1>1. /\ Typed /\ Shared /\ n # <<>> /\ ~Full(d) /\ Queued(d, x)
      /\ net' = [net EXCEPT ![d] = Tail(@)]
      /\ UNCHANGED <<ctx, at, flags, timer, app, aborted, saved, nextId, completed, stalled, urgent, hand, calm>>
  BY DEF SInv, Receive, Arrives, netOnly
<1>2. /\ NetGoes /\ net'[d] = Tail(n) /\ \A e \in Devices \ {d} : net'[e] = net[e]
      /\ x \in Frames
  BY <1>1, NetLess
<1>3. x \in Items
  BY <1>2 DEF Items
<1>4. /\ QueuesKept /\ queue'[d] = Append(q, x)
      /\ \A e \in Devices \ {d} : queue'[e] = queue[e]
      /\ \A e \in Devices : \A k, g : Expiring(queue[e], k, g) => Expiring(queue'[e], k, g)
  <2> HIDE DEF x
  <2> QED BY <1>1, <1>3, QueuedKept
<1>5. AskedGo
  BY <1>1, AskedStays DEF Typed
<1>6. NoMore(d)
  <2> DEFINE A == IF x.kind = "meta" THEN {x.tid} ELSE {}
             B == IF IsOk(x) THEN {<<x.tid, x.idx>>} ELSE {}
  <2>1. n \in Seq(Frames) /\ q \in Seq(Items) /\ Once(d)
    BY <1>1 DEF Typed, NetTyped, QueuesTyped, Shared
  <2>2. /\ Tids(Tail(n)) \subseteq Tids(n) /\ Said(Tail(n)) \subseteq Said(n)
        /\ Distinct(n) => Distinct(Tail(n))
        /\ x.kind = "meta" => x.tid \in Tids(n) /\ (Distinct(n) => x.tid \notin Tids(Tail(n)))
        /\ IsOk(x) => <<x.tid, x.idx>> \in Said(n)
    BY <1>1, <2>1, Behead
  <2> HIDE DEF x
  <2>3. /\ Tids(Append(q, x)) = Tids(q) \cup A /\ Said(Append(q, x)) = Said(q) \cup B
        /\ Distinct(q) /\ (x.kind = "meta" => x.tid \notin Tids(q)) => Distinct(Append(q, x))
    BY <1>3, <2>1, Appended
  <2>4. Distinct(n) /\ Distinct(q) /\ Tids(n) \cap Tids(q) = {}
    BY <2>1 DEF Once
  <2>5. /\ A \subseteq Tids(n) /\ B \subseteq Said(n) /\ A \cap Tids(Tail(n)) = {}
        /\ x.kind = "meta" => x.tid \notin Tids(q)
    BY <2>2, <2>4
  <2> HIDE DEF A, B, n, q
  <2>6. /\ Distinct(Tail(n)) /\ Distinct(Append(q, x))
        /\ Tids(Tail(n)) \cap Tids(Append(q, x)) = {}
        /\ Tids(Tail(n)) \cup Tids(Append(q, x)) \subseteq Tids(n) \cup Tids(q)
        /\ Said(Tail(n)) \cup Said(Append(q, x)) \subseteq Said(n) \cup Said(q)
    BY <2>2, <2>3, <2>4, <2>5
  <2> QED BY <1>2, <1>4, <2>6 DEF NoMore, Once, Offered, Answers, n, q
<1>7. \A e \in Devices : NoMore(e)
  BY <1>1, <1>2, <1>4, <1>6, LessSame, LessNoMore
<1> QED BY <1>1, <1>2, <1>4, <1>5, <1>7, CalmTask

\* A frame is lost.
LEMMA LoseServes ==
    ASSUME SInv, NEW d \in Devices, Lose(d)
    PROVE  SInv'
<1>1. /\ Typed /\ Shared /\ net[d] # <<>> /\ net' = [net EXCEPT ![d] = Tail(@)] /\ Trouble(1)
      /\ UNCHANGED <<ctx, at, flags, timer, app, aborted, saved, nextId, completed, stalled, queue, urgent, hand>>
  BY DEF SInv, Lose, netOnly
<1>2. NetGoes /\ \A e \in Devices : Less(net[e], net'[e])
  BY <1>1, NetLess
<1>3. QueuesKept /\ AskedGo
  BY <1>1, QueuesKeep, CalmTyped, AskedStays
<1>4. \A e \in Devices : NoMore(e)
  BY <1>1, <1>2, LessSame, LessNoMore
<1> QED BY <1>1, <1>2, <1>3, <1>4, CalmTask

\* A frame is refused: what is answered tells of no block taken.
LEMMA ReceiveRefusedServes ==
    ASSUME SInv, NEW d \in Devices, ReceiveRefused(d)
    PROVE  SInv'
<1> DEFINE f == Peer(d)
           n == net[d]
           x == Head(n)
           s == IF Full(d) THEN "busy" ELSE "failed"
           r == Refusal(x, s)
<1>1. /\ Typed /\ Shared /\ n # <<>>
      /\ net' = [net EXCEPT ![d] = Tail(@), ![f] = @ \o r]
      /\ Trouble(IF Full(d) THEN 0 ELSE 1)
      /\ UNCHANGED <<ctx, at, flags, timer, app, aborted, saved, nextId, completed, stalled, queue, urgent, hand>>
  BY DEF SInv, ReceiveRefused, Arrives, netOnly
<1>2. f \in Devices /\ f # d /\ \A e \in Devices : e = d \/ e = f
  BY PeerOfPeer, DeviceOrPeer
<1>3. DOMAIN net = Devices /\ \A e \in Devices : net[e] \in Seq(Frames)
  BY <1>1 DEF Typed, Mapped, NetTyped
<1>4. x \in Frames /\ Tail(n) \in Seq(Frames) /\ Less(n, Tail(n))
  BY <1>1, <1>3, HeadTailProperties, LessTail
<1>5. Quiet(r)
  <2>1. s \in {"busy", "failed"}
    OBVIOUS
  <2> HIDE DEF x, s
  <2>2. CASE x.kind = "meta"
    <3>1. r = <<MetaRsp(x.tid, "busy")>>
      BY <2>2 DEF Refusal
    <3>2. /\ MetaRsp(x.tid, "busy") \in Frames /\ MetaRsp(x.tid, "busy").kind = "metarsp"
      BY <1>4, <2>2 DEF MetaRsp, Frames, Statuses
    <3> QED BY <3>1, <3>2, QuietOne DEF IsOk
  <2>3. CASE x.kind = "data"
    <3> DEFINE y == DataRsp(x.tid, x.idx, s)
    <3>1. r = <<y>>
      BY <2>3 DEF Refusal
    <3>2. y \in Frames /\ y.kind = "datarsp" /\ y.status = s
      BY <1>4, <2>1, <2>3 DEF DataRsp, Frames, Statuses
    <3> HIDE DEF y
    <3>3. ~IsOk(y)
      BY <2>1, <3>2 DEF IsOk
    <3> QED BY <3>1, <3>2, <3>3, QuietOne
  <2>4. CASE x.kind \notin {"meta", "data"}
    <3>1. r = <<>>
      BY <2>4 DEF Refusal
    <3> QED BY <3>1, QuietNone
  <2> QED BY <2>2, <2>3, <2>4
<1> HIDE DEF r, f, x
<1>6. net'[d] = Tail(n) /\ net'[f] = net[f] \o r
  BY <1>1, <1>2, <1>3
<1>7. net[f] \o r \in Seq(Frames) /\ Less(net[f], net[f] \o r)
  <2>1. net[f] \in Seq(Frames) /\ r \in Seq(Frames) /\ Tids(r) = {} /\ Said(r) = {} /\ Distinct(r)
    BY <1>2, <1>3, <1>5 DEF Quiet, Tids, Distinct
  <2>2. /\ Tids(net[f] \o r) = Tids(net[f]) \cup Tids(r)
        /\ Said(net[f] \o r) = Said(net[f]) \cup Said(r)
        /\ Distinct(net[f]) /\ Distinct(r) /\ Tids(net[f]) \cap Tids(r) = {} =>
              Distinct(net[f] \o r)
    <3> DEFINE a == net[f]
    <3>1. a \in Seq(Frames) /\ r \in Seq(Frames)
      BY <2>1
    <3> HIDE DEF a
    <3>2. /\ Tids(a \o r) = Tids(a) \cup Tids(r) /\ Said(a \o r) = Said(a) \cup Said(r)
          /\ Distinct(a) /\ Distinct(r) /\ Tids(a) \cap Tids(r) = {} => Distinct(a \o r)
      BY <3>1, Joined
    <3> QED BY <3>2 DEF a
  <2>3. net[f] \o r \in Seq(Frames)
    BY <2>1, ConcatProperties
  <2> QED BY <2>1, <2>2, <2>3 DEF Less
<1>8. NetGoes
  <2>1. net' = [e \in Devices |-> net'[e]]
    BY <1>1, <1>3
  <2>2. \A e \in Devices : NetTyped(e)'
    BY <1>2, <1>4, <1>6, <1>7 DEF NetTyped
  <2> QED BY <2>1, <2>2 DEF NetGoes
<1>9. \A e \in Devices : Less(net[e], net'[e])
  BY <1>2, <1>4, <1>6, <1>7
<1>10. QueuesKept /\ AskedGo
  <2>1. Trouble(0) \/ Trouble(1)
    BY <1>1
  <2> QED BY <1>1, <2>1, QueuesKeep, CalmTyped, AskedStays
<1>11. \A e \in Devices : NoMore(e)
  BY <1>1, <1>9, LessSame, LessNoMore
<1> QED BY <1>1, <1>8, <1>10, <1>11, CalmTask

\* An event goes into the queue that is neither a META nor an answer.
LEMMA QueuedServes ==
    ASSUME SInv, NEW d \in Devices, NEW x \in Items, x.kind # "meta", ~IsOk(x),
           Queued(d, x), ~Full(d), AskedGo, \A e \in Devices : flags[e] \subseteq flags'[e],
           UNCHANGED <<ctx, at, urgent, timer, saved, nextId, completed, stalled>>,
           hand' = hand \/ EmptyHanded(d), NetGoes, \A e \in Devices : Less(net[e], net'[e])
    PROVE  SInv'
<1>1. Typed /\ Shared
  BY DEF SInv
<1>2. /\ QueuesKept /\ queue'[d] = Append(queue[d], x)
      /\ \A e \in Devices \ {d} : queue'[e] = queue[e]
      /\ \A e \in Devices : \A k, g : Expiring(queue[e], k, g) => Expiring(queue'[e], k, g)
  BY <1>1, QueuedKept
<1>3. Less(queue[d], queue'[d])
  <2>1. queue[d] \in Seq(Items)
    BY <1>1 DEF Typed, QueuesTyped
  <2> QED BY <1>2, <2>1, LessQuiet
<1>4. \A e \in Devices : NoMore(e)
  BY <1>1, <1>2, <1>3, LessSame, LessNoMore
<1> QED BY <1>2, <1>4, CalmTask

\* The input handler takes a frame, goes on with it or puts it down; an urgent frame may
\* go to the urgent queue.
LEMMA HandServes ==
    ASSUME SInv, NEW d \in Devices, NEW h, hand' = [hand EXCEPT ![d] = h],
           HandTyped(h, queue[d]), UNCHANGED queue, UNCHANGED urgent \/
               \E m \in Urgent : /\ urgent' = [urgent EXCEPT ![d] = Append(@, m)]
                                 /\ Len(urgent[d]) < UrgentLen,
           UNCHANGED <<ctx, at, flags, timer, app, aborted, saved, nextId, completed, stalled>>,
           UNCHANGED calm, NetGoes, \A e \in Devices : Less(net[e], net'[e])
    PROVE  SInv'
<1> DEFINE u == urgent[d]
<1>1. /\ Typed /\ Shared /\ DOMAIN urgent = Devices /\ DOMAIN hand = Devices
      /\ u \in Seq(Urgent) /\ Len(u) <= UrgentLen /\ \A e \in Devices : QueuesTyped(e)
  BY DEF SInv, Typed, Mapped, QueuesTyped
<1>2. \A m \in Urgent : /\ Append(u, m) \in Seq(Urgent)
                        /\ Len(u) < UrgentLen => Len(Append(u, m)) <= UrgentLen
  BY <1>1, AppendProperties, LenProperties, Limits
<1>3. urgent'[d] \in Seq(Urgent) /\ Len(urgent'[d]) <= UrgentLen
      /\ \A e \in Devices \ {d} : urgent'[e] = urgent[e]
  BY <1>1, <1>2
<1>4. hand'[d] = h /\ \A e \in Devices \ {d} : hand'[e] = hand[e]
  BY <1>1
<1>5. QueuesKept
  <2>1. /\ queue' = [e \in Devices |-> queue'[e]] /\ urgent' = [e \in Devices |-> urgent'[e]]
        /\ hand' = [e \in Devices |-> hand'[e]]
    BY <1>1 DEF Typed, Mapped
  <2>2. \A e \in Devices : QueuesTyped(e)'
    BY <1>1, <1>3, <1>4 DEF QueuesTyped
  <2> QED BY <2>1, <2>2 DEF QueuesKept
<1>6. AskedGo
  BY <1>1, AskedStays DEF Typed
<1>7. \A e \in Devices : NoMore(e)
  BY <1>1, LessSame, LessNoMore
<1> QED BY <1>5, <1>6, <1>7, CalmTask

\* FINAL and ABORT, for the urgent queue or the hand.
LEMMA ReceiveUrgentServes ==
    ASSUME SInv, NEW d \in Devices, ReceiveUrgent(d)
    PROVE  SInv'
<1> DEFINE m == Head(net[d])
           h == [NoFrame EXCEPT !.at = "try", !.frame = m]
<1>1. /\ Typed /\ net[d] # <<>> /\ net' = [net EXCEPT ![d] = Tail(@)] /\ IsUrgent(m)
      /\ UNCHANGED <<ctx, at, flags, timer, app, aborted, saved, nextId, completed, stalled>>
      /\ UNCHANGED <<queue, calm>> /\ queue[d] \in Seq(Items) /\ HandTyped(hand[d], queue[d])
      /\ hand = [e \in Devices |-> hand[e]]
  BY DEF SInv, ReceiveUrgent, Arrives, netOnly, Typed, Mapped, QueuesTyped
<1>2. NetGoes /\ m \in Frames /\ \A e \in Devices : Less(net[e], net'[e])
  BY <1>1, NetLess
<1>3. m \in Urgent
  BY <1>1, <1>2 DEF Urgent
<1>4. \/ /\ urgent' = [urgent EXCEPT ![d] = Append(@, m)] /\ Len(urgent[d]) < UrgentLen
         /\ hand' = hand
      \/ urgent' = urgent /\ hand' = [hand EXCEPT ![d] = h]
  BY DEF ReceiveUrgent
<1>5. HandTyped(h, queue[d])
  <2>3. h = [at |-> "try", frame |-> m, aside |-> 0]
    BY FrameInHand
  <2>1. /\ h = [at |-> h.at, frame |-> h.frame, aside |-> h.aside]
        /\ h.at = "try" /\ h.frame = m /\ h.aside = 0
    BY <2>3
  <2>2. 0 \in 0 .. Len(queue[d])
    BY <1>1, LenProperties
  <2> HIDE DEF h
  <2> QED BY <1>3, <2>1, <2>2 DEF HandTyped, HandPlaces
<1> HIDE DEF m, h
<1>6. CASE /\ urgent' = [urgent EXCEPT ![d] = Append(@, m)] /\ Len(urgent[d]) < UrgentLen
           /\ hand' = hand
  <2>1. hand' = [hand EXCEPT ![d] = hand[d]]
    BY <1>1, <1>6
  <2> QED BY <1>1, <1>2, <1>3, <1>6, <2>1, HandServes
<1>7. CASE urgent' = urgent /\ hand' = [hand EXCEPT ![d] = h]
  BY <1>1, <1>2, <1>5, <1>7, HandServes
<1> QED BY <1>4, <1>6, <1>7

\* Room is made for them, never at the cost of an expiry.
LEMMA MakeRoomServes ==
    ASSUME SInv, NEW d \in Devices, MakeRoom(d)
    PROVE  SInv'
<1> DEFINE q == queue[d]
           h == hand[d]
           n == h.aside + 1
<1>1. /\ Typed /\ Shared /\ h.at # "none"
      /\ UNCHANGED <<ctx, at, flags, timer, app, aborted, saved, nextId, completed, stalled>>
      /\ UNCHANGED <<net, calm>>
  BY DEF SInv, MakeRoom, TryQueue, LockQueue, TakeOut, PutBack, TryAgain, handOnly, netOnly
<1>2. /\ q \in Seq(Items) /\ Len(q) <= QueueLen /\ Len(q) \in Nat /\ HandTyped(h, q)
      /\ DOMAIN queue = Devices /\ DOMAIN hand = Devices /\ \A e \in Devices : QueuesTyped(e)
      /\ h.frame \in Urgent /\ h.aside \in Nat
  BY <1>1, LenProperties DEF Typed, Mapped, QueuesTyped, HandTyped
<1>3. NetGoes /\ AskedGo /\ \A e \in Devices : Less(net[e], net'[e])
  BY <1>1, NetStays, AskedStays, LessSame DEF Typed
<1>4. HandTyped(NoFrame, q)
  BY <1>2, EmptyHand
<1>5. ASSUME NEW place \in HandPlaces \ {"none"}, NEW k \in 0 .. Len(q)
      PROVE  /\ HandTyped([h EXCEPT !.at = place, !.aside = k], q)
             /\ [h EXCEPT !.at = place, !.aside = k].aside = k
  <2> DEFINE r == [h EXCEPT !.at = place, !.aside = k]
  <2> HIDE DEF h
  <2>1. r = [at |-> place, frame |-> h.frame, aside |-> k]
    BY <1>2, HandMoved DEF HandTyped
  <2> HIDE DEF r
  <2>2. r.at = place /\ r.frame = h.frame /\ r.aside = k
    BY <2>1
  <2>3. HandTyped(r, q)
    BY <1>2, <2>1, <2>2 DEF HandTyped
  <2> QED BY <2>2, <2>3 DEF r
<1>6. ASSUME NEW place \in HandPlaces \ {"none"}, NEW k \in 0 .. Len(q), InHand(d, place, k),
             UNCHANGED <<queue, urgent>>
      PROVE  SInv'
  <2> DEFINE r == [h EXCEPT !.at = place, !.aside = k]
  <2>1. hand' = [hand EXCEPT ![d] = r] /\ HandTyped(r, queue[d])
    BY <1>2, <1>5, <1>6 DEF InHand, HandTyped
  <2> HIDE DEF r
  <2> QED BY <1>1, <1>3, <1>6, <2>1, HandServes
<1>7. CASE EmptyHanded(d) /\ UNCHANGED <<queue, urgent>>
  BY <1>1, <1>3, <1>4, <1>7, HandServes DEF EmptyHanded
<1>8. CASE /\ EmptyHanded(d) /\ UNCHANGED queue /\ Len(urgent[d]) < UrgentLen
           /\ urgent' = [urgent EXCEPT ![d] = Append(@, h.frame)]
  BY <1>1, <1>2, <1>3, <1>4, <1>8, HandServes DEF EmptyHanded
<1>9. CASE EmptyHanded(d) /\ UNCHANGED urgent /\ ~Full(d) /\ Queued(d, h.frame)
  <2> DEFINE m == h.frame
  <2>1. m \in Items /\ m.kind # "meta" /\ ~IsOk(m) /\ Queued(d, m)
    BY <1>2, <1>9 DEF Urgent, Items, IsUrgent, IsOk
  <2> HIDE DEF m
  <2> QED BY <1>1, <1>3, <1>9, <2>1, QueuedServes
<1>10. CASE /\ n <= Len(q) /\ Evictable(q[n]) /\ UNCHANGED urgent
            /\ queue' = [queue EXCEPT ![d] = Cut(q, n)] /\ InHand(d, "keep", n - 1)
  <2> DEFINE c == Cut(q, n)
             r == [h EXCEPT !.at = "keep", !.aside = n - 1]
  <2>1. hand' = [hand EXCEPT ![d] = r] /\ n \in 1 .. Len(q) /\ n - 1 \in 0 .. Len(q)
    <3>1. hand' = [hand EXCEPT ![d] = r]
      BY <1>10 DEF InHand
    <3> HIDE DEF r, q, h
    <3>2. n \in 1 .. Len(q) /\ n - 1 \in 0 .. Len(q)
      BY <1>2, <1>10
    <3> QED BY <3>1, <3>2
  <2>2. HandTyped(r, q) /\ r.aside = n - 1
    BY <1>5, <2>1 DEF HandPlaces
  <2>3. /\ queue'[d] = c /\ hand'[d] = r
        /\ \A e \in Devices \ {d} : queue'[e] = queue[e] /\ hand'[e] = hand[e]
        /\ queue' = [e \in Devices |-> queue'[e]] /\ hand' = [e \in Devices |-> hand'[e]]
        /\ urgent' = [e \in Devices |-> urgent'[e]]
    BY <1>1, <1>2, <1>10, <2>1 DEF Typed, Mapped
  <2> HIDE DEF h, r
  <2>4. n \in DOMAIN q /\ q[n].kind # "timeout"
    BY <1>2, <1>10, <2>1, LenProperties DEF Evictable
  <2> HIDE DEF n
  <2>5. c \in Seq(Items) /\ Len(c) = Len(q) - 1
    BY <1>2, <2>4, CutIs
  <2>6. Less(q, c)
    BY <1>2, <2>4, CutLeaves DEF Less
  <2>7. \A k, g : Expiring(q, k, g) => Expiring(c, k, g)
    BY <1>2, <2>4, ExpiringCut
  <2> HIDE DEF c
  <2>8. Len(c) <= QueueLen /\ r.aside <= Len(c)
    BY <1>2, <2>1, <2>2, <2>5, Limits
  <2>9. HandTyped(r, c)
    BY <1>2, <2>2, <2>5, <2>8, HandLonger
  <2>10. QueuesKept
    <3>1. \A e \in Devices : QueuesTyped(e)'
      BY <1>2, <1>10, <2>3, <2>5, <2>8, <2>9 DEF QueuesTyped
    <3> QED BY <2>3, <3>1 DEF QueuesKept
  <2>11. \A e \in Devices : NoMore(e)
    BY <1>1, <1>3, <2>3, <2>6, LessSame, LessNoMore DEF q
  <2>12. \A e \in Devices : \A k, g : Expiring(queue[e], k, g) => Expiring(queue'[e], k, g)
    BY <2>3, <2>7 DEF q
  <2> QED BY <1>1, <1>3, <2>10, <2>11, <2>12, CalmTask
<1>11. {"lock", "drain", "keep", "put"} \subseteq HandPlaces \ {"none"} /\ 0 \in 0 .. Len(q)
  BY <1>2 DEF HandPlaces
<1>12. CASE TryQueue(d)
  BY <1>6, <1>9, <1>11, <1>12 DEF TryQueue
<1>13. CASE LockQueue(d)
  BY <1>6, <1>11, <1>13 DEF LockQueue
<1>14. CASE TakeOut(d)
  <2>1. CASE queue' = queue
    <3>1. /\ h.at \in {"drain", "keep"}
          /\ InHand(d, h.at, n) \/ InHand(d, "keep", n - 1)
          /\ n \in 0 .. Len(q) /\ n - 1 \in 0 .. Len(q) /\ urgent' = urgent
      BY <1>2, <1>14 DEF TakeOut
    <3> HIDE DEF h, n, q
    <3> QED BY <1>6, <1>11, <2>1, <3>1
  <2>2. CASE queue' # queue
    BY <1>10, <1>14, <2>2 DEF TakeOut
  <2> QED BY <2>1, <2>2
<1>15. CASE PutBack(d)
  BY <1>6, <1>11, <1>15 DEF PutBack
<1>16. CASE TryAgain(d)
  BY <1>7, <1>8, <1>9, <1>16 DEF TryAgain
<1> QED BY <1>12, <1>13, <1>14, <1>15, <1>16 DEF MakeRoom

\* The application sends a file.
LEMMA SendServes ==
    ASSUME SInv, NEW d \in Devices, Send(d)
    PROVE  SInv'
<1>1. /\ Typed /\ ~Full(d)
      /\ UNCHANGED <<ctx, at, urgent, hand, timer, net, saved, nextId, completed, stalled>>
      /\ UNCHANGED <<flags, app, aborted, calm>>
  BY DEF SInv, Send, appOnly
<1>2. PICK n \in Sizes : Queued(d, [kind |-> "send", total |-> n])
  BY DEF Send
<1> DEFINE x == [kind |-> "send", total |-> n]
<1>3. x \in Items /\ x.kind # "meta" /\ ~IsOk(x) /\ Queued(d, x)
  BY <1>2, FileTransferConstants DEF Items, IsOk
<1> HIDE DEF x
<1>4. AskedGo /\ NetGoes /\ \A e \in Devices : Less(net[e], net'[e])
  BY <1>1, AskedStays, NetStays, LessSame DEF Typed
<1> QED BY <1>1, <1>3, <1>4, QueuedServes

\* The command of esp_file_transfer_abort.
LEMMA AbortQueueServes ==
    ASSUME SInv, NEW d \in Devices, AbortQueue(d)
    PROVE  SInv'
<1> DEFINE x == [kind |-> "abortcmd"]
<1>1. /\ Typed /\ ~Full(d) /\ Queued(d, x) /\ app' = [app EXCEPT ![d] = "waiting"]
      /\ UNCHANGED <<ctx, at, urgent, hand, timer, net, saved, nextId, completed, stalled>>
      /\ UNCHANGED <<flags, aborted, calm>>
  BY DEF SInv, AbortQueue, appOnly
<1>2. x \in Items /\ x.kind # "meta" /\ ~IsOk(x)
  BY DEF Items, IsOk
<1> HIDE DEF x
<1>3. AskedGo
  BY <1>1 DEF Typed, Mapped, AskedTyped, AskedGo
<1>4. NetGoes /\ \A e \in Devices : Less(net[e], net'[e])
  BY <1>1, NetStays, LessSame
<1> QED BY <1>1, <1>2, <1>3, <1>4, QueuedServes

\* Other tasks that only raise flags.
LEMMA FlagsServe ==
    ASSUME SInv, AskedGo, \A e \in Devices : flags[e] \subseteq flags'[e],
           UNCHANGED <<ctx, at, queue, urgent, hand, timer, saved, nextId, completed, stalled>>,
           NetGoes, \A e \in Devices : Less(net[e], net'[e])
    PROVE  SInv'
<1>1. Typed /\ Shared
  BY DEF SInv
<1>2. \A e \in Devices : NoMore(e)
  BY <1>1, LessSame, LessNoMore
<1> QED BY <1>1, <1>2, QueuesKeep, CalmTask

\* The application asks for an abort.
LEMMA AbortCallServes ==
    ASSUME SInv, NEW d \in Devices, AbortCall(d)
    PROVE  SInv'
<1>1. /\ Typed /\ Trouble(1) /\ flags' = [flags EXCEPT ![d] = @ \cup {"abort"}]
      /\ aborted' = [aborted EXCEPT ![d] = FALSE] /\ app' = [app EXCEPT ![d] = "queueing"]
      /\ UNCHANGED <<ctx, at, queue, urgent, hand, timer, net, saved, nextId, completed, stalled>>
  BY DEF SInv, AbortCall, appOnly
<1>2. /\ flags' = [e \in Devices |-> flags'[e]] /\ app' = [e \in Devices |-> app'[e]]
      /\ aborted' = [e \in Devices |-> aborted'[e]]
      /\ \A e \in Devices : flags'[e] = flags[e] \/ flags'[e] = flags[e] \cup {"abort"}
      /\ \A e \in Devices : app'[e] = app[e] \/ app'[e] = "queueing"
      /\ \A e \in Devices : aborted'[e] = aborted[e] \/ aborted'[e] = FALSE
  BY <1>1 DEF Typed, Mapped
<1>3. \A e \in Devices : flags[e] \subseteq flags'[e]
  BY <1>2
<1>4. AskedGo
  <2>1. ASSUME NEW e \in Devices
        PROVE  AskedTyped(e)'
    <3>1. AskedTyped(e)
      BY <1>1 DEF Typed
    <3>2. flags'[e] \subseteq Flags /\ ("error" \in flags'[e] => "own" \in flags'[e])
      BY <1>2, <3>1 DEF AskedTyped, Flags
    <3>3. app'[e] \in {"idle", "queueing", "waiting"} /\ aborted'[e] \in BOOLEAN
      BY <1>2, <3>1 DEF AskedTyped
    <3> QED BY <3>2, <3>3 DEF AskedTyped
  <2> QED BY <1>1, <1>2, <2>1, CalmTyped DEF AskedGo
<1> QED BY <1>1, <1>3, <1>4, NetStays, LessSame, FlagsServe

\* A link goes down: the flag of its loss comes with that of its failure.
LEMMA LinkFlags ==
    ASSUME Typed, Trouble(1), UNCHANGED <<app, aborted>>,
           flags' = [e \in Devices |-> flags'[e]],
           \A e \in Devices : flags'[e] = flags[e] \/
              \E F \in {{"own"}, {"own", "error"}, {"other"}} : flags'[e] = flags[e] \cup F
    PROVE  AskedGo /\ \A e \in Devices : flags[e] \subseteq flags'[e]
<1>1. \A e \in Devices : flags[e] \subseteq flags'[e]
  OBVIOUS
<1>2. ASSUME NEW e \in Devices
      PROVE  AskedTyped(e)'
  <2>1. AskedTyped(e)
    BY DEF Typed
  <2>2. flags'[e] \subseteq Flags /\ ("error" \in flags'[e] => "own" \in flags'[e])
    <3>1. CASE flags'[e] = flags[e]
      BY <2>1, <3>1 DEF AskedTyped
    <3>2. ASSUME NEW F \in {{"own"}, {"own", "error"}, {"other"}}, flags'[e] = flags[e] \cup F
          PROVE  flags'[e] \subseteq Flags /\ ("error" \in flags'[e] => "own" \in flags'[e])
      BY <2>1, <3>2 DEF AskedTyped, Flags
    <3> QED BY <3>1, <3>2
  <2> QED BY <2>1, <2>2 DEF AskedTyped
<1>3. app' = [e \in Devices |-> app'[e]] /\ aborted' = [e \in Devices |-> aborted'[e]]
  BY DEF Typed, Mapped
<1> QED BY <1>1, <1>2, <1>3, CalmTyped DEF AskedGo

\* The link goes down, and what was on its way is lost.
LEMMA LinkDownServes ==
    ASSUME SInv, LinkDown
    PROVE  SInv'
<1>1. /\ Typed /\ Trouble(1) /\ flags' = [e \in Devices |-> flags[e] \cup {"own"}]
      /\ net' = [e \in Devices |-> <<>>]
      /\ UNCHANGED <<ctx, at, queue, urgent, hand, timer, app, aborted, saved, nextId, completed, stalled>>
  BY DEF SInv, LinkDown
<1>2. AskedGo /\ \A e \in Devices : flags[e] \subseteq flags'[e]
  <2>1. flags' = [e \in Devices |-> flags'[e]] /\ \A e \in Devices : flags'[e] = flags[e] \cup {"own"}
    BY <1>1
  <2>2. {"own"} \in {{"own"}, {"own", "error"}, {"other"}}
    OBVIOUS
  <2> QED BY <1>1, <2>1, <2>2, LinkFlags
<1>3. NetGoes /\ \A e \in Devices : Less(net[e], net'[e])
  <2>1. <<>> \in Seq(Frames)
    BY EmptySeq
  <2>2. net' = [e \in Devices |-> net'[e]] /\ \A e \in Devices : net'[e] = <<>>
    BY <1>1
  <2>3. \A s : Less(s, <<>>)
    BY Nothing DEF Less
  <2> QED BY <2>1, <2>2, <2>3 DEF NetGoes, NetTyped
<1> QED BY <1>1, <1>2, <1>3, FlagsServe

\* The transport fails, or another link goes down.
LEMMA LinkEventServes ==
    ASSUME SInv, NEW d \in Devices, LinkEvent(d)
    PROVE  SInv'
<1>1. /\ Typed /\ Trouble(1) /\ UNCHANGED <<app, aborted>>
      /\ UNCHANGED <<ctx, at, queue, urgent, hand, timer, net, saved, nextId, completed, stalled>>
  BY DEF SInv, LinkEvent, appOnly
<1>2. PICK F \in {{"own"}, {"own", "error"}, {"other"}} : flags' = [flags EXCEPT ![d] = @ \cup F]
  BY DEF LinkEvent
<1>3. flags = [e \in Devices |-> flags[e]]
  BY <1>1 DEF Typed, Mapped
<1>4. /\ flags' = [e \in Devices |-> flags'[e]]
      /\ \A e \in Devices : flags'[e] = flags[e] \/ flags'[e] = flags[e] \cup F
  BY <1>2, <1>3
<1>5. AskedGo /\ \A e \in Devices : flags[e] \subseteq flags'[e]
  BY <1>1, <1>4, LinkFlags
<1> QED BY <1>1, <1>5, NetStays, LessSame, FlagsServe

------------------------------------------------------------------------------
(* The second invariant *)

\* The initial states satisfy it.
LEMMA InitSInv == Init => SInv
<1> SUFFICES ASSUME Init
             PROVE  SInv
  OBVIOUS
<1> USE DEF Init
<1>1. NoTimer \in Timers
  BY Limits DEF NoTimer, NoExpiry, Timers, Expiries, Kinds, Gens
<1>2. <<>> \in Seq(Frames) /\ <<>> \in Seq(Items) /\ <<>> \in Seq(Urgent) /\ Len(<<>>) = 0
  BY EmptySeq
<1>3. Mapped
  BY DEF Mapped
<1>4. ASSUME NEW d \in Devices
      PROVE  /\ TransferTyped(d) /\ PlaceTyped(d) /\ FilesTyped(d)
             /\ NetTyped(d) /\ QueuesTyped(d) /\ AskedTyped(d)
  <2>1. TransferTyped(d) /\ PlaceTyped(d) /\ FilesTyped(d)
    BY <1>1, IdleTyped DEF TransferTyped, PlaceTyped, FilesTyped, Places
  <2>2. NetTyped(d) /\ AskedTyped(d)
    BY <1>2, Limits DEF NetTyped, AskedTyped, Flags
  <2>3. QueuesTyped(d)
    <3>1. HandTyped(NoFrame, <<>>)
      BY <1>2, EmptyHand
    <3>2. queue[d] = <<>> /\ urgent[d] = <<>> /\ hand[d] = NoFrame
      OBVIOUS
    <3> QED BY <1>2, <3>1, <3>2, Limits DEF QueuesTyped
  <2> QED BY <2>1, <2>2, <2>3
<1>5. Typed
  BY <1>3, <1>4, Limits DEF Typed
<1>6. Drives
  BY IdleTyped DEF Drives, DrivenNow, Put, Active
<1>7. Shared
  <2> SUFFICES ASSUME NEW d \in Devices
               PROVE  Once(d) /\ Agree(ctx[d], ctx[Peer(d)], nextId[d], Offered(Peer(d)), Answers(d))
    BY DEF Shared
  <2>1. Peer(d) \in Devices
    BY PeerOfPeer
  <2>2. Once(d) /\ Offered(Peer(d)) = {} /\ Answers(d) = {}
    BY <2>1, Nothing DEF Once, Offered, Answers
  <2>3. ctx[d] = Idle /\ ctx[Peer(d)] = Idle
    BY <2>1
  <2> QED BY <2>2, <2>3, IdleTyped DEF Agree
<1> QED BY <1>5, <1>6, <1>7 DEF SInv

\* So does the state after nothing happened.
LEMMA StutterServes ==
    ASSUME SInv, UNCHANGED vars
    PROVE  SInv'
<1>1. /\ Typed /\ calm' = calm
      /\ UNCHANGED <<ctx, at, queue, urgent, hand, timer, saved, nextId, completed, stalled, net>>
      /\ UNCHANGED <<flags, app, aborted>>
  BY DEF vars, SInv
<1>2. AskedGo /\ NetGoes
  BY <1>1, AskedStays, NetStays, CalmTyped
<1> QED BY <1>1, <1>2, LessSame, FlagsServe

\* Every step keeps it.
LEMMA NextSInv == SInv /\ [Next]_vars => SInv'
<1> SUFFICES ASSUME SInv, [Next]_vars PROVE SInv'
  OBVIOUS
<1>1. CASE UNCHANGED vars
  BY <1>1, StutterServes
<1>2. CASE LinkDown
  BY <1>2, LinkDownServes
<1>3. ASSUME NEW d \in Devices, WorkerStep(d)
      PROVE  SInv'
  BY <1>3, TerminateServes, HandleLateServes, PrepareServes, FinalizeServes, HandleSendServes,
     HandleMetaRspServes, HandleDataRspServes, HandleFinalServes, HandleMetaServes,
     HandleDataServes, HandleAbortServes, HandleAbortCmdServes, HandleTimeoutServes
     DEF WorkerStep
<1>4. ASSUME NEW d \in Devices,
             \/ TimerExpires(d) \/ TimerCallback(d) \/ Receive(d) \/ ReceiveRefused(d)
             \/ ReceiveUrgent(d) \/ MakeRoom(d) \/ Lose(d) \/ Send(d) \/ AbortCall(d)
             \/ AbortQueue(d) \/ LinkEvent(d)
      PROVE  SInv'
  BY <1>4, TimerExpiresServes, TimerCallbackServes, ReceiveServes, ReceiveRefusedServes,
     ReceiveUrgentServes, MakeRoomServes, LoseServes, SendServes, AbortCallServes, AbortQueueServes,
     LinkEventServes
<1> QED BY <1>1, <1>2, <1>3, <1>4 DEF Next

\* The second invariant holds throughout.
LEMMA AlwaysSInv == Spec => []SInv
  BY InitSInv, NextSInv, PTL DEF Spec

\* Every variable keeps its type: the queues and the pipe stay within their lengths, the
\* state of a transfer is one of its side, and the worker prepares only what is preparing.
THEOREM FileTypes == Spec => []TypeOK
<1>1. SInv => TypeOK
  <2> SUFFICES ASSUME Typed
               PROVE  TypeOK
    BY DEF SInv
  <2>1. ASSUME NEW x \in Items
        PROVE  x.kind \in Events
    BY <2>1 DEF Items, Frames, Events
  <2>2. ASSUME NEW s \in Seq(Items), NEW n \in DOMAIN s
        PROVE  s[n].kind \in Events
    BY <2>1, <2>2, ElementOfSeq, LenProperties
  <2>3. ASSUME NEW d \in Devices
        PROVE  /\ \A n \in DOMAIN queue[d] : queue[d][n].kind \in Events
               /\ \A n \in DOMAIN urgent[d] : IsUrgent(urgent[d][n])
               /\ \A n \in DOMAIN net[d] : net[d][n].kind \in Events
    <3>1. /\ queue[d] \in Seq(Items) /\ urgent[d] \in Seq(Urgent) /\ net[d] \in Seq(Frames)
      BY DEF Typed, QueuesTyped, NetTyped
    <3>2. net[d] \in Seq(Items)
      <4>1. Frames \subseteq Items
        BY DEF Items
      <4> QED BY <3>1, <4>1, SeqMonotonic
    <3>3. \A n \in DOMAIN urgent[d] : urgent[d][n] \in Urgent
      BY <3>1, ElementOfSeq, LenProperties
    <3> QED BY <2>2, <3>1, <3>2, <3>3 DEF Urgent
  <2>8. ASSUME NEW d \in Devices
        PROVE  /\ hand[d].at \in {"none", "try", "lock", "drain", "keep", "put"}
               /\ hand[d].aside \in 0 .. Len(queue[d])
               /\ IF hand[d].at = "none" THEN hand[d] = NoFrame ELSE IsUrgent(hand[d].frame)
    BY DEF Typed, QueuesTyped, HandTyped, HandPlaces, Urgent
  <2>4. ASSUME NEW d \in Devices
        PROVE  /\ ctx[d].state \in States /\ ctx[d].role \in {"none", "sender", "receiver"}
               /\ ctx[d].next \in 0 .. ctx[d].total /\ ctx[d].pipe \subseteq 0 .. ctx[d].next - 1
               /\ Cardinality(ctx[d].pipe) <= PipeDepth /\ ctx[d].tid \in Nat
               /\ ctx[d].early \in {"none", "ok", "failed"}
    BY DEF Typed, TransferTyped, ContextTyped, Contexts
  <2>5. ASSUME NEW d \in Devices
        PROVE  /\ timer[d].kind \in Kinds /\ timer[d].gen \in 0 .. QueueLen + 1
               /\ timer[d].on \in BOOLEAN /\ timer[d].cb \in BOOLEAN
               /\ timer[d].late.kind \in Kinds /\ timer[d].late.gen \in 0 .. QueueLen + 1
    BY DEF Typed, TransferTyped, Timers, Expiries, Gens
  <2>6. ASSUME NEW d \in Devices
        PROVE  /\ at[d] \in {"top", "late", "event", "prepare", "finalize"}
               /\ at[d] = "prepare" => ctx[d].state = "preparing"
               /\ at[d] = "finalize" => ctx[d].state = "finalizing"
               /\ Len(queue[d]) <= QueueLen /\ Len(urgent[d]) <= UrgentLen
               /\ flags[d] \subseteq {"own", "other", "error", "abort"}
               /\ app[d] \in {"idle", "queueing", "waiting"} /\ aborted[d] \in BOOLEAN
               /\ saved[d] \subseteq Nat /\ nextId[d] \in Nat \ {0} /\ completed[d] \subseteq Nat
    BY DEF Typed, PlaceTyped, Places, QueuesTyped, AskedTyped, Flags, FilesTyped
  <2>7. calm \in 0 .. MaxTrouble /\ stalled \subseteq Devices
    BY DEF Typed
  <2> QED BY <2>3, <2>4, <2>5, <2>6, <2>7, <2>8 DEF TypeOK
<1> QED BY <1>1, AlwaysSInv, PTL

\* A transfer that the worker has put down is driven: ft_timer_arm was called for it and
\* its expiry is still to come, on its way, queued or pending, unless the worker left the
\* transfer because another link went down.
THEOREM FileDriven == Spec => []Driven
<1>1. SInv => Driven
  BY DEF SInv, Drives, DrivenNow, Put, Driven
<1> QED BY <1>1, AlwaysSInv, PTL

\* A block that counts as transferred for the sender, because it was sent and its response
\* taken by handle_data_response, was taken by ft_receiver_handle_data.
THEOREM FileAckedIsWritten == Spec => []AckedIsWritten
<1>1. SInv => AckedIsWritten
  <2> SUFFICES ASSUME Typed, Shared, NEW d \in Devices, ctx[d].role = "sender",
                      ctx[Peer(d)].role = "receiver", ctx[Peer(d)].tid = ctx[d].tid
               PROVE  Cardinality((0 .. ctx[d].next - 1) \ ctx[d].pipe) <= ctx[Peer(d)].next
    BY DEF SInv, AckedIsWritten
  <2> DEFINE A == Acked(ctx[d])
             n == ctx[Peer(d)].next
  <2>1. \A i \in A : i < n
    BY DEF Shared, Agree, Taking
  <2>2. n \in Nat /\ A \subseteq Nat
    <3>1. Peer(d) \in Devices
      BY PeerOfPeer
    <3> QED BY <3>1 DEF Typed, TransferTyped, ContextTyped, Contexts, Acked
  <2> HIDE DEF A, n
  <2>3. \A a, b \in Int : /\ IsFiniteSet(a .. b)
                          /\ Cardinality(a .. b) = IF a > b THEN 0 ELSE b - a + 1
    BY FS_Interval
  <2> DEFINE k == n - 1
  <2>4. 0 \in Int /\ k \in Int /\ (IF 0 > k THEN 0 ELSE k - 0 + 1) = n /\ A \subseteq 0 .. k
    BY <2>1, <2>2
  <2> HIDE DEF k
  <2>5. IsFiniteSet(0 .. k) /\ Cardinality(0 .. k) = n
    BY <2>3, <2>4
  <2>6. Cardinality(A) <= n
    BY <2>4, <2>5, FS_Subset
  <2> QED BY <2>6 DEF A, n, Acked
<1> QED BY <1>1, AlwaysSInv, PTL
==============================================================================
