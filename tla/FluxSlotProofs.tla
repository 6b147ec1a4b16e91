--------------------------- MODULE FluxSlotProofs ----------------------------
(***************************************************************************)
(* What the operators on send and receive slots return, for all values of  *)
(* the constants: the types of their results, and the facts about SACKs    *)
(* (highest fragment received, fragments missing below it) that the proofs *)
(* about FluxTransfer rest on.                                             *)
(***************************************************************************)
EXTENDS FluxSendSlot, FluxRecvSlot, Sequences, TLAPS,
        FiniteSetTheorems, WellFoundedInduction

\* A nonempty set of numbers up to N has a greatest element.
LEMMA GreatestElement ==
  ASSUME NEW N \in Int, NEW S, S \subseteq 0 .. N, S # {}
  PROVE  \E m \in S : \A i \in S : i <= m
<1> DEFINE Above(i) == {j \in S : j > i}
           T == {Above(i) : i \in S}
<1>1. IsFiniteSet(S)
  <2>1. IsFiniteSet(0 .. N)
    BY FS_Interval
  <2> QED BY <2>1, FS_Subset
<1>2. T \subseteq FiniteSubsetsOf(S) /\ T # {}
  <2>1. \A i \in S : Above(i) \in SUBSET S
    OBVIOUS
  <2>2. T \subseteq SUBSET S /\ T # {}
    BY <2>1
  <2> QED BY <1>1, <2>2, FS_FiniteSubsetsOfFinite
<1>3. PICK x \in T : \A y \in T : ~ (<<y, x>> \in StrictSubsetOrdering(S))
  BY <1>2, FS_StrictSubsetOrderingWellFounded, WFMin
<1>4. PICK m \in S : x = Above(m)
  OBVIOUS
<1>5. \A j \in S : j \in Int
  OBVIOUS
<1>6. ASSUME NEW i \in S, i > m
      PROVE  FALSE
  <2>1. \A j \in S : j > i => j > m
    BY <1>5, <1>6
  <2>2. Above(i) \in T
    OBVIOUS
  <2>3. Above(i) \subseteq Above(m)
    BY <2>1
  <2>4. i \in Above(m) /\ i \notin Above(i)
    BY <1>5, <1>6
  <2> QED BY <1>3, <1>4, <2>2, <2>3, <2>4 DEF StrictSubsetOrdering
<1> QED BY <1>5, <1>6

\* Sets of fragments are finite, and so have a size.
LEMMA FragmentSets ==
  /\ IsFiniteSet(Fragments)
  /\ \A S \in SUBSET Fragments : IsFiniteSet(S) /\ Cardinality(S) \in Nat
<1>1. MaxFragments \in Nat
  BY PacketConstants
<1>2. IsFiniteSet(Fragments)
  BY <1>1, FS_Interval DEF Fragments
<1>3. ASSUME NEW S \in SUBSET Fragments
      PROVE  IsFiniteSet(S) /\ Cardinality(S) \in Nat
  BY <1>2, <1>3, FS_Subset, FS_CardinalityType
<1> QED BY <1>2, <1>3

\* An ascending enumeration of fragments is a sequence of them.
LEMMA AscendingType ==
  ASSUME NEW S \in SUBSET Fragments, NEW a \in Ascending(S)
  PROVE  /\ Cardinality(S) \in Nat
         /\ a \in [1 .. Cardinality(S) -> S]
BY FragmentSets DEF Ascending

------------------------------------------------------------------------------
(* Send slots *)

LEMMA EmptySlotType == EmptySlot \in SendSlots
BY PacketConstants DEF EmptySlot, SendSlots, Streams, Fragments, Unlimited, NoTransfer

LEMMA StartedSlotType ==
  ASSUME NEW t \in Transfers, NEW c \in Streams, NEW total \in 1 .. MaxFragments,
         NEW w \in 0 .. Unlimited, NEW th \in 0 .. 255
  PROVE  StartedSlot(t, c, total, w, th) \in SendSlots
<1>1. EffectiveWindow(w, total) \in 0 .. Unlimited
  BY PacketConstants DEF EffectiveWindow, Smaller, Unlimited, DefaultWindow
<1>2. EffectiveThreshold(th) \in 0 .. 100
  BY DEF EffectiveThreshold
<1>3. t \in 0 .. MaxTransfers /\ total \in 0 .. MaxFragments
  BY PacketConstants DEF Transfers
<1> QED BY <1>1, <1>2, <1>3, EmptySlotType DEF StartedSlot, SendSlots

LEMMA FinishType ==
  ASSUME NEW p \in SendSlots, NEW st \in {"ok", "timeout"}
  PROVE  Finish(p, st) \in SendSlots
BY DEF Finish, SendSlots

LEMMA MarkAckedType ==
  ASSUME NEW p \in SendSlots, NEW A \in SUBSET Fragments
  PROVE  MarkAcked(p, A) \in SendSlots
<1> DEFINE new == {i \in A : i < p.total} \ p.acked
           n == Cardinality(new)
           q == [p EXCEPT !.acked = @ \cup new, !.late = @ \ new, !.sent = @ + n,
                          !.inflight = IF n > @ THEN 0 ELSE @ - n]
<1>1. new \in SUBSET Fragments
  OBVIOUS
<1>2. n \in Nat
  BY <1>1, FragmentSets
<1>3. q \in SendSlots
  <2> HIDE DEF new, n
  <2>1. /\ p.acked \cup new \in SUBSET Fragments
        /\ p.late \ new \in SUBSET Fragments
    BY <1>1 DEF SendSlots
  <2>2. /\ p.sent + n \in Nat
        /\ (IF n > p.inflight THEN 0 ELSE p.inflight - n) \in Nat
    BY <1>2 DEF SendSlots
  <2>3. q = [p EXCEPT !.acked = p.acked \cup new, !.late = p.late \ new,
               !.sent = p.sent + n,
               !.inflight = IF n > p.inflight THEN 0 ELSE p.inflight - n]
    OBVIOUS
  <2> HIDE DEF q
  <2> QED BY <2>1, <2>2, <2>3 DEF SendSlots
<1>4. Finish(q, "ok") \in SendSlots
  BY <1>3, FinishType
<1> QED BY <1>3, <1>4 DEF MarkAcked

LEMMA ResentType ==
  ASSUME NEW p \in SendSlots, NEW S \in SUBSET Fragments
  PROVE  Resent(p, S) \in SendSlots
<1> DEFINE R == [i \in Fragments |-> IF i \in S THEN p.retry[i] + 1 ELSE p.retry[i]]
<1>1. R \in [Fragments -> Nat]
  BY DEF SendSlots
<1>2. /\ p.timed \cup S \in SUBSET Fragments
      /\ p.late \ S \in SUBSET Fragments
  BY DEF SendSlots
<1>3. Resent(p, S) = [p EXCEPT !.timed = p.timed \cup S, !.late = p.late \ S, !.retry = R]
  BY DEF Resent, SendSlots
<1> HIDE DEF R
<1> QED BY <1>1, <1>2, <1>3 DEF SendSlots

\* New fragments are fragments of the transfer.
LEMMA FreshType ==
  ASSUME NEW p \in SendSlots, NEW u \in p.current .. p.total
  PROVE  /\ Fresh(p, u) \in SUBSET Fragments
         /\ Cardinality(Fresh(p, u)) \in Nat
<1>1. Fresh(p, u) \in SUBSET Fragments
  BY PacketConstants DEF Fresh, Fragments, SendSlots
<1> QED BY <1>1, FragmentSets

LEMMA DispatchedType ==
  ASSUME NEW p \in SendSlots, NEW u \in p.current .. p.total
  PROVE  Dispatched(p, u) \in SendSlots
<1>1. u \in 0 .. MaxFragments
  BY PacketConstants DEF SendSlots
<1> DEFINE F == Fresh(p, u)
           R == [i \in Fragments |-> IF i \in F THEN 0 ELSE p.retry[i]]
<1>2. F \in SUBSET Fragments /\ Cardinality(F) \in Nat
  BY FreshType
<1> HIDE DEF F
<1>3. R \in [Fragments -> Nat]
  BY DEF SendSlots
<1>4. p.timed \cup F \in SUBSET Fragments /\ p.inflight + Cardinality(F) \in Nat
  BY <1>2 DEF SendSlots
<1>5. Dispatched(p, u) = [p EXCEPT !.current = u, !.timed = p.timed \cup F,
                            !.inflight = p.inflight + Cardinality(F), !.retry = R]
  BY DEF Dispatched, SendSlots, F
<1> HIDE DEF R
<1> QED BY <1>1, <1>3, <1>4, <1>5 DEF SendSlots

\* A completed slot knows what it has to report.
Concluded(p) == p.st = "completed" => p.status # "none"

\* q continues p: the same transfer on the same stream, still in its slot, with
\* the acknowledgements p has.
Continues(q, p) ==
  /\ q \in SendSlots
  /\ q.tid = p.tid /\ q.stream = p.stream /\ q.total = p.total
  /\ q.acked = p.acked
  /\ p.st # "free" => q.st # "free"
  /\ Concluded(p) => Concluded(q)

LEMMA FinishContinues ==
  ASSUME NEW p \in SendSlots, NEW st \in {"ok", "timeout"}
  PROVE  Continues(Finish(p, st), p)
BY FinishType DEF Continues, Concluded, Finish, SendSlots

LEMMA ResentContinues ==
  ASSUME NEW p \in SendSlots, NEW S \in SUBSET Fragments
  PROVE  Continues(Resent(p, S), p) /\ Resent(p, S).current = p.current
<1>1. Resent(p, S) \in SendSlots
  BY ResentType
<1> QED BY <1>1 DEF Continues, Concluded, Resent, SendSlots

LEMMA DispatchedContinues ==
  ASSUME NEW p \in SendSlots, NEW u \in p.current .. p.total
  PROVE  Continues(Dispatched(p, u), p)
<1>1. Dispatched(p, u) \in SendSlots
  BY DispatchedType
<1> QED BY <1>1 DEF Continues, Concluded, Dispatched, SendSlots

LEMMA ContinuesTransitive ==
  ASSUME NEW p, NEW q, NEW r, Continues(q, p), Continues(r, q)
  PROVE  Continues(r, p)
BY DEF Continues

\* Booking acknowledgements changes neither transfer nor stream, and adds to the
\* acknowledged fragments only those given.
LEMMA MarkAckedEffect ==
  ASSUME NEW p \in SendSlots, NEW A \in SUBSET Fragments
  PROVE  LET q == MarkAcked(p, A)
         IN  /\ q \in SendSlots
             /\ q.tid = p.tid /\ q.stream = p.stream /\ q.total = p.total
             /\ q.acked \subseteq p.acked \cup A
             /\ p.st # "free" => q.st # "free"
             /\ Concluded(p) => Concluded(q)
<1>1. MarkAcked(p, A) \in SendSlots
  BY MarkAckedType
<1> DEFINE new == {i \in A : i < p.total} \ p.acked
           n == Cardinality(new)
           q == [p EXCEPT !.acked = @ \cup new, !.late = @ \ new, !.sent = @ + n,
                          !.inflight = IF n > @ THEN 0 ELSE @ - n]
<1>2. MarkAcked(p, A) = q \/ MarkAcked(p, A) = Finish(q, "ok")
  BY DEF MarkAcked
<1>3. /\ q.tid = p.tid /\ q.stream = p.stream /\ q.total = p.total
      /\ q.acked = p.acked \cup new /\ q.st = p.st /\ q.status = p.status
  BY DEF SendSlots
<1>4. LET f == Finish(q, "ok")
      IN  /\ f.tid = q.tid /\ f.stream = q.stream /\ f.total = q.total
          /\ f.acked = q.acked /\ f.st = "completed" /\ f.status = "ok"
  BY DEF Finish, SendSlots
<1>5. new \subseteq A
  OBVIOUS
<1> HIDE DEF q, new
<1> QED BY <1>1, <1>2, <1>3, <1>4, <1>5 DEF Concluded

\* The sets of fragments flux_handle_sack and flux_send_continue work on.
LEMMA SackSets ==
  ASSUME NEW p \in SendSlots, NEW sack \in SackPackets
  PROVE  /\ Claimed(p, sack) \in SUBSET Fragments
         /\ ReportedLost(p, sack) \in SUBSET Fragments
BY PacketConstants DEF Claimed, ReportedLost, SendSlots, SackPackets, Fragments

LEMMA TimerSets ==
  ASSUME NEW p \in SendSlots
  PROVE  TimedOut(p) \in SUBSET Fragments
BY DEF TimedOut, SendSlots

LEMMA BeforeExhaustedType ==
  ASSUME NEW p \in SendSlots, NEW S \in SUBSET Fragments
  PROVE  BeforeExhausted(p, S) \in SUBSET Fragments
BY DEF BeforeExhausted

------------------------------------------------------------------------------
(* Receive slots *)

LEMMA EmptyRecvType == EmptyRecv \in RecvSlots
BY PacketConstants DEF EmptyRecv, RecvSlots, Streams, Fragments, Unlimited, NoTransfer

LEMMA OpenedRecvType ==
  ASSUME NEW pkt \in DataPackets
  PROVE  OpenedRecv(pkt) \in RecvSlots
<1> DEFINE B == [EmptyRecv.buf EXCEPT ![0] = pkt.tid]
           th == IF pkt.threshold = 0 \/ pkt.threshold > 100 THEN 50 ELSE pkt.threshold
<1>1. EmptyRecv.buf \in [Fragments -> 0 .. MaxTransfers]
  BY EmptyRecvType DEF RecvSlots
<1>2. B \in [Fragments -> 0 .. MaxTransfers]
  <2>1. pkt.tid \in 0 .. MaxTransfers
    BY PacketConstants DEF DataPackets, Transfers
  <2> QED BY <1>1, <2>1
<1>3. th \in 0 .. 100
  BY DEF DataPackets
<1>4. OpenedRecv(pkt) = [EmptyRecv EXCEPT !.on = TRUE, !.stream = pkt.stream,
          !.total = pkt.total, !.window = pkt.window, !.buf = B, !.threshold = th]
  BY DEF OpenedRecv, EmptyRecv
<1> HIDE DEF B, th
<1> QED BY <1>2, <1>3, <1>4, EmptyRecvType DEF RecvSlots, DataPackets

LEMMA StoredType ==
  ASSUME NEW r \in RecvSlots, NEW pkt \in DataPackets
  PROVE  Stored(r, pkt) \in RecvSlots
<1> DEFINE B == [r.buf EXCEPT ![pkt.idx] = pkt.tid]
<1>1. B \in [Fragments -> 0 .. MaxTransfers]
  BY PacketConstants DEF RecvSlots, DataPackets, Transfers
<1>2. Stored(r, pkt) = [r EXCEPT !.buf = B]
  BY DEF Stored, RecvSlots
<1> HIDE DEF B
<1> QED BY <1>1, <1>2 DEF RecvSlots

LEMMA ReceivedType ==
  ASSUME NEW r \in RecvSlots
  PROVE  /\ Received(r) \in SUBSET Fragments
         /\ \A i \in Received(r) : i < r.total
BY DEF Received

\* fragment_get_max_received_seq finds the highest fragment received.
LEMMA TopIsTop ==
  ASSUME NEW r \in RecvSlots
  PROVE  /\ TopReceived(r) \in Fragments
         /\ IsTop(r, TopReceived(r))
<1>1. \E m \in Fragments : IsTop(r, m)
  <2>1. CASE Received(r) = {}
    <3>1. 0 \in Fragments
      BY PacketConstants DEF Fragments
    <3> QED BY <2>1, <3>1 DEF IsTop
  <2>2. CASE Received(r) # {}
    <3>1. Received(r) \subseteq 0 .. MaxFragments - 1
      BY ReceivedType DEF Fragments
    <3>2. MaxFragments - 1 \in Int
      BY PacketConstants
    <3>3. PICK m \in Received(r) : \A i \in Received(r) : i <= m
      BY <2>2, <3>1, <3>2, GreatestElement
    <3>4. m \in Fragments
      BY <3>3, ReceivedType
    <3> QED BY <3>3, <3>4 DEF IsTop
  <2> QED BY <2>1, <2>2
<1> QED BY <1>1 DEF TopReceived

LEMMA MissingType ==
  ASSUME NEW r \in RecvSlots
  PROVE  /\ Missing(r) \in SUBSET Fragments
         /\ Cardinality(Missing(r)) \in Nat
         /\ Cardinality(Missing(r)) <= TopReceived(r)
<1>1. TopReceived(r) \in Nat
  BY TopIsTop DEF Fragments
<1>2. Missing(r) \in SUBSET (0 .. TopReceived(r) - 1)
  BY <1>1 DEF Missing, Fragments
<1>3. IsFiniteSet(0 .. TopReceived(r) - 1)
      /\ Cardinality(0 .. TopReceived(r) - 1) = TopReceived(r)
  BY <1>1, FS_Interval
<1>4. Missing(r) \in SUBSET Fragments
  BY DEF Missing
<1>5. Cardinality(Missing(r)) \in Nat
  BY <1>4, FragmentSets
<1> HIDE DEF Missing
<1>6. Cardinality(Missing(r)) <= TopReceived(r)
  BY <1>2, <1>3, FS_Subset
<1> QED BY <1>4, <1>5, <1>6

LEMMA SackType ==
  ASSUME NEW r \in RecvSlots
  PROVE  SackOf(r) \in SackPackets
BY TopIsTop, MissingType DEF SackOf, SackPacket, SackPackets, RecvSlots

\* A SACK acknowledges only fragments its slot has received, if any.
LEMMA SackIsSound ==
  ASSUME NEW r \in RecvSlots, Received(r) # {},
         NEW i \in 0 .. SackOf(r).num, i \notin SackOf(r).lost
  PROVE  i \in Received(r)
<1>1. i \in 0 .. TopReceived(r) /\ i \notin Missing(r)
  BY DEF SackOf, SackPacket
<1>2. TopReceived(r) \in Received(r)
  BY TopIsTop DEF IsTop
<1>3. i \in Fragments
  BY <1>1, TopIsTop, PacketConstants DEF Fragments
<1>4. TopReceived(r) \in Nat /\ i \in Nat
  BY TopIsTop, <1>3 DEF Fragments
<1>5. i = TopReceived(r) \/ i < TopReceived(r)
  BY <1>1, <1>4
<1> QED BY <1>1, <1>2, <1>3, <1>5 DEF Missing

LEMMA SackBookedType ==
  ASSUME NEW r \in RecvSlots
  PROVE  SackBooked(r) \in RecvSlots
<1> DEFINE top == TopReceived(r)
           gap == Cardinality(Missing(r))
           ack == Smaller(top + 1, r.total) - gap
<1>1. top \in Nat /\ gap \in Nat /\ gap <= top
  BY TopIsTop, MissingType DEF Fragments
<1>2. r.total \in Nat
  BY PacketConstants DEF RecvSlots
<1>3. ack \in Nat
  <2>1. CASE Received(r) # {}
    <3>1. top < r.total
      BY <2>1, TopIsTop, ReceivedType DEF IsTop
    <3> HIDE DEF top, gap
    <3> QED BY <1>1, <1>2, <3>1 DEF Smaller
  <2>2. CASE Received(r) = {}
    <3>1. top = 0
      BY <2>2, TopIsTop DEF IsTop
    <3> HIDE DEF top, gap
    <3> QED BY <1>1, <1>2, <3>1 DEF Smaller
  <2> QED BY <2>1, <2>2
<1>4. SackBooked(r) = [r EXCEPT !.acked = ack, !.missing = gap]
  BY DEF SackBooked
<1> HIDE DEF ack, gap, top
<1> QED BY <1>1, <1>3, <1>4 DEF RecvSlots
==============================================================================
