------------------------- MODULE FluxTransferProofs --------------------------
(***************************************************************************)
(* Proofs about FluxTransfer for all values of its constants: its type     *)
(* correctness, and, as long as no stream id is used twice, that SACKs     *)
(* confirm only what arrived and that messages are delivered unmixed.      *)
(***************************************************************************)
EXTENDS FluxTransfer, FluxSlotProofs, SequenceTheorems

------------------------------------------------------------------------------
(* What the shared parts of the actions do *)

LEMMA PacketOfType ==
  ASSUME NEW p \in SendSlots, p.tid \in Transfers, NEW i \in Fragments
  PROVE  /\ PacketOf(p, i) \in DataPackets
         /\ PacketOf(p, i).tid = p.tid /\ PacketOf(p, i).stream = p.stream
         /\ PacketOf(p, i).idx = 0 => PacketOf(p, i).total = p.total
<1>1. 0 \in 0 .. MaxFragments /\ 0 \in 0 .. Unlimited /\ 0 \in 0 .. 100 /\ 0 \in Fragments
  BY PacketConstants DEF Unlimited, Fragments
<1>2. CASE i = 0
  BY <1>1, <1>2 DEF PacketOf, StartPacket, DataPackets, SendSlots
<1>3. CASE i # 0
  BY <1>1, <1>3 DEF PacketOf, FragmentPacket, DataPackets, SendSlots
<1> QED BY <1>2, <1>3

\* Every packet on the wire was there before or belongs to the transfer of p.
WireFrom(p) ==
  /\ wire' \in Seq(DataPackets)
  /\ \A n \in 1 .. Len(wire') :
        \/ n \in 1 .. Len(wire) /\ wire'[n] = wire[n]
        \/ /\ wire'[n].tid = p.tid /\ wire'[n].stream = p.stream
           /\ wire'[n].idx = 0 => wire'[n].total = p.total

LEMMA BurstType ==
  ASSUME NEW p \in SendSlots, p.tid \in Transfers,
         NEW S \in SUBSET Fragments, NEW a \in Ascending(S)
  PROVE  LET b == [k \in DOMAIN a |-> PacketOf(p, a[k])]
         IN  /\ b \in Seq(DataPackets)
             /\ \A k \in 1 .. Len(b) : \E i \in Fragments : b[k] = PacketOf(p, i)
<1> DEFINE n == Cardinality(S)
           b == [k \in DOMAIN a |-> PacketOf(p, a[k])]
<1>1. n \in Nat /\ a \in [1 .. n -> S]
  BY AscendingType
<1>2. DOMAIN a = 1 .. n /\ \A k \in 1 .. n : a[k] \in Fragments
  BY <1>1
<1> HIDE DEF n
<1>3. b \in [1 .. n -> DataPackets]
  BY <1>2, PacketOfType
<1>4. b \in Seq(DataPackets) /\ Len(b) = n
  BY <1>1, <1>3
<1> QED BY <1>2, <1>4

LEMMA TransmitEffect ==
  ASSUME wire \in Seq(DataPackets), NEW p \in SendSlots, p.tid \in Transfers,
         NEW first, first \in SUBSET Fragments, NEW second, second \in SUBSET Fragments,
         Transmit(p, first, second)
  PROVE  WireFrom(p)
<1>1. PICK f \in Accepted(first), g \in Accepted(second) :
          \E a \in Ascending(f), b \in Ascending(g) :
            wire' = wire \o [k \in DOMAIN a |-> PacketOf(p, a[k])]
                         \o [k \in DOMAIN b |-> PacketOf(p, b[k])]
  BY DEF Transmit
<1>2. f \in SUBSET Fragments /\ g \in SUBSET Fragments
  BY DEF Accepted
<1>3. PICK a \in Ascending(f), b \in Ascending(g) :
            wire' = wire \o [k \in DOMAIN a |-> PacketOf(p, a[k])]
                         \o [k \in DOMAIN b |-> PacketOf(p, b[k])]
  BY <1>1
<1> DEFINE x == [k \in DOMAIN a |-> PacketOf(p, a[k])]
           y == [k \in DOMAIN b |-> PacketOf(p, b[k])]
<1>4. /\ x \in Seq(DataPackets)
      /\ \A k \in 1 .. Len(x) : \E i \in Fragments : x[k] = PacketOf(p, i)
  BY <1>2, BurstType
<1>5. /\ y \in Seq(DataPackets)
      /\ \A k \in 1 .. Len(y) : \E i \in Fragments : y[k] = PacketOf(p, i)
  BY <1>2, BurstType
<1>6. wire' = wire \o x \o y
  BY <1>3
<1> HIDE DEF x, y
<1>7. /\ wire \o x \in Seq(DataPackets)
      /\ Len(wire \o x) = Len(wire) + Len(x)
      /\ \A n \in 1 .. Len(wire) + Len(x) :
            (wire \o x)[n] = IF n <= Len(wire) THEN wire[n] ELSE x[n - Len(wire)]
  BY <1>4, ConcatProperties
<1>8. /\ wire' \in Seq(DataPackets)
      /\ Len(wire') = Len(wire \o x) + Len(y)
      /\ \A n \in 1 .. Len(wire \o x) + Len(y) :
            wire'[n] = IF n <= Len(wire \o x) THEN (wire \o x)[n] ELSE y[n - Len(wire \o x)]
  BY <1>5, <1>6, <1>7, ConcatProperties
<1>9. Len(wire) \in Nat /\ Len(x) \in Nat /\ Len(y) \in Nat
  BY <1>4, <1>5, LenProperties
<1>10. ASSUME NEW n \in 1 .. Len(wire')
       PROVE  \/ n \in 1 .. Len(wire) /\ wire'[n] = wire[n]
              \/ \E i \in Fragments : wire'[n] = PacketOf(p, i)
  <2>1. CASE n <= Len(wire)
    BY <1>7, <1>8, <1>9, <2>1
  <2>2. CASE n > Len(wire) /\ n <= Len(wire) + Len(x)
    <3>1. n - Len(wire) \in 1 .. Len(x) /\ wire'[n] = x[n - Len(wire)]
      BY <1>7, <1>8, <1>9, <2>2
    <3> QED BY <1>4, <3>1
  <2>3. CASE n > Len(wire) + Len(x)
    <3>1. n - Len(wire \o x) \in 1 .. Len(y) /\ wire'[n] = y[n - Len(wire \o x)]
      BY <1>7, <1>8, <1>9, <2>3
    <3> QED BY <1>5, <3>1
  <2> QED BY <1>9, <2>1, <2>2, <2>3
<1> QED BY <1>8, <1>10, PacketOfType DEF WireFrom

LEMMA TransmitSackEffect ==
  ASSUME back \in Seq(SackPackets), NEW sack \in SackPackets, NEW m \in Nat,
         TransmitSack(sack, m)
  PROVE  /\ back' \in Seq(SackPackets)
         /\ \A n \in 1 .. Len(back') :
               \/ n \in 1 .. Len(back) /\ back'[n] = back[n]
               \/ back'[n] = sack
<1> DEFINE x == [k \in 1 .. m |-> sack]
<1>1. x \in Seq(SackPackets) /\ Len(x) = m /\ \A k \in 1 .. m : x[k] = sack
  OBVIOUS
<1>2. back' = back \o x
  BY DEF TransmitSack
<1> HIDE DEF x
<1>3. /\ back' \in Seq(SackPackets)
      /\ Len(back') = Len(back) + m
      /\ \A n \in 1 .. Len(back) + m :
            back'[n] = IF n <= Len(back) THEN back[n] ELSE x[n - Len(back)]
  BY <1>1, <1>2, ConcatProperties
<1>4. Len(back) \in Nat
  BY LenProperties
<1>5. ASSUME NEW n \in 1 .. Len(back')
      PROVE  \/ n \in 1 .. Len(back) /\ back'[n] = back[n]
             \/ back'[n] = sack
  <2>1. CASE n <= Len(back)
    BY <1>3, <1>4, <2>1
  <2>2. CASE n > Len(back)
    <3>1. n - Len(back) \in 1 .. m
      BY <1>3, <1>4, <2>2
    <3> QED BY <1>1, <1>3, <1>4, <2>2, <3>1
  <2> QED BY <1>4, <2>1, <2>2
<1> QED BY <1>3, <1>5

\* flux_send_continue changes nothing but its slot, which goes on with the same
\* transfer, and the wire.
LEMMA SendContinueEffect ==
  ASSUME wire \in Seq(DataPackets), NEW s \in Slots, NEW p \in SendSlots,
         p.tid \in Transfers, NEW resent \in SUBSET Fragments,
         SendContinue(s, p, resent)
  PROVE  /\ \E q : Continues(q, p) /\ send' = [send EXCEPT ![s] = q]
         /\ WireFrom(p)
<1>1. CASE /\ send' = [send EXCEPT ![s] = p]
           /\ Transmit(p, resent, {})
  <2>1. Continues(p, p)
    BY DEF Continues
  <2> QED BY <1>1, <2>1, TransmitEffect
<1>2. ASSUME NEW ok \in Accepted(BeforeExhausted(p, TimedOut(p))),
             send' = [send EXCEPT ![s] = Finish(Resent(p, ok), "timeout")],
             Transmit(p, resent, ok)
      PROVE  /\ \E q : Continues(q, p) /\ send' = [send EXCEPT ![s] = q]
             /\ WireFrom(p)
  <2>1. ok \in SUBSET Fragments
    BY TimerSets, BeforeExhaustedType DEF Accepted
  <2>2. Continues(Resent(p, ok), p)
    BY <2>1, ResentContinues
  <2>3. Continues(Finish(Resent(p, ok), "timeout"), p)
    BY <2>2, FinishContinues, ContinuesTransitive DEF Continues
  <2> QED BY <1>2, <2>1, <2>3, TransmitEffect
<1>3. ASSUME NEW ok \in Accepted(TimedOut(p)), NEW u \in p.current .. p.total,
             send' = [send EXCEPT ![s] = Dispatched(Resent(p, ok), u)],
             Transmit(p, resent, ok \cup Fresh(Resent(p, ok), u))
      PROVE  /\ \E q : Continues(q, p) /\ send' = [send EXCEPT ![s] = q]
             /\ WireFrom(p)
  <2>1. ok \in SUBSET Fragments
    BY TimerSets DEF Accepted
  <2> DEFINE q == Resent(p, ok)
  <2>2. Continues(q, p) /\ q.current = p.current
    BY <2>1, ResentContinues
  <2>3. u \in q.current .. q.total /\ q \in SendSlots
    BY <2>2 DEF Continues
  <2> HIDE DEF q
  <2>4. Continues(Dispatched(q, u), p)
    BY <2>2, <2>3, DispatchedContinues, ContinuesTransitive
  <2>5. Fresh(q, u) \in SUBSET Fragments
    BY <2>3, FreshType
  <2>6. WireFrom(p)
    BY <1>3, <2>1, <2>5, TransmitEffect DEF q
  <2> QED BY <1>3, <2>4, <2>6 DEF q
<1> QED BY <1>1, <1>2, <1>3 DEF SendContinue

\* Type correctness needs that a slot in use knows its transfer, and one that is
\* completed its outcome.
Owned == \A s \in Slots : Busy(s) => send[s].tid \in Transfers /\ Concluded(send[s])
TypeInv == TypeOK /\ Owned

\* flux_handle_sack: nothing, or the slot of the SACK's stream goes on with more
\* acknowledged, and packets of its transfer join the wire.
LEMMA HandleSackEffect ==
  ASSUME TypeInv, HandleSack
  PROVE  /\ back # <<>> /\ back' = Tail(back) /\ Head(back) \in SackPackets
         /\ \/ UNCHANGED <<send, wire>>
            \/ \E s \in SendFind(Head(back).stream), q \in SendSlots :
                  /\ send' = [send EXCEPT ![s] = q]
                  /\ q.tid = send[s].tid /\ q.stream = send[s].stream
                  /\ q.total = send[s].total /\ q.st # "free" /\ Concluded(q)
                  /\ q.acked \subseteq send[s].acked \cup Claimed(send[s], Head(back))
                  /\ WireFrom(send[s])
<1> DEFINE sack == Head(back)
<1>1. back # <<>> /\ back' = Tail(back)
  BY DEF HandleSack
<1>2. sack \in SackPackets
  BY <1>1, HeadTailProperties DEF TypeInv, TypeOK
<1>3. wire \in Seq(DataPackets) /\ send \in [Slots -> SendSlots]
  BY DEF TypeInv, TypeOK
<1>4. CASE UNCHANGED <<send, wire>>
  BY <1>1, <1>2, <1>4
<1>5. ASSUME NEW s \in SendFind(sack.stream),
             LET p    == MarkAcked(send[s], Claimed(send[s], sack))
                 lost == ReportedLost(p, sack)
             IN  \/ /\ Exhausted(p, lost) # {}
                    /\ \E ok \in Accepted(BeforeExhausted(p, lost)) :
                         /\ send' = [send EXCEPT ![s] = Finish(Resent(p, ok), "timeout")]
                         /\ Transmit(p, ok, {})
                 \/ /\ Exhausted(p, lost) = {}
                    /\ \E ok \in Accepted(lost) : SendContinue(s, Resent(p, ok), ok)
      PROVE  \E q \in SendSlots :
                  /\ send' = [send EXCEPT ![s] = q]
                  /\ q.tid = send[s].tid /\ q.stream = send[s].stream
                  /\ q.total = send[s].total /\ q.st # "free" /\ Concluded(q)
                  /\ q.acked \subseteq send[s].acked \cup Claimed(send[s], sack)
                  /\ WireFrom(send[s])
  <2> DEFINE C == Claimed(send[s], sack)
             p == MarkAcked(send[s], C)
             lost == ReportedLost(p, sack)
  <2>1. s \in Slots /\ send[s] \in SendSlots /\ send[s].st = "active"
    BY <1>3 DEF SendFind, Active
  <2>2. send[s].tid \in Transfers /\ Concluded(send[s])
    BY <2>1 DEF TypeInv, Owned, Busy
  <2>3. C \in SUBSET Fragments
    BY <1>2, <2>1, SackSets
  <2> HIDE DEF C
  <2>4. /\ p \in SendSlots
        /\ p.tid = send[s].tid /\ p.stream = send[s].stream /\ p.total = send[s].total
        /\ p.acked \subseteq send[s].acked \cup C
        /\ p.st # "free" /\ Concluded(p)
    BY <2>1, <2>2, <2>3, MarkAckedEffect
  <2> HIDE DEF p
  <2>5. lost \in SUBSET Fragments /\ BeforeExhausted(p, lost) \in SUBSET Fragments
    BY <1>2, <2>4, SackSets, BeforeExhaustedType
  <2> HIDE DEF lost
  <2>6. \A x \in SendSlots : x.tid = p.tid /\ x.stream = p.stream /\ x.total = p.total
            /\ WireFrom(x) => WireFrom(send[s])
    BY <2>4 DEF WireFrom
  <2>7. ASSUME NEW ok \in Accepted(BeforeExhausted(p, lost)),
               send' = [send EXCEPT ![s] = Finish(Resent(p, ok), "timeout")],
               Transmit(p, ok, {})
        PROVE  \E q : Continues(q, p) /\ send' = [send EXCEPT ![s] = q] /\ WireFrom(send[s])
    <3>1. ok \in SUBSET Fragments
      BY <2>5 DEF Accepted
    <3>2. Continues(Resent(p, ok), p)
      BY <2>4, <3>1, ResentContinues
    <3>3. Continues(Finish(Resent(p, ok), "timeout"), p)
      BY <3>2, FinishContinues, ContinuesTransitive DEF Continues
    <3>4. WireFrom(p)
      BY <1>3, <2>2, <2>4, <2>7, <3>1, TransmitEffect
    <3> QED BY <2>4, <2>6, <2>7, <3>3, <3>4
  <2>8. ASSUME NEW ok \in Accepted(lost), SendContinue(s, Resent(p, ok), ok)
        PROVE  \E q : Continues(q, p) /\ send' = [send EXCEPT ![s] = q] /\ WireFrom(send[s])
    <3>1. ok \in SUBSET Fragments
      BY <2>5 DEF Accepted
    <3> DEFINE r == Resent(p, ok)
    <3>2. Continues(r, p)
      BY <2>4, <3>1, ResentContinues
    <3>3. r \in SendSlots /\ r.tid \in Transfers
      BY <2>2, <2>4, <3>2 DEF Continues
    <3>4. SendContinue(s, r, ok)
      BY <2>8
    <3> HIDE DEF r
    <3>5. /\ \E q : Continues(q, r) /\ send' = [send EXCEPT ![s] = q]
          /\ WireFrom(r)
      BY <1>3, <2>1, <3>1, <3>3, <3>4, SendContinueEffect
    <3>6. WireFrom(send[s])
      BY <2>6, <3>2, <3>3, <3>5 DEF Continues
    <3> QED BY <3>2, <3>5, <3>6, ContinuesTransitive
  <2>9. \E q : Continues(q, p) /\ send' = [send EXCEPT ![s] = q] /\ WireFrom(send[s])
    BY <1>5, <2>7, <2>8 DEF C, p, lost
  <2> QED BY <2>4, <2>9 DEF Continues, C
<1> QED BY <1>1, <1>2, <1>4, <1>5 DEF HandleSack

------------------------------------------------------------------------------
(* What the receiver's handlers do *)

\* Every SACK on its way was there before or is this one.
BackFrom(sack) ==
  /\ back' \in Seq(SackPackets)
  /\ \A n \in 1 .. Len(back') :
        \/ n \in 1 .. Len(back) /\ back'[n] = back[n]
        \/ back'[n] = sack

\* x differs from y in the bookkeeping of SACKs only.
SameBuffer(x, y) ==
  /\ x \in RecvSlots
  /\ x.on = y.on /\ x.stream = y.stream /\ x.total = y.total /\ x.buf = y.buf

\* A packet was taken into receive slot r, which thereby became "slot" and may have
\* been handed over, and all SACKs sent on the way are those of "slot".
TakenInto(r, slot, pkt) ==
  /\ arrived' = [arrived EXCEPT ![pkt.tid] = @ \cup {pkt.idx}]
  /\ \E x : /\ x = EmptyRecv \/ SameBuffer(x, slot)
            /\ recv' = [recv EXCEPT ![r] = x]
  /\ BackFrom(SackOf(slot))
  /\ \/ inbox' = inbox
     \/ /\ Whole(slot) /\ inbox' = Append(inbox, Contributors(slot))
        /\ recv' = [recv EXCEPT ![r] = EmptyRecv]
  /\ lastDone' \subseteq Streams

LEMMA BackUnchanged ==
  ASSUME back \in Seq(SackPackets), NEW sack, UNCHANGED back
  PROVE  BackFrom(sack)
BY DEF BackFrom

LEMMA BackGrows ==
  ASSUME back \in Seq(SackPackets), NEW slot \in RecvSlots, NEW m \in Nat,
         TransmitSack(SackOf(slot), m)
  PROVE  BackFrom(SackOf(slot))
BY SackType, TransmitSackEffect DEF BackFrom

LEMMA SendSackEffect ==
  ASSUME back \in Seq(SackPackets), NEW r \in Recvs, NEW slot \in RecvSlots,
         SendSack(r, slot)
  PROVE  /\ \E x : SameBuffer(x, slot) /\ recv' = [recv EXCEPT ![r] = x]
         /\ BackFrom(SackOf(slot))
<1>1. SameBuffer(slot, slot)
  BY DEF SameBuffer
<1>2. SameBuffer(SackBooked(slot), slot)
  BY SackBookedType DEF SameBuffer, SackBooked, RecvSlots
<1>3. ASSUME NEW m \in IF Faults THEN 0 .. 1 ELSE {1}, TransmitSack(SackOf(slot), m)
      PROVE  BackFrom(SackOf(slot))
  <2>1. m \in Nat
    OBVIOUS
  <2> QED BY <1>3, <2>1, BackGrows
<1> QED BY <1>1, <1>2, <1>3, BackUnchanged DEF SendSack

LEMMA CompleteEffect ==
  ASSUME back \in Seq(SackPackets), NEW r \in Recvs, NEW slot \in RecvSlots,
         NEW earlier \in {0, 1}, Complete(r, slot, earlier)
  PROVE  /\ recv' = [recv EXCEPT ![r] = EmptyRecv]
         /\ BackFrom(SackOf(slot))
         /\ inbox' = Append(inbox, Contributors(slot))
         /\ lastDone' \subseteq Streams
<1>1. PICK m \in IF Faults THEN 0 .. earlier + 1 ELSE {earlier + 1} :
          TransmitSack(SackOf(slot), m)
  BY DEF Complete
<1>2. m \in Nat
  BY <1>1
<1>3. BackFrom(SackOf(slot))
  BY <1>1, <1>2, BackGrows
<1>4. slot.stream \in Streams
  BY DEF RecvSlots
<1> QED BY <1>3, <1>4 DEF Complete

\* The START branch of flux_fragment_recv_handle: the slot is reset, or opened with
\* the packet.
LEMMA HandleStartEffect ==
  ASSUME TypeOK, NEW r \in Recvs, NEW pkt \in DataPackets, pkt.idx = 0,
         HandleStart(r, pkt)
  PROVE  \/ /\ recv' = [recv EXCEPT ![r] = EmptyRecv] /\ lastDone' \subseteq Streams
            /\ UNCHANGED <<back, arrived, inbox>>
         \/ TakenInto(r, OpenedRecv(pkt), pkt)
<1> DEFINE slot == OpenedRecv(pkt)
<1>1. slot \in RecvSlots
  BY OpenedRecvType
<1>2. back \in Seq(SackPackets)
  BY DEF TypeOK
<1>3. CASE /\ recv' = [recv EXCEPT ![r] = EmptyRecv] /\ lastDone' = {}
           /\ UNCHANGED <<back, arrived, inbox>>
  BY <1>3
<1> DEFINE Arrives == arrived' = [arrived EXCEPT ![pkt.tid] = @ \cup {pkt.idx}]
<1>4. CASE Arrives /\ Whole(slot) /\ Complete(r, slot, 0)
  BY <1>1, <1>2, <1>4, CompleteEffect DEF TakenInto
<1>5. CASE /\ Arrives /\ recv' = [recv EXCEPT ![r] = slot]
           /\ lastDone' = {} /\ UNCHANGED <<back, inbox>>
  BY <1>1, <1>2, <1>5, BackUnchanged DEF TakenInto, SameBuffer
<1> QED BY <1>3, <1>4, <1>5 DEF HandleStart

\* Its FRAGMENT branch: the slot is dropped, the packet ignored, or taken in.
LEMMA HandleFragmentEffect ==
  ASSUME TypeOK, NEW r \in Recvs, NEW pkt \in DataPackets, HandleFragment(r, pkt)
  PROVE  \/ /\ recv' = [recv EXCEPT ![r] = EmptyRecv] \/ UNCHANGED recv
            /\ UNCHANGED <<back, arrived, inbox, lastDone>>
         \/ TakenInto(r, Stored(recv[r], pkt), pkt) /\ pkt.idx < recv[r].total
<1> DEFINE slot == Stored(recv[r], pkt)
<1>1. recv[r] \in RecvSlots /\ back \in Seq(SackPackets) /\ lastDone \subseteq Streams
  BY DEF TypeOK
<1>2. slot \in RecvSlots
  BY <1>1, StoredType
<1> HIDE DEF slot
<1>3. CASE /\ recv' = [recv EXCEPT ![r] = EmptyRecv]
           /\ UNCHANGED <<back, arrived, inbox, lastDone>>
  BY <1>3
<1>4. CASE UNCHANGED <<recv, back, arrived, inbox, lastDone>>
  BY <1>4
<1>5. ASSUME pkt.idx < recv[r].total,
             arrived' = [arrived EXCEPT ![pkt.tid] = @ \cup {pkt.idx}],
             NEW owed \in BOOLEAN,
             \/ /\ Whole(slot)
                /\ Complete(r, slot, IF owed THEN 1 ELSE 0)
             \/ /\ ~Whole(slot) /\ owed
                /\ SendSack(r, slot)
                /\ UNCHANGED <<inbox, lastDone>>
             \/ /\ ~Whole(slot) /\ ~owed
                /\ recv' = [recv EXCEPT ![r] = slot]
                /\ UNCHANGED <<back, inbox, lastDone>>
      PROVE  TakenInto(r, slot, pkt)
  <2>1. CASE Whole(slot) /\ Complete(r, slot, IF owed THEN 1 ELSE 0)
    <3>1. (IF owed THEN 1 ELSE 0) \in {0, 1}
      OBVIOUS
    <3> QED BY <1>1, <1>2, <1>5, <2>1, <3>1, CompleteEffect DEF TakenInto
  <2>2. CASE SendSack(r, slot) /\ UNCHANGED <<inbox, lastDone>>
    BY <1>1, <1>2, <1>5, <2>2, SendSackEffect DEF TakenInto
  <2>3. CASE recv' = [recv EXCEPT ![r] = slot] /\ UNCHANGED <<back, inbox, lastDone>>
    BY <1>1, <1>2, <1>5, <2>3, BackUnchanged DEF TakenInto, SameBuffer
  <2> QED BY <1>5, <2>1, <2>2, <2>3
<1>6. CASE /\ pkt.idx < recv[r].total /\ pkt.idx \notin Received(recv[r])
           /\ arrived' = [arrived EXCEPT ![pkt.tid] = @ \cup {pkt.idx}]
           /\ \E intervalOk \in BOOLEAN :
                LET owed == WindowTrigger(slot) \/ GapTrigger(slot, intervalOk) IN
                \/ /\ Whole(slot)
                   /\ Complete(r, slot, IF owed THEN 1 ELSE 0)
                \/ /\ ~Whole(slot) /\ owed
                   /\ SendSack(r, slot)
                   /\ UNCHANGED <<inbox, lastDone>>
                \/ /\ ~Whole(slot) /\ ~owed
                   /\ recv' = [recv EXCEPT ![r] = slot]
                   /\ UNCHANGED <<back, inbox, lastDone>>
  <2>1. PICK intervalOk \in BOOLEAN :
                LET owed == WindowTrigger(slot) \/ GapTrigger(slot, intervalOk) IN
                \/ /\ Whole(slot)
                   /\ Complete(r, slot, IF owed THEN 1 ELSE 0)
                \/ /\ ~Whole(slot) /\ owed
                   /\ SendSack(r, slot)
                   /\ UNCHANGED <<inbox, lastDone>>
                \/ /\ ~Whole(slot) /\ ~owed
                   /\ recv' = [recv EXCEPT ![r] = slot]
                   /\ UNCHANGED <<back, inbox, lastDone>>
    BY <1>6
  <2>2. (WindowTrigger(slot) \/ GapTrigger(slot, intervalOk)) \in BOOLEAN
    OBVIOUS
  <2>3. TakenInto(r, slot, pkt)
    BY <1>5, <1>6, <2>1, <2>2
  <2> QED BY <1>6, <2>3 DEF slot
<1> QED BY <1>3, <1>4, <1>6 DEF HandleFragment, slot

------------------------------------------------------------------------------
(* Type correctness *)

LEMMA TypeInit == Init => TypeInv
<1> SUFFICES ASSUME Init PROVE TypeInv
  OBVIOUS
<1>1. 0 \in Streams /\ 0 \in 0 .. MaxFragments
  BY PacketConstants DEF Streams
<1>2. TypeOK
  BY <1>1, EmptySlotType, EmptyRecvType DEF Init, TypeOK
<1>3. Owned
  BY DEF Init, Owned, Busy, EmptySlot
<1> QED BY <1>2, <1>3 DEF TypeInv

\* The part of TypeInv about the send slots, when one of them changes.
LEMMA SlotTyped ==
  ASSUME TypeInv, NEW s \in Slots, NEW q \in SendSlots,
         q.st # "free" => q.tid \in Transfers /\ Concluded(q),
         send' = [send EXCEPT ![s] = q]
  PROVE  send' \in [Slots -> SendSlots] /\ Owned'
BY DEF TypeInv, TypeOK, Owned, Busy

LEMMA SlotCleared ==
  ASSUME TypeInv, NEW s \in Slots, send' = [send EXCEPT ![s] = EmptySlot]
  PROVE  send' \in [Slots -> SendSlots] /\ Owned'
<1>1. EmptySlot.st = "free"
  BY DEF EmptySlot
<1> QED BY <1>1, EmptySlotType, SlotTyped

LEMMA SendType ==
  ASSUME TypeInv, NEW t \in Transfers, NEW total \in Totals, NEW w \in Windows,
         NEW th \in Thresholds, Send(t, total, w, th)
  PROVE  TypeInv'
<1>1. total \in 1 .. MaxFragments /\ w \in 0 .. Unlimited /\ th \in 0 .. 255
  BY TransferConstants
<1>2. PICK s \in Slots, c \in Streams :
        /\ nextStream' = (c + 1) % NumStreams
        /\ send' = [send EXCEPT ![s] = StartedSlot(t, c, total, w, th)]
  BY DEF Send
<1> DEFINE q == StartedSlot(t, c, total, w, th)
<1>3. q \in SendSlots
  BY <1>1, StartedSlotType
<1>4. q.tid = t /\ Concluded(q)
  BY DEF StartedSlot, EmptySlot, Concluded
<1> HIDE DEF q
<1>5. send' \in [Slots -> SendSlots] /\ Owned'
  BY <1>2, <1>3, <1>4, SlotTyped DEF q
<1>6. nextStream' \in Streams
  BY <1>2, PacketConstants DEF Streams
<1>7. total \in 0 .. MaxFragments
  BY <1>1
<1> QED BY <1>5, <1>6, <1>7 DEF Send, TypeInv, TypeOK

LEMMA SendRefusedType ==
  ASSUME TypeInv, NEW t \in Transfers, SendRefused(t)
  PROVE  TypeInv'
<1>1. PICK c \in Streams : nextStream' = (c + 1) % NumStreams
  BY DEF SendRefused
<1>2. nextStream' \in Streams
  BY <1>1, PacketConstants DEF Streams
<1> QED BY <1>2 DEF SendRefused, TypeInv, TypeOK, Owned, Busy

LEMMA SendResetType ==
  ASSUME TypeInv, NEW s \in Slots, SendReset(s)
  PROVE  TypeInv'
BY SlotCleared DEF SendReset, TypeInv, TypeOK

LEMMA RecvResetType ==
  ASSUME TypeInv, NEW c \in Streams, RecvReset(c)
  PROVE  TypeInv'
<1>1. recv' \in [Recvs -> RecvSlots]
  BY EmptyRecvType DEF RecvReset, TypeInv, TypeOK
<1> QED BY <1>1 DEF RecvReset, TypeInv, TypeOK, Owned, Busy

LEMMA DriveType ==
  ASSUME TypeInv, NEW s \in Slots, Drive(s)
  PROVE  TypeInv'
<1>1. /\ send[s] \in SendSlots /\ send[s].tid \in Transfers
      /\ send[s].st # "free" /\ Concluded(send[s])
  BY DEF TypeInv, TypeOK, Owned, Busy, Drive, Active
<1>2. wire \in Seq(DataPackets) /\ {} \in SUBSET Fragments
  BY DEF TypeInv, TypeOK
<1>3. /\ \E q : Continues(q, send[s]) /\ send' = [send EXCEPT ![s] = q]
      /\ WireFrom(send[s])
  BY <1>1, <1>2, SendContinueEffect DEF Drive
<1>4. send' \in [Slots -> SendSlots] /\ Owned'
  BY <1>1, <1>3, SlotTyped DEF Continues
<1> QED BY <1>3, <1>4 DEF Drive, TypeInv, TypeOK, WireFrom

LEMMA ReportCompletionType ==
  ASSUME TypeInv, NEW s \in Slots, ReportCompletion(s)
  PROVE  TypeInv'
<1>1. send[s].status \in {"ok", "timeout"}
  BY DEF ReportCompletion, TypeInv, TypeOK, SendSlots, Owned, Busy, Concluded
<1> QED BY <1>1, SlotCleared DEF ReportCompletion, TypeInv, TypeOK

LEMMA DeadlineType ==
  ASSUME TypeInv, NEW s \in Slots, Deadline(s)
  PROVE  TypeInv'
BY SlotCleared DEF Deadline, TypeInv, TypeOK

LEMMA RetransmitTimeoutType ==
  ASSUME TypeInv, NEW s \in Slots, NEW i \in Fragments, RetransmitTimeout(s, i)
  PROVE  TypeInv'
<1> DEFINE q == [send[s] EXCEPT !.late = @ \cup {i}]
<1>1. send[s] \in SendSlots
  BY DEF TypeInv, TypeOK
<1>2. q \in SendSlots /\ q.st = send[s].st /\ q.tid = send[s].tid /\ q.status = send[s].status
  BY <1>1 DEF SendSlots
<1>3. send' = [send EXCEPT ![s] = q]
  BY DEF RetransmitTimeout
<1> HIDE DEF q
<1>4. send' \in [Slots -> SendSlots] /\ Owned'
  BY <1>2, <1>3, SlotTyped DEF TypeInv, Owned, Busy, Concluded
<1> QED BY <1>4 DEF RetransmitTimeout, TypeInv, TypeOK

LEMMA HandleSackType ==
  ASSUME TypeInv, HandleSack
  PROVE  TypeInv'
<1>1. back' \in Seq(SackPackets)
  <2>1. back # <<>> /\ back' = Tail(back)
    BY DEF HandleSack
  <2> QED BY <2>1, HeadTailProperties DEF TypeInv, TypeOK
<1>2. CASE UNCHANGED <<send, wire>>
  BY <1>1, <1>2 DEF HandleSack, TypeInv, TypeOK, Owned, Busy
<1>3. ASSUME NEW s \in SendFind(Head(back).stream), NEW q \in SendSlots,
             send' = [send EXCEPT ![s] = q],
             q.tid = send[s].tid, Concluded(q), WireFrom(send[s])
      PROVE  TypeInv'
  <2>1. s \in Slots /\ send[s].tid \in Transfers
    BY DEF SendFind, Active, TypeInv, Owned, Busy
  <2>2. send' \in [Slots -> SendSlots] /\ Owned'
    BY <1>3, <2>1, SlotTyped
  <2> QED BY <1>1, <1>3, <2>2 DEF HandleSack, TypeInv, TypeOK, WireFrom
<1> QED BY <1>2, <1>3, HandleSackEffect

\* What taking a packet in leaves well typed.
LEMMA TakenIntoType ==
  ASSUME TypeInv, NEW r \in Recvs, NEW slot \in RecvSlots, NEW pkt \in DataPackets,
         TakenInto(r, slot, pkt)
  PROVE  /\ recv' \in [Recvs -> RecvSlots]
         /\ back' \in Seq(SackPackets)
         /\ arrived' \in [Transfers -> SUBSET Fragments]
         /\ inbox' \in Seq(SUBSET Transfers)
         /\ lastDone' \subseteq Streams
<1>1. recv' \in [Recvs -> RecvSlots]
  BY EmptyRecvType DEF TypeInv, TypeOK, TakenInto, SameBuffer
<1>2. arrived' \in [Transfers -> SUBSET Fragments]
  BY DEF TypeInv, TypeOK, TakenInto, DataPackets
<1>3. Contributors(slot) \in SUBSET Transfers
  <2>1. \A i \in Received(slot) : slot.buf[i] \in 0 .. MaxTransfers /\ slot.buf[i] # 0
    BY DEF Received, RecvSlots, NoTransfer
  <2>2. \A i \in Received(slot) : slot.buf[i] \in Transfers
    BY <2>1, PacketConstants DEF Transfers
  <2> QED BY <2>2 DEF Contributors
<1>4. inbox' \in Seq(SUBSET Transfers)
  <2>1. inbox \in Seq(SUBSET Transfers)
    BY DEF TypeInv, TypeOK
  <2>2. Append(inbox, Contributors(slot)) \in Seq(SUBSET Transfers)
    BY <1>3, <2>1
  <2> QED BY <2>1, <2>2 DEF TakenInto
<1> QED BY <1>1, <1>2, <1>4 DEF TakenInto, BackFrom

\* A packet taken from the queue has slot r handle it, or is dropped.
LEMMA HandleDataEffect ==
  ASSUME TypeOK, HandleData
  PROVE  /\ wire # <<>> /\ wire' = Tail(wire) /\ Head(wire) \in DataPackets
         /\ \/ /\ \/ UNCHANGED recv
                  \/ \E r \in Recvs : recv' = [recv EXCEPT ![r] = EmptyRecv]
               /\ UNCHANGED <<back, arrived, inbox>> /\ lastDone' \subseteq Streams
            \/ /\ Head(wire).idx = 0
               /\ \E r \in Recvs : /\ r \in RecvFor(Head(wire).stream)
                                  /\ TakenInto(r, OpenedRecv(Head(wire)), Head(wire))
            \/ \E r \in RecvFind(Head(wire).stream) :
                  /\ TakenInto(r, Stored(recv[r], Head(wire)), Head(wire))
                  /\ Head(wire).idx < recv[r].total
<1> DEFINE pkt == Head(wire)
<1>1. wire # <<>> /\ wire' = Tail(wire)
  BY DEF HandleData
<1>2. pkt \in DataPackets
  BY <1>1, HeadTailProperties DEF TypeOK
<1>3. CASE UNCHANGED <<recv, lastDone, back, arrived, inbox>>
  BY <1>1, <1>2, <1>3 DEF TypeOK
<1>4. CASE pkt.idx = 0 /\ \E r \in RecvFor(pkt.stream) : HandleStart(r, pkt)
  <2>1. PICK r \in RecvFor(pkt.stream) : HandleStart(r, pkt)
    BY <1>4
  <2>2. r \in Recvs
    BY DEF RecvFor, RecvFind
  <2>3. \/ /\ recv' = [recv EXCEPT ![r] = EmptyRecv] /\ lastDone' \subseteq Streams
           /\ UNCHANGED <<back, arrived, inbox>>
        \/ TakenInto(r, OpenedRecv(pkt), pkt)
    BY <1>1, <1>2, <1>4, <2>1, <2>2, HandleStartEffect
  <2> QED BY <1>1, <1>2, <1>4, <2>2, <2>3
<1>5. CASE pkt.idx # 0 /\ \E r \in RecvFind(pkt.stream) : HandleFragment(r, pkt)
  <2>1. PICK r \in RecvFind(pkt.stream) : HandleFragment(r, pkt)
    BY <1>5
  <2>2. r \in Recvs
    BY DEF RecvFind
  <2>3. \/ /\ recv' = [recv EXCEPT ![r] = EmptyRecv] \/ UNCHANGED recv
           /\ UNCHANGED <<back, arrived, inbox, lastDone>>
        \/ TakenInto(r, Stored(recv[r], pkt), pkt) /\ pkt.idx < recv[r].total
    BY <1>2, <2>1, <2>2, HandleFragmentEffect
  <2> QED BY <1>1, <1>2, <2>2, <2>3 DEF TypeOK
<1> QED BY <1>3, <1>4, <1>5 DEF HandleData

LEMMA HandleDataType ==
  ASSUME TypeInv, HandleData
  PROVE  TypeInv'
<1> DEFINE pkt == Head(wire)
<1>1. TypeOK
  BY DEF TypeInv
<1>2. pkt \in DataPackets
  BY <1>1, HandleDataEffect
<1>3. wire' \in Seq(DataPackets)
  BY <1>1, HandleDataEffect, HeadTailProperties DEF TypeOK
<1> DEFINE Typed == /\ recv' \in [Recvs -> RecvSlots]
                    /\ back' \in Seq(SackPackets)
                    /\ arrived' \in [Transfers -> SUBSET Fragments]
                    /\ inbox' \in Seq(SUBSET Transfers)
                    /\ lastDone' \subseteq Streams
<1>4. Typed
  <2> HIDE DEF pkt
  <2>1. CASE /\ \/ UNCHANGED recv
                \/ \E r \in Recvs : recv' = [recv EXCEPT ![r] = EmptyRecv]
             /\ UNCHANGED <<back, arrived, inbox>> /\ lastDone' \subseteq Streams
    BY <1>1, <2>1, EmptyRecvType DEF TypeOK
  <2>2. ASSUME NEW r \in Recvs, TakenInto(r, OpenedRecv(pkt), pkt)
        PROVE  Typed
    BY <1>2, <2>2, OpenedRecvType, TakenIntoType
  <2>3. ASSUME NEW r \in RecvFind(pkt.stream), TakenInto(r, Stored(recv[r], pkt), pkt)
        PROVE  Typed
    <3>1. r \in Recvs /\ recv[r] \in RecvSlots
      BY <1>1 DEF RecvFind, TypeOK
    <3> QED BY <1>2, <2>3, <3>1, StoredType, TakenIntoType
  <2> QED BY <1>1, <2>1, <2>2, <2>3, HandleDataEffect DEF pkt
<1> QED BY <1>3, <1>4 DEF HandleData, TypeInv, TypeOK, Owned, Busy

LEMMA RecvTimeoutType ==
  ASSUME TypeInv, NEW r \in Recvs, RecvTimeout(r)
  PROVE  TypeInv'
BY EmptyRecvType DEF RecvTimeout, TypeInv, TypeOK, Owned, Busy

LEMMA DelayedSackType ==
  ASSUME TypeInv, NEW r \in Recvs, DelayedSack(r)
  PROVE  TypeInv'
<1>1. recv[r] \in RecvSlots /\ back \in Seq(SackPackets)
  BY DEF TypeInv, TypeOK
<1>2. /\ \E x : SameBuffer(x, recv[r]) /\ recv' = [recv EXCEPT ![r] = x]
      /\ BackFrom(SackOf(recv[r]))
  BY <1>1, SendSackEffect DEF DelayedSack
<1>3. recv' \in [Recvs -> RecvSlots] /\ back' \in Seq(SackPackets)
  BY <1>2 DEF SameBuffer, BackFrom, TypeInv, TypeOK
<1> QED BY <1>3 DEF DelayedSack, TypeInv, TypeOK, Owned, Busy

\* TypeInv is preserved by every step.
LEMMA TypeStep == TypeInv /\ [Next]_vars => TypeInv'
<1> SUFFICES ASSUME TypeInv, [Next]_vars PROVE TypeInv'
  OBVIOUS
<1>1. CASE SomeSend
  BY <1>1, SendType DEF SomeSend
<1>2. CASE \E t \in Transfers : SendRefused(t)
  BY <1>2, SendRefusedType
<1>3. CASE \E s \in Slots : SendReset(s) \/ Drive(s) \/ ReportCompletion(s) \/ Deadline(s)
  BY <1>3, SendResetType, DriveType, ReportCompletionType, DeadlineType
<1>4. CASE \E s \in Slots, i \in Fragments : RetransmitTimeout(s, i)
  BY <1>4, RetransmitTimeoutType
<1>5. CASE \E c \in Streams : RecvReset(c)
  BY <1>5, RecvResetType
<1>6. CASE HandleSack
  BY <1>6, HandleSackType
<1>7. CASE HandleData
  BY <1>7, HandleDataType
<1>8. CASE \E r \in Recvs : RecvTimeout(r) \/ DelayedSack(r)
  BY <1>8, RecvTimeoutType, DelayedSackType
<1>9. CASE UNCHANGED vars
  BY <1>9 DEF vars, TypeInv, TypeOK, Owned, Busy
<1> QED BY <1>1, <1>2, <1>3, <1>4, <1>5, <1>6, <1>7, <1>8, <1>9 DEF Next

\* The slots, queues and histories keep their types in every reachable state.
THEOREM TypeCorrect == Spec => []TypeOK
<1>1. TypeInv => TypeOK
  BY DEF TypeInv
<1> QED BY TypeInit, TypeStep, <1>1, PTL DEF Spec

------------------------------------------------------------------------------
(* One stream id, one transfer: the invariant *)

\* Transfers 1 .. k have been tried, and each drew one stream id.
Numbered ==
  \E k \in 0 .. MaxTransfers :
    /\ \A t \in Transfers : outcome[t] = "unsent" <=> t > k
    /\ nextStream = k % NumStreams

\* A slot sends on the stream of its transfer, and what it holds for acknowledged
\* has arrived.
SlotsOwn ==
  \A s \in Slots : Busy(s) =>
    /\ send[s].stream = send[s].tid - 1 /\ send[s].total >= 1
    /\ outcome[send[s].tid] # "unsent"
    /\ send[s].acked \subseteq arrived[send[s].tid]

WireOwn ==
  \A n \in 1 .. Len(wire) :
    /\ wire[n].tid = wire[n].stream + 1
    /\ wire[n].idx = 0 => wire[n].total >= 1

\* A receive slot has something in its buffer, all of it from its stream's transfer.
BufferOwn(r, stored) ==
  LET t == r.stream + 1
  IN  /\ t \in Transfers /\ Received(r) # {}
      /\ \A i \in Fragments : r.buf[i] # NoTransfer => r.buf[i] = t /\ i \in stored[t]

BuffersOwn == \A r \in Recvs : recv[r].on => BufferOwn(recv[r], arrived)

\* A SACK confirms only fragments of its stream's transfer that arrived.
SackOwn(sack, stored) ==
  LET t == sack.stream + 1
  IN  /\ t \in Transfers
      /\ \A i \in 0 .. sack.num : i \notin sack.lost => i \in stored[t]

SacksOwn == \A n \in 1 .. Len(back) : SackOwn(back[n], arrived)

InboxOwn == \A n \in 1 .. Len(inbox) : \E t \in Transfers : inbox[n] = {t}

StreamInv ==
  Numbered /\ SlotsOwn /\ WireOwn /\ BuffersOwn /\ SacksOwn /\ InboxOwn

\* The application sends no more messages than there are stream ids.
NoReuse == MaxTransfers <= NumStreams

LEMMA StreamInit == Init => StreamInv
<1> SUFFICES ASSUME Init PROVE StreamInv
  OBVIOUS
<1>1. Numbered
  <2>1. 0 % NumStreams = 0
    BY PacketConstants
  <2>2. 0 \in 0 .. MaxTransfers /\ \A t \in Transfers : t > 0
    BY PacketConstants DEF Transfers
  <2> QED BY <2>1, <2>2 DEF Init, Numbered
<1>2. SlotsOwn /\ BuffersOwn
  BY DEF Init, SlotsOwn, BuffersOwn, Busy, EmptySlot, EmptyRecv
<1>3. WireOwn /\ SacksOwn /\ InboxOwn
  BY DEF Init, WireOwn, SacksOwn, InboxOwn
<1> QED BY <1>1, <1>2, <1>3 DEF StreamInv

------------------------------------------------------------------------------
(* The allocator of stream ids *)

LEMMA SmallModulus ==
  ASSUME NEW N \in Nat \ {0}, NEW a \in 0 .. N - 1
  PROVE  a % N = a
OBVIOUS

LEMMA SmallMultiple ==
  ASSUME NEW N \in Nat \ {0}, NEW x \in Int, x < N, -N < x, x % N = 0
  PROVE  x = 0
OBVIOUS

\* flux_session_alloc_stream_id gives the t-th transfer the stream id t - 1.
LEMMA StreamDrawn ==
  ASSUME NoReuse, TypeInv, Numbered, SlotsOwn, NEW t \in Transfers, Unsent(t),
         NEW c \in Streams, NextFreeStream(c)
  PROVE  /\ c = t - 1
         /\ \A o \in Transfers : outcome[o] = "unsent" <=> o >= t
<1>1. PICK k \in 0 .. MaxTransfers :
          /\ \A o \in Transfers : outcome[o] = "unsent" <=> o > k
          /\ nextStream = k % NumStreams
  BY DEF Numbered
<1>2. t = k + 1
  <2>1. t > k /\ t \in 1 .. MaxTransfers
    BY <1>1 DEF Unsent, Transfers
  <2>2. k + 1 \in Transfers
    BY <1>1, <2>1, PacketConstants DEF Transfers
  <2>3. ~ (k + 1 < t)
    BY <1>1, <2>2 DEF Unsent
  <2> QED BY <1>1, <2>1, <2>3
<1>3. k \in 0 .. NumStreams - 1
  BY <1>1, <1>2, PacketConstants DEF Transfers, NoReuse
<1>4. nextStream = k
  BY <1>1, <1>3, SmallModulus, PacketConstants
<1>5. ~ StreamInUse(k)
  <2>1. ASSUME NEW s \in Slots, Busy(s), send[s].stream = k
        PROVE  FALSE
    <3>1. send[s].tid \in Transfers /\ send[s].tid = k + 1
      BY <1>1, <2>1, PacketConstants DEF TypeInv, Owned, SlotsOwn, Transfers
    <3>2. outcome[k + 1] # "unsent"
      BY <2>1, <3>1 DEF SlotsOwn
    <3> QED BY <1>2, <3>1, <3>2 DEF Unsent
  <2> QED BY <2>1 DEF StreamInUse
<1>6. k \in Streams /\ Ahead(k) = 0
  <2>1. k - k = 0 /\ 0 % NumStreams = 0
    BY <1>3, PacketConstants
  <2> QED BY <1>3, <1>4, <2>1 DEF Ahead, Streams
<1>7. Ahead(c) = 0
  <2>1. Ahead(c) \in 0 .. NumStreams - 1
    BY <1>3, <1>4, PacketConstants DEF Ahead, Streams
  <2>2. ~ (0 < Ahead(c))
    BY <1>5, <1>6 DEF NextFreeStream
  <2> QED BY <2>1, <2>2, PacketConstants
<1>8. c = k
  <2>1. c - k \in Int /\ c - k < NumStreams /\ -NumStreams < c - k
    BY <1>3, PacketConstants DEF Streams
  <2>2. (c - k) % NumStreams = 0
    BY <1>4, <1>7 DEF Ahead
  <2>3. c - k = 0
    BY <2>1, <2>2, SmallMultiple, PacketConstants
  <2> QED BY <1>3, <2>3 DEF Streams
<1> QED BY <1>1, <1>2, <1>8, PacketConstants DEF Transfers

\* A transfer that draws its stream id, whether it starts or is refused, leaves
\* the numbering in order.
LEMMA DrawnNumbered ==
  ASSUME NoReuse, TypeInv, Numbered, SlotsOwn, NEW t \in Transfers, Unsent(t),
         NEW c \in Streams, NextFreeStream(c), nextStream' = (c + 1) % NumStreams,
         NEW x, x # "unsent", outcome' = [outcome EXCEPT ![t] = x]
  PROVE  Numbered'
<1>1. c = t - 1 /\ \A o \in Transfers : outcome[o] = "unsent" <=> o >= t
  BY StreamDrawn
<1>2. nextStream' = t % NumStreams
  BY <1>1, PacketConstants DEF Transfers
<1>3. t \in 0 .. MaxTransfers
  BY PacketConstants DEF Transfers
<1>4. ASSUME NEW o \in Transfers
      PROVE  outcome'[o] = "unsent" <=> o > t
  <2>1. outcome'[o] = IF o = t THEN x ELSE outcome[o]
    BY DEF TypeInv, TypeOK
  <2>2. o \in Int /\ t \in Int
    BY DEF Transfers
  <2> QED BY <1>1, <2>1, <2>2
<1> QED BY <1>2, <1>3, <1>4 DEF Numbered

\* Telling the application the outcome of a transfer that was sent changes
\* nothing about which were.
LEMMA ToldNumbered ==
  ASSUME TypeInv, Numbered, NEW t \in Transfers, outcome[t] # "unsent",
         NEW x, x # "unsent", outcome' = [outcome EXCEPT ![t] = x], UNCHANGED nextStream
  PROVE  Numbered' /\ \A o \in Transfers : outcome'[o] = "unsent" <=> outcome[o] = "unsent"
<1>1. \A o \in Transfers : outcome'[o] = "unsent" <=> outcome[o] = "unsent"
  BY DEF TypeInv, TypeOK
<1> QED BY <1>1 DEF Numbered

\* A slot that is cleared after its outcome was told.
LEMMA SlotClearedStream ==
  ASSUME TypeInv, StreamInv, NEW s \in Slots, Busy(s),
         send' = [send EXCEPT ![s] = EmptySlot],
         NEW x, x # "unsent", outcome' = [outcome EXCEPT ![send[s].tid] = x],
         UNCHANGED <<nextStream, recv, wire, back, arrived, inbox>>
  PROVE  StreamInv'
<1>1. send[s].tid \in Transfers /\ outcome[send[s].tid] # "unsent"
  BY DEF TypeInv, Owned, StreamInv, SlotsOwn
<1>2. Numbered' /\ \A o \in Transfers : outcome'[o] = "unsent" <=> outcome[o] = "unsent"
  BY <1>1, ToldNumbered DEF StreamInv
<1>3. SlotsOwn'
  <2>1. ASSUME NEW o \in Slots, Busy(o)'
        PROVE  o # s /\ send'[o] = send[o] /\ Busy(o) /\ send[o].tid \in Transfers
    BY <2>1 DEF Busy, EmptySlot, TypeInv, TypeOK, Owned
  <2> QED BY <1>2, <2>1 DEF SlotsOwn, StreamInv
<1> QED BY <1>2, <1>3 DEF StreamInv, WireOwn, BuffersOwn, SacksOwn, InboxOwn

LEMMA WireFromOwn ==
  ASSUME WireOwn, NEW p \in SendSlots, p.stream = p.tid - 1, p.total >= 1,
         p.tid \in Transfers, WireFrom(p)
  PROVE  WireOwn'
<1>1. p.tid = p.stream + 1
  BY PacketConstants DEF Transfers
<1> QED BY <1>1 DEF WireOwn, WireFrom

\* A slot that goes on with its transfer, and holds for acknowledged nothing but
\* what arrived.
LEMMA SlotGoesOn ==
  ASSUME TypeInv, StreamInv, NEW s \in Slots, Busy(s), NEW q \in SendSlots,
         send' = [send EXCEPT ![s] = q],
         q.tid = send[s].tid, q.stream = send[s].stream, q.total = send[s].total,
         q.acked \subseteq arrived[q.tid], UNCHANGED <<outcome, arrived>>
  PROVE  SlotsOwn'
<1>1. \A o \in Slots : send'[o] = IF o = s THEN q ELSE send[o]
  BY DEF TypeInv, TypeOK
<1> QED BY <1>1 DEF SlotsOwn, StreamInv, Busy

LEMMA SendStream ==
  ASSUME NoReuse, TypeInv, StreamInv, NEW t \in Transfers, NEW total \in Totals,
         NEW w \in Windows, NEW th \in Thresholds, Send(t, total, w, th)
  PROVE  StreamInv'
<1>1. PICK s \in Slots, c \in Streams :
        /\ FreeSlot(s) /\ NextFreeStream(c)
        /\ nextStream' = (c + 1) % NumStreams
        /\ send' = [send EXCEPT ![s] = StartedSlot(t, c, total, w, th)]
  BY DEF Send
<1>2. Unsent(t) /\ outcome' = [outcome EXCEPT ![t] = "open"]
  BY DEF Send
<1>3. c = t - 1 /\ Numbered'
  BY <1>1, <1>2, StreamDrawn, DrawnNumbered DEF StreamInv
<1> DEFINE q == StartedSlot(t, c, total, w, th)
<1>4. q.tid = t /\ q.stream = c /\ q.total = total /\ q.acked = {}
  BY DEF StartedSlot, EmptySlot
<1>5. total >= 1
  BY TransferConstants
<1> HIDE DEF q
<1>6. SlotsOwn'
  <2>1. \A o \in Slots : send'[o] = IF o = s THEN q ELSE send[o]
    BY <1>1 DEF TypeInv, TypeOK, q
  <2>2. \A o \in Transfers : outcome'[o] # "unsent" \/ outcome'[o] = outcome[o]
    BY <1>2 DEF TypeInv, TypeOK
  <2>3. outcome'[t] # "unsent" /\ arrived' = arrived
    BY <1>2 DEF Send, TypeInv, TypeOK
  <2>4. ASSUME NEW o \in Slots, o # s, Busy(o)'
        PROVE  /\ send'[o].stream = send'[o].tid - 1 /\ send'[o].total >= 1
               /\ outcome'[send'[o].tid] # "unsent"
               /\ send'[o].acked \subseteq arrived'[send'[o].tid]
    BY <2>1, <2>2, <2>3, <2>4 DEF SlotsOwn, StreamInv, Busy, TypeInv, Owned
  <2> QED BY <1>3, <1>4, <1>5, <2>1, <2>3, <2>4 DEF SlotsOwn
<1> QED BY <1>3, <1>6 DEF Send, StreamInv, WireOwn, BuffersOwn, SacksOwn, InboxOwn

LEMMA SendRefusedStream ==
  ASSUME NoReuse, TypeInv, StreamInv, NEW t \in Transfers, SendRefused(t)
  PROVE  StreamInv'
<1>1. PICK c \in Streams : NextFreeStream(c) /\ nextStream' = (c + 1) % NumStreams
  BY DEF SendRefused
<1>2. Unsent(t) /\ outcome' = [outcome EXCEPT ![t] = "refused"]
  BY DEF SendRefused
<1>3. Numbered'
  BY <1>1, <1>2, DrawnNumbered DEF StreamInv
<1>4. SlotsOwn'
  <2>1. \A o \in Transfers : outcome'[o] # "unsent" \/ outcome'[o] = outcome[o]
    BY <1>2 DEF TypeInv, TypeOK
  <2> QED BY <2>1 DEF SendRefused, StreamInv, SlotsOwn, Busy, TypeInv, Owned
<1> QED BY <1>3, <1>4 DEF SendRefused, StreamInv, WireOwn, BuffersOwn, SacksOwn, InboxOwn

LEMMA SendResetStream ==
  ASSUME TypeInv, StreamInv, NEW s \in Slots, SendReset(s)
  PROVE  StreamInv'
BY SlotClearedStream DEF SendReset, Active, Busy

LEMMA ReportCompletionStream ==
  ASSUME TypeInv, StreamInv, NEW s \in Slots, ReportCompletion(s)
  PROVE  StreamInv'
<1>1. send[s].status # "unsent" /\ Busy(s)
  BY DEF ReportCompletion, TypeInv, TypeOK, SendSlots, Busy
<1> QED BY <1>1, SlotClearedStream DEF ReportCompletion

LEMMA DeadlineStream ==
  ASSUME TypeInv, StreamInv, NEW s \in Slots, Deadline(s)
  PROVE  StreamInv'
BY SlotClearedStream DEF Deadline, Active, Busy

LEMMA RetransmitTimeoutStream ==
  ASSUME TypeInv, StreamInv, NEW s \in Slots, NEW i \in Fragments,
         RetransmitTimeout(s, i)
  PROVE  StreamInv'
<1> DEFINE q == [send[s] EXCEPT !.late = @ \cup {i}]
<1>1. send[s] \in SendSlots /\ Busy(s)
  BY DEF RetransmitTimeout, TypeInv, TypeOK, Busy, Active
<1>2. /\ q \in SendSlots /\ q.tid = send[s].tid /\ q.stream = send[s].stream
      /\ q.total = send[s].total /\ q.acked = send[s].acked
  BY <1>1 DEF SendSlots
<1>3. send' = [send EXCEPT ![s] = q]
  BY DEF RetransmitTimeout
<1> HIDE DEF q
<1>4. send[s].acked \subseteq arrived[send[s].tid]
  BY <1>1 DEF StreamInv, SlotsOwn
<1>5. SlotsOwn'
  BY <1>1, <1>2, <1>3, <1>4, SlotGoesOn DEF RetransmitTimeout
<1> QED BY <1>5 DEF RetransmitTimeout, StreamInv, Numbered, WireOwn, BuffersOwn,
                    SacksOwn, InboxOwn

LEMMA DriveStream ==
  ASSUME TypeInv, StreamInv, NEW s \in Slots, Drive(s)
  PROVE  StreamInv'
<1>1. /\ Busy(s) /\ send[s] \in SendSlots /\ send[s].tid \in Transfers
      /\ send[s].stream = send[s].tid - 1 /\ send[s].total >= 1
      /\ send[s].acked \subseteq arrived[send[s].tid]
  BY DEF TypeInv, TypeOK, Owned, Busy, Drive, Active, StreamInv, SlotsOwn
<1>2. wire \in Seq(DataPackets) /\ {} \in SUBSET Fragments
  BY DEF TypeInv, TypeOK
<1>3. /\ \E q : Continues(q, send[s]) /\ send' = [send EXCEPT ![s] = q]
      /\ WireFrom(send[s])
  BY <1>1, <1>2, SendContinueEffect DEF Drive
<1>4. SlotsOwn'
  BY <1>1, <1>3, SlotGoesOn DEF Drive, Continues
<1>5. WireOwn'
  BY <1>1, <1>3, WireFromOwn DEF StreamInv
<1> QED BY <1>4, <1>5 DEF Drive, StreamInv, Numbered, BuffersOwn, SacksOwn, InboxOwn

\* What a SACK acknowledges in a slot of its stream has arrived.
LEMMA ClaimedArrived ==
  ASSUME NEW p \in SendSlots, NEW sack \in SackPackets, SackOwn(sack, arrived),
         p.tid = sack.stream + 1
  PROVE  Claimed(p, sack) \subseteq arrived[p.tid]
BY DEF Claimed, SackOwn

\* The queue of SACKs without its first one.
LEMMA SackTaken ==
  ASSUME TypeInv, SacksOwn, back # <<>>, back' = Tail(back), UNCHANGED arrived
  PROVE  SackOwn(Head(back), arrived) /\ SacksOwn'
<1>1. back \in Seq(SackPackets) /\ Len(back) \in Nat
  BY DEF TypeInv, TypeOK
<1>2. /\ Head(back) = back[1] /\ Len(back) >= 1
      /\ Len(Tail(back)) = Len(back) - 1
      /\ \A n \in 1 .. Len(Tail(back)) : Tail(back)[n] = back[n + 1]
  BY <1>1
<1>3. \A n \in 1 .. Len(Tail(back)) : n + 1 \in 1 .. Len(back)
  BY <1>1, <1>2
<1> QED BY <1>1, <1>2, <1>3 DEF SacksOwn

LEMMA HandleSackStream ==
  ASSUME TypeInv, StreamInv, HandleSack
  PROVE  StreamInv'
<1>1. back # <<>> /\ back' = Tail(back) /\ Head(back) \in SackPackets
  BY HandleSackEffect
<1>2. UNCHANGED <<nextStream, recv, outcome, arrived, inbox>>
  BY DEF HandleSack
<1>3. SackOwn(Head(back), arrived) /\ SacksOwn'
  BY <1>1, <1>2, SackTaken DEF StreamInv
<1>4. Numbered' /\ BuffersOwn' /\ InboxOwn'
  BY <1>2 DEF StreamInv, Numbered, BuffersOwn, InboxOwn
<1>5. CASE UNCHANGED <<send, wire>>
  BY <1>2, <1>3, <1>4, <1>5 DEF StreamInv, SlotsOwn, WireOwn, Busy
<1>6. ASSUME NEW s \in SendFind(Head(back).stream), NEW q \in SendSlots,
             send' = [send EXCEPT ![s] = q],
             q.tid = send[s].tid, q.stream = send[s].stream, q.total = send[s].total,
             q.acked \subseteq send[s].acked \cup Claimed(send[s], Head(back)),
             WireFrom(send[s])
      PROVE  StreamInv'
  <2>1. s \in Slots /\ Busy(s) /\ send[s].stream = Head(back).stream
    BY DEF SendFind, Active, Busy
  <2>2. /\ send[s] \in SendSlots /\ send[s].tid \in Transfers
        /\ send[s].stream = send[s].tid - 1 /\ send[s].total >= 1
        /\ send[s].acked \subseteq arrived[send[s].tid]
    BY <2>1 DEF TypeInv, TypeOK, Owned, StreamInv, SlotsOwn
  <2>3. send[s].tid = Head(back).stream + 1
    BY <2>1, <2>2, PacketConstants DEF Transfers
  <2>4. Claimed(send[s], Head(back)) \subseteq arrived[send[s].tid]
    BY <1>1, <1>3, <2>2, <2>3, ClaimedArrived
  <2>5. SlotsOwn'
    BY <1>2, <1>6, <2>1, <2>2, <2>4, SlotGoesOn
  <2>6. WireOwn'
    BY <1>6, <2>2, WireFromOwn DEF StreamInv
  <2> QED BY <1>3, <1>4, <2>5, <2>6 DEF StreamInv
<1> QED BY <1>5, <1>6, HandleSackEffect

------------------------------------------------------------------------------
(* The receiver's side of the invariant *)

\* More fragments arrive than before, and none is forgotten.
Grows == \A t \in Transfers : arrived[t] \subseteq arrived'[t]

LEMMA BufferStays ==
  ASSUME NEW x, NEW y, SameBuffer(x, y), BufferOwn(y, arrived), Grows
  PROVE  BufferOwn(x, arrived')
BY DEF BufferOwn, SameBuffer, Received, Grows

LEMMA SackStays ==
  ASSUME NEW sack, SackOwn(sack, arrived), Grows
  PROVE  SackOwn(sack, arrived')
BY DEF SackOwn, Grows

\* A buffer that is its transfer's own yields SACKs that are, and one message.
LEMMA BufferYields ==
  ASSUME NEW slot \in RecvSlots, NEW stored, BufferOwn(slot, stored)
  PROVE  /\ SackOwn(SackOf(slot), stored)
         /\ Contributors(slot) = {slot.stream + 1}
<1> DEFINE t == slot.stream + 1
<1>1. t \in Transfers /\ Received(slot) # {}
      /\ \A i \in Received(slot) : slot.buf[i] = t /\ i \in stored[t]
  BY DEF BufferOwn, Received
<1>2. \A i \in 0 .. SackOf(slot).num : i \notin SackOf(slot).lost => i \in stored[t]
  BY <1>1, SackIsSound
<1>3. SackOf(slot).stream = slot.stream
  BY DEF SackOf, SackPacket
<1>4. Contributors(slot) = {t}
  BY <1>1 DEF Contributors
<1> QED BY <1>1, <1>2, <1>3, <1>4 DEF SackOwn

\* SACKs on their way, when those of one more buffer join them.
LEMMA SacksFrom ==
  ASSUME SacksOwn, Grows, NEW slot \in RecvSlots, BufferOwn(slot, arrived'),
         BackFrom(SackOf(slot))
  PROVE  SacksOwn'
<1>1. SackOwn(SackOf(slot), arrived')
  BY BufferYields
<1>2. \A n \in 1 .. Len(back) : SackOwn(back[n], arrived')
  BY SackStays DEF SacksOwn
<1> QED BY <1>1, <1>2 DEF SacksOwn, BackFrom

\* A buffer that a START opened with a fragment of its own transfer.
LEMMA OpenedOwn ==
  ASSUME NEW pkt \in DataPackets, pkt.tid = pkt.stream + 1, pkt.total >= 1,
         NEW stored, 0 \in stored[pkt.tid]
  PROVE  BufferOwn(OpenedRecv(pkt), stored)
<1> DEFINE slot == OpenedRecv(pkt)
<1>1. 0 \in Fragments
  BY PacketConstants DEF Fragments
<1>2. /\ slot.stream = pkt.stream /\ slot.total = pkt.total
      /\ \A i \in Fragments : slot.buf[i] = IF i = 0 THEN pkt.tid ELSE NoTransfer
  BY <1>1 DEF OpenedRecv, EmptyRecv
<1>3. pkt.tid \in Transfers /\ pkt.tid # NoTransfer
  BY DEF DataPackets, Transfers, NoTransfer
<1>4. pkt.total \in Int
  BY PacketConstants DEF DataPackets
<1> HIDE DEF slot
<1>5. 0 \in Received(slot)
  BY <1>1, <1>2, <1>3, <1>4 DEF Received
<1> QED BY <1>2, <1>3, <1>5 DEF BufferOwn, slot

\* A buffer that took one more fragment of its own transfer.
LEMMA StoredOwn ==
  ASSUME NEW r \in RecvSlots, BufferOwn(r, arrived), Grows, NEW pkt \in DataPackets,
         pkt.stream = r.stream, pkt.tid = pkt.stream + 1, pkt.idx < r.total,
         pkt.idx \in arrived'[pkt.tid]
  PROVE  BufferOwn(Stored(r, pkt), arrived')
<1> DEFINE slot == Stored(r, pkt)
<1>1. pkt.idx \in Fragments /\ r.buf \in [Fragments -> 0 .. MaxTransfers]
  BY DEF DataPackets, RecvSlots
<1>2. /\ slot.stream = r.stream /\ slot.total = r.total
      /\ \A i \in Fragments : slot.buf[i] = IF i = pkt.idx THEN pkt.tid ELSE r.buf[i]
  BY <1>1 DEF Stored, RecvSlots
<1>3. pkt.tid \in Transfers /\ pkt.tid # NoTransfer
  BY DEF DataPackets, Transfers, NoTransfer
<1> HIDE DEF slot
<1>4. pkt.idx \in Received(slot)
  BY <1>1, <1>2, <1>3 DEF Received
<1>5. ASSUME NEW i \in Fragments, slot.buf[i] # NoTransfer
      PROVE  slot.buf[i] = r.stream + 1 /\ i \in arrived'[r.stream + 1]
  <2>1. CASE i = pkt.idx
    BY <1>2, <2>1
  <2>2. CASE i # pkt.idx
    BY <1>2, <1>5, <2>2 DEF BufferOwn, Grows
  <2> QED BY <2>1, <2>2
<1> QED BY <1>2, <1>4, <1>5 DEF BufferOwn, slot

\* What the arrival of a packet adds.
LEMMA ArrivalGrows ==
  ASSUME TypeOK, NEW pkt \in DataPackets,
         arrived' = [arrived EXCEPT ![pkt.tid] = @ \cup {pkt.idx}]
  PROVE  Grows /\ pkt.idx \in arrived'[pkt.tid]
BY DEF TypeOK, DataPackets, Grows

\* Taking a packet into a buffer that remains its transfer's own.
LEMMA TakenIntoStream ==
  ASSUME TypeInv, StreamInv, NEW r \in Recvs, NEW slot \in RecvSlots,
         NEW pkt \in DataPackets, TakenInto(r, slot, pkt), BufferOwn(slot, arrived')
  PROVE  BuffersOwn' /\ SacksOwn' /\ InboxOwn'
<1>1. Grows
  BY ArrivalGrows DEF TakenInto, TypeInv
<1>2. BuffersOwn'
  <2>1. PICK x : /\ x = EmptyRecv \/ SameBuffer(x, slot)
                 /\ recv' = [recv EXCEPT ![r] = x]
    BY DEF TakenInto
  <2>2. \A o \in Recvs : recv'[o] = IF o = r THEN x ELSE recv[o]
    BY <2>1 DEF TypeInv, TypeOK
  <2>3. x.on => BufferOwn(x, arrived')
    <3>1. CASE x = EmptyRecv
      BY <3>1 DEF EmptyRecv
    <3>2. CASE SameBuffer(x, slot)
      BY <3>2 DEF SameBuffer, BufferOwn, Received
    <3> QED BY <2>1, <3>1, <3>2
  <2>4. \A o \in Recvs : recv[o].on => BufferOwn(recv[o], arrived')
    BY <1>1 DEF StreamInv, BuffersOwn, BufferOwn, Grows
  <2> QED BY <2>2, <2>3, <2>4 DEF BuffersOwn
<1>3. SacksOwn'
  BY <1>1, SacksFrom DEF TakenInto, StreamInv
<1>4. InboxOwn'
  <2>1. CASE inbox' = inbox
    BY <2>1 DEF StreamInv, InboxOwn
  <2>2. CASE inbox' = Append(inbox, Contributors(slot))
    <3>1. Contributors(slot) = {slot.stream + 1} /\ slot.stream + 1 \in Transfers
      BY BufferYields DEF BufferOwn
    <3>2. inbox \in Seq(SUBSET Transfers) /\ {slot.stream + 1} \in SUBSET Transfers
      BY <3>1 DEF TypeInv, TypeOK
    <3>3. /\ Len(inbox') = Len(inbox) + 1
          /\ \A n \in 1 .. Len(inbox') :
                inbox'[n] = IF n <= Len(inbox) THEN inbox[n] ELSE {slot.stream + 1}
      BY <2>2, <3>1, <3>2
    <3>4. Len(inbox) \in Nat
      BY <3>2
    <3> QED BY <3>1, <3>3, <3>4 DEF StreamInv, InboxOwn
  <2> QED BY <2>1, <2>2 DEF TakenInto
<1> QED BY <1>2, <1>3, <1>4

LEMMA HandleDataStream ==
  ASSUME TypeInv, StreamInv, HandleData
  PROVE  StreamInv'
<1> DEFINE pkt == Head(wire)
<1>1. TypeOK
  BY DEF TypeInv
<1>2. wire # <<>> /\ wire' = Tail(wire) /\ pkt \in DataPackets
  BY <1>1, HandleDataEffect
<1>3. UNCHANGED <<send, nextStream, outcome>>
  BY DEF HandleData
<1>4. /\ pkt.tid = pkt.stream + 1
      /\ pkt.idx = 0 => pkt.total >= 1
      /\ WireOwn'
  <2>1. wire \in Seq(DataPackets) /\ Len(wire) \in Nat
    BY <1>1 DEF TypeOK
  <2>2. /\ pkt = wire[1] /\ Len(wire) >= 1
        /\ Len(Tail(wire)) = Len(wire) - 1
        /\ \A n \in 1 .. Len(Tail(wire)) : Tail(wire)[n] = wire[n + 1]
    BY <1>2, <2>1
  <2>3. \A n \in 1 .. Len(Tail(wire)) : n + 1 \in 1 .. Len(wire)
    BY <2>1, <2>2
  <2> QED BY <1>2, <2>1, <2>2, <2>3 DEF StreamInv, WireOwn
<1> HIDE DEF pkt
<1> DEFINE Side == Grows /\ BuffersOwn' /\ SacksOwn' /\ InboxOwn'
<1>5. ASSUME \/ UNCHANGED recv
             \/ \E r \in Recvs : recv' = [recv EXCEPT ![r] = EmptyRecv],
             UNCHANGED <<back, arrived, inbox>>
      PROVE  Side
  <2>1. \A o \in Recvs : recv'[o] = recv[o] \/ recv'[o] = EmptyRecv
    BY <1>1, <1>5 DEF TypeOK
  <2>2. ~EmptyRecv.on
    BY DEF EmptyRecv
  <2> QED BY <1>5, <2>1, <2>2 DEF StreamInv, BuffersOwn, SacksOwn, InboxOwn, Grows
<1>6. ASSUME pkt.idx = 0, NEW r \in Recvs, TakenInto(r, OpenedRecv(pkt), pkt)
      PROVE  Side
  <2>1. Grows /\ 0 \in arrived'[pkt.tid]
    BY <1>1, <1>2, <1>6, ArrivalGrows DEF TakenInto
  <2>2. BufferOwn(OpenedRecv(pkt), arrived') /\ OpenedRecv(pkt) \in RecvSlots
    BY <1>2, <1>4, <1>6, <2>1, OpenedOwn, OpenedRecvType
  <2> QED BY <1>2, <1>6, <2>1, <2>2, TakenIntoStream
<1>7. ASSUME NEW r \in RecvFind(pkt.stream), TakenInto(r, Stored(recv[r], pkt), pkt),
             pkt.idx < recv[r].total
      PROVE  Side
  <2>1. r \in Recvs /\ recv[r] \in RecvSlots /\ recv[r].on /\ recv[r].stream = pkt.stream
    BY <1>1 DEF RecvFind, TypeOK
  <2>2. BufferOwn(recv[r], arrived)
    BY <2>1 DEF StreamInv, BuffersOwn
  <2>3. Grows /\ pkt.idx \in arrived'[pkt.tid]
    BY <1>1, <1>2, <1>7, ArrivalGrows DEF TakenInto
  <2>4. BufferOwn(Stored(recv[r], pkt), arrived') /\ Stored(recv[r], pkt) \in RecvSlots
    BY <1>2, <1>4, <1>7, <2>1, <2>2, <2>3, StoredOwn, StoredType
  <2> QED BY <1>2, <1>7, <2>1, <2>3, <2>4, TakenIntoStream
<1>8. Side
  BY <1>1, <1>5, <1>6, <1>7, HandleDataEffect DEF pkt
<1>9. SlotsOwn'
  BY <1>3, <1>8 DEF StreamInv, SlotsOwn, Busy, Grows, TypeInv, Owned
<1>10. Numbered'
  BY <1>3 DEF StreamInv, Numbered
<1> QED BY <1>4, <1>8, <1>9, <1>10 DEF StreamInv

LEMMA DelayedSackStream ==
  ASSUME TypeInv, StreamInv, NEW r \in Recvs, DelayedSack(r)
  PROVE  StreamInv'
<1>1. recv[r] \in RecvSlots /\ back \in Seq(SackPackets)
  BY DEF TypeInv, TypeOK
<1>2. UNCHANGED <<send, nextStream, wire, outcome, arrived, inbox>> /\ recv[r].on
  BY DEF DelayedSack
<1>3. PICK x : SameBuffer(x, recv[r]) /\ recv' = [recv EXCEPT ![r] = x]
  BY <1>1, SendSackEffect DEF DelayedSack
<1>4. BackFrom(SackOf(recv[r]))
  BY <1>1, SendSackEffect DEF DelayedSack
<1>5. Grows /\ BufferOwn(recv[r], arrived)
  BY <1>2 DEF Grows, StreamInv, BuffersOwn
<1>6. BuffersOwn'
  <2>1. BufferOwn(x, arrived')
    BY <1>3, <1>5, BufferStays
  <2>2. \A o \in Recvs : recv'[o] = IF o = r THEN x ELSE recv[o]
    BY <1>3 DEF TypeInv, TypeOK
  <2> QED BY <1>2, <2>1, <2>2 DEF StreamInv, BuffersOwn
<1>7. SacksOwn'
  BY <1>1, <1>2, <1>4, <1>5, SacksFrom DEF StreamInv
<1> QED BY <1>2, <1>6, <1>7 DEF StreamInv, Numbered, SlotsOwn, WireOwn, InboxOwn, Busy

\* Receive slots that are reset.
LEMMA RecvClearedStream ==
  ASSUME StreamInv, \A r \in Recvs : recv'[r] \in {recv[r], EmptyRecv},
         UNCHANGED <<send, nextStream, wire, back, outcome, arrived, inbox>>
  PROVE  StreamInv'
<1>1. ~EmptyRecv.on
  BY DEF EmptyRecv
<1>2. BuffersOwn'
  BY <1>1 DEF StreamInv, BuffersOwn
<1> QED BY <1>2 DEF StreamInv, Numbered, SlotsOwn, WireOwn, SacksOwn, InboxOwn, Busy

LEMMA RecvResetStream ==
  ASSUME TypeInv, StreamInv, NEW c \in Streams, RecvReset(c)
  PROVE  StreamInv'
BY RecvClearedStream DEF RecvReset

LEMMA RecvTimeoutStream ==
  ASSUME TypeInv, StreamInv, NEW r \in Recvs, RecvTimeout(r)
  PROVE  StreamInv'
<1>1. \A o \in Recvs : recv'[o] \in {recv[o], EmptyRecv}
  BY DEF RecvTimeout, TypeInv, TypeOK
<1> QED BY <1>1, RecvClearedStream DEF RecvTimeout

\* StreamInv is preserved by every step, as long as there are stream ids enough.
LEMMA StreamStep ==
  ASSUME NoReuse, TypeInv, StreamInv, [Next]_vars
  PROVE  StreamInv'
<1>1. CASE SomeSend
  BY <1>1, SendStream DEF SomeSend
<1>2. CASE \E t \in Transfers : SendRefused(t)
  BY <1>2, SendRefusedStream
<1>3. CASE \E s \in Slots : SendReset(s) \/ Drive(s) \/ ReportCompletion(s) \/ Deadline(s)
  BY <1>3, SendResetStream, DriveStream, ReportCompletionStream, DeadlineStream
<1>4. CASE \E s \in Slots, i \in Fragments : RetransmitTimeout(s, i)
  BY <1>4, RetransmitTimeoutStream
<1>5. CASE \E c \in Streams : RecvReset(c)
  BY <1>5, RecvResetStream
<1>6. CASE HandleSack
  BY <1>6, HandleSackStream
<1>7. CASE HandleData
  BY <1>7, HandleDataStream
<1>8. CASE \E r \in Recvs : RecvTimeout(r) \/ DelayedSack(r)
  BY <1>8, RecvTimeoutStream, DelayedSackStream
<1>9. CASE UNCHANGED vars
  BY <1>9 DEF vars, StreamInv, Numbered, SlotsOwn, WireOwn, BuffersOwn, SacksOwn,
              InboxOwn, Busy
<1> QED BY <1>1, <1>2, <1>3, <1>4, <1>5, <1>6, <1>7, <1>8, <1>9 DEF Next

LEMMA StreamInvariant ==
  ASSUME NoReuse
  PROVE  Spec => [](TypeInv /\ StreamInv)
<1>1. TypeInv /\ StreamInv /\ [Next]_vars => (TypeInv /\ StreamInv)'
  BY TypeStep, StreamStep
<1> QED BY TypeInit, StreamInit, <1>1, PTL DEF Spec

\* While no stream id is drawn twice, the sender never books a fragment as
\* acknowledged that its peer has not stored: flux_handle_sack trusts a SACK,
\* however late or overtaken, and is right to.
THEOREM AckSoundness ==
  ASSUME NoReuse
  PROVE  Spec => []AckSound
<1>1. StreamInv => AckSound
  BY DEF StreamInv, SlotsOwn, AckSound
<1> QED BY StreamInvariant, <1>1, PTL

\* While no stream id is drawn twice, flux_fragment_recv_handle never hands over
\* a buffer with fragments of two messages, whatever is lost or sent again.
THEOREM DeliveryIntact ==
  ASSUME NoReuse
  PROVE  Spec => []DeliveredIntact
<1>1. TypeInv /\ StreamInv => DeliveredIntact
  <2> SUFFICES ASSUME TypeInv, StreamInv, NEW n \in DOMAIN inbox
               PROVE  Cardinality(inbox[n]) = 1
    BY DEF DeliveredIntact
  <2>1. n \in 1 .. Len(inbox)
    BY DEF TypeInv, TypeOK
  <2>2. PICK t \in Transfers : inbox[n] = {t}
    BY <2>1 DEF StreamInv, InboxOwn
  <2> QED BY <2>2, FS_Singleton
<1> QED BY StreamInvariant, <1>1, PTL
==============================================================================
