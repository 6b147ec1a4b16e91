------------------------- MODULE FluxDeliveryProofs --------------------------
(***************************************************************************)
(* Proofs about FluxTransfer for all values of its constants, as long as   *)
(* no stream id is used twice: the sender's counters and window, that      *)
(* ESP_OK means every fragment arrived, that no message is handed over     *)
(* twice, the order of streams, and with all of it that every step of the  *)
(* protocol is one that FluxDelivery, what it promises, allows.            *)
(***************************************************************************)
EXTENDS FluxTransferProofs

------------------------------------------------------------------------------
(* The tables of one send slot *)

\* What was sent is what the cursor passed; acknowledged and late fragments were
\* sent; the counters count; the window holds; only a full table completes.
Tabled(p) ==
  /\ p.current <= p.total
  /\ p.timed = 0 .. p.current - 1
  /\ p.acked \subseteq p.timed
  /\ p.late \subseteq p.timed \ p.acked
  /\ p.sent = Cardinality(p.acked)
  /\ p.inflight = Cardinality(Outstanding(p))
  /\ Limited(p) => p.inflight <= p.window
  /\ p.st = "active" => p.sent < p.total
  /\ p.status = "ok" => p.sent >= p.total

LEMMA StartedTabled ==
  ASSUME NEW t \in Transfers, NEW c \in Streams, NEW total \in 1 .. MaxFragments,
         NEW w \in 0 .. Unlimited, NEW th \in 0 .. 255
  PROVE  Tabled(StartedSlot(t, c, total, w, th))
<1> DEFINE q == StartedSlot(t, c, total, w, th)
<1>1. q \in SendSlots
  BY StartedSlotType
<1>2. /\ q.current = 0 /\ q.timed = {} /\ q.acked = {} /\ q.late = {} /\ q.sent = 0
      /\ q.inflight = 0 /\ q.status = "none" /\ q.total = total
  BY DEF StartedSlot, EmptySlot
<1>3. q.window \in Nat
  BY <1>1 DEF SendSlots, Unlimited
<1>4. Cardinality({}) = 0 /\ 0 .. 0 - 1 = {}
  BY FS_EmptySet
<1> HIDE DEF q
<1>5. Outstanding(q) = {}
  BY <1>2 DEF Outstanding
<1> QED BY <1>2, <1>3, <1>4, <1>5 DEF Tabled, q

LEMMA FinishTabled ==
  ASSUME NEW p \in SendSlots, Tabled(p)
  PROVE  Tabled(Finish(p, "timeout"))
<1> DEFINE q == Finish(p, "timeout")
<1>1. /\ q.current = p.current /\ q.total = p.total /\ q.timed = p.timed
      /\ q.acked = p.acked /\ q.late = p.late /\ q.sent = p.sent
      /\ q.inflight = p.inflight /\ q.window = p.window
      /\ q.st = "completed" /\ q.status = "timeout"
  BY DEF Finish, SendSlots
<1> HIDE DEF q
<1> QED BY <1>1 DEF Tabled, Outstanding, Limited, q

\* Fragments are sent again only if they were sent before, which changes none of
\* the counters.
LEMMA ResentTabled ==
  ASSUME NEW p \in SendSlots, Tabled(p), NEW S, S \subseteq p.timed
  PROVE  Tabled(Resent(p, S))
<1> DEFINE q == Resent(p, S)
<1>1. /\ q.current = p.current /\ q.total = p.total /\ q.timed = p.timed \cup S
      /\ q.acked = p.acked /\ q.late = p.late \ S /\ q.sent = p.sent
      /\ q.inflight = p.inflight /\ q.window = p.window
      /\ q.st = p.st /\ q.status = p.status
  BY DEF Resent, SendSlots
<1>2. p.timed \cup S = p.timed
  OBVIOUS
<1> HIDE DEF q
<1> QED BY <1>1, <1>2 DEF Tabled, Outstanding, Limited, q

\* An acknowledgement of fragments that were sent moves each from the fragments in
\* flight to those acknowledged, once.
LEMMA MarkAckedTabled ==
  ASSUME NEW p \in SendSlots, p.st = "active", Tabled(p), NEW A, A \subseteq p.timed
  PROVE  LET q == MarkAcked(p, A)
         IN  Tabled(q) /\ q.current = p.current /\ q.window = p.window
             /\ q.acked = p.acked \cup A
<1> DEFINE new == {i \in A : i < p.total} \ p.acked
           n == Cardinality(new)
           rest == IF n > p.inflight THEN 0 ELSE p.inflight - n
           q == [p EXCEPT !.acked = p.acked \cup new, !.late = p.late \ new,
                          !.sent = p.sent + n, !.inflight = rest]
<1>0. /\ p.timed = 0 .. p.current - 1 /\ p.current \in Nat /\ p.total \in Nat
      /\ p.current <= p.total /\ p.acked \subseteq p.timed
      /\ p.sent \in Nat /\ p.inflight \in Nat /\ p.timed \in SUBSET Fragments
  BY PacketConstants DEF Tabled, SendSlots
<1>1. \A i \in A : i < p.total
  BY <1>0
<1>2. new = A \ p.acked
  BY <1>1
<1>3. new \subseteq Outstanding(p) /\ new \in SUBSET Fragments
  BY <1>0, <1>2 DEF Outstanding
<1>4. /\ IsFiniteSet(new) /\ IsFiniteSet(p.acked) /\ IsFiniteSet(Outstanding(p))
      /\ n \in Nat /\ Cardinality(p.acked) \in Nat /\ Cardinality(Outstanding(p)) \in Nat
  BY <1>0, <1>3, FragmentSets DEF Outstanding
<1>5. MarkAcked(p, A) = IF n > 0 /\ q.sent >= q.total THEN Finish(q, "ok") ELSE q
  BY DEF MarkAcked, SendSlots
<1>6. /\ q.acked = p.acked \cup new /\ q.late = p.late \ new /\ q.sent = p.sent + n
      /\ q.inflight = rest /\ q.current = p.current /\ q.total = p.total
      /\ q.timed = p.timed /\ q.window = p.window /\ q.st = p.st /\ q.status = p.status
  BY DEF SendSlots
<1>7. LET f == Finish(q, "ok")
      IN  /\ f.acked = q.acked /\ f.late = q.late /\ f.sent = q.sent
          /\ f.inflight = q.inflight /\ f.current = q.current /\ f.total = q.total
          /\ f.timed = q.timed /\ f.window = q.window /\ f.st = "completed"
          /\ f.status = "ok"
  BY DEF Finish, SendSlots
<1> HIDE DEF q
<1> DEFINE f == MarkAcked(p, A)
<1>8. /\ f.acked = p.acked \cup new /\ f.late = p.late \ new /\ f.sent = p.sent + n
      /\ f.inflight = rest /\ f.current = p.current /\ f.total = p.total
      /\ f.timed = p.timed /\ f.window = p.window
  BY <1>5, <1>6, <1>7
<1>9. IF n > 0 /\ p.sent + n >= p.total THEN f.st = "completed" /\ f.status = "ok"
                                        ELSE f.st = p.st /\ f.status = p.status
  BY <1>5, <1>6, <1>7
<1> HIDE DEF f, new, n
<1>10. f.acked = p.acked \cup A /\ f.acked \subseteq p.timed
  BY <1>0, <1>2, <1>3, <1>8 DEF Outstanding
<1>11. Cardinality(f.acked) = p.sent + n
  <2>1. p.acked \cap new = {}
    BY <1>2
  <2>2. Cardinality(p.acked \cup new)
          = Cardinality(p.acked) + Cardinality(new) - Cardinality(p.acked \cap new)
    BY <1>4, FS_Union
  <2>3. Cardinality(p.acked \cap new) = 0
    BY <2>1, FS_EmptySet
  <2> QED BY <1>4, <1>8, <2>2, <2>3 DEF Tabled, n
<1>12. Outstanding(f) = Outstanding(p) \ new
  BY <1>8 DEF Outstanding
<1>13. n <= p.inflight /\ Cardinality(Outstanding(f)) = p.inflight - n
  <2>1. n <= Cardinality(Outstanding(p))
    BY <1>3, <1>4, FS_Subset DEF n
  <2>2. IsFiniteSet(Outstanding(f)) /\ Cardinality(Outstanding(f)) \in Nat
    BY <1>4, <1>12, FS_Subset, FS_CardinalityType
  <2>3. /\ Outstanding(f) \cup new = Outstanding(p)
        /\ Outstanding(f) \cap new = {}
    BY <1>3, <1>12
  <2>4. Cardinality(Outstanding(p))
          = Cardinality(Outstanding(f)) + n - Cardinality(Outstanding(f) \cap new)
    BY <1>4, <2>2, <2>3, FS_Union DEF n
  <2>5. Cardinality(Outstanding(f) \cap new) = 0
    BY <2>3, FS_EmptySet
  <2>6. p.inflight = Cardinality(Outstanding(p))
    BY DEF Tabled
  <2> QED BY <1>4, <2>1, <2>2, <2>4, <2>5, <2>6
<1>14. f.inflight = p.inflight - n
  BY <1>0, <1>4, <1>8, <1>13
<1>15. f.late \subseteq f.timed \ f.acked
  BY <1>2, <1>8 DEF Tabled
<1>16. p.window \in Nat /\ f.window = p.window
  BY <1>8 DEF SendSlots, Unlimited
<1>17. p.sent < p.total /\ p.status # "ok"
  BY <1>0 DEF Tabled
<1>18. /\ f.st = "active" => f.sent < f.total
       /\ f.status = "ok" => f.sent >= f.total
  BY <1>0, <1>4, <1>8, <1>9, <1>17
<1>19. Limited(f) => f.inflight <= f.window
  BY <1>0, <1>4, <1>14, <1>16 DEF Tabled, Limited
<1> QED BY <1>0, <1>8, <1>10, <1>11, <1>13, <1>14, <1>15, <1>16, <1>18, <1>19
        DEF Tabled, f

\* The loop over new fragments moves the cursor over fragments never sent, and stops
\* before the window is overrun.
LEMMA DispatchedTabled ==
  ASSUME NEW p \in SendSlots, Tabled(p), NEW u \in p.current .. p.total,
         NEW batch, NEW mayFail, StopsAt(p, u, batch, mayFail)
  PROVE  /\ Tabled(Dispatched(p, u))
         /\ Dispatched(p, u).current = u
         /\ Fresh(p, u) = p.current .. u - 1
<1> DEFINE q == Dispatched(p, u)
           F == Fresh(p, u)
<1>0. /\ p.timed = 0 .. p.current - 1 /\ p.current \in Nat /\ p.total \in Nat
      /\ p.current <= p.total /\ p.acked \subseteq p.timed /\ u \in Nat
      /\ p.sent \in Nat /\ p.inflight \in Nat /\ p.window \in Nat
      /\ p.timed \in SUBSET Fragments
  <2>1. p.current \in Nat /\ p.total \in Nat /\ p.window \in Nat
    BY PacketConstants DEF SendSlots, Unlimited
  <2>2. u \in Nat
    BY <2>1
  <2> QED BY <2>1, <2>2 DEF Tabled, SendSlots
<1>1. \A v \in p.current .. u : Fresh(p, v) = p.current .. v - 1
  BY <1>0 DEF Fresh
<1>2. F = p.current .. u - 1
  BY <1>0, <1>1
<1>3. /\ q.current = u /\ q.timed = p.timed \cup F /\ q.inflight = p.inflight + Cardinality(F)
      /\ q.total = p.total /\ q.acked = p.acked /\ q.late = p.late /\ q.sent = p.sent
      /\ q.window = p.window /\ q.st = p.st /\ q.status = p.status
  BY DEF Dispatched, SendSlots
<1> HIDE DEF q
<1>4. q.timed = 0 .. u - 1
  BY <1>0, <1>2, <1>3
<1>5. F \in SUBSET Fragments /\ IsFiniteSet(F) /\ Cardinality(F) \in Nat
  BY FreshType, FragmentSets
<1>6. F \cap p.timed = {}
  BY <1>0, <1>2
<1> HIDE DEF F
<1>7. q.inflight = Cardinality(Outstanding(q))
  <2>1. Outstanding(q) = Outstanding(p) \cup F /\ Outstanding(p) \cap F = {}
    BY <1>0, <1>3, <1>6 DEF Outstanding
  <2>2. IsFiniteSet(Outstanding(p)) /\ Cardinality(Outstanding(p)) \in Nat
    BY <1>0, FragmentSets DEF Outstanding
  <2>3. Cardinality(Outstanding(p) \cap F) = 0
    BY <2>1, FS_EmptySet
  <2>4. Cardinality(Outstanding(p) \cup F)
          = Cardinality(Outstanding(p)) + Cardinality(F) - Cardinality(Outstanding(p) \cap F)
    BY <1>5, <2>2, FS_Union
  <2> QED BY <1>0, <1>3, <1>5, <2>1, <2>2, <2>3, <2>4 DEF Tabled
<1>8. ASSUME Limited(p)
      PROVE  p.inflight + Cardinality(F) <= p.window
  <2>1. CASE u = p.current
    <3>1. F = {}
      BY <1>0, <1>2, <2>1
    <3>2. Cardinality(F) = 0
      BY <3>1, FS_EmptySet
    <3> QED BY <1>0, <1>8, <3>2 DEF Tabled
  <2>2. CASE u > p.current
    <3> DEFINE v == u - 1
               G == p.current .. v - 1
    <3>1. v \in p.current .. u - 1 /\ v \in p.current .. u
      BY <1>0, <2>2
    <3>2. Fresh(p, v) = G
      BY <1>1, <3>1
    <3>3. ~NoRoom(p, Cardinality(G), batch)
      BY <3>1, <3>2 DEF StopsAt
    <3>4. F = G \cup {v} /\ v \notin G /\ IsFiniteSet(G)
      <4>1. F = G \cup {v} /\ v \notin G
        BY <1>0, <1>2, <2>2
      <4>2. IsFiniteSet(G)
        <5>1. p.current \in Int /\ v - 1 \in Int
          BY <1>0
        <5> HIDE DEF v
        <5> QED BY <5>1, FS_Interval
      <4> QED BY <4>1, <4>2
    <3> HIDE DEF G, v
    <3>5. Cardinality(F) = Cardinality(G) + 1 /\ Cardinality(G) \in Nat
      BY <3>4, FS_AddElement, FS_CardinalityType
    <3>6. p.inflight + Cardinality(G) < p.window
      BY <1>0, <1>8, <3>3, <3>5 DEF NoRoom
    <3> QED BY <1>0, <3>5, <3>6
  <2> QED BY <1>0, <2>1, <2>2
<1>9. Limited(q) => q.inflight <= q.window
  BY <1>3, <1>8 DEF Limited
<1>10. /\ q.current <= q.total
       /\ q.acked \subseteq q.timed /\ q.late \subseteq q.timed \ q.acked
       /\ q.sent = Cardinality(q.acked)
       /\ q.st = "active" => q.sent < q.total
       /\ q.status = "ok" => q.sent >= q.total
  BY <1>0, <1>3 DEF Tabled
<1> QED BY <1>2, <1>3, <1>4, <1>7, <1>9, <1>10 DEF Tabled, q, F

\* FLUX_RETRANSMIT_TIMEOUT_MS passed for a fragment in flight.
LEMMA LateTabled ==
  ASSUME NEW p \in SendSlots, Tabled(p), NEW i \in Outstanding(p), NEW L,
         L = p.late \cup {i}
  PROVE  Tabled([p EXCEPT !.late = L])
<1> DEFINE q == [p EXCEPT !.late = L]
<1>1. /\ q.current = p.current /\ q.total = p.total /\ q.timed = p.timed
      /\ q.acked = p.acked /\ q.late = L /\ q.sent = p.sent /\ q.inflight = p.inflight
      /\ q.window = p.window /\ q.st = p.st /\ q.status = p.status
  BY DEF SendSlots
<1>2. L \subseteq p.timed \ p.acked
  BY DEF Tabled, Outstanding
<1> HIDE DEF q
<1> QED BY <1>1, <1>2 DEF Tabled, Outstanding, Limited, q

------------------------------------------------------------------------------
(* What a critical section of the sender puts on the wire *)

\* The packets of p that joined the wire carry fragments of S, and where one is a
\* START no fragment "last" came before it in the same burst.
Burst(p, S, last) ==
  /\ wire' \in Seq(DataPackets) /\ Len(wire) <= Len(wire')
  /\ \A n \in 1 .. Len(wire) : wire'[n] = wire[n]
  /\ \A n \in Len(wire) + 1 .. Len(wire') :
        /\ \E i \in S : wire'[n] = PacketOf(p, i)
        /\ wire'[n].idx = 0 =>
              \A m \in Len(wire) + 1 .. n - 1 : wire'[m].idx # last

LEMMA PacketOfIndex ==
  ASSUME NEW p, NEW i
  PROVE  PacketOf(p, i).idx = i
BY DEF PacketOf, StartPacket, FragmentPacket

\* ops->send takes the fragments resent before the others, each burst in ascending
\* order; when the second holds the START, the last fragment is not in the first.
LEMMA TransmitOrder ==
  ASSUME wire \in Seq(DataPackets), NEW p \in SendSlots, p.tid \in Transfers,
         NEW first, first \in SUBSET Fragments, NEW second, second \in SUBSET Fragments,
         NEW last, 0 \notin first, 0 \in second => last \notin first,
         Transmit(p, first, second)
  PROVE  Burst(p, first \cup second, last)
<1>1. PICK f \in Accepted(first), g \in Accepted(second) :
          \E a \in Ascending(f), b \in Ascending(g) :
            wire' = wire \o [k \in DOMAIN a |-> PacketOf(p, a[k])]
                         \o [k \in DOMAIN b |-> PacketOf(p, b[k])]
  BY DEF Transmit
<1>2. /\ f \in SUBSET Fragments /\ g \in SUBSET Fragments
      /\ f \subseteq first /\ g \subseteq second
  BY DEF Accepted
<1>3. PICK a \in Ascending(f), b \in Ascending(g) :
            wire' = wire \o [k \in DOMAIN a |-> PacketOf(p, a[k])]
                         \o [k \in DOMAIN b |-> PacketOf(p, b[k])]
  BY <1>1
<1> DEFINE x == [k \in DOMAIN a |-> PacketOf(p, a[k])]
           y == [k \in DOMAIN b |-> PacketOf(p, b[k])]
           cf == Cardinality(f)
           cg == Cardinality(g)
           W == Len(wire)
<1>4. /\ x \in Seq(DataPackets) /\ y \in Seq(DataPackets)
  BY <1>2, BurstType
<1>5. /\ cf \in Nat /\ a \in [1 .. cf -> f] /\ cg \in Nat /\ b \in [1 .. cg -> g]
      /\ \A k, l \in 1 .. cg : k < l => b[k] < b[l]
  BY <1>2, AscendingType DEF Ascending
<1> HIDE DEF cf, cg
<1>6. /\ Len(x) = cf /\ \A k \in 1 .. cf : a[k] \in f /\ x[k] = PacketOf(p, a[k])
      /\ Len(y) = cg /\ \A k \in 1 .. cg : b[k] \in g /\ y[k] = PacketOf(p, b[k])
  BY <1>5
<1>7. wire' = wire \o x \o y
  BY <1>3
<1> HIDE DEF x, y
<1>8. /\ wire \o x \in Seq(DataPackets)
      /\ Len(wire \o x) = Len(wire) + Len(x)
      /\ \A n \in 1 .. Len(wire) + Len(x) :
            (wire \o x)[n] = IF n <= Len(wire) THEN wire[n] ELSE x[n - Len(wire)]
  BY <1>4, ConcatProperties
<1>9. /\ wire' \in Seq(DataPackets)
      /\ Len(wire') = Len(wire \o x) + Len(y)
      /\ \A n \in 1 .. Len(wire \o x) + Len(y) :
            wire'[n] = IF n <= Len(wire \o x) THEN (wire \o x)[n] ELSE y[n - Len(wire \o x)]
  BY <1>4, <1>7, <1>8, ConcatProperties
<1>10. W \in Nat
  BY LenProperties
<1>11. Len(wire') = W + cf + cg /\ \A n \in 1 .. W : wire'[n] = wire[n]
  BY <1>5, <1>6, <1>8, <1>9, <1>10
<1>12. \A n \in W + 1 .. W + cf :
          n - W \in 1 .. cf /\ wire'[n] = PacketOf(p, a[n - W]) /\ a[n - W] \in f
  BY <1>5, <1>6, <1>8, <1>9, <1>10
<1>13. \A n \in W + cf + 1 .. W + cf + cg :
          /\ n - (W + cf) \in 1 .. cg
          /\ wire'[n] = PacketOf(p, b[n - (W + cf)]) /\ b[n - (W + cf)] \in g
  BY <1>5, <1>6, <1>8, <1>9, <1>10
<1> HIDE DEF W
<1>14. ASSUME NEW n \in W + 1 .. W + cf + cg
       PROVE  \E i \in first \cup second : wire'[n] = PacketOf(p, i)
  <2>1. n \in W + 1 .. W + cf \/ n \in W + cf + 1 .. W + cf + cg
    BY <1>5, <1>10
  <2> QED BY <1>2, <1>12, <1>13, <2>1
<1>15. ASSUME NEW n \in W + 1 .. W + cf + cg, wire'[n].idx = 0,
              NEW m \in W + 1 .. n - 1, wire'[m].idx = last
       PROVE  FALSE
  <2>1. n \in W + cf + 1 .. W + cf + cg
    <3>1. n \notin W + 1 .. W + cf
      BY <1>2, <1>12, <1>15, PacketOfIndex
    <3> QED BY <1>5, <1>10, <3>1
  <2> DEFINE l == n - (W + cf)
  <2>2. l \in 1 .. cg /\ b[l] = 0 /\ 0 \in second
    BY <1>2, <1>13, <1>15, <2>1, PacketOfIndex
  <2>3. m \notin W + 1 .. W + cf
    BY <1>2, <1>12, <1>15, <2>2, PacketOfIndex
  <2>4. m \in W + cf + 1 .. W + cf + cg /\ m < n
    BY <1>5, <1>10, <2>3
  <2> DEFINE k == m - (W + cf)
  <2>5. k \in 1 .. cg /\ b[k] \in g /\ k < l
    BY <1>5, <1>10, <1>13, <2>1, <2>4
  <2> HIDE DEF k, l
  <2>6. b[k] < 0 /\ b[k] \in Fragments
    BY <1>2, <1>5, <2>2, <2>5
  <2> QED BY <2>6 DEF Fragments
<1>16. W <= Len(wire')
  BY <1>5, <1>10, <1>11
<1> QED BY <1>9, <1>11, <1>14, <1>15, <1>16 DEF Burst, W

\* q goes on from p in a critical section of the sender.
Moves(q, p) ==
  /\ Continues(q, p) /\ Tabled(q)
  /\ p.current <= q.current
  /\ q.current > p.current => Active(p)

\* The packets that joined the wire are p's, of fragments before the cursor of q; a
\* START among them is sent while p had fragments left to send, and before the last.
Sent(p, q) ==
  /\ wire' \in Seq(DataPackets) /\ Len(wire) <= Len(wire')
  /\ \A n \in 1 .. Len(wire) : wire'[n] = wire[n]
  /\ \A n \in Len(wire) + 1 .. Len(wire') :
        /\ wire'[n].tid = p.tid /\ wire'[n].idx < q.current
        /\ wire'[n].idx = 0 =>
              /\ wire'[n].total = p.total /\ p.current < p.total
              /\ \A m \in Len(wire) + 1 .. n - 1 : wire'[m].idx # p.total - 1

LEMMA BurstSent ==
  ASSUME NEW p \in SendSlots, p.tid \in Transfers, NEW q,
         NEW S, S \subseteq Fragments, \A i \in S : i < q.current,
         0 \in S => p.current < p.total, Burst(p, S, p.total - 1)
  PROVE  Sent(p, q)
<1>1. \A i \in S : /\ PacketOf(p, i).idx = i /\ PacketOf(p, i).tid = p.tid
                   /\ i = 0 => PacketOf(p, i).total = p.total
  BY PacketOfType, PacketOfIndex
<1>2. \A n \in Len(wire) + 1 .. Len(wire') : \E i \in S :
         /\ wire'[n].idx = i /\ wire'[n].tid = p.tid
         /\ i = 0 => wire'[n].total = p.total
  BY <1>1 DEF Burst
<1> QED BY <1>2 DEF Burst, Sent

LEMMA SentSame ==
  ASSUME NEW p, NEW q, NEW r, Sent(p, q),
         r.tid = p.tid, r.total = p.total, r.current = p.current
  PROVE  Sent(r, q)
BY DEF Sent

\* While fragments are left to send the last one was not sent; once none are, an
\* active slot only waits for acknowledgements.
LEMMA StillSending ==
  ASSUME NEW p \in SendSlots, Tabled(p), Active(p), ~AwaitsAcks(p)
  PROVE  p.current < p.total /\ p.total - 1 \notin p.timed
BY PacketConstants DEF Tabled, Active, AwaitsAcks, AllDispatched, SendSlots

LEMMA MovesTransitive ==
  ASSUME NEW p \in SendSlots, NEW q \in SendSlots, NEW r \in SendSlots,
         q.current = p.current, q.st = p.st, Moves(q, p), Moves(r, q)
  PROVE  Moves(r, p)
BY ContinuesTransitive DEF Moves, Active

LEMMA ResentMoves ==
  ASSUME NEW p \in SendSlots, Tabled(p), NEW S, S \subseteq p.timed
  PROVE  /\ Moves(Resent(p, S), p) /\ Resent(p, S) \in SendSlots
         /\ Resent(p, S).current = p.current /\ Resent(p, S).st = p.st
         /\ Resent(p, S).timed = p.timed
<1>1. S \in SUBSET Fragments
  BY DEF SendSlots
<1>2. Continues(Resent(p, S), p) /\ Resent(p, S).current = p.current
  BY <1>1, ResentContinues
<1>3. Resent(p, S).st = p.st /\ Resent(p, S).timed = p.timed
  <2>1. p.timed \cup S = p.timed
    OBVIOUS
  <2> QED BY <2>1 DEF Resent, SendSlots
<1>4. Tabled(Resent(p, S))
  BY ResentTabled
<1>5. p.current \in Nat
  BY PacketConstants DEF SendSlots
<1> QED BY <1>2, <1>3, <1>4, <1>5 DEF Moves, Continues

LEMMA FinishMoves ==
  ASSUME NEW p \in SendSlots, Tabled(p)
  PROVE  Moves(Finish(p, "timeout"), p) /\ Finish(p, "timeout").current = p.current
<1>1. Finish(p, "timeout").current = p.current /\ p.current \in Nat
  BY PacketConstants DEF Finish, SendSlots
<1> QED BY <1>1, FinishContinues, FinishTabled DEF Moves

\* flux_send_continue keeps the tables of its slot and the order of the wire.
LEMMA ContinueMoves ==
  ASSUME wire \in Seq(DataPackets), NEW s \in Slots, NEW p \in SendSlots,
         p.tid \in Transfers, Tabled(p), NEW resent, resent \subseteq p.timed,
         0 \notin resent, SendContinue(s, p, resent)
  PROVE  \E q : send' = [send EXCEPT ![s] = q] /\ Moves(q, p) /\ Sent(p, q)
<1> DEFINE last == p.total - 1
<1>0. /\ p.timed = 0 .. p.current - 1 /\ p.current \in Nat /\ p.total \in Nat
      /\ p.timed \in SUBSET Fragments /\ resent \in SUBSET Fragments
  BY PacketConstants DEF Tabled, SendSlots
<1>1. CASE /\ send' = [send EXCEPT ![s] = p]
           /\ Transmit(p, resent, {})
  <2>1. Moves(p, p)
    BY <1>0 DEF Moves, Continues
  <2>2. Burst(p, resent \cup {}, last)
    BY <1>0, <1>1, TransmitOrder
  <2>3. resent \cup {} = resent
    OBVIOUS
  <2>4. Sent(p, p)
    BY <1>0, <2>2, <2>3, BurstSent
  <2> QED BY <1>1, <2>1, <2>4
<1>2. ASSUME Active(p), ~AwaitsAcks(p),
             NEW ok \in Accepted(BeforeExhausted(p, TimedOut(p))),
             send' = [send EXCEPT ![s] = Finish(Resent(p, ok), "timeout")],
             Transmit(p, resent, ok)
      PROVE  \E q : send' = [send EXCEPT ![s] = q] /\ Moves(q, p) /\ Sent(p, q)
  <2>1. ok \subseteq p.timed
    BY DEF Accepted, BeforeExhausted, TimedOut, Tabled
  <2>2. p.current < p.total /\ last \notin p.timed
    BY <1>2, StillSending
  <2> DEFINE r == Resent(p, ok)
             q == Finish(r, "timeout")
  <2>3. Moves(r, p) /\ r \in SendSlots /\ r.current = p.current /\ r.st = p.st
    BY <2>1, ResentMoves
  <2> HIDE DEF r
  <2>4. Moves(q, r) /\ q.current = p.current
    BY <2>3, FinishMoves DEF Moves
  <2>5. q \in SendSlots
    BY <2>4 DEF Moves, Continues
  <2> HIDE DEF q
  <2>6. Moves(q, p)
    BY <2>3, <2>4, <2>5, MovesTransitive
  <2>7. Burst(p, resent \cup ok, last)
    BY <1>0, <1>2, <2>1, <2>2, TransmitOrder
  <2>8. resent \cup ok \subseteq Fragments /\ \A i \in resent \cup ok : i < q.current
    BY <1>0, <2>1, <2>4
  <2>9. Sent(p, q)
    BY <2>2, <2>7, <2>8, BurstSent
  <2> QED BY <1>2, <2>6, <2>9 DEF q, r
<1>3. ASSUME Active(p), ~AwaitsAcks(p),
             NEW ok \in Accepted(TimedOut(p)), NEW u \in p.current .. p.total,
             StopsAt(Resent(p, ok), u, MaxBatch - Cardinality(ok), Faults),
             send' = [send EXCEPT ![s] = Dispatched(Resent(p, ok), u)],
             Transmit(p, resent, ok \cup Fresh(Resent(p, ok), u))
      PROVE  \E q : send' = [send EXCEPT ![s] = q] /\ Moves(q, p) /\ Sent(p, q)
  <2>1. ok \subseteq p.timed
    BY DEF Accepted, TimedOut, Tabled
  <2>2. p.current < p.total /\ last \notin p.timed
    BY <1>2, <1>3, StillSending
  <2> DEFINE r == Resent(p, ok)
             q == Dispatched(r, u)
             F == Fresh(r, u)
  <2>3. Moves(r, p) /\ r \in SendSlots /\ r.current = p.current /\ r.st = p.st
    BY <2>1, ResentMoves
  <2>4. r.total = p.total
    BY <2>3 DEF Moves, Continues
  <2> HIDE DEF r
  <2>5. u \in r.current .. r.total /\ Tabled(r)
    BY <2>3, <2>4 DEF Moves
  <2>6. /\ Tabled(q) /\ q.current = u /\ F = p.current .. u - 1
        /\ StopsAt(r, u, MaxBatch - Cardinality(ok), Faults)
    <3>1. StopsAt(r, u, MaxBatch - Cardinality(ok), Faults)
      BY <1>3 DEF r
    <3>2. Tabled(q) /\ q.current = u /\ F = r.current .. u - 1
      BY <2>3, <2>5, <3>1, DispatchedTabled
    <3> QED BY <2>3, <3>1, <3>2
  <2>7. Continues(q, r) /\ F \in SUBSET Fragments
    BY <2>3, <2>5, DispatchedContinues, FreshType
  <2>8. q \in SendSlots
    BY <2>7 DEF Continues
  <2> HIDE DEF q
  <2>9. u \in Nat /\ p.current <= u /\ u <= p.total
    BY <1>0
  <2>10. Moves(q, p)
    <3>1. Moves(q, r)
      BY <1>3, <2>3, <2>6, <2>7, <2>9 DEF Moves, Active
    <3> QED BY <2>3, <2>8, <3>1, MovesTransitive
  <2> DEFINE S == ok \cup F
  <2>11. S \in SUBSET Fragments /\ \A i \in resent \cup S : i < q.current
    BY <1>0, <2>1, <2>6, <2>7, <2>9
  <2>12. Transmit(p, resent, S)
    BY <1>3 DEF r
  <2> HIDE DEF S, F
  <2>13. Burst(p, resent \cup S, last)
    BY <1>0, <2>2, <2>11, <2>12, TransmitOrder
  <2>14. Sent(p, q)
    BY <1>0, <2>2, <2>11, <2>13, BurstSent
  <2> QED BY <1>3, <2>10, <2>14 DEF q, r
<1> QED BY <1>1, <1>2, <1>3 DEF SendContinue

------------------------------------------------------------------------------
(* The invariant *)

SlotsTabled == \A s \in Slots : Busy(s) => Tabled(send[s])

\* A slot in use is the only one of its transfer, which is open.
SlotsOpen ==
  /\ \A s \in Slots : Busy(s) =>
        outcome[send[s].tid] = "open" /\ size[send[s].tid] = send[s].total
  /\ \A s, o \in Slots : Busy(s) /\ Busy(o) /\ send[s].tid = send[o].tid => s = o

\* Fragment i of transfer t may be under way: it is within the transfer, and
\* before the cursor of its slot.
Reached(t, i) ==
  /\ i < size[t]
  /\ \A s \in Slots : Busy(s) /\ send[s].tid = t => i < send[s].current

UnderWay ==
  /\ \A t \in Transfers : outcome[t] = "unsent" => size[t] = 0
  /\ \A t \in Transfers : \A i \in arrived[t] : Reached(t, i)
  /\ \A n \in 1 .. Len(wire) :
        /\ Reached(wire[n].tid, wire[n].idx)
        /\ wire[n].idx = 0 => wire[n].total = size[wire[n].tid]

\* A receive slot holds its START, knows its size, and is its stream's only one.
RecvsOpened ==
  /\ \A r \in Recvs : recv[r].on =>
        0 \in Received(recv[r]) /\ recv[r].total = size[recv[r].stream + 1]
  /\ \A r, o \in Recvs : recv[r].on /\ recv[o].on /\ recv[r].stream = recv[o].stream
        => r = o

\* A SACK names a fragment received, and never asks for the START.
SackFits(sack) == sack.num \notin sack.lost /\ 0 \notin sack.lost
SacksFit == \A n \in 1 .. Len(back) : SackFits(back[n])

Last(t) == size[t] - 1

\* On the wire no START follows the last fragment of its transfer, and none is left
\* once that fragment arrived.
NoLateStart ==
  /\ \A m, n \in 1 .. Len(wire) :
        m < n /\ wire[m].tid = wire[n].tid /\ wire[m].idx = Last(wire[m].tid)
        => wire[n].idx # 0
  /\ \A n \in 1 .. Len(wire) :
        Last(wire[n].tid) \in arrived[wire[n].tid] => wire[n].idx # 0

\* A message handed over is whole, no slot collects it again, and no other
\* hand-over was of the same.
HandedOver ==
  /\ \A n \in 1 .. Len(inbox) : \A t \in inbox[n] :
        /\ size[t] >= 1 /\ arrived[t] = 0 .. Last(t)
        /\ \A r \in Recvs : recv[r].on => recv[r].stream + 1 # t
  /\ \A m, n \in 1 .. Len(inbox) : m # n => inbox[m] \cap inbox[n] = {}

DeliveryInv ==
  /\ SlotsTabled /\ SlotsOpen /\ UnderWay /\ RecvsOpened /\ SacksFit
  /\ NoLateStart /\ HandedOver /\ OkMeansArrived

LEMMA DeliveryInit == Init => DeliveryInv
<1> SUFFICES ASSUME Init PROVE DeliveryInv
  OBVIOUS
<1>1. \A s \in Slots : ~Busy(s)
  BY DEF Init, Busy, EmptySlot
<1>2. \A r \in Recvs : ~recv[r].on
  BY DEF Init, EmptyRecv
<1>3. Len(wire) = 0 /\ Len(back) = 0 /\ Len(inbox) = 0
  BY DEF Init
<1>4. \A t \in Transfers : arrived[t] = {} /\ size[t] = 0 /\ outcome[t] = "unsent"
  BY DEF Init
<1> QED BY <1>1, <1>2, <1>3, <1>4
        DEF DeliveryInv, SlotsTabled, SlotsOpen, UnderWay, RecvsOpened, SacksFit,
            NoLateStart, HandedOver, OkMeansArrived

------------------------------------------------------------------------------
(* The sender's steps *)

\* q is the slot p some critical section later: the same transfer, further on.
GoesOn(q, p) ==
  /\ q \in SendSlots /\ q.st # "free" /\ Tabled(q)
  /\ q.tid = p.tid /\ q.total = p.total /\ p.current <= q.current

LEMMA MovesGoesOn ==
  ASSUME NEW q, NEW p, Moves(q, p), p.st # "free"
  PROVE  GoesOn(q, p)
BY DEF Moves, Continues, GoesOn

\* What a SACK names in the slot of its stream was sent: the fragments it confirms,
\* and those it reports lost, none of which is the START.
LEMMA SackOnSent ==
  ASSUME TypeInv, StreamInv, DeliveryInv, NEW sack \in SackPackets,
         SackOwn(sack, arrived), SackFits(sack), NEW s \in SendFind(sack.stream)
  PROVE  /\ Claimed(send[s], sack) \subseteq send[s].timed
         /\ \A p \in SendSlots : ReportedLost(p, sack) \subseteq send[s].timed
         /\ \A p \in SendSlots : 0 \notin ReportedLost(p, sack)
         /\ send[s].current > 0
<1>1. s \in Slots /\ Busy(s) /\ send[s].stream = sack.stream
  BY DEF SendFind, Active, Busy
<1>2. /\ send[s] \in SendSlots /\ send[s].tid \in Transfers
      /\ send[s].stream = send[s].tid - 1 /\ Tabled(send[s])
  BY <1>1 DEF TypeInv, TypeOK, Owned, StreamInv, SlotsOwn, DeliveryInv, SlotsTabled
<1>3. send[s].tid = sack.stream + 1
  BY <1>1, <1>2, PacketConstants DEF Transfers
<1>4. sack.num \in Nat /\ send[s].current \in Nat
  BY <1>2, PacketConstants DEF SackPackets, Fragments, SendSlots
<1>5. sack.num \in arrived[send[s].tid]
  BY <1>3, <1>4 DEF SackOwn, SackFits
<1>6. sack.num < send[s].current
  BY <1>1, <1>2, <1>5 DEF DeliveryInv, UnderWay, Reached
<1>7. send[s].timed = 0 .. send[s].current - 1
  BY <1>2 DEF Tabled
<1>8. 0 .. sack.num \subseteq send[s].timed
  BY <1>4, <1>6, <1>7
<1>9. \A p \in SendSlots : ReportedLost(p, sack) \subseteq (0 .. sack.num) \cap sack.lost
  BY DEF ReportedLost
<1> QED BY <1>4, <1>6, <1>8, <1>9 DEF Claimed, SackFits

\* flux_handle_sack moves the slot of its stream on, if there is one.
LEMMA HandleSackMoves ==
  ASSUME TypeInv, StreamInv, DeliveryInv, HandleSack
  PROVE  \/ UNCHANGED <<send, wire>>
         \/ \E s \in SendFind(Head(back).stream) : \E q :
               /\ send' = [send EXCEPT ![s] = q]
               /\ GoesOn(q, send[s]) /\ Sent(send[s], q) /\ send[s].current > 0
<1> DEFINE sack == Head(back)
<1>1. back # <<>> /\ back' = Tail(back) /\ sack \in SackPackets
  BY HandleSackEffect
<1>2. SackOwn(sack, arrived) /\ SackFits(sack)
  <2>1. SackOwn(sack, arrived)
    BY <1>1, SackTaken DEF HandleSack, StreamInv
  <2>2. back \in Seq(SackPackets) /\ 1 \in 1 .. Len(back) /\ sack = back[1]
    BY <1>1 DEF TypeInv, TypeOK
  <2> QED BY <2>1, <2>2 DEF DeliveryInv, SacksFit
<1>3. wire \in Seq(DataPackets) /\ send \in [Slots -> SendSlots]
  BY DEF TypeInv, TypeOK
<1>4. ASSUME NEW s \in SendFind(sack.stream),
             LET p    == MarkAcked(send[s], Claimed(send[s], sack))
                 lost == ReportedLost(p, sack)
             IN  \/ /\ Exhausted(p, lost) # {}
                    /\ \E ok \in Accepted(BeforeExhausted(p, lost)) :
                         /\ send' = [send EXCEPT ![s] = Finish(Resent(p, ok), "timeout")]
                         /\ Transmit(p, ok, {})
                 \/ /\ Exhausted(p, lost) = {}
                    /\ \E ok \in Accepted(lost) : SendContinue(s, Resent(p, ok), ok)
      PROVE  \E q : /\ send' = [send EXCEPT ![s] = q]
                    /\ GoesOn(q, send[s]) /\ Sent(send[s], q) /\ send[s].current > 0
  <2> DEFINE C == Claimed(send[s], sack)
             p == MarkAcked(send[s], C)
             lost == ReportedLost(p, sack)
  <2>1. s \in Slots /\ send[s] \in SendSlots /\ send[s].st = "active"
    BY <1>3 DEF SendFind, Active
  <2>2. send[s].tid \in Transfers /\ Tabled(send[s])
    BY <2>1 DEF TypeInv, Owned, Busy, DeliveryInv, SlotsTabled
  <2>3. /\ C \subseteq send[s].timed /\ send[s].current > 0
        /\ \A x \in SendSlots : /\ ReportedLost(x, sack) \subseteq send[s].timed
                                /\ 0 \notin ReportedLost(x, sack)
    BY <1>1, <1>2, SackOnSent
  <2>4. C \in SUBSET Fragments
    BY <1>1, <2>1, SackSets
  <2> HIDE DEF C
  <2>5. /\ p \in SendSlots /\ Tabled(p)
        /\ p.tid = send[s].tid /\ p.total = send[s].total
        /\ p.current = send[s].current /\ p.st # "free"
    BY <2>1, <2>2, <2>3, <2>4, MarkAckedEffect, MarkAckedTabled
  <2>6. p.timed = send[s].timed
    BY <2>2, <2>5 DEF Tabled
  <2> HIDE DEF p
  <2>7. lost \subseteq p.timed /\ 0 \notin lost /\ p.timed \in SUBSET Fragments
    BY <2>3, <2>5, <2>6 DEF SendSlots
  <2> HIDE DEF lost
  <2>8. \A x, q : /\ x.tid = p.tid /\ x.total = p.total /\ x.current = p.current
                  /\ Moves(q, x) /\ x.st # "free" /\ Sent(x, q)
                  => GoesOn(q, send[s]) /\ Sent(send[s], q)
    <3> SUFFICES ASSUME NEW x, NEW q, x.tid = p.tid, x.total = p.total,
                        x.current = p.current, Moves(q, x), x.st # "free", Sent(x, q)
                 PROVE  GoesOn(q, send[s]) /\ Sent(send[s], q)
      OBVIOUS
    <3>1. GoesOn(q, x)
      BY MovesGoesOn
    <3>2. GoesOn(q, send[s])
      BY <2>5, <3>1 DEF GoesOn
    <3>3. Sent(send[s], q)
      BY <2>5, SentSame
    <3> QED BY <3>2, <3>3
  <2>9. ASSUME NEW ok \in Accepted(BeforeExhausted(p, lost)),
               send' = [send EXCEPT ![s] = Finish(Resent(p, ok), "timeout")],
               Transmit(p, ok, {})
        PROVE  \E q : /\ send' = [send EXCEPT ![s] = q]
                      /\ GoesOn(q, send[s]) /\ Sent(send[s], q)
    <3>1. ok \subseteq p.timed /\ 0 \notin ok /\ ok \in SUBSET Fragments
      BY <2>7 DEF Accepted, BeforeExhausted
    <3> DEFINE r == Resent(p, ok)
               q == Finish(r, "timeout")
    <3>2. /\ Moves(r, p) /\ r \in SendSlots /\ r.current = p.current /\ r.st = p.st
          /\ r.tid = p.tid /\ r.total = p.total
      BY <2>5, <3>1, ResentMoves DEF Moves, Continues
    <3> HIDE DEF r
    <3>3. Moves(q, r) /\ q.current = p.current
      BY <3>2, FinishMoves DEF Moves
    <3> HIDE DEF q
    <3>4. Burst(p, ok \cup {}, p.total - 1)
      BY <1>3, <2>2, <2>5, <2>9, <3>1, TransmitOrder
    <3>5. \A i \in ok : i < q.current
      BY <2>5, <3>1, <3>3, PacketConstants DEF Tabled, SendSlots
    <3>6. ok \cup {} = ok
      OBVIOUS
    <3>7. Sent(p, q)
      BY <2>2, <2>5, <3>1, <3>4, <3>5, <3>6, BurstSent
    <3>8. Sent(r, q)
      BY <3>2, <3>7, SentSame
    <3> QED BY <2>5, <2>8, <2>9, <3>2, <3>3, <3>8 DEF q, r
  <2>10. ASSUME NEW ok \in Accepted(lost), SendContinue(s, Resent(p, ok), ok)
         PROVE  \E q : /\ send' = [send EXCEPT ![s] = q]
                       /\ GoesOn(q, send[s]) /\ Sent(send[s], q)
    <3>1. ok \subseteq p.timed /\ 0 \notin ok
      BY <2>7 DEF Accepted
    <3> DEFINE r == Resent(p, ok)
    <3>2. /\ Moves(r, p) /\ r \in SendSlots /\ r.current = p.current /\ r.st = p.st
          /\ r.tid = p.tid /\ r.total = p.total /\ r.timed = p.timed /\ Tabled(r)
      BY <2>5, <3>1, ResentMoves DEF Moves, Continues
    <3>3. SendContinue(s, r, ok)
      BY <2>10
    <3> HIDE DEF r
    <3>4. PICK q : send' = [send EXCEPT ![s] = q] /\ Moves(q, r) /\ Sent(r, q)
      BY <1>3, <2>1, <2>2, <2>5, <3>1, <3>2, <3>3, ContinueMoves
    <3> QED BY <2>5, <2>8, <3>2, <3>4
  <2> QED BY <1>4, <2>3, <2>9, <2>10 DEF C, p, lost
<1> QED BY <1>4 DEF HandleSack

\* The cursors only move forward: what was within reach stays so.
LEMMA ReachStays ==
  ASSUME TypeInv, SlotsOpen, NEW s \in Slots, Busy(s), NEW q, GoesOn(q, send[s]),
         send' = [send EXCEPT ![s] = q], UNCHANGED size,
         NEW t, NEW i \in Nat, Reached(t, i)
  PROVE  Reached(t, i)'
<1>1. \A o \in Slots : send'[o] = IF o = s THEN q ELSE send[o]
  BY DEF TypeInv, TypeOK
<1>2. send[s].current \in Nat /\ q.current \in Nat
  BY PacketConstants DEF TypeInv, TypeOK, SendSlots, GoesOn
<1>3. \A o \in Slots : Busy(o)' /\ send'[o].tid = t => i < send'[o].current
  BY <1>1, <1>2 DEF Reached, Busy, GoesOn
<1> QED BY <1>3 DEF Reached

\* A slot that moves on, and what it sends, keep the invariant.
LEMMA SlotMoves ==
  ASSUME TypeInv, DeliveryInv, NEW s \in Slots, Busy(s), NEW q,
         GoesOn(q, send[s]), Sent(send[s], q), send' = [send EXCEPT ![s] = q],
         UNCHANGED <<recv, outcome, size, arrived, inbox>>, SacksFit'
  PROVE  DeliveryInv'
<1> DEFINE p == send[s]
           W == Len(wire)
           t == p.tid
<1>1. \A o \in Slots : send'[o] = IF o = s THEN q ELSE send[o]
  BY DEF TypeInv, TypeOK
<1>2. /\ p \in SendSlots /\ t \in Transfers /\ Tabled(p)
      /\ size[t] = p.total /\ p.total \in Nat /\ p.current \in Nat
  BY PacketConstants DEF TypeInv, TypeOK, SendSlots, Owned, DeliveryInv, SlotsTabled, SlotsOpen
<1>3. /\ q.tid = t /\ q.total = p.total /\ p.current <= q.current /\ q.st # "free"
      /\ q.current \in Nat /\ q.current <= p.total /\ Tabled(q)
  BY PacketConstants DEF GoesOn, Tabled, SendSlots
<1>4. SlotsTabled'
  BY <1>1, <1>3 DEF DeliveryInv, SlotsTabled, Busy
<1>5. SlotsOpen'
  BY <1>1, <1>3 DEF DeliveryInv, SlotsOpen, Busy
<1>6. /\ W \in Nat /\ Len(wire') \in Nat /\ wire' \in Seq(DataPackets)
      /\ \A n \in 1 .. W : n \in 1 .. Len(wire') /\ wire'[n] = wire[n]
      /\ \A n \in 1 .. Len(wire') : n \in 1 .. W \/ n \in W + 1 .. Len(wire')
  <2>1. W \in Nat /\ wire' \in Seq(DataPackets)
    BY DEF TypeInv, TypeOK, Sent
  <2> QED BY <2>1 DEF Sent
<1>7. \A n \in 1 .. Len(wire') : wire'[n].idx \in Nat /\ wire'[n] \in DataPackets
  <2>1. \A n \in 1 .. Len(wire') : wire'[n] \in DataPackets
    BY <1>6
  <2>2. \A d \in DataPackets : d.idx \in Nat
    BY DEF DataPackets, Fragments
  <2> QED BY <2>1, <2>2
<1>8. \A n \in W + 1 .. Len(wire') :
        /\ wire'[n].tid = t /\ wire'[n].idx < q.current
        /\ wire'[n].idx = 0 =>
              /\ wire'[n].total = p.total /\ p.current < p.total
              /\ \A m \in W + 1 .. n - 1 : wire'[m].idx # p.total - 1
  BY DEF Sent
<1>9. \A x, i : Reached(x, i) /\ i \in Nat => Reached(x, i)'
  <2> SUFFICES ASSUME NEW x, NEW i \in Nat, Reached(x, i) PROVE Reached(x, i)'
    OBVIOUS
  <2> QED BY ReachStays DEF DeliveryInv
<1>10. UnderWay'
  <2>1. \A x \in Transfers : \A i \in arrived'[x] : Reached(x, i)'
    BY <1>9 DEF DeliveryInv, UnderWay, TypeInv, TypeOK, Fragments
  <2>2. ASSUME NEW n \in 1 .. Len(wire')
        PROVE  /\ Reached(wire[n].tid, wire[n].idx)'
               /\ wire'[n].idx = 0 => wire'[n].total = size'[wire'[n].tid]
    <3>1. CASE n \in 1 .. W
      <4>1. Reached(wire[n].tid, wire[n].idx) /\ wire'[n] = wire[n]
        BY <1>6, <3>1 DEF DeliveryInv, UnderWay
      <4>2. wire'[n].idx \in Nat
        BY <1>7, <2>2
      <4>3. Reached(wire[n].tid, wire[n].idx)'
        BY <1>9, <4>1, <4>2 DEF Reached
      <4> QED BY <3>1, <4>1, <4>3 DEF DeliveryInv, UnderWay
    <3>2. CASE n \in W + 1 .. Len(wire')
      <4>1. wire'[n].idx < size'[t]
        BY <1>2, <1>3, <1>7, <1>8, <2>2, <3>2
      <4>2. \A o \in Slots : Busy(o)' /\ send'[o].tid = t => o = s
        BY <1>1, <1>3 DEF DeliveryInv, SlotsOpen, Busy
      <4>3. \A o \in Slots : Busy(o)' /\ send'[o].tid = t => wire'[n].idx < send'[o].current
        BY <1>1, <1>8, <3>2, <4>2
      <4> QED BY <1>2, <1>8, <3>2, <4>1, <4>3 DEF Reached
    <3> QED BY <1>6, <3>1, <3>2
  <2> QED BY <2>1, <2>2 DEF DeliveryInv, UnderWay
<1>11. NoLateStart'
  <2>1. ASSUME NEW i \in Nat, Reached(t, i), p.current < p.total
        PROVE  i # Last(t)
    BY <1>2, <2>1 DEF Reached, Last
  <2>2. ASSUME NEW m \in 1 .. Len(wire'), NEW n \in 1 .. Len(wire'), m < n,
               wire'[m].tid = wire'[n].tid, wire'[m].idx = Last(wire'[m].tid),
               wire'[n].idx = 0
        PROVE  FALSE
    <3>1. CASE n \in 1 .. W
      <4>1. m \in 1 .. W
        BY <1>6, <2>2, <3>1
      <4> QED BY <1>6, <2>2, <3>1, <4>1 DEF DeliveryInv, NoLateStart, Last
    <3>2. CASE n \in W + 1 .. Len(wire') /\ m \in 1 .. W
      <4>1. wire'[m] = wire[m] /\ wire[m].tid = t /\ p.current < p.total
        BY <1>6, <1>8, <2>2, <3>2
      <4>2. Reached(t, wire[m].idx) /\ wire[m].idx \in Nat
        BY <1>7, <2>2, <3>2, <4>1 DEF DeliveryInv, UnderWay
      <4> QED BY <2>1, <2>2, <4>1, <4>2
    <3>3. CASE n \in W + 1 .. Len(wire') /\ m \in W + 1 .. Len(wire')
      <4>1. m \in W + 1 .. n - 1
        BY <1>6, <2>2, <3>3
      <4>2. Last(t) = p.total - 1
        BY <1>2 DEF Last
      <4> QED BY <1>8, <2>2, <3>3, <4>1, <4>2
    <3> QED BY <1>6, <3>1, <3>2, <3>3
  <2>3. ASSUME NEW n \in 1 .. Len(wire'), wire'[n].idx = 0,
               Last(wire'[n].tid) \in arrived[wire'[n].tid]
        PROVE  FALSE
    <3>1. CASE n \in 1 .. W
      BY <1>6, <2>3, <3>1 DEF DeliveryInv, NoLateStart
    <3>2. CASE n \in W + 1 .. Len(wire')
      <4>1. wire'[n].tid = t /\ p.current < p.total /\ Last(t) \in arrived[t]
        BY <1>8, <2>3, <3>2
      <4>2. Reached(t, Last(t)) /\ Last(t) \in Nat
        BY <1>2, <4>1 DEF DeliveryInv, UnderWay, TypeInv, TypeOK, Fragments
      <4> QED BY <2>1, <4>1, <4>2
    <3> QED BY <1>6, <3>1, <3>2
  <2>4. \A x : Last(x)' = Last(x)
    BY DEF Last
  <2> QED BY <2>2, <2>3, <2>4 DEF NoLateStart
<1>12. RecvsOpened' /\ HandedOver' /\ OkMeansArrived'
  BY DEF DeliveryInv, RecvsOpened, HandedOver, OkMeansArrived, Last
<1> QED BY <1>4, <1>5, <1>10, <1>11, <1>12 DEF DeliveryInv

LEMMA DriveDelivery ==
  ASSUME TypeInv, StreamInv, DeliveryInv, NEW s \in Slots, Drive(s)
  PROVE  DeliveryInv'
<1>1. /\ Busy(s) /\ send[s] \in SendSlots /\ send[s].tid \in Transfers
      /\ Tabled(send[s]) /\ send[s].st # "free"
  BY DEF Drive, Active, Busy, TypeInv, TypeOK, Owned, DeliveryInv, SlotsTabled
<1>2. wire \in Seq(DataPackets) /\ {} \subseteq send[s].timed
  BY DEF TypeInv, TypeOK
<1>3. PICK q : send' = [send EXCEPT ![s] = q] /\ Moves(q, send[s]) /\ Sent(send[s], q)
  BY <1>1, <1>2, ContinueMoves DEF Drive
<1>4. SacksFit'
  BY DEF Drive, DeliveryInv, SacksFit
<1> QED BY <1>1, <1>3, <1>4, MovesGoesOn, SlotMoves DEF Drive

LEMMA HandleSackDelivery ==
  ASSUME TypeInv, StreamInv, DeliveryInv, HandleSack
  PROVE  DeliveryInv'
<1>1. SacksFit'
  <2>1. back \in Seq(SackPackets) /\ back # <<>> /\ back' = Tail(back)
    BY HandleSackEffect DEF TypeInv, TypeOK
  <2>2. \A n \in 1 .. Len(back') : n + 1 \in 1 .. Len(back) /\ back'[n] = back[n + 1]
    BY <2>1
  <2> QED BY <2>2 DEF DeliveryInv, SacksFit
<1>2. UNCHANGED <<recv, outcome, size, arrived, inbox>>
  BY DEF HandleSack
<1>3. CASE UNCHANGED <<send, wire>>
  BY <1>1, <1>2, <1>3
     DEF DeliveryInv, SlotsTabled, SlotsOpen, UnderWay, Reached, RecvsOpened,
         NoLateStart, HandedOver, OkMeansArrived, Last, Busy
<1>4. ASSUME NEW s \in SendFind(Head(back).stream), NEW q,
             send' = [send EXCEPT ![s] = q], GoesOn(q, send[s]), Sent(send[s], q)
      PROVE  DeliveryInv'
  <2>1. s \in Slots /\ Busy(s)
    BY DEF SendFind, Active, Busy
  <2> QED BY <1>1, <1>2, <1>4, <2>1, SlotMoves
<1> QED BY <1>3, <1>4, HandleSackMoves

LEMMA RetransmitTimeoutDelivery ==
  ASSUME TypeInv, DeliveryInv, NEW s \in Slots, NEW i \in Fragments,
         RetransmitTimeout(s, i)
  PROVE  DeliveryInv'
<1> DEFINE L == send[s].late \cup {i}
           q == [send[s] EXCEPT !.late = L]
<1>1. /\ Busy(s) /\ send[s] \in SendSlots /\ Tabled(send[s]) /\ i \in Outstanding(send[s])
  BY DEF RetransmitTimeout, Active, Busy, TypeInv, TypeOK, DeliveryInv, SlotsTabled
<1>2. Tabled(q)
  BY <1>1, LateTabled
<1>3. /\ q \in SendSlots /\ q.st = send[s].st /\ q.tid = send[s].tid
      /\ q.total = send[s].total /\ q.current = send[s].current
  BY <1>1 DEF SendSlots
<1>4. send[s].current \in Nat
  BY <1>1, PacketConstants DEF SendSlots
<1>5. send' = [send EXCEPT ![s] = q]
  BY DEF RetransmitTimeout
<1> HIDE DEF q
<1>6. GoesOn(q, send[s])
  BY <1>1, <1>2, <1>3, <1>4 DEF GoesOn, Busy
<1>7. Sent(send[s], q)
  <2>1. wire \in Seq(DataPackets) /\ wire' = wire /\ Len(wire) \in Nat
    BY DEF RetransmitTimeout, TypeInv, TypeOK
  <2>2. \A n : n \notin Len(wire) + 1 .. Len(wire')
    BY <2>1
  <2> QED BY <2>1, <2>2 DEF Sent
<1>8. SacksFit'
  BY DEF RetransmitTimeout, DeliveryInv, SacksFit
<1> QED BY <1>1, <1>5, <1>6, <1>7, <1>8, SlotMoves DEF RetransmitTimeout

\* Before it is sent nothing of a transfer is anywhere.
LEMMA NothingOfUnsent ==
  ASSUME TypeInv, StreamInv, DeliveryInv, NEW t \in Transfers, outcome[t] = "unsent"
  PROVE  /\ size[t] = 0 /\ arrived[t] = {}
         /\ \A s \in Slots : Busy(s) => send[s].tid # t
         /\ \A n \in 1 .. Len(wire) : wire[n].tid # t
         /\ \A r \in Recvs : recv[r].on => recv[r].stream + 1 # t
         /\ \A n \in 1 .. Len(inbox) : t \notin inbox[n]
<1>1. size[t] = 0
  BY DEF DeliveryInv, UnderWay
<1>2. \A i \in Nat : ~ Reached(t, i)
  BY <1>1 DEF Reached
<1>3. arrived[t] = {}
  BY <1>2 DEF DeliveryInv, UnderWay, TypeInv, TypeOK, Fragments
<1>4. \A n \in 1 .. Len(wire) : wire[n].tid # t
  <2>1. \A n \in 1 .. Len(wire) : wire[n] \in DataPackets
    BY DEF TypeInv, TypeOK
  <2>2. \A d \in DataPackets : d.idx \in Nat
    BY DEF DataPackets, Fragments
  <2> QED BY <1>2, <2>1, <2>2 DEF DeliveryInv, UnderWay
<1>5. \A r \in Recvs : recv[r].on => recv[r].stream + 1 # t
  BY <1>3 DEF StreamInv, BuffersOwn, BufferOwn, Received
<1>6. \A n \in 1 .. Len(inbox) : t \notin inbox[n]
  BY <1>1 DEF DeliveryInv, HandedOver
<1>7. \A s \in Slots : Busy(s) => send[s].tid # t
  BY DEF DeliveryInv, SlotsOpen
<1> QED BY <1>1, <1>3, <1>4, <1>5, <1>6, <1>7

LEMMA SendDelivery ==
  ASSUME TypeInv, StreamInv, DeliveryInv, NEW t \in Transfers, NEW total \in Totals,
         NEW w \in Windows, NEW th \in Thresholds, Send(t, total, w, th)
  PROVE  DeliveryInv'
<1>1. PICK s \in Slots, c \in Streams :
        /\ FreeSlot(s)
        /\ send' = [send EXCEPT ![s] = StartedSlot(t, c, total, w, th)]
  BY DEF Send
<1> DEFINE q == StartedSlot(t, c, total, w, th)
<1>2. /\ total \in 1 .. MaxFragments /\ w \in 0 .. Unlimited /\ th \in 0 .. 255
  BY TransferConstants
<1>3. Tabled(q) /\ q.tid = t /\ q.total = total /\ q.st = "active"
  <2>1. Tabled(q)
    BY <1>2, StartedTabled
  <2> QED BY <2>1 DEF StartedSlot, EmptySlot
<1>4. ~Busy(s) /\ outcome[t] = "unsent"
  BY <1>1 DEF FreeSlot, Send, Unsent
<1>5. /\ size[t] = 0 /\ arrived[t] = {}
      /\ \A o \in Slots : Busy(o) => send[o].tid # t
      /\ \A n \in 1 .. Len(wire) : wire[n].tid # t
      /\ \A r \in Recvs : recv[r].on => recv[r].stream + 1 # t
      /\ \A n \in 1 .. Len(inbox) : t \notin inbox[n]
  BY <1>4, NothingOfUnsent
<1> HIDE DEF q
<1>6. \A o \in Slots : send'[o] = IF o = s THEN q ELSE send[o]
  BY <1>1 DEF TypeInv, TypeOK, q
<1>7. \A x \in Transfers : /\ size'[x] = IF x = t THEN total ELSE size[x]
                           /\ outcome'[x] = IF x = t THEN "open" ELSE outcome[x]
  BY DEF Send, TypeInv, TypeOK
<1>8. UNCHANGED <<recv, wire, back, arrived, inbox>>
  BY DEF Send
<1>9. SlotsTabled' /\ SlotsOpen'
  <2>1. \A o \in Slots : Busy(o) => send[o].tid \in Transfers
    BY DEF TypeInv, Owned
  <2> QED BY <1>3, <1>5, <1>6, <1>7, <2>1
          DEF DeliveryInv, SlotsTabled, SlotsOpen, Busy
<1>10. \A x \in Transfers : \A i : x # t /\ Reached(x, i) => Reached(x, i)'
  BY <1>3, <1>4, <1>6, <1>7 DEF Reached, Busy
<1>11. \A n \in 1 .. Len(wire) : wire[n].tid \in Transfers
  <2>1. \A n \in 1 .. Len(wire) : wire[n] \in DataPackets
    BY DEF TypeInv, TypeOK
  <2> QED BY <2>1 DEF DataPackets
<1>12. UnderWay'
  BY <1>5, <1>7, <1>8, <1>10, <1>11 DEF DeliveryInv, UnderWay
<1>13. \A x \in Transfers : x # t => Last(x)' = Last(x)
  BY <1>7 DEF Last
<1>14. NoLateStart'
  BY <1>5, <1>8, <1>11, <1>13 DEF DeliveryInv, NoLateStart
<1>15. \A r \in Recvs : recv[r].on => recv[r].stream + 1 \in Transfers
  BY DEF StreamInv, BuffersOwn, BufferOwn
<1>16. RecvsOpened'
  BY <1>5, <1>7, <1>8, <1>15 DEF DeliveryInv, RecvsOpened
<1>17. \A n \in 1 .. Len(inbox) : inbox[n] \subseteq Transfers
  BY DEF TypeInv, TypeOK
<1>18. HandedOver'
  BY <1>5, <1>7, <1>8, <1>13, <1>17 DEF DeliveryInv, HandedOver
<1>19. OkMeansArrived'
  BY <1>7, <1>8 DEF DeliveryInv, OkMeansArrived
<1>20. SacksFit'
  BY <1>8 DEF DeliveryInv, SacksFit
<1> QED BY <1>9, <1>12, <1>14, <1>16, <1>18, <1>19, <1>20 DEF DeliveryInv

LEMMA SendRefusedDelivery ==
  ASSUME TypeInv, StreamInv, DeliveryInv, NEW t \in Transfers, SendRefused(t)
  PROVE  DeliveryInv'
<1>1. outcome[t] = "unsent"
  BY DEF SendRefused, Unsent
<1>2. \A s \in Slots : Busy(s) => send[s].tid # t /\ send[s].tid \in Transfers
  BY <1>1, NothingOfUnsent DEF TypeInv, Owned
<1>3. \A x \in Transfers : outcome'[x] = IF x = t THEN "refused" ELSE outcome[x]
  BY DEF SendRefused, TypeInv, TypeOK
<1>4. UNCHANGED <<send, recv, wire, back, size, arrived, inbox>>
  BY DEF SendRefused
<1>5. SlotsTabled' /\ SlotsOpen'
  BY <1>2, <1>3, <1>4 DEF DeliveryInv, SlotsTabled, SlotsOpen, Busy
<1>6. UnderWay'
  BY <1>3, <1>4 DEF DeliveryInv, UnderWay, Reached, Busy
<1>7. OkMeansArrived'
  BY <1>3, <1>4 DEF DeliveryInv, OkMeansArrived
<1> QED BY <1>4, <1>5, <1>6, <1>7
        DEF DeliveryInv, RecvsOpened, SacksFit, NoLateStart, HandedOver, Last

\* A slot that is cleared, once the outcome of its transfer was told.
LEMMA ClearedDelivery ==
  ASSUME TypeInv, DeliveryInv, NEW s \in Slots, Busy(s),
         send' = [send EXCEPT ![s] = EmptySlot],
         NEW x, x # "unsent", outcome' = [outcome EXCEPT ![send[s].tid] = x],
         x = "ok" => arrived[send[s].tid] = 0 .. size[send[s].tid] - 1,
         UNCHANGED <<recv, wire, back, size, arrived, inbox>>
  PROVE  DeliveryInv'
<1> DEFINE t == send[s].tid
<1>1. t \in Transfers
  BY DEF TypeInv, Owned
<1>2. \A o \in Slots : send'[o] = IF o = s THEN EmptySlot ELSE send[o]
  BY DEF TypeInv, TypeOK
<1>3. \A o \in Slots : Busy(o)' => /\ o # s /\ Busy(o) /\ send'[o] = send[o]
                                   /\ send[o].tid # t /\ send[o].tid \in Transfers
  BY <1>2 DEF Busy, EmptySlot, TypeInv, Owned, DeliveryInv, SlotsOpen
<1>4. \A y \in Transfers : outcome'[y] = IF y = t THEN x ELSE outcome[y]
  BY DEF TypeInv, TypeOK
<1> HIDE DEF t
<1>5. SlotsTabled' /\ SlotsOpen'
  BY <1>3, <1>4 DEF DeliveryInv, SlotsTabled, SlotsOpen
<1>6. \A y, i : Reached(y, i) => Reached(y, i)'
  BY <1>3 DEF Reached
<1>7. UnderWay'
  BY <1>4, <1>6 DEF DeliveryInv, UnderWay
<1>8. OkMeansArrived'
  BY <1>1, <1>4 DEF DeliveryInv, OkMeansArrived, t
<1> QED BY <1>5, <1>7, <1>8
        DEF DeliveryInv, RecvsOpened, SacksFit, NoLateStart, HandedOver, Last

\* As many numbers as one counts from zero.
LEMMA FirstNumbers ==
  \A N \in Nat : IsFiniteSet(0 .. N - 1) /\ Cardinality(0 .. N - 1) = N
<1>1. \A a, b \in Int : /\ IsFiniteSet(a .. b)
                        /\ Cardinality(a .. b) = IF a > b THEN 0 ELSE b - a + 1
  BY FS_Interval
<1> SUFFICES ASSUME NEW N \in Nat
             PROVE  IsFiniteSet(0 .. N - 1) /\ Cardinality(0 .. N - 1) = N
  OBVIOUS
<1> DEFINE k == N - 1
<1>2. 0 \in Int /\ k \in Int /\ (IF 0 > k THEN 0 ELSE k - 0 + 1) = N
  OBVIOUS
<1> HIDE DEF k
<1>3. /\ IsFiniteSet(0 .. k)
      /\ Cardinality(0 .. k) = IF 0 > k THEN 0 ELSE k - 0 + 1
  BY <1>1, <1>2, Zenon
<1> QED BY <1>2, <1>3 DEF k

\* A transfer whose table is full has all its fragments at the peer.
LEMMA FullArrived ==
  ASSUME TypeInv, StreamInv, DeliveryInv, NEW s \in Slots, Busy(s),
         send[s].status = "ok"
  PROVE  arrived[send[s].tid] = 0 .. size[send[s].tid] - 1
<1> DEFINE p == send[s]
           t == p.tid
           all == 0 .. p.total - 1
<1>1. /\ p \in SendSlots /\ t \in Transfers /\ Tabled(p) /\ size[t] = p.total
      /\ p.acked \subseteq arrived[t]
  BY DEF TypeInv, TypeOK, Owned, StreamInv, SlotsOwn, DeliveryInv, SlotsTabled, SlotsOpen
<1>2. /\ p.total \in Nat /\ p.current \in Nat /\ p.current <= p.total
      /\ p.acked \subseteq 0 .. p.current - 1 /\ Cardinality(p.acked) >= p.total
  BY <1>1, PacketConstants DEF Tabled, SendSlots
<1>3. p.acked \in SUBSET all
  BY <1>2
<1>4. IsFiniteSet(all) /\ Cardinality(all) = p.total
  BY <1>2, FirstNumbers
<1>5. p.acked = all
  <2> HIDE DEF all
  <2>1. Cardinality(p.acked) <= Cardinality(all) /\ Cardinality(p.acked) \in Nat
    BY <1>3, <1>4, FS_Subset, FS_CardinalityType
  <2>2. Cardinality(p.acked) = Cardinality(all)
    BY <1>2, <1>4, <2>1
  <2> QED BY <1>3, <1>4, <2>2, FS_Subset
<1>6. arrived[t] \subseteq all
  <2>1. \A i \in arrived[t] : i \in Nat /\ i < p.total
    BY <1>1 DEF DeliveryInv, UnderWay, Reached, TypeInv, TypeOK, Fragments
  <2> QED BY <1>2, <2>1
<1> QED BY <1>1, <1>5, <1>6

LEMMA SendResetDelivery ==
  ASSUME TypeInv, DeliveryInv, NEW s \in Slots, SendReset(s)
  PROVE  DeliveryInv'
BY ClearedDelivery DEF SendReset, Active, Busy

LEMMA DeadlineDelivery ==
  ASSUME TypeInv, DeliveryInv, NEW s \in Slots, Deadline(s)
  PROVE  DeliveryInv'
BY ClearedDelivery DEF Deadline, Active, Busy

LEMMA ReportCompletionDelivery ==
  ASSUME TypeInv, StreamInv, DeliveryInv, NEW s \in Slots, ReportCompletion(s)
  PROVE  DeliveryInv'
<1>1. send[s].status # "unsent" /\ Busy(s)
  BY DEF ReportCompletion, TypeInv, TypeOK, SendSlots, Busy
<1> QED BY <1>1, FullArrived, ClearedDelivery DEF ReportCompletion

------------------------------------------------------------------------------
(* The receiver's steps *)

\* Receive slots that are reset.
LEMMA RecvClearedDelivery ==
  ASSUME DeliveryInv, \A r \in Recvs : recv'[r] \in {recv[r], EmptyRecv},
         UNCHANGED <<send, wire, back, outcome, size, arrived, inbox>>
  PROVE  DeliveryInv'
<1>1. \A r \in Recvs : recv'[r].on => recv'[r] = recv[r]
  BY DEF EmptyRecv
<1>2. RecvsOpened'
  BY <1>1 DEF DeliveryInv, RecvsOpened
<1>3. HandedOver'
  BY <1>1 DEF DeliveryInv, HandedOver, Last
<1> QED BY <1>2, <1>3
        DEF DeliveryInv, SlotsTabled, SlotsOpen, UnderWay, Reached, SacksFit,
            NoLateStart, OkMeansArrived, Last, Busy

LEMMA RecvResetDelivery ==
  ASSUME DeliveryInv, NEW c \in Streams, RecvReset(c)
  PROVE  DeliveryInv'
BY RecvClearedDelivery DEF RecvReset

LEMMA RecvTimeoutDelivery ==
  ASSUME TypeInv, DeliveryInv, NEW r \in Recvs, RecvTimeout(r)
  PROVE  DeliveryInv'
<1>1. \A o \in Recvs : recv'[o] \in {recv[o], EmptyRecv}
  BY DEF RecvTimeout, TypeInv, TypeOK
<1> QED BY <1>1, RecvClearedDelivery DEF RecvTimeout

\* The SACK of a slot that holds its START fits.
LEMMA SackOfFits ==
  ASSUME NEW slot \in RecvSlots, 0 \in Received(slot)
  PROVE  SackFits(SackOf(slot))
<1>1. TopReceived(slot) \in Nat
  BY TopIsTop DEF Fragments
<1>2. TopReceived(slot) \notin Missing(slot) /\ 0 \notin Missing(slot)
  BY <1>1 DEF Missing
<1> QED BY <1>2 DEF SackOf, SackPacket, SackFits

LEMMA SacksFitFrom ==
  ASSUME SacksFit, NEW slot \in RecvSlots, 0 \in Received(slot), BackFrom(SackOf(slot))
  PROVE  SacksFit'
<1>1. SackFits(SackOf(slot))
  BY SackOfFits
<1> QED BY <1>1 DEF SacksFit, BackFrom

LEMMA DelayedSackDelivery ==
  ASSUME TypeInv, StreamInv, DeliveryInv, NEW r \in Recvs, DelayedSack(r)
  PROVE  DeliveryInv'
<1>1. recv[r] \in RecvSlots /\ back \in Seq(SackPackets)
  BY DEF TypeInv, TypeOK
<1>2. UNCHANGED <<send, wire, outcome, size, arrived, inbox>> /\ recv[r].on
  BY DEF DelayedSack
<1>3. /\ \E x : SameBuffer(x, recv[r]) /\ recv' = [recv EXCEPT ![r] = x]
      /\ BackFrom(SackOf(recv[r]))
  BY <1>1, SendSackEffect DEF DelayedSack
<1>4. PICK x : SameBuffer(x, recv[r]) /\ recv' = [recv EXCEPT ![r] = x]
  BY <1>3
<1>5. \A o \in Recvs : /\ recv'[o].on = recv[o].on /\ recv'[o].stream = recv[o].stream
                       /\ recv'[o].total = recv[o].total
                       /\ Received(recv'[o]) = Received(recv[o])
  BY <1>4 DEF SameBuffer, Received, TypeInv, TypeOK
<1>6. RecvsOpened' /\ HandedOver'
  BY <1>2, <1>5 DEF DeliveryInv, RecvsOpened, HandedOver, Last
<1>7. 0 \in Received(recv[r])
  BY <1>2 DEF DeliveryInv, RecvsOpened
<1>8. SacksFit'
  BY <1>1, <1>3, <1>7, SacksFitFrom DEF DeliveryInv
<1> QED BY <1>2, <1>6, <1>8
        DEF DeliveryInv, SlotsTabled, SlotsOpen, UnderWay, Reached,
            NoLateStart, OkMeansArrived, Last, Busy

\* A whole buffer of its transfer's own means that all of the transfer arrived.
LEMMA WholeArrived ==
  ASSUME NEW slot \in RecvSlots, NEW stored, BufferOwn(slot, stored), Whole(slot)
  PROVE  0 .. slot.total - 1 \subseteq stored[slot.stream + 1]
<1> DEFINE all == 0 .. slot.total - 1
           got == Received(slot)
<1>1. slot.total \in Nat
  BY PacketConstants DEF RecvSlots
<1>2. IsFiniteSet(all) /\ Cardinality(all) = slot.total
  BY <1>1, FirstNumbers
<1>3. got \in SUBSET all
  BY <1>1 DEF Received, Fragments
<1>4. \A i \in got : i \in stored[slot.stream + 1]
  BY DEF BufferOwn, Received
<1>5. Cardinality(got) >= slot.total
  BY DEF Whole
<1> HIDE DEF all, got
<1>6. Cardinality(got) \in Nat /\ Cardinality(got) <= Cardinality(all)
  BY <1>2, <1>3, FS_Subset, FS_CardinalityType
<1>7. Cardinality(got) = Cardinality(all)
  BY <1>1, <1>2, <1>5, <1>6
<1>8. got = all
  BY <1>2, <1>3, <1>7, FS_Subset
<1> QED BY <1>4, <1>8 DEF all

\* The first packet leaves the wire, and its fragment may arrive.
LEMMA ArrivalDelivery ==
  ASSUME TypeInv, DeliveryInv, wire # <<>>, wire' = Tail(wire),
         \/ UNCHANGED arrived
         \/ arrived' = [arrived EXCEPT ![Head(wire).tid] = @ \cup {Head(wire).idx}],
         UNCHANGED <<send, outcome, size>>
  PROVE  /\ SlotsTabled' /\ SlotsOpen' /\ UnderWay' /\ NoLateStart' /\ OkMeansArrived'
         /\ \A t \in Transfers : arrived[t] = 0 .. Last(t) => arrived'[t] = 0 .. Last(t)
<1> DEFINE pkt == Head(wire)
<1>1. /\ wire \in Seq(DataPackets) /\ pkt = wire[1] /\ 1 \in 1 .. Len(wire)
      /\ Len(wire) \in Nat /\ Len(wire') = Len(wire) - 1
      /\ \A n \in 1 .. Len(wire') : n + 1 \in 1 .. Len(wire) /\ wire'[n] = wire[n + 1]
  BY DEF TypeInv, TypeOK
<1>2. /\ \A n \in 1 .. Len(wire) :
            wire[n] \in DataPackets /\ wire[n].tid \in Transfers /\ wire[n].idx \in Nat
      /\ pkt \in DataPackets /\ pkt.tid \in Transfers /\ pkt.idx \in Nat
  <2>1. \A n \in 1 .. Len(wire) : wire[n] \in DataPackets
    BY <1>1
  <2>2. \A d \in DataPackets : d.tid \in Transfers /\ d.idx \in Nat
    BY DEF DataPackets, Fragments
  <2> QED BY <1>1, <2>1, <2>2
<1>3. pkt.idx < size[pkt.tid] /\ Reached(pkt.tid, pkt.idx)
  BY <1>1 DEF DeliveryInv, UnderWay, Reached
<1>4. \A t \in Transfers :
        /\ arrived[t] \subseteq arrived'[t]
        /\ \A i \in arrived'[t] : i \in arrived[t] \/ (t = pkt.tid /\ i = pkt.idx)
  BY <1>2 DEF TypeInv, TypeOK
<1> HIDE DEF pkt
<1>5. SlotsTabled' /\ SlotsOpen'
  BY DEF DeliveryInv, SlotsTabled, SlotsOpen, Busy
<1>6. \A t, i : Reached(t, i) => Reached(t, i)'
  BY DEF Reached, Busy
<1>7. \A t \in Transfers : \A i \in arrived'[t] : Reached(t, i) /\ i \in Nat
  BY <1>2, <1>3, <1>4 DEF DeliveryInv, UnderWay, TypeInv, TypeOK, Fragments
<1>8. UnderWay'
  <2>1. \A n \in 1 .. Len(wire') :
           wire'[n].idx = 0 => wire'[n].total = size'[wire'[n].tid]
    BY <1>1 DEF DeliveryInv, UnderWay
  <2>2. \A t \in Transfers : \A i \in arrived'[t] : Reached(t, i)'
    BY <1>6, <1>7
  <2>3. \A n \in 1 .. Len(wire') : /\ wire'[n].idx < size'[wire'[n].tid]
                                   /\ \A s \in Slots : Busy(s)' /\ send'[s].tid = wire'[n].tid
                                         => wire'[n].idx < send'[s].current
    BY <1>1 DEF DeliveryInv, UnderWay, Reached, Busy
  <2>4. \A t \in Transfers : outcome'[t] = "unsent" => size'[t] = 0
    BY DEF DeliveryInv, UnderWay
  <2> QED BY <2>1, <2>2, <2>3, <2>4 DEF UnderWay, Reached
<1>9. NoLateStart'
  <2>1. \A t : Last(t)' = Last(t)
    BY DEF Last
  <2>2. ASSUME NEW m \in 1 .. Len(wire'), NEW n \in 1 .. Len(wire'), m < n,
               wire'[m].tid = wire'[n].tid, wire'[m].idx = Last(wire'[m].tid)
        PROVE  wire'[n].idx # 0
    <3>1. m + 1 < n + 1 /\ m + 1 \in 1 .. Len(wire) /\ n + 1 \in 1 .. Len(wire)
      BY <1>1, <2>2
    <3> QED BY <1>1, <2>2, <3>1 DEF DeliveryInv, NoLateStart
  <2>3. ASSUME NEW n \in 1 .. Len(wire'), Last(wire'[n].tid) \in arrived'[wire'[n].tid]
        PROVE  wire'[n].idx # 0
    <3>1. n + 1 \in 1 .. Len(wire) /\ wire'[n] = wire[n + 1] /\ 1 < n + 1
      BY <1>1
    <3>2. wire'[n].tid \in Transfers
      BY <1>2, <3>1
    <3>3. CASE Last(wire'[n].tid) \in arrived[wire'[n].tid]
      BY <3>1, <3>3 DEF DeliveryInv, NoLateStart
    <3>4. CASE wire'[n].tid = pkt.tid /\ Last(pkt.tid) = pkt.idx
      BY <1>1, <3>1, <3>4 DEF DeliveryInv, NoLateStart
    <3> QED BY <1>4, <2>3, <3>2, <3>3, <3>4
  <2> QED BY <2>1, <2>2, <2>3 DEF NoLateStart
<1>10. \A t \in Transfers : arrived[t] = 0 .. Last(t) => arrived'[t] = 0 .. Last(t)
  <2> SUFFICES ASSUME NEW t \in Transfers, arrived[t] = 0 .. Last(t)
               PROVE  arrived'[t] \subseteq 0 .. Last(t)
    BY <1>4
  <2>1. size[t] \in Nat
    BY PacketConstants DEF TypeInv, TypeOK
  <2>2. \A i \in arrived'[t] : i \in Nat /\ i < size[t]
    BY <1>7 DEF Reached
  <2> QED BY <2>1, <2>2 DEF Last
<1>11. OkMeansArrived'
  BY <1>10 DEF DeliveryInv, OkMeansArrived, Last
<1> QED BY <1>5, <1>8, <1>9, <1>10, <1>11

\* Buffer "slot", in receive slot r, fits: it holds its START, knows its size, is the
\* only one of its transfer, and the transfer was not handed over.
SlotFits(r, slot) ==
  /\ 0 \in Received(slot) /\ slot.total = size[slot.stream + 1]
  /\ \A o \in Recvs : o # r /\ recv[o].on => recv[o].stream # slot.stream
  /\ \A n \in 1 .. Len(inbox) : slot.stream + 1 \notin inbox[n]

LEMMA TakenDelivery ==
  ASSUME TypeInv, DeliveryInv, NEW r \in Recvs, NEW slot \in RecvSlots, NEW pkt,
         TakenInto(r, slot, pkt), BufferOwn(slot, arrived'), SlotFits(r, slot),
         UNCHANGED size, UnderWay', arrived' \in [Transfers -> SUBSET Fragments],
         \A t \in Transfers : arrived[t] = 0 .. Last(t) => arrived'[t] = 0 .. Last(t)
  PROVE  RecvsOpened' /\ SacksFit' /\ HandedOver'
<1> DEFINE t == slot.stream + 1
<1>1. t \in Transfers /\ slot.stream \in Nat
  BY DEF BufferOwn, RecvSlots, Streams
<1>2. PICK x : /\ x = EmptyRecv \/ SameBuffer(x, slot)
               /\ recv' = [recv EXCEPT ![r] = x]
  BY DEF TakenInto
<1>3. \A o \in Recvs : recv'[o] = IF o = r THEN x ELSE recv[o]
  BY <1>2 DEF TypeInv, TypeOK
<1>4. x.on => /\ x.stream = slot.stream /\ x.total = slot.total
              /\ Received(x) = Received(slot)
  <2>1. CASE x = EmptyRecv
    BY <2>1 DEF EmptyRecv
  <2>2. CASE SameBuffer(x, slot)
    BY <2>2 DEF SameBuffer, Received
  <2> QED BY <1>2, <2>1, <2>2
<1>5. RecvsOpened'
  BY <1>3, <1>4 DEF DeliveryInv, RecvsOpened, SlotFits
<1>6. SacksFit'
  BY SacksFitFrom DEF DeliveryInv, SlotFits, TakenInto
<1>7. \A y \in Transfers : Last(y)' = Last(y) /\ size'[y] = size[y]
  BY DEF Last
<1>8. \A o \in Recvs : recv[o].on => recv[o].stream \in Nat
  BY DEF TypeInv, TypeOK, RecvSlots, Streams
<1>9. \A n \in 1 .. Len(inbox) : \A y \in inbox[n] :
        /\ y \in Transfers /\ y # t
        /\ size'[y] >= 1 /\ arrived'[y] = 0 .. Last(y)
        /\ \A o \in Recvs : recv'[o].on => recv'[o].stream + 1 # y
  <2> SUFFICES ASSUME NEW n \in 1 .. Len(inbox), NEW y \in inbox[n]
               PROVE  /\ y \in Transfers /\ y # t
                      /\ size'[y] >= 1 /\ arrived'[y] = 0 .. Last(y)
                      /\ \A o \in Recvs : recv'[o].on => recv'[o].stream + 1 # y
    OBVIOUS
  <2>1. y \in Transfers
    BY DEF TypeInv, TypeOK
  <2>2. y # t
    BY DEF SlotFits
  <2>3. size'[y] >= 1 /\ arrived'[y] = 0 .. Last(y)
    BY <2>1 DEF DeliveryInv, HandedOver
  <2>4. \A o \in Recvs : recv'[o].on => recv'[o].stream + 1 # y
    BY <1>3, <1>4, <2>2 DEF DeliveryInv, HandedOver
  <2> QED BY <2>1, <2>2, <2>3, <2>4
<1>10. CASE inbox' = inbox
  <2>1. \A n \in 1 .. Len(inbox') : \A y \in inbox'[n] :
          /\ size'[y] >= 1 /\ arrived'[y] = 0 .. size'[y] - 1
          /\ \A o \in Recvs : recv'[o].on => recv'[o].stream + 1 # y
    BY <1>7, <1>9, <1>10 DEF Last
  <2>2. \A m, n \in 1 .. Len(inbox') : m # n => inbox'[m] \cap inbox'[n] = {}
    BY <1>10 DEF DeliveryInv, HandedOver
  <2> QED BY <1>5, <1>6, <2>1, <2>2 DEF HandedOver, Last
<1>11. CASE /\ Whole(slot) /\ inbox' = Append(inbox, Contributors(slot))
            /\ recv' = [recv EXCEPT ![r] = EmptyRecv]
  <2>1. Contributors(slot) = {t}
    BY BufferYields
  <2>2. inbox \in Seq(SUBSET Transfers) /\ {t} \in SUBSET Transfers
    BY <1>1 DEF TypeInv, TypeOK
  <2>3. /\ Len(inbox') = Len(inbox) + 1 /\ Len(inbox) \in Nat
        /\ \A n \in 1 .. Len(inbox') : inbox'[n] = IF n <= Len(inbox) THEN inbox[n] ELSE {t}
    BY <1>11, <2>1, <2>2
  <2>4. size[t] = slot.total /\ slot.total \in Nat
    BY PacketConstants DEF SlotFits, RecvSlots
  <2>5. size[t] >= 1 /\ arrived'[t] = 0 .. Last(t)
    <3>1. 0 < slot.total
      BY <2>4 DEF SlotFits, Received
    <3>2. 0 .. Last(t) \subseteq arrived'[t]
      BY <1>11, <2>4, WholeArrived DEF Last
    <3>3. \A i \in arrived'[t] : i < size[t]
      BY <1>1, <1>7 DEF UnderWay, Reached
    <3>4. \A i \in arrived'[t] : i \in Nat
      BY <1>1 DEF Fragments
    <3>5. arrived'[t] \subseteq 0 .. Last(t)
      BY <2>4, <3>3, <3>4 DEF Last
    <3>6. arrived'[t] = 0 .. Last(t)
      BY <3>2, <3>5
    <3>7. size[t] >= 1
      BY <2>4, <3>1
    <3> QED BY <3>6, <3>7
  <2>6. \A o \in Recvs : recv'[o].on => recv'[o].stream + 1 # t
    <3>1. \A o \in Recvs : recv'[o].on => o # r /\ recv'[o] = recv[o]
      BY <1>11 DEF TypeInv, TypeOK, EmptyRecv
    <3> QED BY <1>1, <1>8, <3>1 DEF SlotFits
  <2>7. \A n \in 1 .. Len(inbox') : \A y \in inbox'[n] :
          /\ size'[y] >= 1 /\ arrived'[y] = 0 .. size'[y] - 1 /\ y \in Transfers
          /\ \A o \in Recvs : recv'[o].on => recv'[o].stream + 1 # y
    BY <1>1, <1>7, <1>9, <2>3, <2>5, <2>6 DEF Last
  <2>8. ASSUME NEW m \in 1 .. Len(inbox'), NEW n \in 1 .. Len(inbox'), m # n
        PROVE  inbox'[m] \cap inbox'[n] = {}
    <3>1. CASE m <= Len(inbox) /\ n <= Len(inbox)
      BY <2>3, <2>8, <3>1 DEF DeliveryInv, HandedOver
    <3>2. CASE m > Len(inbox)
      BY <1>9, <2>3, <2>8, <3>2
    <3>3. CASE n > Len(inbox)
      BY <1>9, <2>3, <2>8, <3>3
    <3> QED BY <2>3, <3>1, <3>2, <3>3
  <2> QED BY <1>5, <1>6, <2>7, <2>8 DEF HandedOver, Last
<1> QED BY <1>5, <1>6, <1>10, <1>11 DEF TakenInto

LEMMA HandleDataDelivery ==
  ASSUME TypeInv, StreamInv, DeliveryInv, HandleData
  PROVE  DeliveryInv'
<1> DEFINE pkt == Head(wire)
<1>1. TypeOK
  BY DEF TypeInv
<1>2. wire # <<>> /\ wire' = Tail(wire) /\ pkt \in DataPackets
  BY <1>1, HandleDataEffect
<1>3. UNCHANGED <<send, outcome, size>>
  BY DEF HandleData
<1>4. /\ wire \in Seq(DataPackets) /\ pkt = wire[1] /\ 1 \in 1 .. Len(wire)
  BY <1>1, <1>2 DEF TypeOK
<1>5. /\ pkt.tid = pkt.stream + 1 /\ Reached(pkt.tid, pkt.idx)
      /\ pkt.idx = 0 => pkt.total >= 1 /\ pkt.total = size[pkt.tid]
      /\ Last(pkt.tid) \in arrived[pkt.tid] => pkt.idx # 0
  BY <1>4 DEF StreamInv, WireOwn, DeliveryInv, UnderWay, NoLateStart
<1>6. pkt.tid \in Transfers /\ pkt.stream \in Nat /\ pkt.stream \in Streams
  BY <1>2 DEF DataPackets, Streams
<1>7. ASSUME UNCHANGED arrived \/ arrived' = [arrived EXCEPT ![pkt.tid] = @ \cup {pkt.idx}]
      PROVE  /\ SlotsTabled' /\ SlotsOpen' /\ UnderWay' /\ NoLateStart' /\ OkMeansArrived'
             /\ \A t \in Transfers : arrived[t] = 0 .. Last(t) => arrived'[t] = 0 .. Last(t)
  BY <1>2, <1>3, <1>7, ArrivalDelivery
<1> HIDE DEF pkt
<1>8. TypeInv'
  BY HandleDataType
<1>9. arrived' \in [Transfers -> SUBSET Fragments]
  BY <1>8 DEF TypeInv, TypeOK
<1>10. ASSUME \/ UNCHANGED recv
              \/ \E r \in Recvs : recv' = [recv EXCEPT ![r] = EmptyRecv],
              UNCHANGED <<back, arrived, inbox>>
       PROVE  DeliveryInv'
  <2>1. \A r \in Recvs : recv'[r].on => recv'[r] = recv[r]
    BY <1>1, <1>10 DEF TypeOK, EmptyRecv
  <2>2. RecvsOpened'
    BY <1>3, <2>1 DEF DeliveryInv, RecvsOpened
  <2>3. HandedOver'
    BY <1>3, <1>10, <2>1 DEF DeliveryInv, HandedOver, Last
  <2>4. SacksFit'
    BY <1>10 DEF DeliveryInv, SacksFit
  <2> QED BY <1>7, <1>10, <2>2, <2>3, <2>4 DEF DeliveryInv
<1>11. ASSUME NEW r \in Recvs, NEW slot \in RecvSlots, TakenInto(r, slot, pkt),
              BufferOwn(slot, arrived'), SlotFits(r, slot)
       PROVE  DeliveryInv'
  <2>1. arrived' = [arrived EXCEPT ![pkt.tid] = @ \cup {pkt.idx}]
    BY <1>11 DEF TakenInto
  <2>2. RecvsOpened' /\ SacksFit' /\ HandedOver'
    BY <1>3, <1>7, <1>9, <1>11, <2>1, TakenDelivery
  <2> QED BY <1>7, <2>1, <2>2 DEF DeliveryInv
<1>12. ASSUME pkt.idx = 0, NEW r \in Recvs, r \in RecvFor(pkt.stream),
              TakenInto(r, OpenedRecv(pkt), pkt)
       PROVE  DeliveryInv'
  <2> DEFINE slot == OpenedRecv(pkt)
  <2>1. Grows /\ 0 \in arrived'[pkt.tid]
    BY <1>1, <1>2, <1>12, ArrivalGrows DEF TakenInto
  <2>2. BufferOwn(slot, arrived') /\ slot \in RecvSlots
    BY <1>2, <1>5, <1>12, <2>1, OpenedOwn, OpenedRecvType
  <2>3. 0 \in Fragments /\ pkt.total \in Int
    BY <1>2, PacketConstants DEF Fragments, DataPackets
  <2>4. /\ slot.stream = pkt.stream /\ slot.total = pkt.total
        /\ slot.buf[0] = pkt.tid
    BY <2>3 DEF OpenedRecv, EmptyRecv
  <2> HIDE DEF slot
  <2>5. 0 \in Received(slot)
    BY <1>5, <1>6, <1>12, <2>3, <2>4 DEF Received, Transfers, NoTransfer
  <2>6. \A o \in Recvs : o # r /\ recv[o].on => recv[o].stream # pkt.stream
    <3>1. CASE RecvFind(pkt.stream) # {}
      <4>1. recv[r].on /\ recv[r].stream = pkt.stream
        BY <1>12, <3>1 DEF RecvFor, RecvFind
      <4> QED BY <4>1 DEF DeliveryInv, RecvsOpened
    <3>2. CASE RecvFind(pkt.stream) = {}
      BY <3>2 DEF RecvFind
    <3> QED BY <3>1, <3>2
  <2>7. \A n \in 1 .. Len(inbox) : pkt.tid \notin inbox[n]
    <3> SUFFICES ASSUME NEW n \in 1 .. Len(inbox), pkt.tid \in inbox[n]
                 PROVE  FALSE
      OBVIOUS
    <3>1. size[pkt.tid] >= 1 /\ arrived[pkt.tid] = 0 .. Last(pkt.tid)
      BY DEF DeliveryInv, HandedOver
    <3>2. size[pkt.tid] \in Nat
      BY <1>1, <1>6, PacketConstants DEF TypeOK
    <3>3. Last(pkt.tid) \in 0 .. Last(pkt.tid)
      BY <3>1, <3>2 DEF Last
    <3> QED BY <1>5, <1>12, <3>1, <3>3
  <2>8. SlotFits(r, slot)
    BY <1>5, <1>12, <2>4, <2>5, <2>6, <2>7 DEF SlotFits
  <2> QED BY <1>11, <1>12, <2>2, <2>8 DEF slot
<1>13. ASSUME NEW r \in RecvFind(pkt.stream), TakenInto(r, Stored(recv[r], pkt), pkt),
              pkt.idx < recv[r].total
       PROVE  DeliveryInv'
  <2> DEFINE slot == Stored(recv[r], pkt)
  <2>1. r \in Recvs /\ recv[r] \in RecvSlots /\ recv[r].on /\ recv[r].stream = pkt.stream
    BY <1>1 DEF RecvFind, TypeOK
  <2>2. BufferOwn(recv[r], arrived)
    BY <2>1 DEF StreamInv, BuffersOwn
  <2>3. Grows /\ pkt.idx \in arrived'[pkt.tid]
    BY <1>1, <1>2, <1>13, ArrivalGrows DEF TakenInto
  <2>4. BufferOwn(slot, arrived') /\ slot \in RecvSlots
    BY <1>2, <1>5, <1>13, <2>1, <2>2, <2>3, StoredOwn, StoredType
  <2>5. /\ slot.stream = recv[r].stream /\ slot.total = recv[r].total
        /\ \A i \in Fragments : slot.buf[i] = IF i = pkt.idx THEN pkt.tid ELSE recv[r].buf[i]
    BY <1>2, <2>1 DEF Stored, RecvSlots, DataPackets
  <2> HIDE DEF slot
  <2>6. 0 \in Received(recv[r]) /\ recv[r].total = size[recv[r].stream + 1]
    BY <2>1 DEF DeliveryInv, RecvsOpened
  <2>7. 0 \in Received(slot)
    BY <1>6, <2>5, <2>6 DEF Received, Transfers, NoTransfer
  <2>8. \A o \in Recvs : o # r /\ recv[o].on => recv[o].stream # slot.stream
    BY <2>1, <2>5 DEF DeliveryInv, RecvsOpened
  <2>9. \A n \in 1 .. Len(inbox) : slot.stream + 1 \notin inbox[n]
    BY <2>1, <2>5 DEF DeliveryInv, HandedOver
  <2>10. SlotFits(r, slot)
    BY <2>5, <2>6, <2>7, <2>8, <2>9 DEF SlotFits
  <2> QED BY <1>11, <1>13, <2>1, <2>4, <2>10 DEF slot
<1> QED BY <1>1, <1>10, <1>12, <1>13, HandleDataEffect DEF pkt

------------------------------------------------------------------------------
(* The invariant holds, and what follows from it *)

LEMMA DeliveryStep ==
  ASSUME TypeInv, StreamInv, DeliveryInv, [Next]_vars
  PROVE  DeliveryInv'
<1>1. CASE SomeSend
  BY <1>1, SendDelivery DEF SomeSend
<1>2. CASE \E t \in Transfers : SendRefused(t)
  BY <1>2, SendRefusedDelivery
<1>3. CASE \E s \in Slots : SendReset(s) \/ Drive(s) \/ ReportCompletion(s) \/ Deadline(s)
  BY <1>3, SendResetDelivery, DriveDelivery, ReportCompletionDelivery, DeadlineDelivery
<1>4. CASE \E s \in Slots, i \in Fragments : RetransmitTimeout(s, i)
  BY <1>4, RetransmitTimeoutDelivery
<1>5. CASE \E c \in Streams : RecvReset(c)
  BY <1>5, RecvResetDelivery
<1>6. CASE HandleSack
  BY <1>6, HandleSackDelivery
<1>7. CASE HandleData
  BY <1>7, HandleDataDelivery
<1>8. CASE \E r \in Recvs : RecvTimeout(r) \/ DelayedSack(r)
  BY <1>8, RecvTimeoutDelivery, DelayedSackDelivery
<1>9. CASE UNCHANGED vars
  BY <1>9 DEF vars, DeliveryInv, SlotsTabled, SlotsOpen, UnderWay, Reached, RecvsOpened,
              SacksFit, NoLateStart, HandedOver, OkMeansArrived, Last, Busy
<1> QED BY <1>1, <1>2, <1>3, <1>4, <1>5, <1>6, <1>7, <1>8, <1>9 DEF Next

LEMMA DeliveryInvariant ==
  ASSUME NoReuse
  PROVE  Spec => [](TypeInv /\ StreamInv /\ DeliveryInv)
<1>1. TypeInv /\ StreamInv /\ DeliveryInv /\ [Next]_vars
        => (TypeInv /\ StreamInv /\ DeliveryInv)'
  BY TypeStep, StreamStep, DeliveryStep
<1> QED BY TypeInit, StreamInit, DeliveryInit, <1>1, PTL DEF Spec

\* The counters sent_fragments and in_flight, by which flux_send_continue decides
\* without looking at its tables, agree with the tables in every reachable state.
THEOREM CountersCount ==
  ASSUME NoReuse
  PROVE  Spec => []CountersAgree
<1>1. DeliveryInv => CountersAgree
  BY DEF DeliveryInv, SlotsTabled, Tabled, CountersAgree, Active, Busy
<1> QED BY DeliveryInvariant, <1>1, PTL

\* However fragments are lost, sent again and acknowledged late, no more of them are
\* sent and unacknowledged than the window given to flux_session_send allows.
THEOREM WindowHolds ==
  ASSUME NoReuse
  PROVE  Spec => []WindowRespected
<1>1. DeliveryInv => WindowRespected
  BY DEF DeliveryInv, SlotsTabled, Tabled, WindowRespected, Active, Busy
<1> QED BY DeliveryInvariant, <1>1, PTL

\* When flux_transmit_task reports ESP_OK for a transfer, the peer has stored each of
\* its fragments.
THEOREM OkIsArrival ==
  ASSUME NoReuse
  PROVE  Spec => []OkMeansArrived
<1>1. DeliveryInv => OkMeansArrived
  BY DEF DeliveryInv
<1> QED BY DeliveryInvariant, <1>1, PTL

\* No message is handed over twice: once the last fragment was sent, its START, with
\* which flux_fragment_recv_handle would collect it anew, is never sent again.
THEOREM HandedOverOnce ==
  ASSUME NoReuse
  PROVE  Spec => []AtMostOnce
<1>1. TypeInv /\ DeliveryInv => AtMostOnce
  <2> SUFFICES ASSUME TypeInv, DeliveryInv PROVE AtMostOnce
    OBVIOUS
  <2>1. DOMAIN inbox = 1 .. Len(inbox)
    BY DEF TypeInv, TypeOK
  <2> QED BY <2>1 DEF DeliveryInv, HandedOver, AtMostOnce
<1> QED BY DeliveryInvariant, <1>1, PTL

------------------------------------------------------------------------------
(* The order of streams *)

\* A slot of a transfer sends its first fragment after every active older one has
\* sent all of its own.
OlderDone ==
  \A s, o \in Slots :
     /\ Active(send[s]) /\ Active(send[o]) /\ send[o].tid < send[s].tid
     /\ send[s].current > 0
     => AllDispatched(send[o])

LEMMA NegativeModulus ==
  ASSUME NEW N \in Nat \ {0}, NEW a \in 0 .. N - 1
  PROVE  (a - N) % N = a
OBVIOUS

\* stream_blocked_by_older compares ages, counted back from the next stream id; while
\* no id is drawn twice the older transfer is the one with the greater age.
LEMMA AgeIsOrder ==
  ASSUME NoReuse, TypeInv, StreamInv, NEW s \in Slots, NEW o \in Slots,
         Busy(s), Busy(o), send[o].tid < send[s].tid
  PROVE  Age(send[o].stream) > Age(send[s].stream)
<1>1. PICK k \in 0 .. MaxTransfers :
          /\ \A t \in Transfers : outcome[t] = "unsent" <=> t > k
          /\ nextStream = k % NumStreams
  BY DEF StreamInv, Numbered
<1>2. NumStreams \in Nat \ {0} /\ k \in Nat /\ k <= NumStreams
  BY PacketConstants DEF NoReuse
<1>3. ASSUME NEW x \in Slots, Busy(x)
      PROVE  Age(send[x].stream) = k - send[x].tid /\ send[x].tid \in Nat
  <2> DEFINE t == send[x].tid
             c == send[x].stream
  <2>1. t \in Transfers /\ c = t - 1 /\ outcome[t] # "unsent"
    BY <1>3 DEF TypeInv, Owned, StreamInv, SlotsOwn
  <2>2. t \in 1 .. k
    BY <1>1, <1>2, <2>1 DEF Transfers
  <2> HIDE DEF t, c
  <2>3. CASE k < NumStreams
    <3>1. nextStream = k
      <4>1. k \in 0 .. NumStreams - 1
        BY <1>2, <2>3
      <4> QED BY <1>1, <1>2, <4>1, SmallModulus
    <3>2. nextStream - 1 - c = k - t /\ k - t \in 0 .. NumStreams - 1
      BY <1>2, <2>1, <2>2, <2>3, <3>1
    <3>3. (k - t) % NumStreams = k - t
      BY <1>2, <3>2, SmallModulus
    <3> QED BY <2>2, <3>2, <3>3 DEF Age, t, c
  <2>4. CASE k = NumStreams
    <3>1. nextStream = 0
      <4>1. NumStreams % NumStreams = 0
        BY <1>2
      <4> QED BY <1>1, <2>4, <4>1
    <3>2. nextStream - 1 - c = (k - t) - NumStreams /\ k - t \in 0 .. NumStreams - 1
      BY <1>2, <2>1, <2>2, <2>4, <3>1
    <3>3. ((k - t) - NumStreams) % NumStreams = k - t
      BY <1>2, <3>2, NegativeModulus
    <3> QED BY <2>2, <3>2, <3>3 DEF Age, t, c
  <2> QED BY <1>2, <2>3, <2>4
<1> QED BY <1>2, <1>3

\* What a step does to slot s: it is not active afterwards, begins with the newest
\* transfer, or goes on, and then advances its cursor only if no older stream holds
\* it back or it began before.
SlotStep(s) ==
  \/ ~Active(send'[s])
  \/ /\ send'[s].current = 0 /\ ~Busy(s)
     /\ send'[s].tid \in Transfers
     /\ \A t \in Transfers : t >= send'[s].tid => outcome[t] = "unsent"
  \/ /\ Active(send[s])
     /\ send'[s].tid = send[s].tid /\ send'[s].total = send[s].total
     /\ send[s].current <= send'[s].current
     /\ send[s].current < send'[s].current => ~BlockedByOlder(s) \/ send[s].current > 0

LEMMA SlotUnchanged ==
  ASSUME TypeInv, NEW s \in Slots, send'[s] = send[s]
  PROVE  SlotStep(s)
<1>1. send[s].current \in Nat
  BY PacketConstants DEF TypeInv, TypeOK, SendSlots
<1> QED BY <1>1 DEF SlotStep

\* A step that changes slot s changes no other.
LEMMA OneSlotStep ==
  ASSUME TypeInv, NEW s \in Slots, NEW q, send' = [send EXCEPT ![s] = q], SlotStep(s)
  PROVE  \A o \in Slots : SlotStep(o)
<1>1. \A o \in Slots : o = s \/ send'[o] = send[o]
  BY DEF TypeInv, TypeOK
<1> QED BY <1>1, SlotUnchanged

LEMMA GoesOnStep ==
  ASSUME TypeInv, NEW s \in Slots, Active(send[s]), NEW q, GoesOn(q, send[s]),
         send' = [send EXCEPT ![s] = q], ~BlockedByOlder(s) \/ send[s].current > 0
  PROVE  \A o \in Slots : SlotStep(o)
<1>1. send'[s] = q
  BY DEF TypeInv, TypeOK
<1>2. SlotStep(s)
  BY <1>1 DEF SlotStep, GoesOn
<1> QED BY <1>2, OneSlotStep

LEMMA EverySlotStep ==
  ASSUME NoReuse, TypeInv, StreamInv, DeliveryInv, [Next]_vars
  PROVE  \A s \in Slots : SlotStep(s)
<1>1. ASSUME NEW t \in Transfers, NEW total, NEW w, NEW th, Send(t, total, w, th)
      PROVE  \A s \in Slots : SlotStep(s)
  <2>1. PICK s \in Slots, c \in Streams :
          /\ FreeSlot(s) /\ NextFreeStream(c)
          /\ send' = [send EXCEPT ![s] = StartedSlot(t, c, total, w, th)]
    BY <1>1 DEF Send
  <2> DEFINE q == StartedSlot(t, c, total, w, th)
  <2>2. q.tid = t /\ q.current = 0
    BY DEF StartedSlot, EmptySlot
  <2> HIDE DEF q
  <2>3. send'[s] = q
    BY <2>1 DEF TypeInv, TypeOK, q
  <2>4. \A o \in Transfers : outcome[o] = "unsent" <=> o >= t
    BY <1>1, <2>1, StreamDrawn DEF Send, StreamInv
  <2>5. SlotStep(s)
    BY <2>1, <2>2, <2>3, <2>4 DEF SlotStep, FreeSlot
  <2> QED BY <2>1, <2>5, OneSlotStep DEF q
<1>2. ASSUME NEW s \in Slots, send' = [send EXCEPT ![s] = EmptySlot]
      PROVE  \A o \in Slots : SlotStep(o)
  <2>1. ~Active(send'[s])
    BY <1>2 DEF TypeInv, TypeOK, Active, EmptySlot
  <2> QED BY <1>2, <2>1, OneSlotStep DEF SlotStep
<1>3. ASSUME NEW s \in Slots, Drive(s)
      PROVE  \A o \in Slots : SlotStep(o)
  <2>1. /\ Active(send[s]) /\ ~BlockedByOlder(s)
        /\ send[s] \in SendSlots /\ send[s].tid \in Transfers
        /\ Tabled(send[s]) /\ send[s].st # "free"
    BY <1>3 DEF Drive, Active, Busy, TypeInv, TypeOK, Owned, DeliveryInv, SlotsTabled
  <2>2. wire \in Seq(DataPackets) /\ {} \subseteq send[s].timed
    BY DEF TypeInv, TypeOK
  <2>3. PICK q : send' = [send EXCEPT ![s] = q] /\ Moves(q, send[s])
    BY <1>3, <2>1, <2>2, ContinueMoves DEF Drive
  <2> QED BY <2>1, <2>3, MovesGoesOn, GoesOnStep
<1>4. ASSUME NEW s \in Slots, NEW i \in Fragments, RetransmitTimeout(s, i)
      PROVE  \A o \in Slots : SlotStep(o)
  <2>1. Active(send[s]) /\ send' = [send EXCEPT ![s].late = @ \cup {i}]
    BY <1>4 DEF RetransmitTimeout
  <2>2. /\ send'[s].tid = send[s].tid /\ send'[s].total = send[s].total
        /\ send'[s].current = send[s].current /\ send[s].current \in Nat
    BY <2>1, PacketConstants DEF TypeInv, TypeOK, SendSlots
  <2>3. SlotStep(s)
    BY <2>1, <2>2 DEF SlotStep
  <2>4. send' = [send EXCEPT ![s] = [send[s] EXCEPT !.late = @ \cup {i}]]
    BY <2>1
  <2> QED BY <2>3, <2>4, OneSlotStep
<1>5. CASE HandleSack
  <2>1. CASE UNCHANGED send
    BY <2>1, SlotUnchanged
  <2>2. ASSUME NEW s \in SendFind(Head(back).stream), NEW q,
               send' = [send EXCEPT ![s] = q], GoesOn(q, send[s]), send[s].current > 0
        PROVE  \A o \in Slots : SlotStep(o)
    <3>1. s \in Slots /\ Active(send[s])
      BY DEF SendFind
    <3> QED BY <2>2, <3>1, GoesOnStep
  <2> QED BY <1>5, <2>1, <2>2, HandleSackMoves
<1>6. CASE UNCHANGED send
  BY <1>6, SlotUnchanged
<1>7. CASE SomeSend
  BY <1>1, <1>7 DEF SomeSend
<1>8. CASE \E s \in Slots : SendReset(s) \/ Drive(s) \/ ReportCompletion(s) \/ Deadline(s)
  BY <1>2, <1>3, <1>8 DEF SendReset, ReportCompletion, Deadline
<1> QED BY <1>4, <1>5, <1>6, <1>7, <1>8
        DEF Next, vars, SendRefused, RecvReset, HandleData, RecvTimeout, DelayedSack

LEMMA SlotNumbers ==
  ASSUME send \in [Slots -> SendSlots], NEW s \in Slots
  PROVE  send[s].current \in Nat /\ send[s].total \in Nat
<1>1. send[s] \in SendSlots
  OBVIOUS
<1> HIDE DEF Slots
<1> QED BY <1>1, PacketConstants DEF SendSlots

LEMMA ActiveSlots ==
  ASSUME TypeInv, StreamInv, NEW s \in Slots, Active(send[s])
  PROVE  /\ Busy(s) /\ send[s].tid \in Transfers /\ outcome[send[s].tid] # "unsent"
         /\ send[s].current \in Nat /\ send[s].total \in Nat
<1>1. Busy(s)
  BY DEF Active, Busy
<1>2. send[s].current \in Nat /\ send[s].total \in Nat
  BY SlotNumbers DEF TypeInv, TypeOK
<1> QED BY <1>1, <1>2 DEF TypeInv, Owned, StreamInv, SlotsOwn

\* Neither a free slot's transfer nor one not yet sent is older than an active one.
LEMMA OrderStep ==
  ASSUME NoReuse, TypeInv, StreamInv, DeliveryInv, OlderDone, [Next]_vars
  PROVE  OlderDone'
<1> SUFFICES ASSUME NEW s \in Slots, NEW o \in Slots,
                    Active(send'[s]), Active(send'[o]), send'[o].tid < send'[s].tid,
                    send'[s].current > 0
             PROVE  AllDispatched(send'[o])
  BY DEF OlderDone
<1>1. SlotStep(s) /\ SlotStep(o)
  BY EverySlotStep
<1>2. \A x \in Slots : Active(send[x]) =>
         /\ Busy(x) /\ send[x].tid \in Transfers /\ outcome[send[x].tid] # "unsent"
         /\ send[x].current \in Nat /\ send[x].total \in Nat
  BY ActiveSlots
<1>3. send'[s] \in SendSlots /\ send'[o] \in SendSlots
  BY TypeStep DEF TypeInv, TypeOK
<1>4. send'[s].current \in Nat /\ send'[o].current \in Nat
  BY <1>3, PacketConstants DEF SendSlots
<1>5. /\ Active(send[s]) /\ send'[s].tid = send[s].tid
      /\ send[s].current < send'[s].current => ~BlockedByOlder(s) \/ send[s].current > 0
      /\ send[s].current <= send'[s].current
  BY <1>1 DEF SlotStep
<1>6. /\ Active(send[o]) /\ send'[o].tid = send[o].tid /\ send'[o].total = send[o].total
      /\ send[o].current <= send'[o].current
  <2>1. ASSUME send'[o].tid \in Transfers,
               \A t \in Transfers : t >= send'[o].tid => outcome[t] = "unsent"
        PROVE  FALSE
    BY <1>2, <1>5, <2>1 DEF Transfers
  <2> QED BY <1>1, <2>1 DEF SlotStep
<1>7. AllDispatched(send[o])
  <2>1. CASE send[s].current > 0
    BY <1>5, <1>6, <2>1 DEF OlderDone
  <2>2. CASE send[s].current = 0
    <3>1. ~BlockedByOlder(s)
      BY <1>5, <2>2
    <3>2. Age(send[o].stream) > Age(send[s].stream)
      BY <1>2, <1>5, <1>6, AgeIsOrder
    <3>3. o # s
      BY <1>2, <1>5, <1>6 DEF Transfers
    <3> QED BY <1>6, <3>1, <3>2, <3>3 DEF BlockedByOlder
  <2> QED BY <1>2, <1>5, <2>1, <2>2
<1> QED BY <1>2, <1>4, <1>6, <1>7 DEF AllDispatched

LEMMA OrderInit == Init => OlderDone
BY DEF Init, OlderDone, Active, EmptySlot

\* A fragment of a younger transfer is sent for the first time only when the older
\* active ones have sent all of theirs: stream_blocked_by_older in flux_transmit_task
\* is enough, although flux_handle_sack sends without asking it.
THEOREM OldestGoesFirst ==
  ASSUME NoReuse
  PROVE  Spec => OldestFirst
<1> DEFINE Inv == TypeInv /\ StreamInv /\ DeliveryInv /\ OlderDone
<1>1. Init => Inv
  BY TypeInit, StreamInit, DeliveryInit, OrderInit
<1>2. Inv /\ [Next]_vars => Inv'
  BY TypeStep, StreamStep, DeliveryStep, OrderStep
<1>3. Inv /\ [Next]_vars =>
        [\A s, o \in Slots :
          /\ Active(send[s]) /\ Active(send'[s]) /\ send'[s].tid = send[s].tid
          /\ send'[s].current > send[s].current
          /\ Active(send[o]) /\ send[o].tid < send[s].tid
          => AllDispatched(send[o])]_vars
  <2> SUFFICES ASSUME Inv, [Next]_vars, NEW s \in Slots, NEW o \in Slots,
                      Active(send[s]), Active(send'[s]),
                      send'[s].current > send[s].current,
                      Active(send[o]), send[o].tid < send[s].tid
               PROVE  AllDispatched(send[o])
    OBVIOUS
  <2>1. SlotStep(s)
    BY EverySlotStep
  <2>2. \A x \in Slots : Active(send[x]) =>
           /\ Busy(x) /\ send[x].tid \in Transfers /\ send[x].current \in Nat
    BY ActiveSlots
  <2>3. ~BlockedByOlder(s) \/ send[s].current > 0
    <3>1. send'[s].current \in Nat
      <4>1. send'[s] \in SendSlots
        BY TypeStep DEF TypeInv, TypeOK
      <4> QED BY <4>1, PacketConstants DEF SendSlots
    <3> QED BY <2>1, <2>2, <3>1 DEF SlotStep
  <2>4. CASE send[s].current > 0
    BY <2>4 DEF OlderDone
  <2>5. CASE ~BlockedByOlder(s)
    <3>1. Age(send[o].stream) > Age(send[s].stream) /\ o # s
      BY <2>2, AgeIsOrder DEF Transfers
    <3> QED BY <2>5, <3>1 DEF BlockedByOlder
  <2> QED BY <2>3, <2>4, <2>5
<1> HIDE DEF Inv
<1> QED BY <1>1, <1>2, <1>3, PTL DEF Spec, OldestFirst

------------------------------------------------------------------------------
(* The protocol implements what FluxDelivery promises *)

Handed == [t \in Transfers |-> Cardinality({n \in DOMAIN inbox : t \in inbox[n]})]

\* How often each message was handed over, when the next one is.
LEMMA HandedAppend ==
  ASSUME inbox \in Seq(SUBSET Transfers), NEW t \in Transfers,
         \A n \in 1 .. Len(inbox) : t \notin inbox[n],
         inbox' = Append(inbox, {t})
  PROVE  Handed[t] = 0 /\ Handed' = [Handed EXCEPT ![t] = 1]
<1> DEFINE N == Len(inbox) + 1
           Of(y) == {n \in DOMAIN inbox : y \in inbox[n]}
           OfNext(y) == {n \in DOMAIN inbox' : y \in inbox'[n]}
<1>1. /\ Len(inbox) \in Nat /\ DOMAIN inbox = 1 .. Len(inbox)
      /\ {t} \in SUBSET Transfers
  OBVIOUS
<1>2. /\ DOMAIN inbox' = 1 .. N
      /\ \A n \in 1 .. Len(inbox) : inbox'[n] = inbox[n]
      /\ inbox'[N] = {t}
  BY <1>1
<1>3. Of(t) = {}
  BY <1>1
<1>4. OfNext(t) = {N}
  <2>1. \A n \in 1 .. N : n = N \/ n \in 1 .. Len(inbox)
    BY <1>1
  <2>2. N \in 1 .. N /\ N \notin 1 .. Len(inbox)
    BY <1>1
  <2> HIDE DEF N
  <2> QED BY <1>2, <2>1, <2>2
<1>5. ASSUME NEW y \in Transfers, y # t
      PROVE  OfNext(y) = Of(y)
  <2>1. \A n \in 1 .. N : n = N \/ n \in 1 .. Len(inbox)
    BY <1>1
  <2>2. \A n \in 1 .. Len(inbox) : n \in 1 .. N
    BY <1>1
  <2> HIDE DEF N
  <2> QED BY <1>1, <1>2, <1>5, <2>1, <2>2
<1>6. Cardinality(Of(t)) = 0 /\ Cardinality(OfNext(t)) = 1
  <2> HIDE DEF Of, OfNext, N
  <2> QED BY <1>3, <1>4, FS_EmptySet, FS_Singleton
<1>7. Handed = [y \in Transfers |-> Cardinality(Of(y))]
  BY DEF Handed
<1>8. Handed' = [y \in Transfers |-> Cardinality(OfNext(y))]
  BY DEF Handed
<1> HIDE DEF Of, OfNext
<1> QED BY <1>5, <1>6, <1>7, <1>8

LEMMA InitPromised == Init => Delivery!Init
<1> SUFFICES ASSUME Init PROVE Delivery!Init
  OBVIOUS
<1>1. \A t \in Transfers : {n \in DOMAIN inbox : t \in inbox[n]} = {}
  BY DEF Init
<1>2. [t \in Transfers |-> Cardinality({n \in DOMAIN inbox : t \in inbox[n]})]
        = [t \in Transfers |-> 0]
  BY <1>1, FS_EmptySet
<1> QED BY <1>2 DEF Init, Delivery!Init, Delivery!Messages, Transfers

\* A step that leaves the outcomes, sizes, arrivals and hand-overs as they are.
LEMMA Silent ==
  ASSUME UNCHANGED <<outcome, size, arrived, inbox>>
  PROVE  UNCHANGED Delivery!vars
BY DEF Delivery!vars

LEMMA ConcludePromised ==
  ASSUME NEW t \in Transfers, NEW result \in {"ok", "timeout", "reset"},
         outcome[t] = "open", result = "ok" => arrived[t] = 0 .. size[t] - 1,
         outcome' = [outcome EXCEPT ![t] = result],
         UNCHANGED <<size, arrived, inbox>>
  PROVE  Delivery!Next
<1>1. Delivery!Conclude(t, result)
  BY DEF Delivery!Conclude, Delivery!Pieces
<1> QED BY <1>1 DEF Delivery!Next, Delivery!Messages, Delivery!Final, Transfers

\* A packet taken into a buffer is the arrival of its fragment.
LEMMA ArrivePromised ==
  ASSUME TypeInv, TypeInv', DeliveryInv, DeliveryInv',
         NEW r \in Recvs, NEW slot \in RecvSlots, NEW pkt \in DataPackets,
         TakenInto(r, slot, pkt), slot.stream + 1 = pkt.tid,
         BufferOwn(slot, arrived'), pkt.idx < size[pkt.tid],
         UNCHANGED <<outcome, size>>
  PROVE  Delivery!Next
<1> DEFINE t == pkt.tid
<1>1. t \in Transfers /\ pkt.idx \in Fragments
  BY DEF DataPackets
<1>2. size[t] \in Nat /\ pkt.idx \in Nat /\ pkt.idx \in 0 .. size[t] - 1
  BY <1>1, PacketConstants DEF TypeInv, TypeOK, Fragments
<1>3. arrived' = [arrived EXCEPT ![t] = arrived[t] \cup {pkt.idx}]
  BY DEF TakenInto
<1> DEFINE Count == [y \in Transfers |-> Cardinality({n \in DOMAIN inbox : y \in inbox[n]})]
<1>4. \/ UNCHANGED Handed
      \/ Handed[t] = 0 /\ arrived'[t] = 0 .. size[t] - 1 /\ Handed' = [Handed EXCEPT ![t] = 1]
  <2>1. CASE inbox' = inbox
    BY <2>1 DEF Handed
  <2>2. CASE inbox' = Append(inbox, Contributors(slot))
    <3>1. inbox' = Append(inbox, {t})
      BY <2>2, BufferYields
    <3>2. inbox \in Seq(SUBSET Transfers) /\ {t} \in SUBSET Transfers
      BY <1>1 DEF TypeInv, TypeOK
    <3>3. /\ Len(inbox) \in Nat /\ Len(inbox') = Len(inbox) + 1
          /\ \A n \in 1 .. Len(inbox) : inbox'[n] = inbox[n]
          /\ inbox'[Len(inbox) + 1] = {t}
      BY <3>1, <3>2
    <3>4. \A n \in 1 .. Len(inbox) :
             /\ n \in 1 .. Len(inbox') /\ n # Len(inbox) + 1
             /\ Len(inbox) + 1 \in 1 .. Len(inbox')
      BY <3>3
    <3>5. \A m, n \in 1 .. Len(inbox') : m # n => inbox'[m] \cap inbox'[n] = {}
      BY DEF DeliveryInv, HandedOver
    <3>6. \A n \in 1 .. Len(inbox) : t \notin inbox[n]
      BY <3>3, <3>4, <3>5
    <3>7. Len(inbox) + 1 \in 1 .. Len(inbox')
      BY <3>3
    <3>8. \A n \in 1 .. Len(inbox') : \A y \in inbox'[n] : arrived'[y] = 0 .. size'[y] - 1
      BY DEF DeliveryInv, HandedOver, Last
    <3>9. arrived'[t] = 0 .. size[t] - 1
      BY <3>3, <3>7, <3>8
    <3>10. Handed[t] = 0 /\ Handed' = [Handed EXCEPT ![t] = 1]
      BY <1>1, <3>1, <3>2, <3>6, HandedAppend
    <3> QED BY <3>9, <3>10
  <2> QED BY <2>1, <2>2 DEF TakenInto
<1>5. Delivery!Arrive(t, pkt.idx)
  BY <1>2, <1>3, <1>4 DEF Delivery!Arrive, Delivery!Pieces, Handed
<1> QED BY <1>1, <1>5
        DEF Delivery!Next, Delivery!Messages, Transfers, Fragments

\* A packet taken from the receive queue is the arrival of a fragment, or nothing
\* the applications could tell.
LEMMA HandleDataPromised ==
  ASSUME TypeInv, StreamInv, DeliveryInv, HandleData
  PROVE  Delivery!Next \/ UNCHANGED Delivery!vars
<1> DEFINE pkt == Head(wire)
<1>1. TypeOK /\ TypeInv' /\ DeliveryInv'
  BY HandleDataType, HandleDataDelivery DEF TypeInv
<1>2. pkt \in DataPackets /\ wire # <<>>
  BY <1>1, HandleDataEffect
<1>3. UNCHANGED <<outcome, size>>
  BY DEF HandleData
<1>4. pkt = wire[1] /\ 1 \in 1 .. Len(wire)
  BY <1>1, <1>2 DEF TypeOK
<1>5. /\ pkt.tid = pkt.stream + 1 /\ pkt.idx < size[pkt.tid]
      /\ pkt.idx = 0 => pkt.total >= 1
  BY <1>4 DEF StreamInv, WireOwn, DeliveryInv, UnderWay, Reached
<1> HIDE DEF pkt
<1>6. ASSUME NEW r \in Recvs, NEW slot \in RecvSlots, TakenInto(r, slot, pkt),
             slot.stream = pkt.stream, BufferOwn(slot, arrived')
      PROVE  Delivery!Next
  BY <1>1, <1>2, <1>3, <1>5, <1>6, ArrivePromised
<1>7. ASSUME pkt.idx = 0, NEW r \in Recvs, TakenInto(r, OpenedRecv(pkt), pkt)
      PROVE  Delivery!Next
  <2>1. 0 \in arrived'[pkt.tid]
    BY <1>1, <1>2, <1>7, ArrivalGrows DEF TakenInto
  <2>2. BufferOwn(OpenedRecv(pkt), arrived') /\ OpenedRecv(pkt) \in RecvSlots
    BY <1>2, <1>5, <1>7, <2>1, OpenedOwn, OpenedRecvType
  <2>3. OpenedRecv(pkt).stream = pkt.stream
    BY DEF OpenedRecv, EmptyRecv
  <2> QED BY <1>6, <1>7, <2>2, <2>3
<1>8. ASSUME NEW r \in RecvFind(pkt.stream), TakenInto(r, Stored(recv[r], pkt), pkt),
             pkt.idx < recv[r].total
      PROVE  Delivery!Next
  <2>1. r \in Recvs /\ recv[r] \in RecvSlots /\ recv[r].on /\ recv[r].stream = pkt.stream
    BY <1>1 DEF RecvFind, TypeOK
  <2>2. BufferOwn(recv[r], arrived)
    BY <2>1 DEF StreamInv, BuffersOwn
  <2>3. Grows /\ pkt.idx \in arrived'[pkt.tid]
    BY <1>1, <1>2, <1>8, ArrivalGrows DEF TakenInto
  <2>4. BufferOwn(Stored(recv[r], pkt), arrived') /\ Stored(recv[r], pkt) \in RecvSlots
    BY <1>2, <1>5, <1>8, <2>1, <2>2, <2>3, StoredOwn, StoredType
  <2>5. Stored(recv[r], pkt).stream = pkt.stream
    BY <2>1 DEF Stored, RecvSlots
  <2> QED BY <1>6, <1>8, <2>1, <2>4, <2>5
<1>9. CASE UNCHANGED <<arrived, inbox>>
  BY <1>3, <1>9, Silent
<1> QED BY <1>1, <1>7, <1>8, <1>9, HandleDataEffect DEF pkt

\* flux_session_send with ESP_OK.
LEMMA SendPromised ==
  ASSUME NEW t \in Transfers, NEW total \in Totals, NEW w, NEW th,
         Send(t, total, w, th)
  PROVE  Delivery!Next
<1>1. total \in 1 .. MaxFragments
  BY TransferConstants
<1>2. Delivery!Accept(t, total)
  BY DEF Send, Unsent, Delivery!Accept
<1> QED BY <1>1, <1>2 DEF Delivery!Next, Delivery!Messages, Transfers

\* What a slot in use leads to is one outcome of a message that had none.
LEMMA ClearPromised ==
  ASSUME TypeInv, StreamInv, DeliveryInv, NEW s \in Slots,
         SendReset(s) \/ ReportCompletion(s) \/ Deadline(s)
  PROVE  Delivery!Next
<1> DEFINE t == send[s].tid
<1>1. Busy(s)
  BY DEF SendReset, ReportCompletion, Deadline, Active, Busy
<1>2. /\ send[s] \in SendSlots /\ t \in Transfers /\ outcome[t] = "open"
      /\ Concluded(send[s])
  BY <1>1 DEF TypeInv, TypeOK, Owned, DeliveryInv, SlotsOpen
<1>3. UNCHANGED <<size, arrived, inbox>>
  BY DEF SendReset, ReportCompletion, Deadline
<1>4. CASE SendReset(s) \/ Deadline(s)
  BY <1>2, <1>3, <1>4, ConcludePromised DEF SendReset, Deadline
<1>5. CASE ReportCompletion(s)
  <2>1. send[s].status \in {"ok", "timeout"}
    BY <1>2, <1>5 DEF ReportCompletion, Concluded, SendSlots
  <2>2. send[s].status = "ok" => arrived[t] = 0 .. size[t] - 1
    BY <1>1, FullArrived
  <2> QED BY <1>2, <1>3, <1>5, <2>1, <2>2, ConcludePromised DEF ReportCompletion
<1> QED BY <1>4, <1>5

\* Every step of the protocol is one that FluxDelivery allows, or none to it.
LEMMA StepPromised ==
  ASSUME TypeInv, StreamInv, DeliveryInv, [Next]_vars
  PROVE  [Delivery!Next]_Delivery!vars
<1>1. CASE SomeSend
  BY <1>1, SendPromised DEF SomeSend
<1>2. ASSUME NEW t \in Transfers, SendRefused(t)
      PROVE  Delivery!Next
  <2>1. Delivery!Refuse(t)
    BY <1>2 DEF SendRefused, Unsent, Delivery!Refuse
  <2> QED BY <2>1 DEF Delivery!Next, Delivery!Messages, Transfers
<1>3. CASE \E s \in Slots : SendReset(s) \/ Drive(s) \/ ReportCompletion(s) \/ Deadline(s)
  BY <1>3, ClearPromised, Silent DEF Drive
<1>4. CASE HandleData
  BY <1>4, HandleDataPromised
<1>5. CASE UNCHANGED <<outcome, size, arrived, inbox>>
  BY <1>5, Silent
<1> QED BY <1>1, <1>2, <1>3, <1>4, <1>5
        DEF Next, vars, RetransmitTimeout, RecvReset, HandleSack, RecvTimeout, DelayedSack

\* While no stream id is used twice, the protocol is what FluxDelivery promises the
\* applications: a message is handed over at most once and whole, its sender learns
\* one outcome, and ESP_OK only when every fragment was stored.
THEOREM PromiseKept ==
  ASSUME NoReuse
  PROVE  Spec => KeepsPromise
<1>1. TypeInv /\ StreamInv /\ DeliveryInv /\ [Next]_vars => [Delivery!Next]_Delivery!vars
  BY StepPromised
<1>2. Spec => [](TypeInv /\ StreamInv /\ DeliveryInv)
  BY DeliveryInvariant
<1> QED BY InitPromised, <1>1, <1>2, PTL DEF Spec, KeepsPromise, Delivery!Spec
==============================================================================
