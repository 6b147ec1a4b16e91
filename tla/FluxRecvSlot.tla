---------------------------- MODULE FluxRecvSlot -----------------------------
(***************************************************************************)
(* One receive slot of a Flux session (flux_fragment_recv_state_t): the    *)
(* reassembly buffer with its bitmap, and the decision when a SACK is      *)
(* owed.  "buf" maps every fragment to the transfer its payload came from, *)
(* NoTransfer when the bitmap has no bit for it.  The code's counter       *)
(* received_fragments is the size of the bitmap and is not kept apart; its *)
(* last_continuous_seq and pending_ack are written and never read.         *)
(***************************************************************************)
EXTENDS FluxPackets

EmptyRecv ==
    [on |-> FALSE, stream |-> 0, total |-> 0, window |-> 0, threshold |-> 0,
     buf |-> [i \in Fragments |-> NoTransfer], acked |-> 0, missing |-> 0]

RecvSlots ==
    [on : BOOLEAN, stream : Streams, total : 0 .. MaxFragments,
     window : 0 .. Unlimited, threshold : 0 .. 100,
     buf : [Fragments -> 0 .. MaxTransfers], acked : Nat, missing : Nat]

\* A START (re)initialises the slot and stores fragment 0.
OpenedRecv(pkt) ==
    [EmptyRecv EXCEPT
        !.on = TRUE, !.stream = pkt.stream, !.total = pkt.total,
        !.window = pkt.window, !.buf[0] = pkt.tid,
        !.threshold = IF pkt.threshold = 0 \/ pkt.threshold > 100
                      THEN 50 ELSE pkt.threshold]

Stored(r, pkt) == [r EXCEPT !.buf[pkt.idx] = pkt.tid]

Received(r) == {i \in Fragments : i < r.total /\ r.buf[i] # NoTransfer}
Whole(r) == Cardinality(Received(r)) >= r.total
Contributors(r) == {r.buf[i] : i \in Received(r)}

\* The highest fragment received, 0 when there is none.
IsTop(r, m) == \/ m \in Received(r) /\ \A i \in Received(r) : i <= m
               \/ m = 0 /\ Received(r) = {}
TopReceived(r) == CHOOSE m \in Fragments : IsTop(r, m)

Missing(r) == {i \in Fragments : i < TopReceived(r) /\ i \notin Received(r)}

\* Fragments received since the last SACK that went out.
Unacknowledged(r) ==
    LET n == Cardinality(Received(r)) IN IF n > r.acked THEN n - r.acked ELSE 0

\* Variant: the SACK waits for more than the threshold.
StrictWindowTrigger(r) ==
    /\ r.window # Unlimited /\ r.window > 0
    /\ (Unacknowledged(r) * 100) \div r.window > r.threshold

\* They fill the threshold's percentage of the window.
WindowTrigger(r) ==
    /\ r.window # Unlimited /\ r.window > 0
    /\ (Unacknowledged(r) * 100) \div r.window >= r.threshold

\* A gap is reported when it changed and FLUX_ACK_MIN_INTERVAL_MS has passed.
GapTrigger(r, intervalOk) ==
    Missing(r) # {} /\ Cardinality(Missing(r)) # r.missing /\ intervalOk

\* Variant: the SACK carries no bitmap, although there are gaps.
SackWithoutGaps(r) == SackPacket(r.stream, TopReceived(r), {})

SackOf(r) == SackPacket(r.stream, TopReceived(r), Missing(r))

\* Bookkeeping after a SACK the transport took.
SackBooked(r) ==
    [r EXCEPT !.acked = Smaller(TopReceived(r) + 1, r.total) - Cardinality(Missing(r)),
              !.missing = Cardinality(Missing(r))]
==============================================================================
