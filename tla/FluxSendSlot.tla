---------------------------- MODULE FluxSendSlot -----------------------------
(***************************************************************************)
(* One send slot of a Flux session (flux_fragment_send_state_t) and what   *)
(* the transmit task computes from it: how acknowledgements are booked,    *)
(* when a fragment is sent again, how far the window lets new fragments    *)
(* go, and when the transfer is given up.  Operators only: FluxTransfer    *)
(* holds the slots and the wire.                                           *)
(*                                                                         *)
(* Times are abstracted to what the code compares: "timed" is the set of   *)
(* fragments with a send timestamp, "late" those whose timestamp is older  *)
(* than FLUX_RETRANSMIT_TIMEOUT_MS.                                        *)
(***************************************************************************)
EXTENDS FluxPackets

EmptySlot ==
    [st |-> "free", stream |-> 0, total |-> 0, window |-> 0, threshold |-> 0,
     current |-> 0, acked |-> {}, sent |-> 0, inflight |-> 0, timed |-> {},
     late |-> {}, retry |-> [i \in Fragments |-> 0], status |-> "none",
     tid |-> NoTransfer]

SendSlots ==
    [st : {"free", "active", "completed"}, stream : Streams,
     total : 0 .. MaxFragments, window : 0 .. Unlimited, threshold : 0 .. 100,
     current : 0 .. MaxFragments, acked : SUBSET Fragments, sent : Nat,
     inflight : Nat, timed : SUBSET Fragments, late : SUBSET Fragments,
     retry : [Fragments -> Nat], status : {"none", "ok", "timeout"},
     tid : 0 .. MaxTransfers]

\* The window the transfer runs with: 0 stands for the default, a limited
\* window never exceeds the number of fragments.
EffectiveWindow(window, total) ==
    IF window = Unlimited THEN Unlimited
    ELSE Smaller(IF window = 0 THEN DefaultWindow ELSE window, total)

\* Variant: percentages above 100 pass through.
UnclampedThreshold(threshold) == IF threshold = 0 THEN 50 ELSE threshold

EffectiveThreshold(threshold) ==
    IF threshold = 0 \/ threshold > 100 THEN 50 ELSE threshold

StartedSlot(tid, stream, total, window, threshold) ==
    [EmptySlot EXCEPT
        !.st = "active", !.stream = stream, !.total = total, !.tid = tid,
        !.window = EffectiveWindow(window, total),
        !.threshold = EffectiveThreshold(threshold)]

Active(p) == p.st = "active"
Limited(p) == p.window # Unlimited
AllDispatched(p) == p.current >= p.total
\* Fragments sent and not acknowledged: what the window has to hold.
Outstanding(p) == p.timed \ p.acked

------------------------------------------------------------------------------
(* Acknowledgement and abort *)

\* Variant: the slot is freed at once, and nobody is told.
SilentFinish(p, status) == EmptySlot

Finish(p, status) == [p EXCEPT !.st = "completed", !.status = status]

\* fragment_send_mark_acked, over a set.  The in-flight counter stops at 0.
MarkAcked(p, A) ==
    LET new  == {i \in A : i < p.total} \ p.acked
        n    == Cardinality(new)
        q    == [p EXCEPT !.acked = @ \cup new,
                          !.late = @ \ new,
                          !.sent = @ + n,
                          !.inflight = IF n > @ THEN 0 ELSE @ - n]
    IN  IF n > 0 /\ q.sent >= q.total THEN Finish(q, "ok") ELSE q

\* Variant: the bitmap is ignored, everything up to ack_num is acknowledged.
ClaimedThroughGaps(p, sack) == {i \in 0 .. sack.num : i < p.total}

\* What a SACK acknowledges and what it reports lost, within the transfer.
Claimed(p, sack) == {i \in 0 .. sack.num : i < p.total} \ sack.lost
ReportedLost(p, sack) ==
    {i \in 0 .. sack.num : i < p.total /\ i \in sack.lost} \ p.acked

------------------------------------------------------------------------------
(* Retransmission and new fragments: flux_send_continue *)

\* Variant: without the check below the tail is retransmitted on timeout.
NeverAwaitsAcks(p) == FALSE

\* Everything was dispatched and acknowledgements are awaited: the first check
\* of flux_send_continue returns here.
AwaitsAcks(p) == AllDispatched(p) /\ p.sent < p.total

TimedOut(p) == {i \in p.late \ p.acked : i < p.current}
Exhausted(p, S) == {i \in S : p.retry[i] >= MaxRetries}
\* The part of S a loop in ascending order reaches before an exhausted one.
BeforeExhausted(p, S) == {i \in S : \A j \in Exhausted(p, S) : i < j}

NeedRetransmit(p) == TimedOut(p) # Exhausted(p, TimedOut(p))

WindowClosed(p) ==
    Limited(p) /\ p.inflight >= p.window /\ ~NeedRetransmit(p)

\* Variant: a fragment sent again is counted in flight a second time.
ResentCountedTwice(p, S) ==
    [p EXCEPT !.timed = @ \cup S, !.late = @ \ S,
              !.inflight = @ + Cardinality(S),
              !.retry = [i \in Fragments |-> IF i \in S THEN @[i] + 1 ELSE @[i]]]

\* Fragments S were sent again: fresh timestamps, one retry each.
Resent(p, S) ==
    [p EXCEPT !.timed = @ \cup S, !.late = @ \ S,
              !.retry = [i \in Fragments |-> IF i \in S THEN @[i] + 1 ELSE @[i]]]

\* New fragments sent when the loop moves current up to u: it skips those
\* acknowledged or sent before.
Fresh(p, u) == (p.current .. u - 1) \ (p.acked \cup p.timed)

\* Variant: one fragment too many is let through.
NoRoomOffByOne(p, n, batch) ==
    (Limited(p) /\ p.inflight + n > p.window) \/ n >= batch

\* The window and the batch leave no room for one more after n new ones.
NoRoom(p, n, batch) ==
    (Limited(p) /\ p.inflight + n >= p.window) \/ n >= batch

\* The loop over new fragments stops at u: it had room at every fragment
\* before u, and at u it is at the end, has no room, or fails to send.
StopsAt(p, u, batch, mayFail) ==
    /\ \A v \in p.current .. u - 1 : ~NoRoom(p, Cardinality(Fresh(p, v)), batch)
    /\ \/ u = p.total
       \/ NoRoom(p, Cardinality(Fresh(p, u)), batch)
       \/ mayFail /\ u \notin p.acked \cup p.timed

Dispatched(p, u) ==
    [p EXCEPT !.current = u,
              !.timed = @ \cup Fresh(p, u),
              !.inflight = @ + Cardinality(Fresh(p, u)),
              !.retry = [i \in Fragments |-> IF i \in Fresh(p, u) THEN 0 ELSE @[i]]]
==============================================================================
