---------------------------- MODULE FluxTransfer -----------------------------
(***************************************************************************)
(* Reliable transfers between two Flux sessions: the sending half of one   *)
(* (its send slots and stream-id allocator), the receiving half of its     *)
(* peer (its receive slots), and the unreliable transport between them.  A *)
(* session uses both halves at once and they share no state, so one        *)
(* direction is the whole protocol.                                        *)
(*                                                                         *)
(* Every action is one critical section under a session's state_mutex: an  *)
(* API call of the application, one packet taken from the receive queue by *)
(* flux_transmit_task, or what a pass of that task's timer phases does for *)
(* one slot.  Elapsed time is a choice: the receiver's actions take "stale"*)
(* (FLUX_FRAGMENT_TIMEOUT_MS without a new fragment) and "intervalOk"      *)
(* (FLUX_ACK_MIN_INTERVAL_MS since the last SACK) as inputs.               *)
(***************************************************************************)
EXTENDS FluxSendSlot, FluxRecvSlot, Sequences

CONSTANTS
    MaxSends,       \* FLUX_MAX_CONCURRENT_SENDS
    MaxRecvs,       \* FLUX_MAX_CONCURRENT_RECVS
    Totals,         \* fragment counts of the messages sent
    Windows,        \* window_size arguments of flux_session_send
    Thresholds,     \* window_threshold_percent arguments
    WireCap,        \* bound: packets on their way, in each direction
    Faults,         \* whether packets are refused or lost and allocations fail
    Timers,         \* whether timeouts expire
    Resets          \* whether the applications call the reset functions

ASSUME TransferConstants ==
    /\ MaxSends \in Nat \ {0} /\ MaxRecvs \in Nat \ {0}
    /\ MaxSends <= NumStreams
    /\ Totals \subseteq 1 .. MaxFragments
    /\ Windows \subseteq 0 .. Unlimited
    /\ Thresholds \subseteq 0 .. 255
    /\ WireCap \in Nat
    /\ {Faults, Timers, Resets} \subseteq BOOLEAN

Slots == 0 .. MaxSends - 1
Recvs == 0 .. MaxRecvs - 1

VARIABLES
    send,         \* fragment_send[]: the send slots
    nextStream,   \* next_stream_id
    recv,         \* the peer's fragment_recv[]
    lastDone,     \* its last_completed_recv: {} or the stream in a singleton
    wire,         \* data packets on their way, oldest first
    back,         \* SACKs on their way back, oldest first
    outcome,      \* what the application was told of each transfer
    size,         \* history: the number of fragments of each transfer
    arrived,      \* history: fragments the peer took into a buffer
    inbox         \* history: for each message delivered, its contributors

vars == <<send, nextStream, recv, lastDone, wire, back, outcome, size, arrived,
          inbox>>

Init ==
    /\ send = [s \in Slots |-> EmptySlot]
    /\ nextStream = 0
    /\ recv = [r \in Recvs |-> EmptyRecv]
    /\ lastDone = {}
    /\ wire = <<>> /\ back = <<>>
    /\ outcome = [t \in Transfers |-> "unsent"]
    /\ size = [t \in Transfers |-> 0]
    /\ arrived = [t \in Transfers |-> {}]
    /\ inbox = <<>>

------------------------------------------------------------------------------
(* The transport: ops->send refuses some packets; what it takes may be lost *)

Accepted(S) == IF Faults THEN SUBSET S ELSE {S}

PacketOf(p, i) ==
    IF i = 0 THEN StartPacket(p.stream, p.total, p.window, p.threshold, p.tid)
    ELSE FragmentPacket(p.stream, i, p.tid)

\* Fragments "first", then fragments "second", were handed to the transport,
\* each burst in ascending order; those that survive join the wire.
Transmit(p, first, second) ==
    \E f \in Accepted(first), g \in Accepted(second) :
    \E a \in Ascending(f), b \in Ascending(g) :
        /\ Len(wire) + Cardinality(f) + Cardinality(g) <= WireCap
        /\ wire' = wire \o [k \in DOMAIN a |-> PacketOf(p, a[k])]
                        \o [k \in DOMAIN b |-> PacketOf(p, b[k])]

\* n copies of a SACK reach the wire.
TransmitSack(sack, n) ==
    /\ Len(back) + n <= WireCap
    /\ back' = back \o [k \in 1 .. n |-> sack]

------------------------------------------------------------------------------
(* Allocation of slots and stream ids *)

Busy(s) == send[s].st # "free"
FreeSlot(s) == ~Busy(s) /\ \A o \in Slots : o < s => Busy(o)

StreamInUse(c) == \E s \in Slots : Busy(s) /\ send[s].stream = c
Ahead(c) == (c - nextStream) % NumStreams
NextFreeStream(c) ==
    ~StreamInUse(c) /\ \A d \in Streams : Ahead(d) < Ahead(c) => StreamInUse(d)

Age(c) == (nextStream - 1 - c) % NumStreams
\* Variant: the comparison of ages is turned around.
BlockedByYounger(s) ==
    \E o \in Slots \ {s} :
        /\ Active(send[o]) /\ ~AllDispatched(send[o])
        /\ Age(send[o].stream) < Age(send[s].stream)

BlockedByOlder(s) ==
    \E o \in Slots \ {s} :
        /\ Active(send[o]) /\ ~AllDispatched(send[o])
        /\ Age(send[o].stream) > Age(send[s].stream)

SendFind(stream) == {s \in Slots : Active(send[s]) /\ send[s].stream = stream}
\* Variant: any active receive slot will do.
RecvFindAny(stream) == {r \in Recvs : recv[r].on}

RecvFind(stream) == {r \in Recvs : recv[r].on /\ recv[r].stream = stream}
\* The slot a START goes to: the stream's own, or else the first free one.
RecvFor(stream) ==
    IF RecvFind(stream) # {} THEN RecvFind(stream)
    ELSE {r \in Recvs : ~recv[r].on /\ \A o \in Recvs : o < r => recv[o].on}

------------------------------------------------------------------------------
(* The application *)

Unsent(t) ==
    /\ outcome[t] = "unsent"
    /\ \A o \in Transfers : o < t => outcome[o] # "unsent"

\* flux_session_send
Send(t, total, window, threshold) ==
    /\ Unsent(t)
    /\ \E s \in Slots, c \in Streams :
        /\ FreeSlot(s) /\ NextFreeStream(c)
        /\ nextStream' = (c + 1) % NumStreams
        /\ send' = [send EXCEPT ![s] = StartedSlot(t, c, total, window, threshold)]
    /\ outcome' = [outcome EXCEPT ![t] = "open"]
    /\ size' = [size EXCEPT ![t] = total]
    /\ UNCHANGED <<recv, lastDone, wire, back, arrived, inbox>>

\* The same call failing after it drew a stream id: the message needs too many
\* fragments or an allocation fails.  The slot is left as it was.
SendRefused(t) ==
    /\ Unsent(t) /\ Faults
    /\ \E s \in Slots, c \in Streams :
        /\ FreeSlot(s) /\ NextFreeStream(c)
        /\ nextStream' = (c + 1) % NumStreams
    /\ outcome' = [outcome EXCEPT ![t] = "refused"]
    /\ UNCHANGED <<send, recv, lastDone, wire, back, size, arrived, inbox>>

\* flux_session_send_reset: the slot is cleared and nobody is told.
SendReset(s) ==
    /\ Resets /\ Active(send[s])
    /\ outcome' = [outcome EXCEPT ![send[s].tid] = "reset"]
    /\ send' = [send EXCEPT ![s] = EmptySlot]
    /\ UNCHANGED <<nextStream, recv, lastDone, wire, back, size, arrived, inbox>>

\* flux_session_recv_reset
RecvReset(c) ==
    /\ Resets
    /\ RecvFind(c) # {} \/ lastDone = {c}
    /\ recv' = [r \in Recvs |-> IF r \in RecvFind(c) THEN EmptyRecv ELSE recv[r]]
    /\ lastDone' = lastDone \ {c}
    /\ UNCHANGED <<send, nextStream, wire, back, outcome, size, arrived, inbox>>

------------------------------------------------------------------------------
(* The sender's transmit task *)

\* flux_send_continue on slot s in state p, after fragments "resent" already
\* went out in the same critical section.
SendContinue(s, p, resent) ==
    \/ /\ ~Active(p) \/ AwaitsAcks(p) \/ WindowClosed(p)
       /\ send' = [send EXCEPT ![s] = p]
       /\ Transmit(p, resent, {})
    \/ /\ Active(p) /\ ~AwaitsAcks(p) /\ ~WindowClosed(p)
       /\ Exhausted(p, TimedOut(p)) # {}
       /\ \E ok \in Accepted(BeforeExhausted(p, TimedOut(p))) :
            /\ send' = [send EXCEPT ![s] = Finish(Resent(p, ok), "timeout")]
            /\ Transmit(p, resent, ok)
    \/ /\ Active(p) /\ ~AwaitsAcks(p) /\ ~WindowClosed(p)
       /\ Exhausted(p, TimedOut(p)) = {}
       /\ \E ok \in Accepted(TimedOut(p)) : \E u \in p.current .. p.total :
            /\ StopsAt(Resent(p, ok), u, MaxBatch - Cardinality(ok), Faults)
            /\ send' = [send EXCEPT ![s] = Dispatched(Resent(p, ok), u)]
            /\ Transmit(p, resent, ok \cup Fresh(Resent(p, ok), u))

\* A SACK taken from the receive queue (flux_handle_sack): acknowledge, send
\* the reported losses again or give up on the first that has no retry left,
\* then continue.  A SACK no active slot answers to is ignored.
HandleSack ==
    /\ back # <<>>
    /\ back' = Tail(back)
    /\ LET sack == Head(back) IN
        \/ /\ SendFind(sack.stream) = {}
           /\ UNCHANGED <<send, wire>>
        \/ \E s \in SendFind(sack.stream) :
            LET p    == MarkAcked(send[s], Claimed(send[s], sack))
                lost == ReportedLost(p, sack)
            IN  \/ /\ Exhausted(p, lost) # {}
                   /\ \E ok \in Accepted(BeforeExhausted(p, lost)) :
                        /\ send' = [send EXCEPT ![s] = Finish(Resent(p, ok), "timeout")]
                        /\ Transmit(p, ok, {})
                \/ /\ Exhausted(p, lost) = {}
                   /\ \E ok \in Accepted(lost) : SendContinue(s, Resent(p, ok), ok)
    /\ UNCHANGED <<nextStream, recv, lastDone, outcome, size, arrived, inbox>>

\* Phase C of a pass, for a slot no older stream holds back.
Drive(s) ==
    /\ Active(send[s]) /\ ~BlockedByOlder(s)
    /\ ~AllDispatched(send[s]) \/ NeedRetransmit(send[s])
    /\ SendContinue(s, send[s], {})
    /\ UNCHANGED <<nextStream, recv, lastDone, back, outcome, size, arrived, inbox>>

\* Variant: whatever the slot's status, ESP_OK is reported.
ReportSuccess(s) ==
    /\ send[s].st = "completed"
    /\ outcome' = [outcome EXCEPT ![send[s].tid] = "ok"]
    /\ send' = [send EXCEPT ![s] = EmptySlot]
    /\ UNCHANGED <<nextStream, recv, lastDone, wire, back, size, arrived, inbox>>

\* Phase B: a completed transfer is reported and its slot cleared.
ReportCompletion(s) ==
    /\ send[s].st = "completed"
    /\ outcome' = [outcome EXCEPT ![send[s].tid] = send[s].status]
    /\ send' = [send EXCEPT ![s] = EmptySlot]
    /\ UNCHANGED <<nextStream, recv, lastDone, wire, back, size, arrived, inbox>>

\* Phase B: FLUX_FRAGMENT_TIMEOUT_MS after its start a transfer is given up.
Deadline(s) ==
    /\ Timers /\ Active(send[s])
    /\ outcome' = [outcome EXCEPT ![send[s].tid] = "timeout"]
    /\ send' = [send EXCEPT ![s] = EmptySlot]
    /\ UNCHANGED <<nextStream, recv, lastDone, wire, back, size, arrived, inbox>>

\* FLUX_RETRANSMIT_TIMEOUT_MS passes since fragment i was last sent.
RetransmitTimeout(s, i) ==
    /\ Timers /\ Active(send[s])
    /\ i \in Outstanding(send[s]) \ send[s].late
    /\ send' = [send EXCEPT ![s].late = @ \cup {i}]
    /\ UNCHANGED <<nextStream, recv, lastDone, wire, back, outcome, size, arrived, inbox>>

------------------------------------------------------------------------------
(* The receiver's transmit task *)

\* Slot r holds every fragment: the final SACK goes out after "earlier" ones,
\* the message is handed over and the slot is reset.
Complete(r, slot, earlier) ==
    /\ \E n \in IF Faults THEN 0 .. earlier + 1 ELSE {earlier + 1} :
            TransmitSack(SackOf(slot), n)
    /\ inbox' = Append(inbox, Contributors(slot))
    /\ lastDone' = {slot.stream}
    /\ recv' = [recv EXCEPT ![r] = EmptyRecv]

\* A SACK goes out for an incomplete slot, or the transport refuses it.
SendSack(r, slot) ==
    \/ /\ recv' = [recv EXCEPT ![r] = SackBooked(slot)]
       /\ \E n \in IF Faults THEN 0 .. 1 ELSE {1} : TransmitSack(SackOf(slot), n)
    \/ /\ Faults
       /\ recv' = [recv EXCEPT ![r] = slot]
       /\ UNCHANGED back

\* A START packet, which restarts the stream's slot if it has one; without
\* memory for the reassembly buffer the slot is reset.
HandleStart(r, pkt) ==
    \/ /\ Faults
       /\ recv' = [recv EXCEPT ![r] = EmptyRecv]
       /\ lastDone' = {}
       /\ UNCHANGED <<back, arrived, inbox>>
    \/ /\ arrived' = [arrived EXCEPT ![pkt.tid] = @ \cup {0}]
       /\ LET slot == OpenedRecv(pkt) IN
           \/ /\ Whole(slot)
              /\ Complete(r, slot, 0)
           \/ /\ ~Whole(slot)
              /\ recv' = [recv EXCEPT ![r] = slot]
              /\ lastDone' = {}
              /\ UNCHANGED <<back, inbox>>

\* A FRAGMENT packet for slot r: dropped with the whole slot when stale,
\* ignored when out of range or a duplicate, stored otherwise.
HandleFragment(r, pkt) ==
    \/ /\ Timers
       /\ recv' = [recv EXCEPT ![r] = EmptyRecv]
       /\ UNCHANGED <<back, arrived, inbox, lastDone>>
    \/ /\ pkt.idx >= recv[r].total \/ pkt.idx \in Received(recv[r])
       /\ UNCHANGED <<recv, back, arrived, inbox, lastDone>>
    \/ /\ pkt.idx < recv[r].total /\ pkt.idx \notin Received(recv[r])
       /\ arrived' = [arrived EXCEPT ![pkt.tid] = @ \cup {pkt.idx}]
       /\ LET slot == Stored(recv[r], pkt) IN
          \E intervalOk \in BOOLEAN :
            LET owed == WindowTrigger(slot) \/ GapTrigger(slot, intervalOk) IN
            \/ /\ Whole(slot)
               /\ Complete(r, slot, IF owed THEN 1 ELSE 0)
            \/ /\ ~Whole(slot) /\ owed
               /\ SendSack(r, slot)
               /\ UNCHANGED <<inbox, lastDone>>
            \/ /\ ~Whole(slot) /\ ~owed
               /\ recv' = [recv EXCEPT ![r] = slot]
               /\ UNCHANGED <<back, inbox, lastDone>>

\* A data packet taken from the receive queue; one no slot answers to is dropped.
HandleData ==
    /\ wire # <<>>
    /\ wire' = Tail(wire)
    /\ LET pkt   == Head(wire)
           slots == IF pkt.idx = 0 THEN RecvFor(pkt.stream) ELSE RecvFind(pkt.stream)
       IN  \/ /\ slots = {}
              /\ UNCHANGED <<recv, lastDone, back, arrived, inbox>>
           \/ \E r \in slots : IF pkt.idx = 0 THEN HandleStart(r, pkt)
                                              ELSE HandleFragment(r, pkt)
    /\ UNCHANGED <<send, nextStream, outcome, size>>

\* Phase A of a pass: a slot without a new fragment for too long is reset.
RecvTimeout(r) ==
    /\ Timers /\ recv[r].on
    /\ recv' = [recv EXCEPT ![r] = EmptyRecv]
    /\ UNCHANGED <<send, nextStream, lastDone, wire, back, outcome, size, arrived, inbox>>

\* Phase A: a gap that could not be reported at once is reported now.
DelayedSack(r) ==
    /\ recv[r].on /\ GapTrigger(recv[r], TRUE)
    /\ SendSack(r, recv[r])
    /\ UNCHANGED <<send, nextStream, lastDone, wire, outcome, size, arrived, inbox>>

------------------------------------------------------------------------------
SomeSend ==
    \E t \in Transfers, total \in Totals, w \in Windows, th \in Thresholds :
        Send(t, total, w, th)

Next ==
    \/ SomeSend
    \/ \E t \in Transfers : SendRefused(t)
    \/ \E s \in Slots : SendReset(s) \/ Drive(s) \/ ReportCompletion(s) \/ Deadline(s)
    \/ \E s \in Slots, i \in Fragments : RetransmitTimeout(s, i)
    \/ \E c \in Streams : RecvReset(c)
    \/ HandleSack
    \/ HandleData
    \/ \E r \in Recvs : RecvTimeout(r) \/ DelayedSack(r)

Spec == Init /\ [][Next]_vars

\* The transmit task of each device keeps running: it takes every packet that
\* arrives and its passes come round every 10 ms, so a slot that can be driven,
\* reported or whose deadline has come is.
Fairness ==
    /\ WF_vars(HandleSack) /\ WF_vars(HandleData)
    /\ \A s \in Slots : WF_vars(Drive(s)) /\ WF_vars(ReportCompletion(s))
                        /\ WF_vars(Deadline(s))
    /\ \A r \in Recvs : WF_vars(DelayedSack(r))

FairSpec == Spec /\ Fairness

------------------------------------------------------------------------------
(* Correctness *)

\* Types of the slots, the queues and the histories.
TypeOK ==
    /\ send \in [Slots -> SendSlots]
    /\ nextStream \in Streams
    /\ recv \in [Recvs -> RecvSlots]
    /\ lastDone \subseteq Streams
    /\ wire \in Seq(DataPackets) /\ back \in Seq(SackPackets)
    /\ outcome \in [Transfers -> {"unsent", "open", "refused", "ok", "timeout", "reset"}]
    /\ size \in [Transfers -> 0 .. MaxFragments]
    /\ arrived \in [Transfers -> SUBSET Fragments]
    /\ inbox \in Seq(SUBSET Transfers)

\* The sender books as acknowledged only fragments its peer has stored: no
\* SACK, however late or out of date, confirms data that never arrived.
AckSound ==
    \A s \in Slots : Busy(s) => send[s].acked \subseteq arrived[send[s].tid]

\* The window bounds the fragments sent and not acknowledged, through every
\* mix of retransmissions, gaps and late SACKs.
WindowRespected ==
    \A s \in Slots : Active(send[s]) /\ Limited(send[s]) =>
        Cardinality(Outstanding(send[s])) <= send[s].window

\* The counters the code steers by (sent_fragments and in_flight) agree with
\* the per-fragment tables they abbreviate.
CountersAgree ==
    \A s \in Slots : Active(send[s]) =>
        /\ send[s].sent = Cardinality(send[s].acked)
        /\ send[s].inflight = Cardinality(Outstanding(send[s]))

\* A transfer reported with ESP_OK had every fragment stored by the peer.
OkMeansArrived ==
    \A t \in Transfers : outcome[t] = "ok" => arrived[t] = 0 .. size[t] - 1

\* What is handed to the application is one message, never the fragments of
\* one spliced with those of another.
DeliveredIntact == \A n \in DOMAIN inbox : Cardinality(inbox[n]) = 1

\* No message is handed over twice, whatever is retransmitted or restarted.
AtMostOnce ==
    \A m, n \in DOMAIN inbox : m # n => inbox[m] \cap inbox[n] = {}

\* A fragment of a younger transfer is sent for the first time only when every
\* fragment of an older one still active was.
OldestFirst ==
    [][\A s, o \in Slots :
          /\ Active(send[s]) /\ Active(send'[s]) /\ send'[s].tid = send[s].tid
          /\ send'[s].current > send[s].current
          /\ Active(send[o]) /\ send[o].tid < send[s].tid
          => AllDispatched(send[o])]_vars

\* The protocol keeps the promise of FluxDelivery: at most one hand-over, only
\* of a whole message, one outcome, ESP_OK only after every fragment arrived.
Delivery == INSTANCE FluxDelivery WITH
    stored <- arrived,
    handed <- [t \in Transfers |-> Cardinality({n \in DOMAIN inbox : t \in inbox[n]})]

KeepsPromise == Delivery!Spec

\* The reason flux_send_continue is called for a slot, a fragment whose
\* retransmission timer expired with retries left, is not turned away by its
\* first check.
NeedRetransmitIsServed ==
    \A s \in Slots :
        Active(send[s]) /\ ~BlockedByOlder(s) /\ NeedRetransmit(send[s])
        => ~AwaitsAcks(send[s])

\* Success reported to the sending application means that the message was
\* handed to the receiving one.
OkMeansDelivered ==
    \A t \in Transfers : outcome[t] = "ok" => \E n \in DOMAIN inbox : t \in inbox[n]

\* Every message accepted is reported sooner or later, unless it is reset.
EverySendReported ==
    \A t \in Transfers : outcome[t] = "open" ~> outcome[t] \in {"ok", "timeout", "reset"}

\* With nothing lost and acknowledgements in time, thresholds, stream order and windows
\* of two fragments and more never starve a transfer: it is delivered and reported
\* ESP_OK.  A window of one starves a message of several fragments until its deadline,
\* and the younger transfers behind it: START fills the window and only FRAGMENT
\* packets evaluate the window trigger of the receiver.
WindowOfOne(t) ==
    \E s \in Slots :
        Active(send[s]) /\ send[s].tid <= t /\ send[s].window = 1 /\ send[s].total > 1
LosslessDelivery ==
    \A t \in Transfers :
        outcome[t] = "open" ~>
            \/ outcome[t] = "ok" /\ \E n \in DOMAIN inbox : inbox[n] = {t}
            \/ WindowOfOne(t)
==============================================================================
