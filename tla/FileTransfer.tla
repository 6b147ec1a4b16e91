----------------------------- MODULE FileTransfer ------------------------------
(***************************************************************************)
(* The GMP file transfer profile on two devices with one link: on each the *)
(* worker task with its event queue and urgent queue, the business timer   *)
(* and its callback, the input handler GMP calls, the link events, and the *)
(* application's send and abort calls.                                     *)
(*                                                                         *)
(* A step of the worker is one event or one look at the pending flags;     *)
(* hashing before META and verifying after the last block are steps of     *)
(* their own, because flags are looked at in between.  GMP keeps the order *)
(* of frames and may lose them.  A file is a number of blocks.  A request  *)
(* is numbered by what it asks for: a block is sent again only when its    *)
(* last request was answered.                                              *)
(***************************************************************************)
EXTENDS Integers, Sequences, FiniteSets

CONSTANTS
    Devices,      \* the two ends of the link
    Senders,      \* those whose applications send files
    Sizes,        \* bound: each of them sends a file of every size, smallest first
    PipeDepth,    \* sender_pipe_depth_limit
    QueueLen,     \* ESP_FT_EVENT_QUEUE_LEN
    UrgentLen,    \* ESP_FT_URGENT_QUEUE_LEN
    MaxTrouble    \* bound: losses, failures, aborts and link events together

ASSUME FileTransferConstants ==
    /\ IsFiniteSet(Devices) /\ Cardinality(Devices) = 2 /\ Senders \subseteq Devices
    /\ IsFiniteSet(Sizes) /\ Sizes \subseteq Nat
    /\ {PipeDepth, QueueLen, UrgentLen} \subseteq Nat \ {0}
    /\ MaxTrouble \in Nat

VARIABLES
    ctx,       \* active_ctx: the transfer the worker is busy with
    at,        \* the worker: "top", "late", "event", "prepare" or "finalize"
    queue,     \* event_queue
    urgent,    \* urgent_queue
    flags,     \* links that went down: "own", "other"; "error" and "abort" pending
    timer,     \* the business timer: its tuple, running, in callback, pending tuple
    hand,      \* the urgent frame the input handler makes room for
    app,       \* esp_file_transfer_abort: "idle", "queueing" or "waiting"
    aborted,   \* user_abort_completed
    net,       \* frames on their way to each device
    saved,     \* transfers whose file was renamed to its name
    nextId,    \* next_transfer_id
    calm,      \* bound: trouble still to come
    completed, \* history: transfers a sender reported as completed
    stalled    \* history: devices that left their transfer idle for another link

vars == <<ctx, at, queue, urgent, flags, timer, hand, app, aborted, net, saved, nextId,
          calm, completed, stalled>>

Peer(d) == CHOOSE e \in Devices : e # d
Least(S) == CHOOSE n \in S : \A m \in S : n <= m

Idle == [role |-> "none", state |-> "none", tid |-> 0, total |-> 0, next |-> 0,
         pipe |-> {}, told |-> FALSE, early |-> "none", whole |-> TRUE]
NoExpiry == [kind |-> "none", gen |-> 0]
NoFrame == [at |-> "none", frame |-> [kind |-> "none"], aside |-> 0]
NoTimer == [kind |-> "none", gen |-> 0, on |-> FALSE, cb |-> FALSE, late |-> NoExpiry]

Init ==
    /\ ctx = [d \in Devices |-> Idle]
    /\ at = [d \in Devices |-> "event"]
    /\ queue = [d \in Devices |-> <<>>] /\ urgent = [d \in Devices |-> <<>>]
    /\ flags = [d \in Devices |-> {}]
    /\ timer = [d \in Devices |-> NoTimer]
    /\ hand = [d \in Devices |-> NoFrame]
    /\ app = [d \in Devices |-> "idle"] /\ aborted = [d \in Devices |-> FALSE]
    /\ net = [d \in Devices |-> <<>>]
    /\ saved = [d \in Devices |-> {}]
    /\ nextId = [d \in Devices |-> 1]
    /\ calm = MaxTrouble
    /\ completed = [d \in Devices |-> {}] /\ stalled = {}

------------------------------------------------------------------------------
(* Frames, trouble, the timer *)

Meta(t, n) == [kind |-> "meta", tid |-> t, total |-> n]
MetaRsp(t, s) == [kind |-> "metarsp", tid |-> t, status |-> s]
Data(t, i, w) == [kind |-> "data", tid |-> t, idx |-> i, whole |-> w]
DataRsp(t, i, s) == [kind |-> "datarsp", tid |-> t, idx |-> i, status |-> s]
Final(t, s) == [kind |-> "final", tid |-> t, status |-> s]
Abort(t) == [kind |-> "abort", tid |-> t]

Sent(d, frames) == net' = [net EXCEPT ![Peer(d)] = @ \o frames]
Trouble(n) == calm >= n /\ calm' = calm - n

\* ft_timer_disarm and ft_timer_arm forget the tuple and the pending one; a callback
\* esp_timer has begun to dispatch stays under way.  A new tuple has a generation no
\* posted expiry carries.
Disarmed(d) == [NoTimer EXCEPT !.cb = timer[d].cb]
Posted(d) == {n \in DOMAIN queue[d] : queue[d][n].kind = "timeout"}
Armed(d, kind) ==
    [Disarmed(d) EXCEPT !.kind = kind, !.on = TRUE,
          !.gen = Least((1 .. QueueLen + 1) \ {queue[d][n].gen : n \in Posted(d)})]

\* After an event the worker looks at the pending flags and timeout.
RestAfter(d, f) == IF f = {} /\ timer'[d].late = NoExpiry THEN "event" ELSE "top"
Rested(d) ==
    at' = [at EXCEPT ![d] = RestAfter(d, flags[d])] /\ UNCHANGED <<flags, nextId>>
Done(d) == Rested(d) /\ UNCHANGED <<app, aborted>>

Active(d) == ctx[d].role # "none"

\* The transfer goes on as c, with timer t and these frames sent; or nothing happens.
Keep(d, c, t, frames) ==
    /\ ctx' = [ctx EXCEPT ![d] = c]
    /\ timer' = [timer EXCEPT ![d] = t]
    /\ Sent(d, frames)
    /\ stalled' = stalled \ {d}
    /\ UNCHANGED <<saved, completed>>
Stay(d) == UNCHANGED <<ctx, timer, net, saved, completed, stalled>>

\* ft_finish_transfer; a sender may report success.
Over(d, frames) ==
    /\ ctx' = [ctx EXCEPT ![d] = Idle]
    /\ timer' = [timer EXCEPT ![d] = Disarmed(d)]
    /\ Sent(d, frames)
    /\ stalled' = stalled \ {d}
Finish(d, frames) == Over(d, frames) /\ UNCHANGED <<saved, completed>>
Complete(d) ==
    /\ Over(d, <<>>)
    /\ completed' = [completed EXCEPT ![d] = @ \cup {ctx[d].tid}] /\ UNCHANGED saved

\* ft_gmp_send_abort says nothing before META was sent or answered.
Notice(d) == IF ctx[d].told THEN <<Abort(ctx[d].tid)>> ELSE <<>>
AbortActive(d) == Finish(d, Notice(d))

------------------------------------------------------------------------------
(* The pending flags *)

\* ft_process_pending_termination.  The loss of another link leaves the transfer
\* alone, but takes the flag.
Terminate(d) ==
    /\ at[d] \in {"top", "event", "finalize"} /\ flags[d] # {}
    /\ IF flags[d] \cap {"own", "other"} # {}
       THEN /\ flags' = [flags EXCEPT ![d] = @ \ {"own", "other", "error"}]
            /\ IF Active(d) /\ "own" \in flags[d]
               THEN Finish(d, IF "error" \in flags[d] THEN Notice(d) ELSE <<>>)
               ELSE Stay(d)
            /\ UNCHANGED aborted
       ELSE /\ flags' = [flags EXCEPT ![d] = @ \ {"abort"}]
            /\ IF Active(d)
               THEN AbortActive(d) /\ aborted' = [aborted EXCEPT ![d] = TRUE]
               ELSE Stay(d) /\ UNCHANGED aborted
    /\ at' = [at EXCEPT ![d] =
          IF @ = "finalize" THEN IF ctx'[d].role = "none" THEN RestAfter(d, flags'[d]) ELSE @
          ELSE IF timer'[d].late = NoExpiry THEN "event" ELSE "late"]
    /\ UNCHANGED <<queue, urgent, hand, app, nextId, calm>>

------------------------------------------------------------------------------
(* The sender *)

Room(c) == Least({c.total - c.next, PipeDepth - Cardinality(c.pipe)})
Loaded(c, n) == [c EXCEPT !.next = @ + n, !.pipe = @ \cup (c.next .. c.next + n - 1)]
Blocks(c, n, w) == [m \in 1 .. n |-> Data(c.tid, c.next + m - 1, w)]

\* The timer after the transport pushed back: with nothing sent and nothing to be
\* answered, a short one.  (The variant leaves it to the answers.)
PausedQuietly(d, c, n, t) == IF n > 0 THEN Armed(d, "block") ELSE t
Paused(d, c, n, t) == IF n > 0 \/ c.pipe = {} THEN Armed(d, "block") ELSE t

\* fill_data_pipeline: as many blocks as there is room for, unless a flag is pending,
\* the transport pushes back, or a block cannot be read or sent.  A file may change
\* between its hashing and the reading of a block.
Fill(d, c, t) ==
    IF flags[d] # {} /\ Room(c) > 0
    THEN /\ ctx' = [ctx EXCEPT ![d] = c]
         /\ timer' = [timer EXCEPT ![d] = t]
         /\ stalled' = IF "other" \in flags[d] /\ c.pipe = {} THEN stalled \cup {d} ELSE stalled
         /\ UNCHANGED <<net, saved, completed, calm>>
    ELSE \E n \in 0 .. Room(c), w \in BOOLEAN :
         LET lost == IF w THEN 0 ELSE 1
             frames == Blocks(c, n, w)
         IN  /\ w \/ n > 0
             /\ \/ /\ n = Room(c) /\ Trouble(lost)
                   /\ Keep(d, Loaded(c, n), IF n > 0 THEN Armed(d, "block") ELSE t, frames)
                \/ /\ n < Room(c) /\ Trouble(lost + 1)
                   /\ Keep(d, Loaded(c, n), Paused(d, c, n, t), frames)
                \/ /\ n < Room(c) /\ Trouble(lost + 1)
                   /\ Finish(d, frames \o Notice(d))

\* enter_wait_final, with a FINAL that came early.
WaitFinal(d, c) ==
    /\ CASE c.early = "ok"     -> Complete(d)
         [] c.early = "failed" -> Finish(d, <<>>)
         [] OTHER -> Keep(d, [c EXCEPT !.state = "waitfinal"], Armed(d, "final"), <<>>)
    /\ UNCHANGED calm

\* receive_next_event: the worker takes an event of that kind, from the urgent queue
\* first, or the first one the input handler has not set aside (below).
Cut(s, k) == SubSeq(s, 1, k - 1) \o SubSeq(s, k + 1, Len(s))
Event(d) == IF urgent[d] # <<>> THEN Head(urgent[d]) ELSE queue[d][hand[d].aside + 1]
Taken(d, kind) ==
    /\ at[d] = "event" /\ (urgent[d] # <<>> \/ hand[d].aside < Len(queue[d]))
    /\ Event(d).kind = kind
    /\ IF urgent[d] # <<>>
       THEN urgent' = [urgent EXCEPT ![d] = Tail(@)] /\ UNCHANGED queue
       ELSE queue' = [queue EXCEPT ![d] = Cut(@, hand[d].aside + 1)] /\ UNCHANGED urgent
    /\ UNCHANGED hand

\* ft_sender_start: refused while another transfer is active, or for its file.
HandleSend(d) ==
    /\ Taken(d, "send")
    /\ \/ /\ Trouble(IF Active(d) THEN 0 ELSE 1)
          /\ Stay(d) /\ at' = [at EXCEPT ![d] = RestAfter(d, flags[d])] /\ UNCHANGED nextId
       \/ /\ ~Active(d)
          /\ ctx' = [ctx EXCEPT ![d] = [Idle EXCEPT !.role = "sender", !.state = "preparing",
                                          !.tid = nextId[d], !.total = Event(d).total]]
          /\ nextId' = [nextId EXCEPT ![d] = @ + 1]
          /\ at' = [at EXCEPT ![d] = "prepare"]
          /\ UNCHANGED <<timer, net, saved, completed, stalled, calm>>
    /\ UNCHANGED <<flags, app, aborted>>

\* ft_sender_prepare: the file is hashed and META sent; with a flag pending it returns.
Prepare(d) ==
    /\ at[d] = "prepare"
    /\ \/ /\ flags[d] = {}
          /\ Keep(d, [ctx[d] EXCEPT !.state = "waitmeta", !.told = TRUE], Armed(d, "meta"),
                  <<Meta(ctx[d].tid, ctx[d].total)>>)
          /\ UNCHANGED calm
       \/ Finish(d, <<>>) /\ Trouble(1)
       \/ /\ flags[d] # {}
          /\ stalled' = IF "other" \in flags[d] THEN stalled \cup {d} ELSE stalled
          /\ UNCHANGED <<ctx, timer, net, saved, completed, calm>>
    /\ Done(d) /\ UNCHANGED <<queue, urgent, hand>>

\* handle_meta_response.
HandleMetaRsp(d) ==
    /\ Taken(d, "metarsp")
    /\ LET c == ctx[d] IN
       IF c.role = "sender" /\ c.state = "waitmeta" /\ c.tid = Event(d).tid
       THEN CASE Event(d).status = "rejected" -> Finish(d, <<>>) /\ UNCHANGED calm
              [] Event(d).status = "busy" -> AbortActive(d) /\ UNCHANGED calm
              [] OTHER -> IF c.total = 0 THEN WaitFinal(d, c)
                          ELSE Fill(d, [c EXCEPT !.state = "sending"], Disarmed(d))
       ELSE Stay(d) /\ UNCHANGED calm
    /\ Done(d)

\* handle_data_response: a block refused as BUSY is sent again.
HandleDataRsp(d) ==
    /\ Taken(d, "datarsp")
    /\ LET c == ctx[d]
           i == Event(d).idx
           rest == [c EXCEPT !.pipe = @ \ {i}]
           t == IF rest.pipe = {} THEN Disarmed(d) ELSE Armed(d, "block")
       IN  IF c.role # "sender" \/ c.tid # Event(d).tid \/ i \notin c.pipe
           THEN Stay(d) /\ UNCHANGED calm
           ELSE CASE Event(d).status = "busy" ->
                       \/ \E w \in BOOLEAN :
                             /\ Keep(d, c, Armed(d, "block"), <<Data(c.tid, i, w)>>)
                             /\ Trouble(IF w THEN 0 ELSE 1)
                       \/ AbortActive(d) /\ Trouble(1)
                  [] Event(d).status = "failed" -> AbortActive(d) /\ UNCHANGED calm
                  [] OTHER -> IF rest.next >= rest.total /\ rest.pipe = {}
                              THEN WaitFinal(d, rest)
                              ELSE Fill(d, rest, t)
    /\ Done(d)

\* handle_final_packet: in the urgent queue FINAL overtakes the last responses.
HandleFinal(d) ==
    /\ Taken(d, "final")
    /\ LET c == ctx[d]
           early == \/ c.state = "waitmeta" /\ c.total = 0
                    \/ c.state = "sending" /\ c.next >= c.total
       IN  IF c.role # "sender" \/ c.tid # Event(d).tid THEN Stay(d)
           ELSE CASE c.state = "waitfinal" ->
                       IF Event(d).status = "ok" THEN Complete(d) ELSE Finish(d, <<>>)
                  [] c.state # "waitfinal" /\ c.early # "none" -> Stay(d)
                  [] early /\ c.early = "none" ->
                       Keep(d, [c EXCEPT !.early = Event(d).status], timer[d], <<>>)
                  [] OTHER -> AbortActive(d)
    /\ Done(d) /\ UNCHANGED calm

------------------------------------------------------------------------------
(* The receiver *)

\* ft_receiver_handle_meta: rejected while busy, by the application or for the file
\* system; without a response the transfer is over at once.
HandleMeta(d) ==
    /\ Taken(d, "meta")
    /\ LET m == Event(d)
           c == [Idle EXCEPT !.role = "receiver", !.tid = m.tid, !.total = m.total, !.told = TRUE,
                             !.state = IF m.total = 0 THEN "finalizing" ELSE "waitdata"]
       IN  \/ /\ ~Active(d) /\ UNCHANGED calm
              /\ Keep(d, c, IF m.total = 0 THEN timer[d] ELSE Armed(d, "data"),
                      <<MetaRsp(m.tid, "ok")>>)
              /\ at' = [at EXCEPT ![d] = IF m.total = 0 THEN "finalize" ELSE RestAfter(d, flags[d])]
           \/ /\ ~Active(d) /\ Trouble(1)
              /\ Stay(d) /\ at' = [at EXCEPT ![d] = RestAfter(d, flags[d])]
           \/ /\ Sent(d, <<MetaRsp(m.tid, "rejected")>>)
              /\ Trouble(IF Active(d) THEN 0 ELSE 1)
              /\ UNCHANGED <<ctx, timer, saved, completed, stalled>>
              /\ at' = [at EXCEPT ![d] = RestAfter(d, flags[d])]
    /\ UNCHANGED <<flags, app, aborted, nextId>>

\* ft_receiver_handle_data: blocks are taken in order only.
HandleData(d) ==
    /\ Taken(d, "data")
    /\ LET m == Event(d)
           c == [ctx[d] EXCEPT !.next = @ + 1, !.whole = @ /\ m.whole]
           no == <<DataRsp(m.tid, m.idx, "failed")>>
           yes == <<DataRsp(m.tid, m.idx, "ok")>>
       IN  IF ctx[d].state # "waitdata" \/ m.tid # ctx[d].tid
           THEN /\ Sent(d, no)
                /\ UNCHANGED <<ctx, timer, saved, completed, stalled, calm>> /\ Done(d)
           ELSE IF m.idx # ctx[d].next
           THEN Finish(d, no) /\ Done(d) /\ UNCHANGED calm
           ELSE \/ /\ c.next < c.total
                   /\ Keep(d, c, Armed(d, "data"), yes)
                   /\ Done(d) /\ UNCHANGED calm
                \/ /\ c.next = c.total
                   /\ Keep(d, [c EXCEPT !.state = "finalizing"], Disarmed(d), yes)
                   /\ at' = [at EXCEPT ![d] = "finalize"]
                   /\ UNCHANGED <<flags, app, aborted, nextId, calm>>
                \/ \E frames \in {no, <<>>} : Finish(d, frames) /\ Done(d) /\ Trouble(1)

\* finalize_receiver: the digest compared, the file closed and renamed, FINAL sent.
\* A FINAL that cannot be sent changes nothing about the file.  (The variant says ok
\* before it renames.)
FinalizeFirst(d) ==
    /\ at[d] = "finalize" /\ flags[d] = {} /\ ctx[d].whole
    /\ Over(d, <<Final(ctx[d].tid, "ok")>>)
    /\ saved' \in {saved, [saved EXCEPT ![d] = @ \cup {ctx[d].tid}]}
    /\ Done(d) /\ UNCHANGED <<queue, urgent, hand, completed, calm>>

Finalize(d) ==
    /\ at[d] = "finalize" /\ flags[d] = {}
    /\ LET t == ctx[d].tid IN
       \/ /\ ctx[d].whole
          /\ \/ Over(d, <<Final(t, "ok")>>) /\ UNCHANGED calm
             \/ Over(d, <<>>) /\ Trouble(1)
          /\ saved' = [saved EXCEPT ![d] = @ \cup {t}] /\ UNCHANGED completed
       \/ Finish(d, <<Final(t, "failed")>>) /\ Trouble(IF ctx[d].whole THEN 1 ELSE 0)
    /\ Done(d) /\ UNCHANGED <<queue, urgent, hand>>

------------------------------------------------------------------------------
(* Aborts and timeouts *)

\* ft_handle_peer_abort.
HandleAbort(d) ==
    /\ Taken(d, "abort")
    /\ IF Active(d) /\ ctx[d].tid = Event(d).tid THEN Finish(d, <<>>) ELSE Stay(d)
    /\ Done(d) /\ UNCHANGED calm

\* The command of esp_file_transfer_abort, unless the flag did its work before.
HandleAbortCmd(d) ==
    /\ Taken(d, "abortcmd")
    /\ IF ~aborted[d] /\ Active(d) THEN AbortActive(d) ELSE Stay(d)
    /\ aborted' = [aborted EXCEPT ![d] = FALSE]
    /\ app' = [app EXCEPT ![d] = "idle"]
    /\ Rested(d) /\ UNCHANGED calm

\* ft_sender_handle_timeout, ft_receiver_handle_timeout: with an empty pipe the
\* sender's timer was that of a pause.
Expired(d) ==
    IF ctx[d].state = "sending" /\ ctx[d].pipe = {} /\ ctx[d].next < ctx[d].total
    THEN Fill(d, ctx[d], [timer[d] EXCEPT !.late = NoExpiry])
    ELSE AbortActive(d) /\ UNCHANGED calm

\* timeout_current: an expiry of an earlier generation is dropped.
Current(d, x) == Active(d) /\ x.kind = timer[d].kind /\ x.gen = timer[d].gen

HandleTimeout(d) ==
    /\ Taken(d, "timeout")
    /\ IF Current(d, [kind |-> Event(d).timer, gen |-> Event(d).gen])
       THEN Expired(d)
       ELSE Stay(d) /\ UNCHANGED calm
    /\ Done(d)

\* process_pending_flags, with an expiry that could not be queued.
HandleLate(d) ==
    /\ timer[d].late # NoExpiry
    /\ at[d] = "late" \/ (at[d] \in {"top", "event"} /\ flags[d] = {})
    /\ IF Current(d, timer[d].late)
       THEN Expired(d)
       ELSE /\ timer' = [timer EXCEPT ![d].late = NoExpiry]
            /\ UNCHANGED <<ctx, net, saved, completed, stalled, calm>>
    /\ at' = [at EXCEPT ![d] = "event"]
    /\ UNCHANGED <<queue, urgent, hand, flags, app, aborted, nextId>>

WorkerStep(d) ==
    \/ Terminate(d) \/ HandleLate(d) \/ Prepare(d) \/ Finalize(d)
    \/ HandleSend(d) \/ HandleMetaRsp(d) \/ HandleDataRsp(d) \/ HandleFinal(d)
    \/ HandleMeta(d) \/ HandleData(d) \/ HandleAbort(d) \/ HandleAbortCmd(d)
    \/ HandleTimeout(d)

------------------------------------------------------------------------------
(* The other tasks *)

\* Room in event_queue, whose mutex esp_file_transfer_abort holds while it waits and
\* the input handler while it makes room.
\* (The variant is off by one.)
FullLate(d) == Len(queue[d]) > QueueLen
Full(d) == Len(queue[d]) >= QueueLen
Evicting(d) == hand[d].at \in {"drain", "keep", "put"}
Locked(d) == app[d] = "queueing" \/ Evicting(d)
Queued(d, e) == queue' = [queue EXCEPT ![d] = Append(@, e)]

timerOnly == <<ctx, at, urgent, flags, hand, app, aborted, net, saved, nextId, calm, completed, stalled>>

\* esp_timer has taken the timer off its list and is about to call timeout_callback.
TimerExpires(d) ==
    /\ timer[d].on /\ ~timer[d].cb
    /\ timer' = [timer EXCEPT ![d].on = FALSE, ![d].cb = TRUE]
    /\ UNCHANGED <<timerOnly, queue>>

\* timeout_callback posts the tuple it finds; with the queue full or its mutex taken,
\* it leaves it pending.  (The variant drops it.)
LeftOut(t, x) == t
Left(t, x) == [t EXCEPT !.late = x]
TimerCallback(d) ==
    /\ timer[d].cb
    /\ LET x == [kind |-> timer[d].kind, gen |-> timer[d].gen]
           t == [timer[d] EXCEPT !.cb = FALSE]
       IN  \/ /\ x.kind # "none" /\ ~Full(d) /\ ~Locked(d)
              /\ timer' = [timer EXCEPT ![d] = t]
              /\ Queued(d, [kind |-> "timeout", timer |-> x.kind, gen |-> x.gen])
           \/ /\ timer' = [timer EXCEPT ![d] = IF x.kind = "none" THEN t ELSE Left(t, x)]
              /\ UNCHANGED queue
    /\ UNCHANGED timerOnly

netOnly == <<ctx, at, flags, timer, app, aborted, saved, nextId, completed, stalled>>
IsUrgent(m) == m.kind \in {"final", "abort"}
\* The next frame, for an input handler that has none in hand.
Arrives(d) == net[d] # <<>> /\ hand[d].at = "none"

\* esp_file_transfer_on_packet: META, DATA and responses wait in the event queue.
Receive(d) ==
    /\ Arrives(d) /\ ~IsUrgent(Head(net[d])) /\ ~Full(d) /\ ~Locked(d)
    /\ Queued(d, Head(net[d]))
    /\ net' = [net EXCEPT ![d] = Tail(@)]
    /\ UNCHANGED <<netOnly, urgent, hand, calm>>

\* send_immediate_status: META or DATA is answered, a response dropped.  (The variant
\* says ok.)
RefusalOk(m, status) ==
    CASE m.kind = "meta" -> <<MetaRsp(m.tid, "busy")>>
      [] m.kind = "data" -> <<DataRsp(m.tid, m.idx, "ok")>>
      [] OTHER -> <<>>
Refusal(m, status) ==
    CASE m.kind = "meta" -> <<MetaRsp(m.tid, "busy")>>
      [] m.kind = "data" -> <<DataRsp(m.tid, m.idx, status)>>
      [] OTHER -> <<>>

\* The queue is full, or the payload cannot be copied.
ReceiveRefused(d) ==
    /\ Arrives(d) /\ ~IsUrgent(Head(net[d])) /\ ~Locked(d)
    /\ net' = [net EXCEPT ![d] = Tail(@),
                  ![Peer(d)] = @ \o Refusal(Head(net[d]), IF Full(d) THEN "busy" ELSE "failed")]
    /\ Trouble(IF Full(d) THEN 0 ELSE 1)
    /\ UNCHANGED <<netOnly, queue, urgent, hand>>

\* FINAL and ABORT go to the urgent queue...
InHand(d, place, n) == hand' = [hand EXCEPT ![d].at = place, ![d].aside = n]
EmptyHanded(d) == hand' = [hand EXCEPT ![d] = NoFrame]
handOnly == <<netOnly, net, calm>>

ReceiveUrgent(d) ==
    /\ Arrives(d) /\ IsUrgent(Head(net[d]))
    /\ net' = [net EXCEPT ![d] = Tail(@)]
    /\ IF Len(urgent[d]) < UrgentLen
       THEN urgent' = [urgent EXCEPT ![d] = Append(@, Head(net[d]))] /\ UNCHANGED hand
       ELSE /\ hand' = [hand EXCEPT ![d] = [NoFrame EXCEPT !.at = "try", !.frame = Head(net[d])]]
            /\ UNCHANGED urgent
    /\ UNCHANGED <<netOnly, queue, calm>>

\* ... else to the event queue...
TryQueue(d) ==
    /\ hand[d].at = "try" /\ ~Locked(d)
    /\ IF Full(d) THEN InHand(d, "lock", 0) /\ UNCHANGED queue
                  ELSE Queued(d, hand[d].frame) /\ EmptyHanded(d)
    /\ UNCHANGED <<handOnly, urgent>>

\* ... where room is made: under the mutex, which the worker does not take, events
\* are taken out one by one and set aside (they are counted here and stay in queue),
\* but for the oldest frame or send command...  (The variant spares nothing.)
EvictableAll(e) == TRUE
Evictable(e) == e.kind \notin {"abortcmd", "timeout"}
LockQueue(d) ==
    /\ hand[d].at = "lock" /\ ~Locked(d)
    /\ InHand(d, "drain", 0)
    /\ UNCHANGED <<handOnly, queue, urgent>>

TakeOut(d) ==
    LET n == hand[d].aside + 1
    IN  /\ hand[d].at \in {"drain", "keep"} /\ n <= Len(queue[d])
        /\ IF hand[d].at = "drain" /\ Evictable(queue[d][n])
           THEN queue' = [queue EXCEPT ![d] = Cut(@, n)] /\ InHand(d, "keep", n - 1)
           ELSE InHand(d, hand[d].at, n) /\ UNCHANGED queue
        /\ UNCHANGED <<handOnly, urgent>>

\* ... and put back; then both queues are tried again.
PutBack(d) ==
    /\ hand[d].at \in {"drain", "keep"} /\ hand[d].aside >= Len(queue[d])
    /\ InHand(d, "put", 0)
    /\ UNCHANGED <<handOnly, queue, urgent>>

TryAgain(d) ==
    /\ hand[d].at = "put"
    /\ IF Len(urgent[d]) < UrgentLen
       THEN urgent' = [urgent EXCEPT ![d] = Append(@, hand[d].frame)] /\ UNCHANGED queue
       ELSE /\ IF Full(d) THEN UNCHANGED queue ELSE Queued(d, hand[d].frame)
            /\ UNCHANGED urgent
    /\ EmptyHanded(d)
    /\ UNCHANGED handOnly

MakeRoom(d) == TryQueue(d) \/ LockQueue(d) \/ TakeOut(d) \/ PutBack(d) \/ TryAgain(d)

appOnly == <<ctx, at, urgent, timer, hand, net, saved, nextId, completed, stalled>>

\* esp_file_transfer_send.
Send(d) ==
    /\ d \in Senders /\ ~Full(d) /\ ~Locked(d)
    /\ LET begun == nextId[d] - 1 + Cardinality({n \in DOMAIN queue[d] : queue[d][n].kind = "send"})
       IN  \E n \in Sizes :
             /\ Cardinality({m \in Sizes : m < n}) = begun
             /\ Queued(d, [kind |-> "send", total |-> n])
    /\ UNCHANGED <<appOnly, flags, app, aborted, calm>>

\* esp_file_transfer_abort while a transfer is in progress: the flag, then the command.
AbortCall(d) ==
    /\ app[d] = "idle" /\ Active(d) /\ Trouble(1)
    /\ flags' = [flags EXCEPT ![d] = @ \cup {"abort"}]
    /\ aborted' = [aborted EXCEPT ![d] = FALSE]
    /\ app' = [app EXCEPT ![d] = "queueing"]
    /\ UNCHANGED <<appOnly, queue>>

AbortQueue(d) ==
    /\ app[d] = "queueing" /\ ~Full(d) /\ ~Evicting(d)
    /\ Queued(d, [kind |-> "abortcmd"])
    /\ app' = [app EXCEPT ![d] = "waiting"]
    /\ UNCHANGED <<appOnly, flags, aborted, calm>>

\* The link goes down on both ends, and comes back at the same address.
LinkDown ==
    /\ Trouble(1)
    /\ flags' = [d \in Devices |-> flags[d] \cup {"own"}]
    /\ net' = [d \in Devices |-> <<>>]
    /\ UNCHANGED <<ctx, at, queue, urgent, timer, hand, app, aborted, saved, nextId,
                   completed, stalled>>

\* The transport of the link fails; another link goes down; one more besides, after
\* which every session is flushed as if its own link had gone.
LinkEvent(d) ==
    /\ Trouble(1)
    /\ \E f \in {{"own", "error"}, {"other"}} \cup (IF "other" \in flags[d] THEN {{"own"}} ELSE {}) :
          flags' = [flags EXCEPT ![d] = @ \cup f]
    /\ UNCHANGED <<appOnly, queue, app, aborted>>

Lose(d) ==
    /\ net[d] # <<>> /\ Trouble(1)
    /\ net' = [net EXCEPT ![d] = Tail(@)]
    /\ UNCHANGED <<netOnly, queue, urgent, hand>>

Next ==
    \/ LinkDown
    \/ \E d \in Devices :
        \/ WorkerStep(d) \/ TimerExpires(d) \/ TimerCallback(d)
        \/ Receive(d) \/ ReceiveRefused(d) \/ ReceiveUrgent(d) \/ MakeRoom(d) \/ Lose(d)
        \/ Send(d) \/ AbortCall(d) \/ AbortQueue(d) \/ LinkEvent(d)

Spec == Init /\ [][Next]_vars

\* The worker, esp_timer and the task of the input handler run when they have work, and
\* time passes.  Nothing is asked of the link.
FairSpec ==
    /\ Spec
    /\ \A d \in Devices :
        /\ WF_vars(WorkerStep(d)) /\ WF_vars(TimerExpires(d) \/ TimerCallback(d))
        /\ WF_vars(AbortQueue(d)) /\ WF_vars(MakeRoom(d))

------------------------------------------------------------------------------
(* Properties *)

States == {"none", "preparing", "waitmeta", "sending", "waitfinal", "waitdata", "finalizing"}
Kinds == {"none", "meta", "block", "final", "data"}
Events == {"meta", "metarsp", "data", "datarsp", "final", "abort", "send", "abortcmd", "timeout"}

\* The types; queues and pipe within their sizes, a role for each state, and the
\* worker's places those of its transfer's state.
TypeOK ==
    /\ \A d \in Devices :
        /\ ctx[d].state \in States /\ ctx[d].role \in {"none", "sender", "receiver"}
        /\ ctx[d].next \in 0 .. ctx[d].total /\ ctx[d].pipe \subseteq 0 .. ctx[d].next - 1
        /\ Cardinality(ctx[d].pipe) <= PipeDepth /\ ctx[d].tid \in Nat
        /\ ctx[d].early \in {"none", "ok", "failed"}
        /\ at[d] \in {"top", "late", "event", "prepare", "finalize"}
        /\ at[d] = "prepare" => ctx[d].state = "preparing"
        /\ at[d] = "finalize" => ctx[d].state = "finalizing"
        /\ Len(queue[d]) <= QueueLen /\ Len(urgent[d]) <= UrgentLen
        /\ \A n \in DOMAIN queue[d] : queue[d][n].kind \in Events
        /\ \A n \in DOMAIN urgent[d] : IsUrgent(urgent[d][n])
        /\ hand[d].at \in {"none", "try", "lock", "drain", "keep", "put"}
        /\ hand[d].aside \in 0 .. Len(queue[d])
        /\ IF hand[d].at = "none" THEN hand[d] = NoFrame ELSE IsUrgent(hand[d].frame)
        /\ flags[d] \subseteq {"own", "other", "error", "abort"}
        /\ timer[d].kind \in Kinds /\ timer[d].gen \in 0 .. QueueLen + 1
        /\ timer[d].on \in BOOLEAN /\ timer[d].cb \in BOOLEAN
        /\ timer[d].late.kind \in Kinds /\ timer[d].late.gen \in 0 .. QueueLen + 1
        /\ app[d] \in {"idle", "queueing", "waiting"} /\ aborted[d] \in BOOLEAN
        /\ \A n \in DOMAIN net[d] : net[d][n].kind \in Events
        /\ saved[d] \subseteq Nat /\ nextId[d] \in Nat \ {0} /\ completed[d] \subseteq Nat
    /\ calm \in 0 .. MaxTrouble /\ stalled \subseteq Devices

\* What a sender reports as completed is a file under its name on the other device,
\* whichever way FINAL came: in time, early, or after the transfer was given up there.
CompletedIsSaved == \A d \in Devices : completed[d] \subseteq saved[Peer(d)]

\* The sender's progress is the receiver's: no block counts as transferred that the
\* receiver has not taken, although blocks are refused, sent again and pipelined.
AckedIsWritten ==
    \A d \in Devices :
        LET c == ctx[d]
            p == ctx[Peer(d)]
        IN  c.role = "sender" /\ p.role = "receiver" /\ p.tid = c.tid =>
                Cardinality((0 .. c.next - 1) \ c.pipe) <= p.next

\* A transfer the worker has put down is driven by something: its timer is armed and
\* runs, or the expiry of what is armed is under way, queued or pending.  The exception
\* is the code's: a sender that returned because another link went down.
Ticking(d) ==
    \/ timer[d].on \/ timer[d].cb
    \/ Current(d, timer[d].late)
    \/ \E n \in Posted(d) :
          Current(d, [kind |-> queue[d][n].timer, gen |-> queue[d][n].gen])
Driven ==
    \A d \in Devices :
        at[d] = "event" /\ flags[d] = {} /\ Active(d) /\ d \notin stalled =>
            timer[d].kind # "none" /\ Ticking(d)

\* Whoever waits in esp_file_transfer_abort has its command in the queue, where no
\* urgent frame displaces it; and no command is left for a caller that has gone.
AbortAnswered ==
    \A d \in Devices :
        Cardinality({n \in DOMAIN queue[d] : queue[d][n].kind = "abortcmd"}) =
            IF app[d] = "waiting" THEN 1 ELSE 0

\* Every transfer ends on each side, whatever is lost and whoever gives up, with the
\* exception above.
TransfersEnd == \A d \in Devices : Active(d) ~> (~Active(d) \/ d \in stalled)
==============================================================================
