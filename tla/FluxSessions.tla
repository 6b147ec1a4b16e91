---------------------------- MODULE FluxSessions -----------------------------
(***************************************************************************)
(* The lifecycle of Flux sessions: the global session list, the receive    *)
(* queue and the one transmit task all sessions share, and the callback    *)
(* reservations (callback_pending, callback_inflight) by which             *)
(* flux_session_destroy waits for that task.  The protocol inside a slot   *)
(* is FluxTransfer's; here a transfer only starts, ends and is reported.   *)
(*                                                                         *)
(* Actors: the transmit task, and control tasks that create and destroy    *)
(* sessions.  A step is a critical section under g_flux_sessions_mutex or  *)
(* a state_mutex, or the code between two of them.  The transmit task's    *)
(* pass over the list holds the global mutex from BeginPass to EndPass,    *)
(* because vTaskDelete can strike in between.                              *)
(***************************************************************************)
EXTENDS Integers, Sequences, FiniteSets

CONSTANTS
    Sessions,    \* session objects, each created at most once
    Controls,    \* tasks that call flux_session_create and _destroy
    Sends,       \* bound: transfers each session starts, numbered from 1
    QueueCap,    \* depth of g_flux_session_queue
    EventCap     \* length of send_events[]

ASSUME SessionConstants ==
    /\ IsFiniteSet(Sessions) /\ Controls # {}
    /\ Sends \in Nat /\ QueueCap \in Nat \ {0} /\ EventCap \in Nat \ {0}

Transfers == 1 .. Sends
\* What a callback reports: the end of a transfer, or data, progress or an error.
Completion(x, k) == [x |-> x, k |-> k]
Happening(x) == [x |-> x, k |-> 0]
Completions == {Completion(x, k) : x \in Sessions, k \in Transfers}
Smaller(a, b) == IF a < b THEN a ELSE b
Events == Completions \cup {Happening(x) : x \in Sessions}
Nobody == "nobody"

VARIABLES
    list,        \* g_flux_sessions_list, head first
    life,        \* "none", "alive" or "freed": the session's memory
    destroying,  \* session->destroying
    pending,     \* session->callback_pending
    inflight,    \* session->callback_inflight
    slot,        \* what each transfer's send slot holds
    begun,       \* history: the transfers flux_session_send accepted
    told,        \* history: completion callbacks made for each transfer
    queue,       \* g_flux_session_queue: the sessions packets were fed to
    running,     \* g_flux_session_task_handle # NULL (with its queue)
    tx,          \* the transmit task: where it is and the events it must report
    mutex,       \* holder of g_flux_sessions_mutex between steps
    control      \* the control tasks: call under way and its local variables

vars == <<list, life, destroying, pending, inflight, slot, begun, told, queue,
          running, tx, mutex, control>>
sessionVars == <<life, destroying, pending, inflight, slot, begun, told>>

\* The order in which one pass makes its callbacks is left open.
Resting == [at |-> "wait", x |-> {}, todo |-> {}, now |-> {}]
Reporting(todo) == IF todo = {} THEN Resting
                   ELSE [Resting EXCEPT !.at = "report", !.todo = todo]
Idle == [at |-> "idle", x |-> {}, head |-> {}, last |-> FALSE, drop |-> {}]

Init ==
    /\ list = <<>> /\ queue = <<>> /\ running = FALSE /\ mutex = Nobody
    /\ life = [x \in Sessions |-> "none"]
    /\ destroying = [x \in Sessions |-> FALSE]
    /\ pending = [x \in Sessions |-> 0] /\ inflight = [x \in Sessions |-> 0]
    /\ slot = [x \in Sessions |-> [k \in Transfers |-> "free"]]
    /\ begun = [x \in Sessions |-> {}]
    /\ told = [x \in Sessions |-> [k \in Transfers |-> 0]]
    /\ tx = Resting
    /\ control = [c \in Controls |-> Idle]

Listed(x) == \E n \in DOMAIN list : list[n] = x

\* The ascending enumerations of a set of positions: there is exactly one.
InOrder(S) ==
    {a \in [1 .. Cardinality(S) -> S] : \A i, j \in DOMAIN a : i < j => a[i] < a[j]}
\* The queue without the packets of x, the others in their order.
Without(q, x) ==
    {[k \in DOMAIN a |-> q[a[k]]] : a \in InOrder({n \in DOMAIN q : q[n] # x})}

------------------------------------------------------------------------------
(* The application and the transport adapter *)

\* An adapter neither sends nor feeds once it has begun to destroy a session.
InUse(x) == life[x] = "alive" /\ Listed(x)
            /\ \A c \in Controls : control[c].x # {x}

\* flux_session_send: a transfer occupies a send slot.
StartSend(x, k) ==
    /\ InUse(x) /\ begun[x] = 1 .. k - 1
    /\ begun' = [begun EXCEPT ![x] = @ \cup {k}]
    /\ slot' = [slot EXCEPT ![x][k] = "active"]
    /\ UNCHANGED <<list, life, destroying, pending, inflight, told, queue, running,
                   tx, mutex, control>>

\* Variant: the depth of the queue is not looked at.
FeedAlways(x) ==
    /\ InUse(x) /\ running
    /\ queue' = Append(queue, x)
    /\ UNCHANGED <<list, sessionVars, running, tx, mutex, control>>

\* flux_session_feed_data: a packet for x joins the shared queue if it fits.
Feed(x) ==
    /\ InUse(x) /\ running /\ Len(queue) < QueueCap
    /\ queue' = Append(queue, x)
    /\ UNCHANGED <<list, sessionVars, running, tx, mutex, control>>

------------------------------------------------------------------------------
(* The transmit task *)

TakePacket ==
    /\ running /\ tx.at = "wait" /\ queue # <<>>
    /\ tx' = [tx EXCEPT !.at = "packet", !.x = {Head(queue)}]
    /\ queue' = Tail(queue)
    /\ UNCHANGED <<list, sessionVars, running, mutex, control>>

\* The packet's session is looked up under the global mutex; a packet of one no
\* longer listed is dropped.  Otherwise it may complete a transfer (a SACK), and
\* data or progress may be reported: each such callback is reserved.
HandlePacket(x) ==
    /\ running /\ tx.at = "packet" /\ tx.x = {x} /\ mutex = Nobody
    /\ \/ /\ ~Listed(x)
          /\ tx' = Resting
          /\ UNCHANGED <<pending, slot>>
       \/ /\ Listed(x)
          /\ \/ UNCHANGED slot
             \/ \E k \in Transfers :
                    /\ slot[x][k] = "active"
                    /\ slot' = [slot EXCEPT ![x][k] = "completed"]
          /\ \E n \in IF destroying[x] THEN {0} ELSE {0, 1} :
                /\ pending' = [pending EXCEPT ![x] = @ + n]
                /\ tx' = Reporting({Happening(x) : m \in 1 .. n})
    /\ UNCHANGED <<list, life, destroying, inflight, begun, told, queue, running, mutex,
                   control>>

\* With the queue empty the task takes the global mutex for its timer pass.
BeginPass ==
    /\ running /\ tx.at = "wait" /\ queue = <<>> /\ mutex = Nobody
    /\ mutex' = "tx"
    /\ tx' = [tx EXCEPT !.at = "pass"]
    /\ UNCHANGED <<list, sessionVars, queue, running, control>>

Ended == {e \in Completions : Listed(e.x) /\ slot[e.x][e.k] = "completed"}
Started == {e \in Completions : Listed(e.x) /\ slot[e.x][e.k] = "active"}

\* The pass clears every completed slot and those past their deadline and reserves
\* a callback for each while there is room for its event; it does the same for
\* progress and errors, of which one per session and pass is enough here.
EndPass ==
    /\ running /\ tx.at = "pass"
    /\ mutex' = Nobody
    /\ \E late \in SUBSET Started, more \in SUBSET {x \in Sessions : Listed(x)} :
        LET done  == Ended \cup late
            heard == {e \in done : ~destroying[e.x]}
        IN  \E kept \in SUBSET heard :
            LET todo == kept \cup {Happening(x) : x \in {y \in more : ~destroying[y]}}
            IN  /\ Cardinality(kept) = Smaller(EventCap, Cardinality(heard))
                /\ slot' = [x \in Sessions |-> [k \in Transfers |->
                              IF Completion(x, k) \in done THEN "free" ELSE slot[x][k]]]
                /\ pending' = [x \in Sessions |->
                      pending[x] + Cardinality({e \in todo : e.x = x})]
                /\ tx' = Reporting(todo)
    /\ UNCHANGED <<list, life, destroying, inflight, begun, told, queue, running, control>>

\* flux_session_callback_begin_reserved: the reservation becomes a call, unless
\* the session is being destroyed meanwhile.
BeginCallback(e) ==
    /\ running /\ tx.at = "report" /\ e \in tx.todo
    /\ pending' = [pending EXCEPT ![e.x] = IF @ > 0 THEN @ - 1 ELSE 0]
    /\ IF destroying[e.x]
       THEN /\ tx' = Reporting(tx.todo \ {e})
            /\ UNCHANGED inflight
       ELSE /\ tx' = [tx EXCEPT !.at = "callback", !.now = {e}, !.todo = @ \ {e}]
            /\ inflight' = [inflight EXCEPT ![e.x] = @ + 1]
    /\ UNCHANGED <<list, life, destroying, slot, begun, told, queue, running, mutex,
                   control>>

\* Variant: flux_session_callback_leave is forgotten.
EndCallbackUncounted(e) ==
    /\ running /\ tx.at = "callback" /\ tx.now = {e}
    /\ told' = IF e \in Completions THEN [told EXCEPT ![e.x][e.k] = @ + 1] ELSE told
    /\ tx' = Reporting(tx.todo)
    /\ UNCHANGED <<list, life, destroying, pending, inflight, slot, begun, queue, running,
                   mutex, control>>

\* The callback runs and flux_session_callback_leave follows.
EndCallback(e) ==
    /\ running /\ tx.at = "callback" /\ tx.now = {e}
    /\ told' = IF e \in Completions THEN [told EXCEPT ![e.x][e.k] = @ + 1] ELSE told
    /\ inflight' = [inflight EXCEPT ![e.x] = IF @ > 0 THEN @ - 1 ELSE 0]
    /\ tx' = Reporting(tx.todo)
    /\ UNCHANGED <<list, life, destroying, pending, slot, begun, queue, running, mutex,
                   control>>

------------------------------------------------------------------------------
(* The control tasks *)

\* flux_session_create up to the list insertion: the first session starts the
\* task and its queue.
CreateBegin(c, x) ==
    /\ control[c].at = "idle" /\ life[x] = "none"
    /\ life' = [life EXCEPT ![x] = "alive"]
    /\ IF running
       THEN UNCHANGED <<running, queue, tx>>
       ELSE running' = TRUE /\ queue' = <<>> /\ tx' = Resting
    /\ control' = [control EXCEPT ![c] = [Idle EXCEPT !.at = "insert", !.x = {x}]]
    /\ UNCHANGED <<list, destroying, pending, inflight, slot, begun, told, mutex>>

CreateEnd(c, x) ==
    /\ control[c].at = "insert" /\ control[c].x = {x} /\ mutex = Nobody
    /\ list' = <<x>> \o list
    /\ control' = [control EXCEPT ![c] = Idle]
    /\ UNCHANGED <<sessionVars, queue, running, tx, mutex>>

\* flux_session_destroy reads the list head before it takes the global mutex.
DestroyBegin(c, x) ==
    /\ control[c].at = "idle" /\ InUse(x)
    /\ control' = [control EXCEPT ![c] =
          [Idle EXCEPT !.at = "unlink", !.x = {x}, !.head = {Head(list)}]]
    /\ UNCHANGED <<list, sessionVars, queue, running, tx, mutex>>

\* The list after the walk from the head that was read: a session found there
\* without a predecessor takes the current head with it, whatever that is now.
Position(x) == CHOOSE n \in DOMAIN list : list[n] = x
Unlinked(x, head) ==
    IF head = {x} THEN Tail(list)
    ELSE IF \E h \in head : Listed(h) /\ Listed(x) /\ Position(h) < Position(x)
         THEN SubSeq(list, 1, Position(x) - 1) \o SubSeq(list, Position(x) + 1, Len(list))
         ELSE list

\* What destroy reports as dropped: the slots still in use.  (The variant reports
\* every transfer the session was ever given.)
AllDropped(x) == begun[x]
Dropped(x) == {k \in Transfers : slot[x][k] # "free"}

\* Whether the session unlinked was the last.  (The variant is off by one.)
AlmostLast(l) == Len(l) <= 1
LastSession(l) == l = <<>>

\* Under the mutexes: the session is unlinked, its slots are emptied into the
\* local list of dropped sends and its queued packets are removed.
DestroyUnlink(c, x) ==
    /\ control[c].at = "unlink" /\ control[c].x = {x} /\ mutex = Nobody
    /\ destroying' = [destroying EXCEPT ![x] = TRUE]
    /\ list' = Unlinked(x, control[c].head)
    /\ queue' \in Without(queue, x)
    /\ slot' = [slot EXCEPT ![x] = [k \in Transfers |-> "free"]]
    /\ control' = [control EXCEPT ![c] =
          [@ EXCEPT !.at = "drop", !.last = LastSession(list'), !.drop = Dropped(x)]]
    /\ UNCHANGED <<life, pending, inflight, begun, told, running, tx, mutex>>

\* The dropped sends are reported with ESP_ERR_INVALID_STATE.
DestroyDrop(c, x) ==
    /\ control[c].at = "drop" /\ control[c].x = {x}
    /\ told' = [told EXCEPT ![x] =
          [k \in Transfers |-> IF k \in control[c].drop THEN @[k] + 1 ELSE @[k]]]
    /\ control' = [control EXCEPT ![c].at = "drain"]
    /\ UNCHANGED <<list, life, destroying, pending, inflight, slot, begun, queue, running, tx, mutex>>

\* Variants: the loop waits for one of the two counters only.
DrainReserved(c, x) ==
    /\ control[c].at = "drain" /\ control[c].x = {x} /\ pending[x] = 0
    /\ control' = [control EXCEPT ![c].at = IF control[c].last THEN "reap" ELSE "free"]
    /\ UNCHANGED <<list, sessionVars, queue, running, tx, mutex>>

DrainRunning(c, x) ==
    /\ control[c].at = "drain" /\ control[c].x = {x} /\ inflight[x] = 0
    /\ control' = [control EXCEPT ![c].at = IF control[c].last THEN "reap" ELSE "free"]
    /\ UNCHANGED <<list, sessionVars, queue, running, tx, mutex>>

\* No callback is reserved or running: the waiting loop ends.
DestroyDrain(c, x) ==
    /\ control[c].at = "drain" /\ control[c].x = {x}
    /\ pending[x] = 0 /\ inflight[x] = 0
    /\ control' = [control EXCEPT ![c].at = IF control[c].last THEN "reap" ELSE "free"]
    /\ UNCHANGED <<list, sessionVars, queue, running, tx, mutex>>

\* After the last session the task is deleted, wherever it is, then the queue.
DestroyReap(c, x) ==
    /\ control[c].at = "reap" /\ control[c].x = {x}
    /\ running' = FALSE /\ queue' = <<>> /\ tx' = Resting
    /\ control' = [control EXCEPT ![c].at = "free"]
    /\ UNCHANGED <<list, sessionVars, mutex>>

DestroyEnd(c, x) ==
    /\ control[c].at = "free" /\ control[c].x = {x}
    /\ life' = [life EXCEPT ![x] = "freed"]
    /\ control' = [control EXCEPT ![c] = Idle]
    /\ UNCHANGED <<list, destroying, pending, inflight, slot, begun, told, queue, running, tx, mutex>>

------------------------------------------------------------------------------
TaskStep ==
    \/ TakePacket \/ BeginPass \/ EndPass
    \/ \E e \in Events : BeginCallback(e) \/ EndCallback(e)
    \/ \E x \in Sessions : HandlePacket(x)

ControlStep(c) ==
    \E x \in Sessions :
        \/ CreateBegin(c, x) \/ CreateEnd(c, x)
        \/ DestroyBegin(c, x) \/ DestroyUnlink(c, x) \/ DestroyDrop(c, x)
        \/ DestroyDrain(c, x) \/ DestroyReap(c, x) \/ DestroyEnd(c, x)

\* The steps of a call under way, which its task takes without outside help.
CallStep(c) == control[c].at # "idle" /\ ControlStep(c)

Next ==
    \/ \E x \in Sessions : Feed(x) \/ \E k \in Transfers : StartSend(x, k)
    \/ TaskStep
    \/ \E c \in Controls : ControlStep(c)

Spec == Init /\ [][Next]_vars

\* The transmit task keeps running.  A control task waits for a mutex that the
\* transmit task takes over and over, and gets it: it runs at a higher priority
\* (the NimBLE host), and the transmit task sleeps on its queue in between.
FairSpec == Spec /\ WF_vars(TaskStep) /\ \A c \in Controls : SF_vars(CallStep(c))

------------------------------------------------------------------------------
(* Correctness *)

TaskStates ==
    [at : {"wait", "packet", "pass", "report", "callback"},
     x : SUBSET Sessions, todo : SUBSET Events, now : SUBSET Events]
Callers ==
    [at : {"idle", "insert", "unlink", "drop", "drain", "reap", "free"},
     x : SUBSET Sessions, head : SUBSET Sessions, last : BOOLEAN,
     drop : SUBSET Transfers]

\* Types of the list, the queue and the callers' locals; the queue stays within
\* its depth.
TypeOK ==
    /\ list \in Seq(Sessions) /\ queue \in Seq(Sessions)
    /\ Len(queue) <= QueueCap
    /\ life \in [Sessions -> {"none", "alive", "freed"}]
    /\ destroying \in [Sessions -> BOOLEAN]
    /\ pending \in [Sessions -> Nat] /\ inflight \in [Sessions -> Nat]
    /\ slot \in [Sessions -> [Transfers -> {"free", "active", "completed"}]]
    /\ begun \in [Sessions -> SUBSET Transfers]
    /\ told \in [Sessions -> [Transfers -> Nat]]
    /\ running \in BOOLEAN /\ mutex \in {Nobody, "tx"}
    /\ tx \in TaskStates /\ control \in [Controls -> Callers]

\* The transmit task never reaches a session whose memory is gone: neither
\* through the list, nor through an event it still has to report.
NoUseAfterFree ==
    /\ \A n \in DOMAIN list : life[list[n]] = "alive"
    /\ \A e \in tx.todo \cup tx.now : life[e.x] = "alive"

\* Once flux_session_destroy stops waiting, no callback of the session runs or
\* begins: the callback the task is in belongs to another session.
DestroyDrains ==
    \A c \in Controls : control[c].at \in {"reap", "free"} =>
        \A e \in tx.todo \cup tx.now : {e.x} # control[c].x

\* A session in use has a transmit task to serve it.
SessionsServed == list # <<>> => running

\* A transfer's completion is reported at most once, although the transmit task
\* and flux_session_destroy both report them.
ToldOnce == \A x \in Sessions, k \in Transfers : told[x][k] <= 1

\* After destroy every transfer of the session was reported: completed, failed
\* or dropped.
EverySendTold ==
    \A x \in Sessions : life[x] = "freed" => \A k \in begun[x] : told[x][k] = 1

\* flux_session_destroy returns: the callbacks it waits for do end.
DestroyReturns == \A c \in Controls : control[c].at = "unlink" ~> control[c].at = "idle"

\* flux_session_create returns.
CreateReturns == \A c \in Controls : control[c].at = "insert" ~> control[c].at = "idle"
==============================================================================
