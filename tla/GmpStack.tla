------------------------------- MODULE GmpStack -------------------------------
(***************************************************************************)
(* GMP links over Flux sessions over GATT sessions: the link table of      *)
(* esp_gmp.c, the hooks of esp_gmp_flux.c and the part of                  *)
(* flux_gatt_session.c that carries completions and ends a session.  A     *)
(* Flux session is reduced to what FluxTransfer and FluxSessions establish *)
(* about it: two send slots, each send reported at most once by the one    *)
(* transmit task, a destroy that waits for callbacks.                      *)
(*                                                                         *)
(* A link key is the address of a GATT session, which also names its Flux  *)
(* session; no address is used twice.  A step is a critical section of an  *)
(* entry's mutex, a call of the transport made between two of them, or the *)
(* unlocked code around them.                                              *)
(***************************************************************************)
EXTENDS GmpLink

CONSTANTS
    MaxLinks,    \* CONFIG_ESP_GMP_MAX_LINKS: entries of s_links[] and of s_hooks[]
    FluxSlots,   \* FLUX_MAX_CONCURRENT_SENDS
    Senders      \* tasks that call esp_gmp_send

ASSUME StackConstants ==
    /\ IsFiniteSet(Links)
    /\ MaxLinks \in Nat \ {0} /\ FluxSlots \in Nat \ {0}
    /\ Senders \cap {"poll", "tx"} = {}

Slots == 1 .. MaxLinks
Tasks == Senders \cup {"poll", "tx"}

VARIABLES
    entry,       \* s_links[]
    hook,        \* s_hooks[]: link, whether flux is set, closing
    life,        \* the GATT session: "none", "alive", "leaving" or "freed"
    sending,     \* the frames in the send slots of each Flux session
    due,         \* completions the transmit task has yet to call back
    mem,         \* a frame's memory: "none", "live", "freed", "twice"
    owner,       \* history: the link each frame was built for
    task,        \* the tasks that send: call under way and its locals
    control      \* the task that connects and disconnects

vars == <<entry, hook, life, sending, due, mem, owner, task, control>>

NoHook == [link |-> NoLink, flux |-> FALSE, closing |-> FALSE]
Resting == [at |-> "idle", link |-> NoLink, e |-> 1, f |-> 0, kind |-> "none"]
\* kind: "send" is a single frame, "drain" a poll, "done" a completion with the
\* drain that follows it.
Call(at, l, e, f, kind) == [at |-> at, link |-> l, e |-> e, f |-> f, kind |-> kind]
NoControl == [at |-> "idle", link |-> NoLink, h |-> {}]

Init ==
    /\ entry = [e \in Slots |-> Free]
    /\ hook = [h \in Slots |-> NoHook]
    /\ life = [l \in Links |-> "none"]
    /\ sending = [l \in Links |-> {}]
    /\ due = {}
    /\ mem = [f \in Frames |-> "none"]
    /\ owner = [f \in Frames |-> NoLink]
    /\ task = [t \in Tasks |-> Resting]
    /\ control = NoControl

------------------------------------------------------------------------------
(* Tables *)

\* link_find: the entries with this key (there is at most one).
Find(l) == {e \in Slots : entry[e].key = l}
Least(S) == CHOOSE x \in S : \A y \in S : x <= y

\* hook_find, hook_find_by_flux.
HookOf(l) == {h \in Slots : hook[h].link = l}
HookByFlux(l) == {h \in Slots : hook[h].link = l /\ hook[h].flux}

\* flux_session_send_idle, which is also can_send of the transport: a slot is free.
SendIdle(l) == Cardinality(sending[l]) < FluxSlots

\* hook_has_in_flight, so named: every slot is taken.
HasInFlight(h) == hook[h].flux /\ ~SendIdle(hook[h].link)

FreeFrames(S) == [f \in Frames |->
    IF f \in S THEN IF mem[f] = "live" THEN "freed" ELSE "twice" ELSE mem[f]]

SetTask(t, c) == task' = [task EXCEPT ![t] = c]
\* Where a call ends: a completion goes on to clean up its hook.
Ended(t) == IF task[t].kind = "done" THEN [task[t] EXCEPT !.at = "cleanup"] ELSE Resting

------------------------------------------------------------------------------
(* Sending *)

\* esp_gmp_send by a task of the application; and by the transmit task, when a
\* message of a session that can be pinned reaches esp_gmp_input through its hook
\* and is answered, by a handler (esp_gmp_reply) or automatically.  A message that
\* is not answered leaves no trace here.
Answers(l) ==
    /\ task["tx"].at = "idle" /\ due = {}
    /\ life[l] = "alive" /\ HookByFlux(l) # {}

\* The link is looked up without a lock and the frame is built.
Build(t, l, f) ==
    /\ \/ t \in Senders /\ task[t].at = "idle"
       \/ t = "tx" /\ Answers(l)
    /\ mem[f] = "none" /\ \A g \in 1 .. f - 1 : mem[g] # "none"
    /\ \E e \in Find(l) :
        /\ Open(entry[e])
        /\ SetTask(t, Call("submit", l, e, f, "send"))
    /\ mem' = [mem EXCEPT ![f] = "live"]
    /\ owner' = [owner EXCEPT ![f] = l]
    /\ UNCHANGED <<entry, hook, life, sending, due, control>>

\* Under the entry's mutex: the entry may have changed hands since it was found.
\* (The variant does not look again.)
NeverMoved(c) == FALSE
Moved(c) == entry[c.e].key # c.link

SubmitFrame(t) ==
    LET c == task[t]
        e == entry[c.e]
        canSend == SendIdle(e.key)
    IN  /\ c.at = "submit"
        /\ IF Moved(c) \/ ~Open(e)
           THEN /\ mem' = FreeFrames({c.f})
                /\ SetTask(t, Ended(t))
                /\ UNCHANGED entry
           ELSE /\ entry' = [entry EXCEPT ![c.e] = Submit(e, c.f, canSend)]
                /\ IF SubmitSends(e, canSend)
                   THEN /\ SetTask(t, [c EXCEPT !.at = "run", !.link = e.key])
                        /\ UNCHANGED mem
                   ELSE /\ SetTask(t, Ended(t))
                        /\ mem' = IF SubmitQueues(e, canSend) THEN mem
                                  ELSE FreeFrames({c.f})
        /\ UNCHANGED <<hook, life, sending, due, owner, control>>

\* tx_send_op_run: flux_session_send takes a free slot, or refuses because none is
\* left ("busy", ESP_ERR_INVALID_STATE) or for another reason.  Nothing keeps the
\* session from having been freed since the lock was released: then the call
\* may return anything.
Run(t) ==
    LET c == task[t]
        alive == life[c.link] \in {"alive", "leaving"}
    IN  /\ c.at = "run"
        /\ \/ /\ alive /\ SendIdle(c.link)
              /\ sending' = [sending EXCEPT ![c.link] = @ \cup {c.f}]
              /\ SetTask(t, IF c.kind = "send" THEN Ended(t) ELSE [c EXCEPT !.at = "again"])
           \/ /\ ~alive
              /\ SetTask(t, IF c.kind = "send" THEN Ended(t) ELSE [c EXCEPT !.at = "again"])
              /\ UNCHANGED sending
           \/ /\ alive => ~SendIdle(c.link)
              /\ SetTask(t, [c EXCEPT !.at = "busy"])
              /\ UNCHANGED sending
           \/ /\ SetTask(t, [c EXCEPT !.at = "failed"])
              /\ UNCHANGED sending
        /\ UNCHANGED <<entry, mem, hook, life, due, owner, control>>

\* link_finish_failed_send: the link is looked up anew.  (Between the look-up and
\* the lock the entry keeps its key: the frame is still noted in it.)
FinishFailed(t) ==
    LET c == task[t]
        busy == c.at = "busy"
    IN  /\ c.at \in {"busy", "failed"}
        /\ SetTask(t, IF c.kind = "send" THEN Ended(t) ELSE [c EXCEPT !.at = "again"])
        /\ IF Find(c.link) = {}
           THEN UNCHANGED <<entry, mem>>
           ELSE LET x == Least(Find(c.link))
                IN  /\ entry' = [entry EXCEPT ![x] = FailedSend(entry[x], c.f, busy)]
                    /\ mem' = IF Requeues(entry[x], busy) THEN mem ELSE FreeFrames({c.f})
        /\ UNCHANGED <<hook, life, sending, due, owner, control>>

\* One turn of link_drain_tx_queue on entry x, whose link is l, by a task that
\* holds its mutex; e is the entry as this critical section has left it so far.
Drain(t, x, l, e, kind) ==
    IF DrainSends(e, SendIdle(l))
    THEN /\ entry' = [entry EXCEPT ![x] = DrainTurn(e)]
         /\ SetTask(t, Call("run", l, x, Head(e.txq), kind))
    ELSE /\ entry' = [entry EXCEPT ![x] = e]
         /\ SetTask(t, Ended(t))

\* esp_gmp_poll at one entry; an entry with nothing to send is passed over.
Poll(x) ==
    /\ task["poll"].at = "idle" /\ entry[x].key # NoLink
    /\ DrainSends(entry[x], SendIdle(entry[x].key))
    /\ Drain("poll", x, entry[x].key, entry[x], "drain")
    /\ UNCHANGED <<mem, hook, life, sending, due, owner, control>>

\* The drain takes the mutex again after a send.
DrainAgain(t) ==
    LET c == task[t]
        e == entry[c.e]
    IN  /\ c.at = "again"
        /\ IF e.key # c.link \/ e.closing
           THEN SetTask(t, Ended(t)) /\ UNCHANGED entry
           ELSE Drain(t, c.e, c.link, e, c.kind)
        /\ UNCHANGED <<mem, hook, life, sending, due, owner, control>>

------------------------------------------------------------------------------
(* The transmit task: completions and received messages *)

\* A pass of the transmit task ends some transfers: their slots are free and
\* their callbacks reserved.
UnderWay == UNION {sending[l] : l \in Links}
Pass(S) ==
    /\ task["tx"].at = "idle" /\ due = {} /\ S # {} /\ S \subseteq UnderWay
    /\ due' = S
    /\ sending' = [l \in Links |-> sending[l] \ S]
    /\ UNCHANGED <<entry, mem, hook, life, owner, task, control>>

\* flux_on_complete_bridge: only a session still in the list can be pinned for the
\* call; the completion of any other is dropped here.  Pinned, the call finds the
\* session's hook (gmp_flux_gatt_session_complete, gmp_flux_tx_done_and_cleanup).
Bridge(f) ==
    /\ task["tx"].at = "idle" /\ f \in due
    /\ due' = due \ {f}
    /\ IF life[owner[f]] = "alive" /\ HookByFlux(owner[f]) # {}
       THEN SetTask("tx", Call("txdone", owner[f], 1, f, "done"))
       ELSE UNCHANGED task
    /\ UNCHANGED <<entry, mem, hook, life, sending, owner, control>>

\* Then esp_gmp_transport_tx_done releases the frame and drains the queue.
\* (The variant leaves its place in in_flight[] taken.)
ReleaseOnly(e, f) == e
Released(e, f) == Forget(e, f)

TxDone ==
    LET c == task["tx"]
        l == c.link
    IN  /\ c.at = "txdone"
        /\ IF Find(l) = {}
           THEN SetTask("tx", Ended("tx")) /\ UNCHANGED <<entry, mem>>
           ELSE LET x == Least(Find(l))
                    e == Released(entry[x], c.f)
                IN  /\ mem' = IF c.f \in entry[x].fly THEN FreeFrames({c.f}) ELSE mem
                    /\ IF Open(e)
                       THEN Drain("tx", x, l, e, "done")
                       ELSE /\ entry' = [entry EXCEPT ![x] = ClearIfIdle(e)]
                            /\ SetTask("tx", Ended("tx"))
        /\ UNCHANGED <<hook, life, sending, due, owner, control>>

\* The end of gmp_flux_tx_done_and_cleanup: the hook of a link that was closed
\* while its slots were full goes with the completion.  (The variant clears the
\* hook of any link.)
SpentAny(h) == ~HasInFlight(h)
Spent(h) == hook[h].closing /\ ~HasInFlight(h)

Cleanup ==
    /\ task["tx"].at = "cleanup"
    /\ hook' = [h \in Slots |->
          IF h \in HookByFlux(task["tx"].link) /\ Spent(h) THEN NoHook ELSE hook[h]]
    /\ SetTask("tx", Resting)
    /\ UNCHANGED <<entry, mem, life, sending, due, owner, control>>

------------------------------------------------------------------------------
(* Connecting and disconnecting *)

\* gatt_session_create, then esp_gmp_flux_get_gatt_callbacks with hook_alloc, then
\* the first part of esp_gmp_flux_link_register; without a hook the session is
\* given up.
Connect(l) ==
    /\ control.at = "idle" /\ life[l] = "none"
    /\ life' = [life EXCEPT ![l] = "alive"]
    /\ IF HookOf(NoLink) = {}
       THEN /\ control' = [at |-> "unlist", link |-> l, h |-> {}]
            /\ UNCHANGED hook
       ELSE LET h == Least(HookOf(NoLink))
            IN  /\ hook' = [hook EXCEPT ![h] = [NoHook EXCEPT !.link = l, !.flux = TRUE]]
                /\ control' = [at |-> "register", link |-> l, h |-> {h}]
    /\ UNCHANGED <<entry, mem, sending, due, owner, task>>

\* esp_gmp_link_register, under s_links_mutex; a full table leaves a hook without
\* a session behind.
LinkRegister ==
    LET l == control.link
    IN  /\ control.at = "register"
        /\ IF Find(NoLink) = {}
           THEN /\ hook' = [h \in Slots |->
                      IF h \in control.h THEN [hook[h] EXCEPT !.flux = FALSE] ELSE hook[h]]
                /\ control' = [control EXCEPT !.at = "unlist", !.h = {}]
                /\ UNCHANGED entry
           ELSE /\ entry' = [entry EXCEPT ![Least(Find(NoLink))] = Registered(l)]
                /\ control' = NoControl
                /\ UNCHANGED hook
        /\ UNCHANGED <<mem, life, sending, due, owner, task>>

\* esp_gmp_flux_link_unregister, first without any lock...
Disconnect(l) ==
    /\ control.at = "idle" /\ life[l] = "alive"
    /\ hook' = [h \in Slots |->
          IF h \in HookOf(l) THEN [hook[h] EXCEPT !.closing = TRUE] ELSE hook[h]]
    /\ control' = [at |-> "close", link |-> l, h |-> HookOf(l)]
    /\ UNCHANGED <<entry, mem, life, sending, due, owner, task>>

\* ... then esp_gmp_link_unregister, under both mutexes...  (The variant also
\* frees what is in flight.)
DroppedAll(e) == Queued(e) \cup e.fly
DroppedBy(e) == Queued(e)

LinkUnregister ==
    /\ control.at = "close"
    /\ IF Find(control.link) = {}
       THEN UNCHANGED <<entry, mem>>
       ELSE LET x == Least(Find(control.link))
            IN  /\ mem' = FreeFrames(DroppedBy(entry[x]))
                /\ entry' = [entry EXCEPT ![x] = Close(entry[x])]
    /\ control' = [control EXCEPT !.at = "unhook"]
    /\ UNCHANGED <<hook, life, sending, due, owner, task>>

\* ... then the hook it found at first, unless a completion is still expected.
Unhook ==
    /\ control.at = "unhook"
    /\ hook' = [h \in Slots |->
          IF h \in control.h /\ ~HasInFlight(h) THEN NoHook ELSE hook[h]]
    /\ control' = [control EXCEPT !.at = "unlist", !.h = {}]
    /\ UNCHANGED <<entry, mem, life, sending, due, owner, task>>

\* gatt_session_destroy: the session leaves the list; no callback is pinned for
\* it any more...
Unlist ==
    /\ control.at = "unlist"
    /\ life' = [life EXCEPT ![control.link] = "leaving"]
    /\ control' = [control EXCEPT !.at = "destroy"]
    /\ UNCHANGED <<entry, mem, hook, sending, due, owner, task>>

\* ... those under way are waited for, and flux_session_destroy drops what is in
\* its slots or still due.  It reports them to the bridge, which does not find
\* the session.
Destroy ==
    /\ control.at = "destroy"
    /\ task["tx"].at = "idle" \/ task["tx"].link # control.link
    /\ sending' = [sending EXCEPT ![control.link] = {}]
    /\ due' = {f \in due : owner[f] # control.link}
    /\ life' = [life EXCEPT ![control.link] = "freed"]
    /\ control' = NoControl
    /\ UNCHANGED <<entry, mem, hook, owner, task>>

------------------------------------------------------------------------------
\* What a task does in the middle of a call, and the drains it starts.
TaskStep(t) == SubmitFrame(t) \/ Run(t) \/ FinishFailed(t) \/ DrainAgain(t)
TxStep == TaskStep("tx") \/ (\E f \in Frames : Bridge(f)) \/ TxDone
          \/ Cleanup
PollStep == TaskStep("poll") \/ \E x \in Slots : Poll(x)
ControlStep == LinkRegister \/ LinkUnregister \/ Unhook \/ Unlist \/ Destroy

Next ==
    \/ \E t \in Tasks, l \in Links, f \in Frames : Build(t, l, f)
    \/ \E t \in Senders : TaskStep(t)
    \/ PollStep \/ TxStep \/ ControlStep
    \/ \E S \in SUBSET UnderWay : Pass(S)
    \/ \E l \in Links : Connect(l) \/ Disconnect(l)

Spec == Init /\ [][Next]_vars

\* Tasks run on, esp_gmp_poll is called again and again (the main loops and the
\* waiting loops of the profiles do), and Flux transfers end, by success or by
\* their deadlines, although passes come and go.
FairSpec ==
    /\ Spec
    /\ \A t \in Senders : WF_vars(TaskStep(t))
    /\ WF_vars(PollStep) /\ WF_vars(TxStep) /\ WF_vars(ControlStep)
    /\ SF_vars(Pass(UnderWay))

------------------------------------------------------------------------------
(* Correctness *)

TypeOK ==
    /\ entry \in [Slots -> EntryType]
    /\ hook \in [Slots -> [link : Links \cup {NoLink}, flux : BOOLEAN, closing : BOOLEAN]]
    /\ life \in [Links -> {"none", "alive", "leaving", "freed"}]
    /\ sending \in [Links -> SUBSET Frames] /\ due \subseteq Frames
    /\ mem \in [Frames -> {"none", "live", "freed", "twice"}]
    /\ owner \in [Frames -> Links \cup {NoLink}]
    /\ task \in [Tasks -> [at : {"idle", "submit", "run", "busy", "failed", "again",
                                 "txdone", "cleanup"},
                           link : Links \cup {NoLink}, e : Slots, f : Frames \cup {0},
                           kind : {"none", "send", "drain", "done"}]]
    /\ control \in [at : {"idle", "register", "close", "unhook", "unlist", "destroy"},
                    link : Links \cup {NoLink}, h : SUBSET Slots]
    /\ \A e \in Slots : Len(entry[e].txq) <= TxDepth /\ Cardinality(entry[e].fly) <= TxDepth

\* No frame is freed while Flux reads from it, or while a task is about to hand it
\* over; and none is freed twice.
Held(f) == \/ \E l \in Links : f \in sending[l]
           \/ f \in due
           \/ \E t \in Tasks : task[t].f = f /\ task[t].at \in
                    {"submit", "run", "busy", "failed", "txdone"}
FramesOutliveUse ==
    \A f \in Frames : mem[f] # "twice" /\ (Held(f) => mem[f] = "live")

\* A frame only ever waits in its own link's queue and only goes to its own
\* link's session, although entries are found without a lock and given to new
\* links.
FramesKeepTheirLink ==
    /\ \A e \in Slots : \A f \in Queued(entry[e]) \cup entry[e].fly : owner[f] = entry[e].key
    /\ \A l \in Links : \A f \in sending[l] : owner[f] = l

\* GMP loses no memory: a frame not yet freed is queued, noted in flight, or in the
\* hands of the task that built it.
FramesAccounted ==
    \A f \in Frames : mem[f] = "live" =>
        \/ \E e \in Slots : f \in Queued(entry[e]) \cup entry[e].fly
        \/ \E t \in Tasks : task[t].f = f /\ task[t].at = "submit"

\* A closing entry always has a frame in flight to wait for; without one nothing
\* would ever clear it.
ClosingWaits == \A e \in Slots : entry[e].closing => entry[e].fly # {}

\* An open link is reachable from its Flux session until its disconnection begins:
\* messages and completions find it through a hook.
OpenLinksHooked ==
    \A e \in Slots : Open(entry[e]) =>
        \/ HookByFlux(entry[e].key) # {}
        \/ control.at = "close" /\ control.link = entry[e].key

\* No frame is left in a queue, whatever the order of polls, completions and failed
\* sends: once the application stops sending, every frame of a living session has
\* been through its transfer and is freed.
Unfinished == {f \in Frames : mem[f] = "live" /\ \E l \in Links : owner[f] = l /\ life[l] = "alive"}
EveryFrameEnds == <>[](Unfinished = {})

\* "In-flight frames are released later via esp_gmp_transport_tx_done or a failed
\* send path; the link slot may remain until those completions arrive" (esp_gmp.h):
\* once the session is gone and no task is busy with the link, so is its entry.
LinkSlotReturned ==
    \A l \in Links : (life[l] = "freed" /\ \A t \in Tasks : task[t].link # l) =>
        Find(l) = {}
==============================================================================
