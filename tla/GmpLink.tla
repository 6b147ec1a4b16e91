------------------------------- MODULE GmpLink --------------------------------
(***************************************************************************)
(* One entry of the GMP link table (link_entry_t of esp_gmp.c): the link   *)
(* it belongs to, its bounded transmit queue and the frames handed to the  *)
(* transport.  Frames are named by numbers; `fly` is the set of frames     *)
(* noted in in_flight[].  The operators stand for the functions that run   *)
(* with the entry's mutex held; the tasks that call them are GmpStack's.   *)
(***************************************************************************)
EXTENDS Integers, Sequences, FiniteSets

CONSTANTS
    Links,       \* link keys: the addresses of GATT sessions
    TxDepth,     \* CONFIG_ESP_GMP_TX_QUEUE_DEPTH: length of txq[] and of in_flight[]
    MaxFrames    \* bound: frames ever built, numbered from 1

ASSUME LinkConstants ==
    /\ TxDepth \in Nat \ {0} /\ MaxFrames \in Nat
    /\ "none" \notin Links

Frames == 1 .. MaxFrames
NoLink == "none"

\* A link's ops are NULL exactly when the entry is free or closing.
Free == [key |-> NoLink, closing |-> FALSE, txq |-> <<>>, fly |-> {}]
Registered(l) == [Free EXCEPT !.key = l]
Open(e) == e.key # NoLink /\ ~e.closing
EntryType == [key : Links \cup {NoLink}, closing : BOOLEAN,
              txq : Seq(Frames), fly : SUBSET Frames]

Queued(e) == {e.txq[n] : n \in DOMAIN e.txq}

\* in_flight_track finds a NULL place.  (The variant is off by one.)
CanTrackOneMore(e) == Cardinality(e.fly) <= TxDepth
CanTrack(e) == Cardinality(e.fly) < TxDepth
Track(e, f) == [e EXCEPT !.fly = @ \cup {f}]
Forget(e, f) == [e EXCEPT !.fly = @ \ {f}]

\* link_queue_frame_locked; a frame that finds the queue full is freed.
HasRoom(e) == Len(e.txq) < TxDepth
Enqueue(e, f) == IF HasRoom(e) THEN [e EXCEPT !.txq = Append(@, f)] ELSE e
Dequeue(e) == [e EXCEPT !.txq = Tail(@)]

\* link_clear_if_idle_locked: a closing link with nothing in flight gives its
\* entry back.
ClearIfIdle(e) == IF e.closing /\ e.fly = {} THEN Free ELSE e

\* link_tx_submit_locked for an open link: the frame is the caller's to send when
\* the transport can take it and it can be tracked; otherwise it is queued.
SubmitSends(e, canSend) == Open(e) /\ canSend /\ CanTrack(e)
SubmitQueues(e, canSend) == Open(e) /\ ~SubmitSends(e, canSend) /\ HasRoom(e)
Submit(e, f, canSend) ==
    CASE SubmitSends(e, canSend)  -> Track(e, f)
      [] SubmitQueues(e, canSend) -> Enqueue(e, f)
      [] OTHER                    -> e

\* One turn of link_drain_tx_queue: the head of the queue becomes the caller's.
DrainSends(e, canSend) == Open(e) /\ e.txq # <<>> /\ canSend /\ CanTrack(e)
DrainTurn(e) == Track(Dequeue(e), Head(e.txq))

\* link_finish_failed_send: a transport that was merely busy gets the frame
\* again, behind the others; any other error ends it.  (Variants: the frame is kept
\* although the queue is full; a closing link is not cleared.)
RequeuesAlways(e, busy) == busy /\ Open(e)
Requeues(e, busy) == busy /\ Open(e) /\ HasRoom(e)
FailedSendLingers(e, f, busy) ==
    IF busy /\ Open(e) THEN Enqueue(Forget(e, f), f) ELSE Forget(e, f)
FailedSend(e, f, busy) ==
    LET rest == Forget(e, f)
    IN  IF busy /\ Open(e) THEN Enqueue(rest, f) ELSE ClearIfIdle(rest)

\* The critical section of esp_gmp_link_unregister: what is queued is dropped,
\* what is in flight waits for its completion.
Close(e) == ClearIfIdle([e EXCEPT !.txq = <<>>, !.closing = TRUE])
==============================================================================
