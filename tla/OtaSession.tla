------------------------------ MODULE OtaSession -------------------------------
(***************************************************************************)
(* One OTA session of the device (ota_sess_t of esp_gmp_ota_device.c): the *)
(* upload it receives, the chunks on their way to flash and how each       *)
(* request is decided.  The operators stand for the code that runs with    *)
(* the session's lock held; the tasks that run it are Ota's.               *)
(*                                                                         *)
(* Sizes and offsets count chunks; a chunk is its offset `c` and the       *)
(* upload `u` its bytes come from, so a digest is the sequence of chunks   *)
(* it was computed over.  Statuses: "ok", "busy", and "refused" for every  *)
(* other one, which the host treats alike.                                 *)
(***************************************************************************)
EXTENDS Integers, Sequences, FiniteSets

CONSTANTS
    Chunks,      \* image size
    RingSlots,   \* items the ring buffer holds
    HoldSlots    \* OTA_DATA_HOLD_SLOTS

ASSUME SessionConstants ==
    /\ Chunks \in Nat \ {0} /\ RingSlots \in Nat \ {0} /\ HoldSlots \in Nat

Offsets == 0 .. Chunks - 1
Image(u) == [i \in 1 .. Chunks |-> [c |-> i - 1, u |-> u]]

NoResult == [valid |-> FALSE, status |-> "ok", sid |-> 0, sha |-> <<>>]

\* sess_get of a link that has no session: every field is zero.  bytes_received
\* and next_data_offset are `received`; bytes_written and partition_bytes_written
\* are `written`; rb and its contents are `rb` and `ring`.
Unused ==
    [used |-> FALSE, closing |-> FALSE, link |-> 0, state |-> "idle", sid |-> 0,
     received |-> 0, written |-> 0, queued |-> 0, hash |-> <<>>, handle |-> FALSE,
     rb |-> FALSE, ring |-> <<>>, worker |-> FALSE, abort |-> FALSE,
     finish |-> FALSE, finSeq |-> 0, finSha |-> <<>>, result |-> NoResult, holds |-> {}]
Fresh(l) == [Unused EXCEPT !.used = TRUE, !.link = l]

\* sess_clear_state, sess_abort_ota, ota_worker_finish.
ClearState(s) ==
    [s EXCEPT !.holds = {}, !.state = "idle", !.sid = 0, !.received = 0, !.written = 0,
              !.queued = 0, !.abort = FALSE, !.finish = FALSE]
AbortOta(s) == [s EXCEPT !.handle = FALSE]
WorkerFinish(s) ==
    [s EXCEPT !.rb = FALSE, !.ring = <<>>, !.worker = FALSE, !.queued = 0, !.finish = FALSE]

\* sess_abort_async: a running worker does the rest.
AbortAsync(s) ==
    LET t == [s EXCEPT !.holds = {}, !.abort = TRUE]
    IN  IF s.worker THEN t ELSE ClearState(AbortOta(WorkerFinish(t)))

------------------------------------------------------------------------------
(* handle_control *)

StartRefused(s) == s.closing \/ s.state # "idle" \/ s.worker \/ s.rb
Opened(s, sid) ==
    [s EXCEPT !.holds = {}, !.handle = TRUE, !.rb = TRUE, !.ring = <<>>, !.abort = FALSE,
              !.finish = FALSE, !.result.valid = FALSE, !.written = 0, !.queued = 0,
              !.sid = sid, !.state = "receiving", !.received = 0, !.hash = <<>>,
              !.worker = TRUE]

\* FINISH: answered from the last result or at once, or taken on until the worker
\* has drained the ring.
Known(s, sid, sha) == s.result.valid /\ s.result.sid = sid /\ s.result.sha = sha
Complete(s, sid) == s.state = "receiving" /\ sid = s.sid /\ s.received = Chunks
FinishStatus(s, sid, sha) ==
    IF Known(s, sid, sha) THEN s.result.status
    ELSE IF Complete(s, sid) /\ sha = s.finSha THEN "busy" ELSE "refused"
TakesFinish(s, sid, sha) == ~Known(s, sid, sha) /\ Complete(s, sid) /\ ~s.finish
FinishPending(s, seq, sha) == [s EXCEPT !.finish = TRUE, !.finSeq = seq, !.finSha = sha]

\* sess_set_finish_result.
SetResult(s, status) ==
    [s EXCEPT !.result = [valid |-> TRUE, status |-> status, sid |-> s.sid, sha |-> s.finSha]]

\* ABORT of an open session; session 0 stands for whichever is open.
Aborts(s, sid) == s.state = "receiving" /\ sid \in {0, s.sid}
AbortStatus(s, sid) == IF s.state = "idle" \/ Aborts(s, sid) THEN "ok" ELSE "refused"

------------------------------------------------------------------------------
(* DATA: ota_rx_process_msg.  An outcome is the session and the answers. *)

Outcome(s, answers) == [s |-> s, answers |-> answers]
Answer(m, status) == {[seq |-> m.seq, status |-> status]}

DataRefused(s, m) ==
    s.closing \/ s.state # "receiving" \/ m.sid # s.sid \/ ~s.handle \/ s.abort

\* apply_data_chunk with ota_enqueue_data_chunk.  (The variant is off by one.)
RingOverfull(s) == Len(s.ring) > RingSlots
RingFull(s) == Len(s.ring) >= RingSlots
Applicable(s) == s.state = "receiving" /\ s.handle /\ s.worker /\ ~s.abort /\ ~s.finish
ApplyChunk(s, m) ==
    IF ~Applicable(s) THEN Outcome(s, Answer(m, "refused"))
    ELSE IF RingFull(s) THEN Outcome(s, Answer(m, "busy"))
    ELSE Outcome([s EXCEPT !.ring = Append(@, [c |-> m.c, u |-> m.u]),
                           !.queued = @ + 1, !.received = @ + 1],
                 Answer(m, "ok"))

\* data_holds_drain: held chunks whose turn has come are applied one after the
\* other; when that fails the chunk is dropped with its answer, and the draining
\* stops.  Only the first n of them change anything but `holds`, where n is how
\* many follow on what was received and find room in the ring.
HeldAt(s, c) == {h \in s.holds : h.c = c}
TheHeld(s, c) == CHOOSE h \in s.holds : h.c = c
Drained(r, n) ==
    LET first == r.s.received
        run == first .. first + n - 1
    IN  Outcome([r.s EXCEPT !.holds = {h \in @ : h.c \notin run},
                            !.ring = @ \o [i \in 1 .. n |-> [c |-> first + i - 1,
                                                u |-> TheHeld(r.s, first + i - 1).u]],
                            !.queued = @ + n, !.received = @ + n],
                r.answers \cup {[seq |-> TheHeld(r.s, c).seq, status |-> "ok"] : c \in run})
DrainsOn(r, n) ==
    LET s == Drained(r, n).s
    IN  HeldAt(s, s.received) # {} /\ Applicable(s) /\ ~RingFull(s)
DrainHolds(r) ==
    LET n == CHOOSE k \in 0 .. HoldSlots :
                 ~DrainsOn(r, k) /\ \A i \in 0 .. k - 1 : DrainsOn(r, i)
        s == Drained(r, n).s
    IN  IF HeldAt(s, s.received) = {}
        THEN Drained(r, n)
        ELSE Outcome([s EXCEPT !.holds = @ \ HeldAt(s, s.received)],
                     Drained(r, n).answers \cup
                         ApplyChunk(s, TheHeld(s, s.received)).answers)

\* data_hold_store: a chunk ahead of its turn waits unanswered.  (The variant
\* answers at once.)
HoldAndAnswer(s, m) ==
    IF Cardinality(s.holds) < HoldSlots
    THEN Outcome([s EXCEPT !.holds = @ \cup {m}], Answer(m, "ok"))
    ELSE Outcome(s, Answer(m, "busy"))
HoldChunk(s, m) ==
    IF \E h \in s.holds : h.c = m.c THEN Outcome(s, Answer(m, "ok"))
    ELSE IF Cardinality(s.holds) < HoldSlots
    THEN Outcome([s EXCEPT !.holds = @ \cup {m}], {})
    ELSE Outcome(s, Answer(m, "busy"))

\* (The variant takes chunks as they come.)
NeverEarly(s, m) == FALSE
Early(s, m) == m.c > s.received
ReceiveChunk(s, m) ==
    IF DataRefused(s, m) THEN Outcome(s, Answer(m, "refused"))
    ELSE IF Early(s, m) THEN HoldChunk(s, m)
    ELSE IF m.c < s.received THEN Outcome(s, Answer(m, "ok"))
    ELSE LET a == ApplyChunk(s, m)
         IN  IF a.s = s THEN a ELSE DrainHolds(a)

------------------------------------------------------------------------------
(* The worker *)

\* ota_worker_drain_one, with the chunk taken from the ring; ota_write_at_image_offset
\* only writes the next one.
Writable(s, chunk) == s.handle /\ ~s.abort /\ chunk.c = s.written
Written(s, chunk) ==
    [s EXCEPT !.hash = Append(@, chunk), !.written = @ + 1, !.queued = @ - 1]

\* ota_worker_try_finish: when its turn has come and what is then expected.  Its
\* middle section takes the handle and closes the session to an ABORT.
FinishDue(s) == s.finish /\ s.queued = 0
LengthsAgree(s) == s.written = s.received /\ s.received = Chunks
Applying(s) == [s EXCEPT !.handle = FALSE, !.finish = FALSE, !.state = "applying"]

\* The last section of ota_worker_task.  (The variant leaves the OTA handle open.)
WorkerLeaves(s, ok) == IF ok THEN WorkerFinish(s) ELSE ClearState(WorkerFinish(s))
WorkerEnds(s, ok) ==
    IF ok THEN WorkerFinish(s) ELSE ClearState(WorkerFinish(AbortOta(s)))

\* The last section of esp_gmp_ota_on_link_down.
TornDown(s) ==
    [ClearState(AbortOta(WorkerFinish(s)))
        EXCEPT !.result.valid = FALSE, !.used = FALSE, !.closing = FALSE, !.link = 0]
==============================================================================
