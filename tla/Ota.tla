---------------------------------- MODULE Ota ----------------------------------
(***************************************************************************)
(* A firmware upload: the host's upload task (esp_gmp_ota_host.c), and on  *)
(* the device (esp_gmp_ota_device.c) the GMP input context, the receive    *)
(* task, the flash worker and the teardown when a link goes down.          *)
(*                                                                         *)
(* The device has one session entry (CONFIG_ESP_GMP_MAX_LINKS = 1) and     *)
(* links come one after the other.  GMP carries requests and answers in    *)
(* any order and never repeats one; one that is lost is one that is never  *)
(* taken, which no action here is obliged to do.                           *)
(***************************************************************************)
EXTENDS OtaSession

CONSTANTS
    QueueDepth,  \* CONFIG_ESP_GMP_OTA_RX_QUEUE_DEPTH
    PipeDepth,   \* ESP_GMP_OTA_HOST_PIPE_DEPTH
    BusyRetries, \* GMP_DATA_BUSY_MAX_RETRIES
    MaxUploads,  \* bound: uploads the host attempts
    MaxLinks,    \* bound: links, one after the other
    MaxStale     \* bound: requests of the last upload on their way, or in hand, at the next

ASSUME OtaConstants ==
    /\ QueueDepth \in Nat \ {0} /\ PipeDepth \in Nat \ {0} /\ BusyRetries \in Nat
    /\ MaxUploads \in Nat /\ MaxLinks \in Nat /\ MaxStale \in Nat

VARIABLES
    conn,        \* the link, and whether it is "up", "lost" to the host, "closing" or gone
    req,         \* requests on their way to the device
    rsp,         \* answers on their way to the host
    host,        \* the host's upload task
    input,       \* the control request the session was looked up for; it stays in req
    sess,        \* s_sess[0]
    rxq,         \* s_rx_queue
    rx,          \* the receive task: the message it works on
    worker,      \* the worker task: where it is and its locals
    down,        \* esp_gmp_ota_on_link_down
    flash,       \* the update partition since esp_ota_begin
    nextSid,     \* s_next_sid
    hist         \* history: aborted, booted, completed uploads; FINISH answers

vars == <<conn, req, rsp, host, input, sess, rxq, rx, worker, down, flash, nextSid, hist>>
netVars == <<conn, req, rsp>>

NoHost == [at |-> "idle", u |-> 0, sid |-> 0, seq |-> 0, next |-> 0, pipe |-> {}, acked |-> {}]
NoMsg == [kind |-> "none"]
NoDown == [at |-> "idle", event |-> "none"]
Resting == [at |-> "none", got |-> NoMsg, seq |-> 0, sha |-> <<>>]

Init ==
    /\ conn = [link |-> 0, at |-> "none"]
    /\ req = {} /\ rsp = {}
    /\ host = NoHost /\ input = NoMsg
    /\ sess = Unused
    /\ rxq = <<>> /\ rx = NoMsg
    /\ worker = Resting
    /\ down = NoDown
    /\ flash = <<>>
    /\ nextSid = 1
    /\ hist = [aborted |-> {}, booted |-> {}, completed |-> {}, owed |-> {}, twice |-> FALSE]

------------------------------------------------------------------------------
(* Messages *)

Sent(m) == req' = req \cup {m}
\* An answer carries the session id when it accepts a START; it only reaches the
\* host of a link that is still up.
Answers(as, sid) ==
    LET out == {[seq |-> a.seq, status |-> a.status, sid |-> sid] : a \in as}
    IN  rsp' = IF conn.at = "up" THEN rsp \cup out ELSE rsp
AnswersOne(seq, status) == Answers({[seq |-> seq, status |-> status]}, 0)

\* sess_find.
Found(l) == sess.used /\ sess.link = l

------------------------------------------------------------------------------
(* The host: esp_gmp_ota_host_upload_stream *)

HostStart ==
    /\ host.at = "idle" /\ host.u < MaxUploads /\ conn.at = "up"
    /\ Cardinality(req) <= MaxStale
    /\ host' = [NoHost EXCEPT !.at = "start", !.u = host.u + 1, !.seq = host.seq + 1]
    /\ Sent([kind |-> "start", seq |-> host.seq + 1])
    /\ UNCHANGED <<conn, rsp, input, sess, rxq, rx, worker, down, flash, nextSid, hist>>

\* An answer counts for the request with its sequence number.  (The variant takes
\* any.)
AnyAnswer(m, seq) == TRUE
Matches(m, seq) == m.seq = seq

HostStarted ==
    /\ host.at = "start"
    /\ \E m \in rsp :
        /\ Matches(m, host.seq) /\ m.status = "ok"
        /\ host' = [host EXCEPT !.at = "data", !.sid = m.sid]
        /\ rsp' = rsp \ {m}
    /\ UNCHANGED <<conn, req, input, sess, rxq, rx, worker, down, flash, nextSid, hist>>

\* gmp_send_data_pipelined: while chunks remain and the pipe has room.
DataMsg(seq, c) == [kind |-> "data", link |-> conn.link, seq |-> seq, sid |-> host.sid,
                    c |-> c, u |-> host.u]
HostSend ==
    /\ host.at = "data" /\ host.next < Chunks /\ Cardinality(host.pipe) < PipeDepth
    /\ conn.at = "up"
    /\ host' = [host EXCEPT !.seq = @ + 1, !.next = @ + 1,
                            !.pipe = @ \cup {[seq |-> host.seq + 1, c |-> host.next, retries |-> 0]}]
    /\ Sent(DataMsg(host.seq + 1, host.next))
    /\ UNCHANGED <<conn, rsp, input, sess, rxq, rx, worker, down, flash, nextSid, hist>>

\* pipe_on_response and pipe_wait_one: an accepted chunk leaves the pipe, a busy
\* answer sends it again under the same sequence number.
HostAcked ==
    /\ host.at = "data" /\ (host.next = Chunks \/ Cardinality(host.pipe) = PipeDepth)
    /\ \E m \in rsp, p \in host.pipe :
        /\ Matches(m, p.seq)
        /\ rsp' = rsp \ {m}
        /\ \/ /\ m.status = "ok"
              /\ host' = [host EXCEPT !.pipe = @ \ {p}, !.acked = @ \cup {p.c}]
              /\ UNCHANGED req
           \/ /\ m.status = "busy" /\ p.retries < BusyRetries /\ conn.at = "up"
              /\ host' = [host EXCEPT !.pipe = (@ \ {p}) \cup {[p EXCEPT !.retries = @ + 1]}]
              /\ Sent(DataMsg(p.seq, p.c))
    /\ UNCHANGED <<conn, input, sess, rxq, rx, worker, down, flash, nextSid, hist>>

HostFinish ==
    /\ host.at = "data" /\ host.next = Chunks /\ host.pipe = {} /\ conn.at = "up"
    /\ host' = [host EXCEPT !.at = "finish", !.seq = @ + 1]
    /\ Sent([kind |-> "finish", seq |-> host.seq + 1, sid |-> host.sid, sha |-> Image(host.u)])
    /\ UNCHANGED <<conn, rsp, input, sess, rxq, rx, worker, down, flash, nextSid, hist>>

HostCompleted ==
    /\ host.at = "finish"
    /\ \E m \in rsp :
        /\ Matches(m, host.seq) /\ m.status = "ok"
        /\ rsp' = rsp \ {m}
    /\ host' = [NoHost EXCEPT !.u = host.u, !.seq = host.seq]
    /\ hist' = [hist EXCEPT !.completed = @ \cup {host.sid}]
    /\ UNCHANGED <<conn, req, input, sess, rxq, rx, worker, down, flash, nextSid>>

\* Whatever goes wrong (a refusal, a timeout, a cancel, a link event, a failed read
\* or send) ends the upload: silently while START is not answered, otherwise by
\* upload_fail_cleanup with its attempt at an ABORT.
HostFails ==
    /\ host.at # "idle"
    /\ host' = [NoHost EXCEPT !.u = host.u,
                              !.seq = IF host.at = "start" THEN host.seq ELSE host.seq + 1]
    /\ IF host.at = "start" \/ conn.at # "up"
       THEN UNCHANGED req
       ELSE Sent([kind |-> "abort", seq |-> host.seq + 1, sid |-> host.sid])
    /\ UNCHANGED <<conn, rsp, input, sess, rxq, rx, worker, down, flash, nextSid, hist>>

------------------------------------------------------------------------------
(* The device: the GMP input context *)

\* A request is taken up by the task that reports the errors of the link, one at a
\* time.
Arrives(m) ==
    /\ m \in req /\ input = NoMsg
    /\ conn.at # "none" /\ down.event # "error"

\* esp_gmp_ota_on_packet for a control request finds the session without the lock
\* (sess_get); a request of another link than the session's finds none and is
\* ignored.
Current == IF sess.used THEN sess ELSE Fresh(conn.link)
\* Bound: sess_get clears the entry it hands out.  A START that comes after its
\* link's teardown (below) leaves a worker on an unused entry, and what that worker
\* does with the entry after the next sess_get is not modelled.
LeftToWorker == ~sess.used /\ sess.worker

RequestTaken(m) ==
    /\ Arrives(m) /\ m.kind # "data"
    /\ sess.used => sess.link = conn.link
    /\ ~LeftToWorker
    /\ sess' = Current
    /\ input' = m
    /\ UNCHANGED <<conn, req, rsp, host, rxq, rx, worker, down, flash, nextSid, hist>>

\* ... and then locks that entry for handle_control, although its link may have been
\* torn down in between.  ERASE, which this host never sends, only clears what an
\* idle session has cleared already.
Control(m, kind) ==
    /\ input = m /\ m.kind = kind
    /\ input' = NoMsg /\ req' = req \ {m}

\* esp_ota_begin erases as it goes; it, the ring buffer or the task may fail.
DeviceStart(m) ==
    /\ Control(m, "start")
    /\ \/ /\ ~StartRefused(sess)
          /\ sess' = Opened(sess, nextSid)
          /\ worker' = [Resting EXCEPT !.at = "loop"]
          /\ flash' = <<>>
          /\ nextSid' = nextSid + 1
          /\ Answers({[seq |-> m.seq, status |-> "ok"]}, nextSid)
       \/ /\ sess' = IF StartRefused(sess) THEN sess ELSE [sess EXCEPT !.holds = {}]
          /\ AnswersOne(m.seq, "refused")
          /\ UNCHANGED <<worker, flash, nextSid>>
    /\ UNCHANGED <<conn, host, rxq, rx, down, hist>>

DeviceFinish(m) ==
    /\ Control(m, "finish")
    /\ IF ~sess.closing /\ TakesFinish(sess, m.sid, m.sha)
       THEN /\ sess' = FinishPending(sess, m.seq, m.sha)
            /\ hist' = [hist EXCEPT !.owed = @ \cup {m.seq}]
            /\ UNCHANGED rsp
       ELSE /\ AnswersOne(m.seq, IF sess.closing THEN "refused"
                                 ELSE FinishStatus(sess, m.sid, m.sha))
            /\ UNCHANGED <<sess, hist>>
    /\ UNCHANGED <<conn, host, rxq, rx, worker, down, flash, nextSid>>

DeviceAbort(m) ==
    LET aborts == ~sess.closing /\ Aborts(sess, m.sid)
    IN  /\ Control(m, "abort")
        /\ sess' = IF aborts THEN AbortAsync(sess) ELSE sess
        /\ hist' = IF aborts THEN [hist EXCEPT !.aborted = @ \cup {sess.sid}] ELSE hist
        /\ AnswersOne(m.seq, IF sess.closing THEN "refused" ELSE AbortStatus(sess, m.sid))
        /\ UNCHANGED <<conn, host, rxq, rx, worker, down, flash, nextSid>>

\* A DATA request only looks at the session before it is queued for the receive
\* task.
DeviceData(m) ==
    /\ Arrives(m) /\ m.kind = "data" /\ req' = req \ {m}
    /\ IF Found(conn.link) /\ (sess.closing \/ sess.abort) /\ sess.state # "idle"
       THEN AnswersOne(m.seq, "refused") /\ UNCHANGED rxq
       ELSE IF Len(rxq) < QueueDepth
       THEN rxq' = Append(rxq, m) /\ UNCHANGED rsp
       ELSE AnswersOne(m.seq, "busy") /\ UNCHANGED rxq
    /\ UNCHANGED <<conn, host, input, sess, rx, worker, down, flash, nextSid, hist>>

------------------------------------------------------------------------------
(* The receive task: ota_rx_process_msg *)

\* It finds the session without the lock...
RxTake ==
    /\ rx = NoMsg /\ rxq # <<>>
    /\ rxq' = Tail(rxq)
    /\ rx' = IF Found(Head(rxq).link) THEN Head(rxq) ELSE NoMsg
    /\ IF Found(Head(rxq).link) \/ Head(rxq).link # conn.link
       THEN UNCHANGED rsp
       ELSE AnswersOne(Head(rxq).seq, "refused")
    /\ UNCHANGED <<conn, req, host, input, sess, worker, down, flash, nextSid, hist>>

\* ... and works on that entry under its lock, whoever uses it by then.
RxProcess ==
    /\ rx # NoMsg
    /\ LET r == ReceiveChunk(sess, rx)
       IN  /\ sess' = r.s
           /\ IF rx.link = conn.link THEN Answers(r.answers, 0) ELSE UNCHANGED rsp
    /\ rx' = NoMsg
    /\ UNCHANGED <<conn, req, host, input, rxq, worker, down, flash, nextSid, hist>>

------------------------------------------------------------------------------
(* The worker: ota_worker_task *)

At(place) == worker.at = place
Goes(place) == worker' = [worker EXCEPT !.at = place]

\* (The variant does not look at the abort flag.)
WorksOn(s) == FALSE
MustStop(s) == s.abort

WorkerStops ==
    /\ At("loop") /\ MustStop(sess)
    /\ Goes("exit")
    /\ UNCHANGED <<netVars, host, input, sess, rxq, rx, down, flash, nextSid, hist>>

WorkerTake ==
    /\ At("loop") /\ ~MustStop(sess) /\ ~FinishDue(sess) /\ sess.ring # <<>>
    /\ worker' = [worker EXCEPT !.at = "write", !.got = Head(sess.ring)]
    /\ sess' = [sess EXCEPT !.ring = Tail(@)]
    /\ UNCHANGED <<netVars, host, input, rxq, rx, down, flash, nextSid, hist>>

\* A write that fails ends the session.  (The variant goes on without it.)
GoesOn(s, chunk) == Written(s, chunk)
AfterFailure(s, chunk) == [s EXCEPT !.abort = TRUE]

WorkerWrite ==
    LET next == [worker EXCEPT !.got = NoMsg]
    IN  /\ At("write")
        /\ \/ /\ Writable(sess, worker.got)
              /\ sess' = Written(sess, worker.got)
              /\ flash' = Append(flash, worker.got)
              /\ worker' = [next EXCEPT !.at = "loop"]
           \/ /\ sess' = AfterFailure(sess, worker.got)
              /\ worker' = [next EXCEPT !.at = IF sess'.abort THEN "exit" ELSE "loop"]
              /\ UNCHANGED flash
        /\ UNCHANGED <<netVars, host, input, rxq, rx, down, nextSid, hist>>

\* The answer to the FINISH under way.
Answered(seq) ==
    [hist EXCEPT !.owed = @ \ {seq}, !.twice = @ \/ seq \notin hist.owed]

\* ota_finish_reply_status.
Failed(s) == [SetResult(s, "refused") EXCEPT !.finish = FALSE]
FinishFails ==
    /\ sess' = Failed(sess)
    /\ AnswersOne(worker.seq, "refused")
    /\ hist' = Answered(worker.seq)
    /\ Goes("exit")

\* ota_worker_try_finish reads what it needs, without an abort so far...
WorkerFinishes ==
    /\ At("loop") /\ ~MustStop(sess) /\ FinishDue(sess)
    /\ worker' = [worker EXCEPT !.at = "verify", !.seq = sess.finSeq, !.sha = sess.finSha]
    /\ UNCHANGED <<netVars, host, input, sess, rxq, rx, down, flash, nextSid, hist>>

\* ... takes the digest, which may fail, and the handle...
WorkerVerifies ==
    /\ At("verify")
    /\ \/ /\ LengthsAgree(sess)
          /\ sess' = Applying(sess)
          /\ Goes("check") /\ UNCHANGED <<rsp, hist>>
       \/ FinishFails
    /\ UNCHANGED <<conn, req, host, input, rxq, rx, down, flash, nextSid>>

\* ... compares it and looks for an abort twice, before and after esp_ota_end...
\* (The variant does not look.)
AlwaysWanted(s) == TRUE
StillWanted(s) == ~s.abort

WorkerChecks ==
    /\ At("check")
    /\ \/ /\ sess.hash = worker.sha /\ StillWanted(sess)
          /\ Goes("end") /\ UNCHANGED <<rsp, sess, hist>>
       \/ FinishFails
    /\ UNCHANGED <<conn, req, host, input, rxq, rx, down, flash, nextSid>>

\* ... then schedules the restart and sets the boot partition, which may fail.
WorkerBoots ==
    /\ At("end")
    /\ \/ /\ StillWanted(sess)
          /\ hist' = [hist EXCEPT !.booted = @ \cup {[sid |-> sess.sid, data |-> flash]}]
          /\ Goes("reply") /\ UNCHANGED <<rsp, sess>>
       \/ FinishFails
    /\ UNCHANGED <<conn, req, host, input, rxq, rx, down, flash, nextSid>>

WorkerReplies ==
    /\ At("reply")
    /\ sess' = SetResult(sess, "ok")
    /\ AnswersOne(worker.seq, "ok")
    /\ hist' = Answered(worker.seq)
    /\ Goes("done")
    /\ UNCHANGED <<conn, req, host, input, rxq, rx, down, flash, nextSid>>

\* A FINISH that is still pending at the end is refused.  (The variants
\* forget it, or refuse without one.)
OwesNothing(s) == FALSE
OwesAlways(s) == TRUE
Owes(s) == s.finish

WorkerExits ==
    /\ worker.at \in {"exit", "done"}
    /\ sess' = WorkerEnds(sess, At("done"))
    /\ IF At("exit") /\ Owes(sess)
       THEN AnswersOne(sess.finSeq, "refused") /\ hist' = Answered(sess.finSeq)
       ELSE UNCHANGED <<rsp, hist>>
    /\ worker' = Resting
    /\ UNCHANGED <<conn, req, host, input, rxq, rx, down, flash, nextSid>>

WorkerStep ==
    \/ WorkerStops \/ WorkerTake \/ WorkerWrite \/ WorkerFinishes \/ WorkerVerifies
    \/ WorkerChecks \/ WorkerBoots \/ WorkerReplies \/ WorkerExits

------------------------------------------------------------------------------
(* Links *)

\* The transport of the last link has waited for its callbacks.
Connect ==
    /\ conn.at = "none" /\ conn.link < MaxLinks /\ down.at = "idle" /\ input = NoMsg
    /\ conn' = [link |-> conn.link + 1, at |-> "up"]
    /\ UNCHANGED <<req, rsp, host, input, sess, rxq, rx, worker, down, flash, nextSid, hist>>

\* What has arrived may still be handled until the device has closed the link.
Disconnect ==
    /\ conn.at = "up"
    /\ conn' = [conn EXCEPT !.at = "lost"]
    /\ rsp' = {}
    /\ UNCHANGED <<req, host, input, sess, rxq, rx, worker, down, flash, nextSid, hist>>

\* esp_gmp_ota_on_link_down, for a transport error of a link that stays or for the
\* DOWN event of esp_gmp_link_unregister; without a session there is nothing to do.
\* A transport error is reported by the task that also handles requests, between
\* two of them, or, after the DOWN event, by the one that destroys the transport.
\* Two teardowns do not overlap here.
DownStarts(event) ==
    /\ down.at = "idle"
    /\ event = "error" => conn.at = "none" \/ input = NoMsg
    /\ event = "down" => conn.at = "lost"
    /\ IF Found(conn.link)
       THEN /\ sess' = [sess EXCEPT !.closing = TRUE, !.abort = TRUE]
            /\ down' = [at |-> "drain", event |-> event]
            /\ UNCHANGED conn
       ELSE /\ event = "down"
            /\ conn' = [conn EXCEPT !.at = "closing"]
            /\ UNCHANGED <<sess, down>>
    /\ UNCHANGED <<req, rsp, host, input, rxq, rx, worker, flash, nextSid, hist>>

\* ota_rx_queue_drain_link: what came from other links stays, in order.
Others == {n \in DOMAIN rxq : rxq[n].link # conn.link}
DrainQueue ==
    \E kept \in [1 .. Cardinality(Others) -> Others] :
        /\ \A a, b \in DOMAIN kept : a < b => kept[a] < kept[b]
        /\ rxq' = [n \in DOMAIN kept |-> rxq[kept[n]]]

DownDrains ==
    /\ down.at = "drain"
    /\ DrainQueue
    /\ down' = [down EXCEPT !.at = "wait"]
    /\ UNCHANGED <<netVars, host, input, sess, rx, worker, flash, nextSid, hist>>

\* ota_sess_stop_worker has seen the worker gone.
DownClears ==
    /\ down.at = "wait" /\ ~sess.worker
    /\ sess' = TornDown(sess)
    /\ down' = [down EXCEPT !.at = "again"]
    /\ UNCHANGED <<netVars, host, input, rxq, rx, worker, flash, nextSid, hist>>

DownEnds ==
    /\ down.at = "again"
    /\ DrainQueue
    /\ down' = NoDown
    /\ conn' = IF down.event = "down" THEN [conn EXCEPT !.at = "closing"] ELSE conn
    /\ UNCHANGED <<req, rsp, host, input, sess, rx, worker, flash, nextSid, hist>>

\* The rest of esp_gmp_link_unregister: no request of this link is handled after.
Close ==
    /\ conn.at = "closing"
    /\ conn' = [conn EXCEPT !.at = "none"]
    /\ req' = req \cap {input}
    /\ UNCHANGED <<rsp, host, input, sess, rxq, rx, worker, down, flash, nextSid, hist>>

DownStep == DownDrains \/ DownClears \/ DownEnds

------------------------------------------------------------------------------
HostStep ==
    HostStart \/ HostStarted \/ HostSend \/ HostAcked \/ HostFinish \/ HostCompleted \/ HostFails
DeviceInput ==
    \E m \in req :
        RequestTaken(m) \/ DeviceStart(m) \/ DeviceFinish(m) \/ DeviceAbort(m) \/ DeviceData(m)

Next ==
    \/ HostStep \/ DeviceInput
    \/ RxTake \/ RxProcess \/ WorkerStep
    \/ Connect \/ Disconnect \/ DownStarts("error") \/ DownStarts("down")
    \/ DownStep \/ Close

\* Tasks of the device run on; nothing is asked of the host or of the link.
Spec == Init /\ [][Next]_vars /\ WF_vars(WorkerStep) /\ WF_vars(DownStep)

------------------------------------------------------------------------------
(* Correctness *)

Statuses == {"ok", "busy", "refused"}
TypeOK ==
    /\ conn \in [link : 0 .. MaxLinks, at : {"none", "up", "lost", "closing"}]
    /\ \A m \in req : m.kind \in {"start", "data", "finish", "abort"}
    /\ input = NoMsg \/ (input \in req /\ input.kind # "data")
    /\ rsp \subseteq [seq : Nat, status : Statuses, sid : Nat]
    /\ host.at \in {"idle", "start", "data", "finish"} /\ host.next \in 0 .. Chunks
    /\ Cardinality(host.pipe) <= PipeDepth /\ \A p \in host.pipe : p.retries <= BusyRetries
    /\ sess.state \in {"idle", "receiving", "applying"}
    /\ sess.written \in 0 .. Chunks /\ sess.received \in 0 .. Chunks /\ sess.queued \in 0 .. Chunks
    /\ Len(sess.ring) <= RingSlots /\ Cardinality(sess.holds) <= HoldSlots
    /\ Len(rxq) <= QueueDepth
    /\ worker.at \in {"none", "loop", "write", "verify", "check", "end", "reply", "done", "exit"}
    /\ sess.worker <=> worker.at # "none"
    /\ down \in [at : {"idle", "drain", "wait", "again"}, event : {"none", "error", "down"}]

\* What becomes the boot partition is a whole image: all chunks of one upload in
\* order, as they were written to flash and not only as they were hashed.
BootsWhole == \A b \in hist.booted : \E u \in 1 .. MaxUploads : b.data = Image(u)

\* Whoever was told that a session is aborted never sees its image booted, however
\* the ABORT falls between the steps of the worker's verification.
AbortedNeverBoots == \A b \in hist.booted : b.sid \notin hist.aborted

\* "The final durable result is reported by FINISH after the receiver drains queued
\* data, verifies SHA256, completes esp_ota_end(), and selects the boot partition"
\* (SPEC.md): an upload the host reports as completed is what the device will boot.
CompletedBoots == \A sid \in hist.completed : \E b \in hist.booted : b.sid = sid

\* "A successful DATA response means the receiver accepted the chunk into the
\* current upload session": no chunk the host believes accepted is given up later,
\* while it waits ahead of its turn or finds the ring full.
AcceptedIsKept ==
    sess.state = "receiving" /\ host.at # "idle" /\ host.sid = sess.sid =>
        \A c \in host.acked : c < sess.received

\* What was hashed, what the worker holds and what the ring holds is the start of
\* one upload, without gap, repetition or a chunk of another session; the counters
\* tell where each part ends.
InWorker == IF worker.got = NoMsg THEN <<>> ELSE <<worker.got>>
StreamContiguous ==
    sess.state = "receiving" /\ ~sess.abort =>
        /\ \E u \in 1 .. MaxUploads :
             sess.hash \o InWorker \o sess.ring = SubSeq(Image(u), 1, sess.received)
        /\ Len(sess.hash) = sess.written /\ sess.queued = sess.received - sess.written

\* A session that is over holds nothing: no worker, no OTA handle, no ring buffer
\* and no chunk, whether it ended by failure, abort or the loss of its link.  A START
\* that found its session before the teardown and locks it after opens one on an
\* entry nobody uses; that one keeps worker, handle and ring buffer, but it never
\* gets a chunk or a FINISH and never comes to the boot partition.
NoWork == /\ sess.ring = <<>> /\ sess.holds = {} /\ worker.got = NoMsg
          /\ ~sess.finish
IdleHoldsNothing ==
    /\ sess.state = "idle" => NoWork /\ ~sess.worker /\ ~sess.handle /\ ~sess.rb
    /\ ~sess.used => NoWork /\ sess.state # "applying"

\* A FINISH the device took on is answered once, although both the verification
\* and the end of the worker may answer it.
FinishAnsweredOnce == ~hist.twice
FinishAnswered == (hist.owed # {}) ~> (hist.owed = {})

\* esp_gmp_ota_on_link_down returns: the worker it waits for always leaves.
TeardownReturns == (down.at # "idle") ~> (down.at = "idle")
==============================================================================
