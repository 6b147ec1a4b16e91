------------------------------ MODULE OtaProofs -------------------------------
(***************************************************************************)
(* What holds of every upload, whatever the sizes of the image, the ring   *)
(* buffer, the holds, the queue and the pipe and however many uploads and  *)
(* links there are.  Of the device alone (IInv): only whole images are     *)
(* booted, none whose session was aborted, a FINISH is answered once and a *)
(* session that is over holds nothing.  Of the host and the device with    *)
(* everything on its way between them (UInv): what is received is one      *)
(* upload's chunks in order, what the host was told is accepted is kept    *)
(* and what it was told is completed is booted.                            *)
(***************************************************************************)
EXTENDS Ota, FiniteSetTheorems, SequenceTheorems, WellFoundedInduction, TLAPS

------------------------------------------------------------------------------
(* The inductive invariant *)

\* The fields of the records the steps update.
IsSession(s) ==
    s = [used |-> s.used, closing |-> s.closing, link |-> s.link, state |-> s.state,
         sid |-> s.sid, received |-> s.received, written |-> s.written,
         queued |-> s.queued, hash |-> s.hash, handle |-> s.handle, rb |-> s.rb,
         ring |-> s.ring, worker |-> s.worker, abort |-> s.abort, finish |-> s.finish,
         finSeq |-> s.finSeq, finSha |-> s.finSha, result |-> s.result, holds |-> s.holds]
Records ==
    /\ IsSession(sess)
    /\ worker = [at |-> worker.at, got |-> worker.got, seq |-> worker.seq, sha |-> worker.sha]
    /\ hist = [aborted |-> hist.aborted, booted |-> hist.booted,
               completed |-> hist.completed, owed |-> hist.owed, twice |-> hist.twice]
    /\ host = [at |-> host.at, u |-> host.u, sid |-> host.sid, seq |-> host.seq,
               next |-> host.next, pipe |-> host.pipe, acked |-> host.acked]

\* The session is open while its worker runs; from the middle of the verification
\* on it is closed to an ABORT.
WorkerPlaces ==
    /\ sess.worker \in BOOLEAN
    /\ (sess.worker <=> worker.at # "none")
    /\ worker.at \in {"none", "loop", "write", "verify", "check", "end", "reply", "done", "exit"}
    /\ worker.at = "none" => sess.state # "receiving"
    /\ worker.at \in {"loop", "write", "verify"} => sess.state = "receiving"
    /\ worker.at \in {"check", "end", "reply", "done"} => sess.state = "applying"
    /\ worker.at = "exit" => sess.state \in {"receiving", "applying"}
    /\ worker.got # NoMsg => worker.at = "write"
    /\ sess.state \in {"idle", "receiving", "applying"}

\* Session ids are not used again; an ABORT is in time or refused.
Sids ==
    /\ nextSid \in Nat /\ sess.sid \in Nat /\ sess.sid < nextSid
    /\ \A sid \in hist.aborted : sid \in Nat /\ sid < nextSid
    /\ \A b \in hist.booted : b.sid \in Nat /\ b.sid < nextSid
    /\ \A b \in hist.booted : b.sid = sess.sid => sess.state # "receiving"
    /\ sess.state # "idle" /\ sess.sid \in hist.aborted => sess.abort

\* Flash holds what was hashed, and only the digest of a whole image is accepted.
Images == {Image(u) : u \in 1 .. MaxUploads}
Digests ==
    /\ host.u \in 0 .. MaxUploads /\ (host.at # "idle" => host.u # 0)
    /\ \A m \in req : m.kind = "finish" => m.sha \in Images
    /\ sess.finish => sess.finSha \in Images
    /\ worker.at \in {"verify", "check", "end"} => worker.sha \in Images
    /\ worker.at \in {"loop", "write", "verify", "check", "end"} => flash = sess.hash
    /\ worker.at = "end" => sess.hash = worker.sha
    /\ \A b \in hist.booted : b.data \in Images

\* Which of the two that may answer a FINISH owes the answer.
Owed ==
    /\ ~hist.twice
    /\ sess.finish \in BOOLEAN
    /\ sess.finish => sess.finSeq \in hist.owed
    /\ worker.at = "verify" => sess.finish /\ worker.seq = sess.finSeq
    /\ worker.at \in {"check", "end", "reply"} => ~sess.finish /\ worker.seq \in hist.owed
    /\ worker.at = "done" => ~sess.finish

\* What a session has when it is over; and on an entry nobody uses, at most one that
\* a late START has opened, which gets no FINISH.
Idle == sess.state = "idle" => NoWork /\ ~sess.worker /\ ~sess.handle /\ ~sess.rb
Left ==
    ~sess.used => /\ sess.state # "applying" /\ ~sess.finish
                  /\ worker.at \in {"none", "loop", "write", "exit"}
                  /\ input # NoMsg => sess.state = "idle"

IInv == Records /\ WorkerPlaces /\ Sids /\ Digests /\ Owed
        /\ AbortedNeverBoots /\ Idle /\ Left

------------------------------------------------------------------------------
(* A DATA request only moves chunks *)

Kept(r, s) ==
    /\ r.used = s.used /\ r.closing = s.closing /\ r.link = s.link /\ r.state = s.state
    /\ r.sid = s.sid /\ r.written = s.written /\ r.hash = s.hash /\ r.handle = s.handle
    /\ r.rb = s.rb /\ r.worker = s.worker /\ r.abort = s.abort /\ r.finish = s.finish
    /\ r.finSeq = s.finSeq /\ r.finSha = s.finSha /\ r.result = s.result

\* Draining n held chunks into the ring changes nothing else of the session.
LEMMA DrainedKeeps ==
    ASSUME NEW r, NEW n, IsSession(r.s)
    PROVE  IsSession(Drained(r, n).s) /\ Kept(Drained(r, n).s, r.s)
  BY DEF Drained, Outcome, IsSession, Kept

\* Nor does draining as many as are due and dropping the next (data_holds_drain).
LEMMA DrainHoldsKeeps ==
    ASSUME NEW r, IsSession(r.s)
    PROVE  IsSession(DrainHolds(r).s) /\ Kept(DrainHolds(r).s, r.s)
<1> DEFINE n == CHOOSE k \in 0 .. HoldSlots :
                 ~DrainsOn(r, k) /\ \A i \in 0 .. k - 1 : DrainsOn(r, i)
           d == Drained(r, n)
<1>1. IsSession(d.s) /\ Kept(d.s, r.s)
  BY DrainedKeeps
<1>2. \/ DrainHolds(r) = d
      \/ DrainHolds(r).s = [d.s EXCEPT !.holds = @ \ HeldAt(d.s, d.s.received)]
  BY DEF DrainHolds, Outcome
<1> HIDE DEF d
<1> QED
  BY <1>1, <1>2 DEF IsSession, Kept

\* A DATA request (ota_rx_process_msg) changes the ring, the holds and the counts
\* of an open session, and nothing of a session that is not open.
LEMMA ReceiveKeeps ==
    ASSUME NEW s, NEW m, IsSession(s)
    PROVE  /\ IsSession(ReceiveChunk(s, m).s) /\ Kept(ReceiveChunk(s, m).s, s)
           /\ s.state # "receiving" => ReceiveChunk(s, m).s = s
<1>1. IsSession(ApplyChunk(s, m).s) /\ Kept(ApplyChunk(s, m).s, s)
  BY DEF ApplyChunk, Outcome, IsSession, Kept
<1>2. IsSession(HoldChunk(s, m).s) /\ Kept(HoldChunk(s, m).s, s)
  BY DEF HoldChunk, Outcome, IsSession, Kept
<1>3. IsSession(DrainHolds(ApplyChunk(s, m)).s) /\ Kept(DrainHolds(ApplyChunk(s, m)).s, s)
  BY <1>1, DrainHoldsKeeps DEF Kept
<1>4. \/ ReceiveChunk(s, m) \in {Outcome(s, Answer(m, "refused")), Outcome(s, Answer(m, "ok"))}
      \/ /\ s.state = "receiving"
         /\ ReceiveChunk(s, m) \in
                {HoldChunk(s, m), ApplyChunk(s, m), DrainHolds(ApplyChunk(s, m))}
  BY Zenon DEF ReceiveChunk, DataRefused
<1>5. \A a : Outcome(s, a).s = s
  BY DEF Outcome
<1>6. Kept(s, s)
  BY DEF Kept
<1> QED
  BY <1>1, <1>2, <1>3, <1>4, <1>5, <1>6

------------------------------------------------------------------------------
(* Initially, and by each step *)

\* The program starts in a state of the invariant.
LEMMA InitIInv == Init => IInv
<1> SUFFICES ASSUME Init PROVE IInv
  OBVIOUS
<1>1. Records /\ WorkerPlaces /\ Sids /\ Owed
  BY DEF Init, Records, IsSession, WorkerPlaces, Sids, Owed, Unused, NoHost, Resting, NoMsg
<1>2. Digests
  BY OtaConstants DEF Init, Digests, Unused, NoHost, Resting
<1>3. AbortedNeverBoots /\ Idle /\ Left
  BY DEF Init, AbortedNeverBoots, Idle, Left, NoWork, Unused, Resting, NoMsg
<1> QED
  BY <1>1, <1>2, <1>3 DEF IInv

\* A step that leaves the session, its worker and what was promised about it alone
\* can only disturb the records and what FINISH requests carry.
SameSession ==
    /\ UNCHANGED <<sess, worker, input, nextSid>>
    /\ hist'.aborted = hist.aborted /\ hist'.booted = hist.booted
    /\ hist'.owed = hist.owed /\ hist'.twice = hist.twice

\* Such a step keeps the invariant when it keeps those two parts.
LEMMA SameSessionIInv ==
    ASSUME IInv, SameSession, Records', Digests'
    PROVE  IInv'
<1>1. WorkerPlaces' /\ Sids' /\ Owed'
  BY DEF IInv, SameSession, WorkerPlaces, Sids, Owed
<1>2. AbortedNeverBoots' /\ Idle' /\ Left'
  BY DEF IInv, SameSession, AbortedNeverBoots, Idle, Left, NoWork
<1> QED
  BY <1>1, <1>2 DEF IInv

(* The host *)

\* The host begins an upload.
LEMMA HostStartIInv ==
    ASSUME IInv, HostStart
    PROVE  IInv'
<1>1. Records'
  BY DEF HostStart, Sent, NoHost, IInv, Records, IsSession
<1>2. Digests'
  BY OtaConstants DEF HostStart, Sent, NoHost, IInv, Records, Digests
<1>3. SameSession
  BY DEF HostStart, Sent, NoHost, SameSession, IInv, Records
<1> QED
  BY <1>1, <1>2, <1>3, SameSessionIInv

\* Its START is accepted.
LEMMA HostStartedIInv ==
    ASSUME IInv, HostStarted
    PROVE  IInv'
<1>1. Records'
  BY DEF HostStarted, IInv, Records, IsSession
<1>2. Digests'
  BY DEF HostStarted, IInv, Records, Digests
<1>3. SameSession
  BY DEF HostStarted, SameSession, IInv, Records
<1> QED
  BY <1>1, <1>2, <1>3, SameSessionIInv

\* It sends a chunk.
LEMMA HostSendIInv ==
    ASSUME IInv, HostSend
    PROVE  IInv'
<1>1. Records'
  BY DEF HostSend, Sent, DataMsg, IInv, Records, IsSession
<1>2. Digests'
  BY DEF HostSend, Sent, DataMsg, IInv, Records, Digests
<1>3. SameSession
  BY DEF HostSend, Sent, DataMsg, SameSession, IInv, Records
<1> QED
  BY <1>1, <1>2, <1>3, SameSessionIInv

\* A chunk is accepted, or sent again.
LEMMA HostAckedIInv ==
    ASSUME IInv, HostAcked
    PROVE  IInv'
<1>1. Records'
  BY DEF HostAcked, Sent, DataMsg, IInv, Records, IsSession
<1>2. Digests'
  <2>1. /\ host'.u = host.u /\ host'.at = host.at
        /\ UNCHANGED <<sess, worker, flash, hist>>
    BY DEF HostAcked, IInv, Records
  <2>2. req' = req \/ \E seq, c : req' = req \cup {DataMsg(seq, c)}
    BY DEF HostAcked, Sent
  <2>3. \A m \in req' : m.kind = "finish" => m.sha \in Images
    BY <2>2 DEF DataMsg, IInv, Digests
  <2> QED
    BY <2>1, <2>3 DEF IInv, Digests
<1>3. SameSession
  BY DEF HostAcked, Sent, DataMsg, SameSession, IInv, Records
<1> QED
  BY <1>1, <1>2, <1>3, SameSessionIInv

\* It asks for the whole image to be verified: the FINISH carries its digest.
LEMMA HostFinishIInv ==
    ASSUME IInv, HostFinish
    PROVE  IInv'
<1>1. Records'
  BY DEF HostFinish, Sent, Images, IInv, Records, IsSession
<1>2. Digests'
  BY DEF HostFinish, Sent, Images, IInv, Records, Digests
<1>3. SameSession
  BY DEF HostFinish, Sent, Images, SameSession, IInv, Records
<1> QED
  BY <1>1, <1>2, <1>3, SameSessionIInv

\* The FINISH is accepted.
LEMMA HostCompletedIInv ==
    ASSUME IInv, HostCompleted
    PROVE  IInv'
<1>1. Records'
  BY DEF HostCompleted, NoHost, IInv, Records, IsSession
<1>2. Digests'
  BY DEF HostCompleted, NoHost, IInv, Records, Digests
<1>3. SameSession
  BY DEF HostCompleted, NoHost, SameSession, IInv, Records
<1> QED
  BY <1>1, <1>2, <1>3, SameSessionIInv

\* The upload fails, perhaps with an ABORT.
LEMMA HostFailsIInv ==
    ASSUME IInv, HostFails
    PROVE  IInv'
<1>1. Records'
  BY DEF HostFails, Sent, NoHost, IInv, Records, IsSession
<1>2. Digests'
  BY DEF HostFails, Sent, NoHost, IInv, Records, Digests
<1>3. SameSession
  BY DEF HostFails, Sent, NoHost, SameSession, IInv, Records
<1> QED
  BY <1>1, <1>2, <1>3, SameSessionIInv

(* Requests *)

\* sess_get finds the session or a cleared one, which is as idle as the one it
\* replaces.
LEMMA CurrentSession ==
    ASSUME IInv, ~LeftToWorker
    PROVE  /\ IsSession(Current) /\ Current.used
           /\ Current.state = sess.state /\ Current.ring = sess.ring
           /\ Current.holds = sess.holds
           /\ (Current.worker <=> sess.worker) /\ (Current.finish <=> sess.finish)
           /\ (Current.handle <=> sess.handle) /\ (Current.rb <=> sess.rb)
           /\ Current.worker \in BOOLEAN /\ Current.finish \in BOOLEAN
           /\ Current = sess \/ (Current.state = "idle" /\ Current.sid = 0)
<1>1. CASE sess.used
  <2>1. Current = sess
    BY <1>1 DEF Current
  <2> QED
    BY <1>1, <2>1 DEF IInv, Records, WorkerPlaces, Owed
<1>2. CASE ~sess.used
  <2>1. sess.state = "idle"
    BY <1>2 DEF LeftToWorker, IInv, WorkerPlaces, Left
  <2>2. /\ ~sess.worker /\ ~sess.handle /\ ~sess.rb
        /\ ~sess.finish /\ sess.ring = <<>> /\ sess.holds = {}
    BY <2>1 DEF IInv, Idle, NoWork
  <2>3. Current = Fresh(conn.link)
    BY <1>2 DEF Current
  <2> QED
    BY <2>1, <2>2, <2>3 DEF Fresh, Unused, IsSession
<1> QED
  BY <1>1, <1>2

\* A request that only looks the session up, or that leaves what was found as it is
\* but for the holds, disturbs nothing.
LEMMA LookedUpIInv ==
    ASSUME IInv, UNCHANGED <<worker, flash, nextSid, host, hist>>, req' \subseteq req,
           \/ ~LeftToWorker /\ sess' = Current
           \/ input' = NoMsg /\ sess' \in {sess, [sess EXCEPT !.holds = {}]}
    PROVE  IInv'
<1>1. /\ IsSession(sess') /\ sess'.state = sess.state
      /\ sess'.ring = sess.ring /\ sess'.holds \in {sess.holds, {}}
      /\ (sess'.worker <=> sess.worker) /\ (sess'.finish <=> sess.finish)
      /\ (sess'.handle <=> sess.handle) /\ (sess'.rb <=> sess.rb)
      /\ sess'.worker \in BOOLEAN /\ sess'.finish \in BOOLEAN
      /\ sess'.used \/ (input' = NoMsg /\ sess'.used = sess.used)
      /\ \/ /\ sess'.sid = sess.sid /\ sess'.hash = sess.hash /\ sess'.abort = sess.abort
            /\ sess'.finSeq = sess.finSeq /\ sess'.finSha = sess.finSha
         \/ sess'.state = "idle" /\ sess'.sid = 0
  <2>1. CASE ~LeftToWorker /\ sess' = Current
    BY <2>1, CurrentSession
  <2>2. CASE input' = NoMsg /\ sess' \in {sess, [sess EXCEPT !.holds = {}]}
    BY <2>2 DEF IInv, Records, IsSession, WorkerPlaces, Owed
  <2> QED
    BY <2>1, <2>2
<1>2. Records' /\ WorkerPlaces'
  BY <1>1 DEF IInv, Records, WorkerPlaces
<1>3. Sids' /\ AbortedNeverBoots'
  BY <1>1 DEF IInv, Sids, AbortedNeverBoots
<1>4. Idle' /\ Left'
  BY <1>1 DEF IInv, Idle, Left, NoWork
<1>5. Digests' /\ Owed'
  <2>1. sess.state = "idle" =>
            worker.at \notin {"loop", "write", "verify", "check", "end", "reply", "done"}
    BY DEF IInv, WorkerPlaces
  <2>2. sess.state = "idle" => ~sess.finish
    BY DEF IInv, Idle, NoWork
  <2>3. Digests'
    BY <1>1, <2>1, <2>2 DEF IInv, Digests
  <2>4. Owed'
    BY <1>1, <2>1, <2>2 DEF IInv, Owed
  <2> QED
    BY <2>3, <2>4
<1> QED
  BY <1>2, <1>3, <1>4, <1>5 DEF IInv

\* The session of a request is looked up.
LEMMA RequestTakenIInv ==
    ASSUME IInv, NEW m, RequestTaken(m)
    PROVE  IInv'
  BY LookedUpIInv DEF RequestTaken

\* START: a fresh session id, digest and worker, or nothing.
LEMMA DeviceStartIInv ==
    ASSUME IInv, NEW m, DeviceStart(m)
    PROVE  IInv'
<1>1. req' \subseteq req /\ input' = NoMsg /\ UNCHANGED <<host, hist>>
  BY DEF DeviceStart, Control
<1>2. CASE ~StartRefused(sess) /\ sess' = Opened(sess, nextSid)
           /\ worker' = [Resting EXCEPT !.at = "loop"] /\ flash' = <<>>
           /\ nextSid' = nextSid + 1
  <2>1. /\ sess'.state = "receiving" /\ sess'.sid = nextSid /\ sess'.worker = TRUE
        /\ sess'.finish = FALSE /\ sess'.hash = <<>> /\ IsSession(sess')
    BY <1>2 DEF Opened, IInv, Records, IsSession
  <2>2. worker' = [at |-> "loop", got |-> NoMsg, seq |-> 0, sha |-> <<>>]
    BY <1>2 DEF Resting
  <2>3. Records' /\ WorkerPlaces' /\ Owed'
    BY <1>1, <2>1, <2>2 DEF IInv, Records, IsSession, WorkerPlaces, Owed
  <2>4. Sids' /\ AbortedNeverBoots'
    BY <1>1, <1>2, <2>1 DEF IInv, Sids, AbortedNeverBoots
  <2>5. Digests'
    BY <1>1, <1>2, <2>1, <2>2 DEF IInv, Digests
  <2>6. Idle' /\ Left'
    BY <1>1, <2>1, <2>2 DEF Idle, Left
  <2> QED
    BY <2>3, <2>4, <2>5, <2>6 DEF IInv
<1>3. CASE /\ sess' \in {sess, [sess EXCEPT !.holds = {}]}
           /\ UNCHANGED <<worker, flash, nextSid>>
  BY <1>1, <1>3, LookedUpIInv
<1> QED
  BY <1>2, <1>3 DEF DeviceStart

\* FINISH: answered at once, or owed from now on.
LEMMA DeviceFinishIInv ==
    ASSUME IInv, NEW m \in req, DeviceFinish(m)
    PROVE  IInv'
<1>1. /\ input = m /\ m.kind = "finish" /\ req' \subseteq req /\ input' = NoMsg
      /\ UNCHANGED <<worker, flash, nextSid, host>>
  BY DEF DeviceFinish, Control
<1>2. CASE UNCHANGED <<sess, hist>>
  BY <1>1, <1>2, LookedUpIInv
<1>3. CASE /\ sess.state = "receiving" /\ ~sess.finish
           /\ sess' = FinishPending(sess, m.seq, m.sha)
           /\ hist' = [hist EXCEPT !.owed = @ \cup {m.seq}]
  <2>1. sess.used
    BY <1>1, <1>3 DEF NoMsg, IInv, Left
  <2>2. /\ sess' = [sess EXCEPT !.finish = TRUE, !.finSeq = m.seq, !.finSha = m.sha]
        /\ worker.at \in {"loop", "write", "exit"}
    BY <1>3 DEF FinishPending, IInv, WorkerPlaces, Owed
  <2>3. /\ hist'.owed = hist.owed \cup {m.seq} /\ hist'.aborted = hist.aborted
        /\ hist'.booted = hist.booted /\ hist'.twice = hist.twice
    BY <1>3 DEF IInv, Records
  <2>4. Records' /\ WorkerPlaces' /\ Sids'
    BY <1>1, <1>3, <2>2, <2>3 DEF IInv, Records, IsSession, WorkerPlaces, Sids
  <2>5. Digests' /\ Owed'
    BY <1>1, <2>2, <2>3 DEF IInv, Records, IsSession, Digests, Owed
  <2>6. AbortedNeverBoots' /\ Idle' /\ Left'
    BY <1>3, <2>1, <2>2, <2>3 DEF IInv, Records, IsSession, AbortedNeverBoots, Idle, Left
  <2> QED
    BY <2>4, <2>5, <2>6 DEF IInv
<1> QED
  BY <1>2, <1>3 DEF DeviceFinish, TakesFinish, Complete

\* ABORT: the flag is set while the worker runs, and the id noted.
LEMMA DeviceAbortIInv ==
    ASSUME IInv, NEW m, DeviceAbort(m)
    PROVE  IInv'
<1>1. /\ req' \subseteq req /\ input' = NoMsg
      /\ UNCHANGED <<worker, flash, nextSid, host>>
  BY DEF DeviceAbort, Control
<1>2. CASE UNCHANGED <<sess, hist>>
  BY <1>1, <1>2, LookedUpIInv
<1>3. CASE /\ Aborts(sess, m.sid) /\ sess' = AbortAsync(sess)
           /\ hist' = [hist EXCEPT !.aborted = @ \cup {sess.sid}]
  <2>1. sess.state = "receiving" /\ sess.worker
    BY <1>3 DEF Aborts, IInv, WorkerPlaces
  <2>2. sess' = [sess EXCEPT !.holds = {}, !.abort = TRUE]
    BY <1>3, <2>1 DEF AbortAsync
  <2>3. /\ hist'.aborted = hist.aborted \cup {sess.sid} /\ hist'.owed = hist.owed
        /\ hist'.booted = hist.booted /\ hist'.twice = hist.twice
    BY <1>3 DEF IInv, Records
  <2>4. Records' /\ WorkerPlaces' /\ Owed'
    BY <1>1, <1>3, <2>2, <2>3 DEF IInv, Records, IsSession, WorkerPlaces, Owed
  <2>5. Sids' /\ AbortedNeverBoots'
    BY <1>1, <2>1, <2>2, <2>3 DEF IInv, Records, IsSession, Sids, AbortedNeverBoots
  <2>6. Digests'
    BY <1>1, <2>2, <2>3 DEF IInv, Records, IsSession, Digests
  <2>7. Idle' /\ Left'
    BY <1>1, <2>1, <2>2 DEF IInv, Records, IsSession, Idle, Left
  <2> QED
    BY <2>4, <2>5, <2>6, <2>7 DEF IInv
<1> QED
  BY <1>2, <1>3 DEF DeviceAbort

\* DATA is only queued.
LEMMA DeviceDataIInv ==
    ASSUME IInv, NEW m, DeviceData(m)
    PROVE  IInv'
<1>1. Records'
  BY DEF DeviceData, Arrives, IInv, Records, IsSession
<1>2. Digests'
  BY DEF DeviceData, Arrives, IInv, Records, Digests
<1>3. SameSession
  BY DEF DeviceData, Arrives, SameSession, IInv, Records
<1> QED
  BY <1>1, <1>2, <1>3, SameSessionIInv

(* The receive task *)

\* It finds the session.
LEMMA RxTakeIInv ==
    ASSUME IInv, RxTake
    PROVE  IInv'
<1>1. Records'
  BY DEF RxTake, IInv, Records, IsSession
<1>2. Digests'
  BY DEF RxTake, IInv, Records, Digests
<1>3. SameSession
  BY DEF RxTake, SameSession, IInv, Records
<1> QED
  BY <1>1, <1>2, <1>3, SameSessionIInv

\* It works on a chunk, which moves chunks and nothing else.
LEMMA RxProcessIInv ==
    ASSUME IInv, RxProcess
    PROVE  IInv'
<1>1. /\ IsSession(sess') /\ Kept(sess', sess)
      /\ sess.state # "receiving" => sess' = sess
      /\ UNCHANGED <<req, host, input, worker, flash, nextSid, hist>>
  BY ReceiveKeeps DEF RxProcess, IInv, Records
<1>2. Records' /\ WorkerPlaces'
  BY <1>1 DEF IInv, Records, Kept, WorkerPlaces
<1>3. Sids' /\ AbortedNeverBoots'
  BY <1>1 DEF IInv, Kept, Sids, AbortedNeverBoots
<1>4. Digests' /\ Owed'
  BY <1>1 DEF IInv, Kept, Digests, Owed
<1>5. Idle' /\ Left'
  BY <1>1 DEF IInv, Kept, WorkerPlaces, Idle, Left, NoWork
<1> QED
  BY <1>2, <1>3, <1>4, <1>5 DEF IInv

(* The worker *)

\* It sees the abort flag.
LEMMA WorkerStopsIInv ==
    ASSUME IInv, WorkerStops
    PROVE  IInv'
<1>1. Records'
  BY DEF WorkerStops, At, Goes, netVars, IInv, Records, IsSession
<1>2. WorkerPlaces'
  BY DEF WorkerStops, At, Goes, netVars, IInv, Records, IsSession, WorkerPlaces,
     NoMsg
<1>3. Sids'
  BY DEF WorkerStops, At, Goes, netVars, IInv, Records, IsSession, WorkerPlaces,
     Sids
<1>4. Digests'
  BY DEF WorkerStops, At, Goes, netVars, IInv, Records, IsSession, WorkerPlaces,
     Digests
<1>5. Owed'
  BY DEF WorkerStops, At, Goes, netVars, IInv, Records, IsSession, WorkerPlaces,
     Owed
<1>6. AbortedNeverBoots'
  BY DEF WorkerStops, At, Goes, netVars, IInv, Records, IsSession, AbortedNeverBoots
<1>7. Idle' /\ Left'
  BY DEF WorkerStops, At, Goes, netVars, IInv, Records, IsSession, WorkerPlaces,
     Idle, Left, NoWork, NoMsg
<1> QED
  BY <1>1, <1>2, <1>3, <1>4, <1>5, <1>6, <1>7 DEF IInv

\* It takes a chunk from the ring.
LEMMA WorkerTakeIInv ==
    ASSUME IInv, WorkerTake
    PROVE  IInv'
<1>1. Records'
  BY DEF WorkerTake, At, netVars, IInv, Records, IsSession
<1>2. WorkerPlaces'
  BY DEF WorkerTake, At, netVars, IInv, Records, IsSession, WorkerPlaces, NoMsg
<1>3. Sids'
  BY DEF WorkerTake, At, netVars, IInv, Records, IsSession, WorkerPlaces, Sids
<1>4. Digests'
  BY DEF WorkerTake, At, netVars, IInv, Records, IsSession, WorkerPlaces, Digests
<1>5. Owed'
  BY DEF WorkerTake, At, netVars, IInv, Records, IsSession, WorkerPlaces, Owed
<1>6. AbortedNeverBoots'
  BY DEF WorkerTake, At, netVars, IInv, Records, IsSession, AbortedNeverBoots
<1>7. Idle' /\ Left'
  BY DEF WorkerTake, At, netVars, IInv, Records, IsSession, WorkerPlaces,
     Idle, Left, NoWork, NoMsg
<1> QED
  BY <1>1, <1>2, <1>3, <1>4, <1>5, <1>6, <1>7 DEF IInv

\* It hashes and writes the chunk, or fails and sets the abort flag.
LEMMA WorkerWriteIInv ==
    ASSUME IInv, WorkerWrite
    PROVE  IInv'
<1>1. Records'
  BY DEF WorkerWrite, At, netVars, Written, AfterFailure, IInv, Records, IsSession
<1>2. WorkerPlaces'
  BY DEF WorkerWrite, At, netVars, Written, AfterFailure, IInv, Records, IsSession,
     WorkerPlaces, NoMsg
<1>3. Sids'
  BY DEF WorkerWrite, At, netVars, Written, AfterFailure, IInv, Records, IsSession,
     WorkerPlaces, Sids
<1>4. Digests'
  <2>1. CASE /\ sess' = Written(sess, worker.got) /\ flash' = Append(flash, worker.got)
             /\ worker'.at = "loop"
    BY <2>1 DEF WorkerWrite, At, netVars, Written, IInv, Records, IsSession, Digests
  <2>2. CASE /\ sess' = AfterFailure(sess, worker.got) /\ flash' = flash
             /\ worker'.at = "exit"
    BY <2>2 DEF WorkerWrite, At, netVars, AfterFailure, IInv, Records, IsSession, Digests
  <2> QED
    BY <2>1, <2>2 DEF WorkerWrite, AfterFailure, IInv, Records, IsSession
<1>5. Owed'
  BY DEF WorkerWrite, At, netVars, Written, AfterFailure, IInv, Records, IsSession,
     WorkerPlaces, Owed
<1>6. AbortedNeverBoots'
  BY DEF WorkerWrite, At, netVars, Written, AfterFailure, IInv, Records, IsSession,
     AbortedNeverBoots
<1>7. Idle' /\ Left'
  BY DEF WorkerWrite, At, netVars, Written, AfterFailure, IInv, Records, IsSession,
     WorkerPlaces, Idle, Left, NoWork, NoMsg
<1> QED
  BY <1>1, <1>2, <1>3, <1>4, <1>5, <1>6, <1>7 DEF IInv

\* It turns to the FINISH.
LEMMA WorkerFinishesIInv ==
    ASSUME IInv, WorkerFinishes
    PROVE  IInv'
<1>1. Records'
  BY DEF WorkerFinishes, At, netVars, FinishDue, IInv, Records, IsSession
<1>2. WorkerPlaces'
  BY DEF WorkerFinishes, At, netVars, FinishDue, IInv, Records, IsSession,
     WorkerPlaces, NoMsg
<1>3. Sids'
  BY DEF WorkerFinishes, At, netVars, FinishDue, IInv, Records, IsSession,
     WorkerPlaces, Sids
<1>4. Digests'
  BY DEF WorkerFinishes, At, netVars, FinishDue, IInv, Records, IsSession,
     WorkerPlaces, Digests
<1>5. Owed'
  BY DEF WorkerFinishes, At, netVars, FinishDue, IInv, Records, IsSession,
     WorkerPlaces, Owed
<1>6. AbortedNeverBoots'
  BY DEF WorkerFinishes, At, netVars, FinishDue, IInv, Records, IsSession,
     AbortedNeverBoots
<1>7. Idle' /\ Left'
  BY DEF WorkerFinishes, At, netVars, FinishDue, IInv, Records, IsSession,
     WorkerPlaces, Idle, Left, NoWork, NoMsg
<1> QED
  BY <1>1, <1>2, <1>3, <1>4, <1>5, <1>6, <1>7 DEF IInv

\* It takes the digest, which closes the session to an ABORT, or refuses.
LEMMA WorkerVerifiesIInv ==
    ASSUME IInv, WorkerVerifies
    PROVE  IInv'
<1>1. Records'
  BY DEF WorkerVerifies, Applying, At, Goes, netVars, FinishFails, Failed,
     SetResult, Answered, IInv, Records, IsSession
<1>2. WorkerPlaces'
  BY DEF WorkerVerifies, Applying, At, Goes, netVars, FinishFails, Failed,
     SetResult, Answered, IInv, Records, IsSession, WorkerPlaces, NoMsg
<1>3. Sids'
  BY DEF WorkerVerifies, Applying, At, Goes, netVars, FinishFails, Failed,
     SetResult, Answered, IInv, Records, IsSession, WorkerPlaces, Sids
<1>4. Digests'
  BY DEF WorkerVerifies, Applying, At, Goes, netVars, FinishFails, Failed,
     SetResult, Answered, IInv, Records, IsSession, WorkerPlaces, Digests
<1>5. Owed'
  BY DEF WorkerVerifies, Applying, At, Goes, netVars, FinishFails, Failed,
     SetResult, Answered, IInv, Records, IsSession, WorkerPlaces, Owed
<1>6. AbortedNeverBoots'
  BY DEF WorkerVerifies, Applying, At, Goes, netVars, FinishFails, Failed,
     SetResult, Answered, IInv, Records, IsSession, AbortedNeverBoots
<1>7. Idle' /\ Left'
  BY DEF WorkerVerifies, Applying, At, Goes, netVars, FinishFails, Failed,
     SetResult, Answered, IInv, Records, IsSession, WorkerPlaces, Idle, Left, NoWork,
     NoMsg
<1> QED
  BY <1>1, <1>2, <1>3, <1>4, <1>5, <1>6, <1>7 DEF IInv

\* It compares the digest, or refuses.
LEMMA WorkerChecksIInv ==
    ASSUME IInv, WorkerChecks
    PROVE  IInv'
<1>1. Records'
  BY DEF WorkerChecks, At, Goes, netVars, FinishFails, Failed, SetResult, Answered,
     IInv, Records, IsSession
<1>2. WorkerPlaces'
  BY DEF WorkerChecks, At, Goes, netVars, FinishFails, Failed, SetResult, Answered,
     IInv, Records, IsSession, WorkerPlaces, NoMsg
<1>3. Sids'
  BY DEF WorkerChecks, At, Goes, netVars, FinishFails, Failed, SetResult, Answered,
     IInv, Records, IsSession, WorkerPlaces, Sids
<1>4. Digests'
  BY DEF WorkerChecks, At, Goes, netVars, FinishFails, Failed, SetResult, Answered,
     IInv, Records, IsSession, WorkerPlaces, Digests
<1>5. Owed'
  BY DEF WorkerChecks, At, Goes, netVars, FinishFails, Failed, SetResult, Answered,
     IInv, Records, IsSession, WorkerPlaces, Owed
<1>6. AbortedNeverBoots'
  BY DEF WorkerChecks, At, Goes, netVars, FinishFails, Failed, SetResult, Answered,
     IInv, Records, IsSession, AbortedNeverBoots
<1>7. Idle' /\ Left'
  BY DEF WorkerChecks, At, Goes, netVars, FinishFails, Failed, SetResult, Answered,
     IInv, Records, IsSession, WorkerPlaces, Idle, Left, NoWork, NoMsg
<1> QED
  BY <1>1, <1>2, <1>3, <1>4, <1>5, <1>6, <1>7 DEF IInv

\* The image is booted only if no ABORT came in time, or the FINISH is refused.
LEMMA WorkerBootsIInv ==
    ASSUME IInv, WorkerBoots
    PROVE  IInv'
<1>1. /\ worker.at = "end" /\ sess.state = "applying"
      /\ UNCHANGED <<req, host, flash, nextSid>>
  BY DEF WorkerBoots, At, IInv, WorkerPlaces
<1>2. CASE /\ ~sess.abort /\ UNCHANGED sess
           /\ hist' = [hist EXCEPT !.booted = @ \cup {[sid |-> sess.sid, data |-> flash]}]
           /\ worker' = [worker EXCEPT !.at = "reply"]
  <2> DEFINE new == [sid |-> sess.sid, data |-> flash]
  <2>1. /\ hist'.booted = hist.booted \cup {new} /\ hist'.aborted = hist.aborted
        /\ hist'.owed = hist.owed /\ hist'.twice = hist.twice
    BY <1>2 DEF IInv, Records
  <2>2. sess.sid \notin hist.aborted /\ flash \in Images
    BY <1>1, <1>2 DEF IInv, Sids, Digests
  <2>3. new.sid = sess.sid /\ new.data = flash
    OBVIOUS
  <2> HIDE DEF new
  <2>4. Records' /\ WorkerPlaces' /\ Owed'
    BY <1>1, <1>2, <2>1 DEF IInv, Records, WorkerPlaces, Owed
  <2>5. Sids' /\ AbortedNeverBoots'
    BY <1>1, <1>2, <2>1, <2>2, <2>3 DEF IInv, Sids, AbortedNeverBoots
  <2>6. Digests'
    BY <1>1, <1>2, <2>1, <2>2, <2>3 DEF IInv, Records, Digests
  <2>7. Idle' /\ Left'
    BY <1>1, <1>2 DEF IInv, Records, Idle, Left, NoWork
  <2> QED
    BY <2>4, <2>5, <2>6, <2>7 DEF IInv
<1>3. CASE FinishFails
  <2>1. /\ sess' = Failed(sess) /\ worker' = [worker EXCEPT !.at = "exit"]
        /\ hist' = Answered(worker.seq)
    BY <1>3 DEF FinishFails, Goes
  <2>2. Records' /\ WorkerPlaces' /\ Owed'
    BY <1>1, <2>1 DEF Failed, SetResult, Answered, IInv, Records, IsSession, WorkerPlaces, Owed
  <2>3. Sids' /\ Digests' /\ AbortedNeverBoots'
    BY <1>1, <2>1 DEF Failed, SetResult, Answered, IInv, Records, IsSession, Sids,
                      Digests, AbortedNeverBoots
  <2>4. Idle' /\ Left'
    BY <1>1, <2>1 DEF Failed, SetResult, IInv, Records, IsSession, Idle, Left, NoWork
  <2> QED
    BY <2>2, <2>3, <2>4 DEF IInv
<1> QED
  BY <1>2, <1>3 DEF WorkerBoots, StillWanted, Goes

\* It answers the FINISH.
LEMMA WorkerRepliesIInv ==
    ASSUME IInv, WorkerReplies
    PROVE  IInv'
<1>1. Records'
  BY DEF WorkerReplies, At, Goes, SetResult, Answered, IInv, Records, IsSession
<1>2. WorkerPlaces'
  BY DEF WorkerReplies, At, Goes, SetResult, Answered, IInv, Records, IsSession,
     WorkerPlaces, NoMsg
<1>3. Sids'
  BY DEF WorkerReplies, At, Goes, SetResult, Answered, IInv, Records, IsSession,
     WorkerPlaces, Sids
<1>4. Digests'
  BY DEF WorkerReplies, At, Goes, SetResult, Answered, IInv, Records, IsSession,
     WorkerPlaces, Digests
<1>5. Owed'
  BY DEF WorkerReplies, At, Goes, SetResult, Answered, IInv, Records, IsSession,
     WorkerPlaces, Owed
<1>6. AbortedNeverBoots'
  BY DEF WorkerReplies, At, Goes, SetResult, Answered, IInv, Records, IsSession,
     AbortedNeverBoots
<1>7. Idle' /\ Left'
  BY DEF WorkerReplies, At, Goes, SetResult, Answered, IInv, Records, IsSession,
     WorkerPlaces, Idle, Left, NoWork, NoMsg
<1> QED
  BY <1>1, <1>2, <1>3, <1>4, <1>5, <1>6, <1>7 DEF IInv

\* It ends, and refuses a FINISH that is still pending.
LEMMA WorkerExitsIInv ==
    ASSUME IInv, WorkerExits
    PROVE  IInv'
<1>1. Records'
  BY DEF WorkerExits, At, WorkerEnds, ClearState, WorkerFinish, AbortOta, Owes,
     Answered, Resting, IInv, Records, IsSession
<1>2. WorkerPlaces'
  BY DEF WorkerExits, At, WorkerEnds, ClearState, WorkerFinish, AbortOta, Owes,
     Answered, Resting, IInv, Records, IsSession, WorkerPlaces, NoMsg
<1>3. Sids'
  <2>1. \/ /\ sess'.sid = sess.sid /\ sess'.state = sess.state /\ sess'.abort = sess.abort
           /\ sess.state = "applying"
        \/ sess'.sid = 0 /\ sess'.state = "idle"
    <3>1. CASE worker.at = "done"
      <4>1. sess' = WorkerFinish(sess) /\ sess.state = "applying"
        BY <3>1 DEF WorkerExits, At, WorkerEnds, IInv, WorkerPlaces
      <4> QED
        BY <4>1 DEF WorkerFinish, IInv, Records, IsSession
    <3>2. CASE worker.at = "exit"
      <4>1. sess' = ClearState(WorkerFinish(AbortOta(sess)))
        BY <3>2 DEF WorkerExits, At, WorkerEnds
      <4> QED
        BY <4>1 DEF ClearState, WorkerFinish, AbortOta, IInv, Records, IsSession
    <3> QED
      BY <3>1, <3>2 DEF WorkerExits
  <2>2. hist'.aborted = hist.aborted /\ hist'.booted = hist.booted /\ nextSid' = nextSid
    BY DEF WorkerExits, Answered, IInv, Records
  <2> QED
    BY <2>1, <2>2 DEF IInv, Sids
<1>4. Digests'
  BY DEF WorkerExits, At, WorkerEnds, ClearState, WorkerFinish, AbortOta, Owes,
     Answered, Resting, IInv, Records, IsSession, WorkerPlaces, Digests
<1>5. Owed'
  BY DEF WorkerExits, At, WorkerEnds, ClearState, WorkerFinish, AbortOta, Owes,
     Answered, Resting, IInv, Records, IsSession, WorkerPlaces, Owed
<1>6. AbortedNeverBoots'
  BY DEF WorkerExits, At, WorkerEnds, ClearState, WorkerFinish, AbortOta, Owes,
     Answered, Resting, IInv, Records, IsSession, AbortedNeverBoots
<1>7. Idle' /\ Left'
  BY DEF WorkerExits, At, WorkerEnds, ClearState, WorkerFinish, AbortOta, Owes,
     Answered, Resting, IInv, Records, IsSession, WorkerPlaces, Idle, Left, NoWork,
     NoMsg
<1> QED
  BY <1>1, <1>2, <1>3, <1>4, <1>5, <1>6, <1>7 DEF IInv

(* Links *)

\* A link comes up.
LEMMA ConnectIInv ==
    ASSUME IInv, Connect
    PROVE  IInv'
<1>1. Records'
  BY DEF Connect, IInv, Records, IsSession
<1>2. Digests'
  BY DEF Connect, IInv, Records, Digests
<1>3. SameSession
  BY DEF Connect, SameSession, IInv, Records
<1> QED
  BY <1>1, <1>2, <1>3, SameSessionIInv

\* It is lost.
LEMMA DisconnectIInv ==
    ASSUME IInv, Disconnect
    PROVE  IInv'
<1>1. Records'
  BY DEF Disconnect, IInv, Records, IsSession
<1>2. Digests'
  BY DEF Disconnect, IInv, Records, Digests
<1>3. SameSession
  BY DEF Disconnect, SameSession, IInv, Records
<1> QED
  BY <1>1, <1>2, <1>3, SameSessionIInv

\* A teardown closes the session.
LEMMA DownStartsIInv ==
    ASSUME IInv, NEW event, DownStarts(event)
    PROVE  IInv'
<1>1. Records'
  BY DEF DownStarts, Found, IInv, Records, IsSession
<1>2. WorkerPlaces'
  BY DEF DownStarts, Found, IInv, Records, IsSession, WorkerPlaces, NoMsg
<1>3. Sids'
  BY DEF DownStarts, Found, IInv, Records, IsSession, WorkerPlaces, Sids
<1>4. Digests'
  BY DEF DownStarts, Found, IInv, Records, IsSession, WorkerPlaces, Digests
<1>5. Owed'
  BY DEF DownStarts, Found, IInv, Records, IsSession, WorkerPlaces, Owed
<1>6. AbortedNeverBoots'
  BY DEF DownStarts, Found, IInv, Records, IsSession, AbortedNeverBoots
<1>7. Idle' /\ Left'
  BY DEF DownStarts, Found, IInv, Records, IsSession, WorkerPlaces,
     Idle, Left, NoWork, NoMsg
<1> QED
  BY <1>1, <1>2, <1>3, <1>4, <1>5, <1>6, <1>7 DEF IInv

\* It empties the queue.
LEMMA DownDrainsIInv ==
    ASSUME IInv, DownDrains
    PROVE  IInv'
<1>1. Records'
  BY DEF DownDrains, netVars, IInv, Records, IsSession
<1>2. Digests'
  BY DEF DownDrains, netVars, IInv, Records, Digests
<1>3. SameSession
  BY DEF DownDrains, netVars, SameSession, IInv, Records
<1> QED
  BY <1>1, <1>2, <1>3, SameSessionIInv

\* It clears the session once the worker has left.
LEMMA DownClearsIInv ==
    ASSUME IInv, DownClears
    PROVE  IInv'
<1>1. Records'
  BY DEF DownClears, netVars, TornDown, ClearState, WorkerFinish, AbortOta, IInv,
     Records, IsSession
<1>2. WorkerPlaces'
  BY DEF DownClears, netVars, TornDown, ClearState, WorkerFinish, AbortOta, IInv,
     Records, IsSession, WorkerPlaces, NoMsg
<1>3. Sids'
  BY DEF DownClears, netVars, TornDown, ClearState, WorkerFinish, AbortOta, IInv,
     Records, IsSession, WorkerPlaces, Sids
<1>4. Digests'
  BY DEF DownClears, netVars, TornDown, ClearState, WorkerFinish, AbortOta, IInv,
     Records, IsSession, WorkerPlaces, Digests
<1>5. Owed'
  BY DEF DownClears, netVars, TornDown, ClearState, WorkerFinish, AbortOta, IInv,
     Records, IsSession, WorkerPlaces, Owed
<1>6. AbortedNeverBoots'
  BY DEF DownClears, netVars, TornDown, ClearState, WorkerFinish, AbortOta, IInv,
     Records, IsSession, AbortedNeverBoots
<1>7. Idle' /\ Left'
  BY DEF DownClears, netVars, TornDown, ClearState, WorkerFinish, AbortOta, IInv,
     Records, IsSession, WorkerPlaces, Idle, Left, NoWork, NoMsg
<1> QED
  BY <1>1, <1>2, <1>3, <1>4, <1>5, <1>6, <1>7 DEF IInv

\* It is over.
LEMMA DownEndsIInv ==
    ASSUME IInv, DownEnds
    PROVE  IInv'
<1>1. Records'
  BY DEF DownEnds, IInv, Records, IsSession
<1>2. Digests'
  BY DEF DownEnds, IInv, Records, Digests
<1>3. SameSession
  BY DEF DownEnds, SameSession, IInv, Records
<1> QED
  BY <1>1, <1>2, <1>3, SameSessionIInv

\* The link is closed.
LEMMA CloseIInv ==
    ASSUME IInv, Close
    PROVE  IInv'
<1>1. Records'
  BY DEF Close, IInv, Records, IsSession
<1>2. Digests'
  BY DEF Close, IInv, Records, Digests
<1>3. SameSession
  BY DEF Close, SameSession, IInv, Records
<1> QED
  BY <1>1, <1>2, <1>3, SameSessionIInv

------------------------------------------------------------------------------
(* What this says of the device *)

\* Every step keeps it.
LEMMA NextIInv == IInv /\ [Next]_vars => IInv'
<1> SUFFICES ASSUME IInv, [Next]_vars PROVE IInv'
  OBVIOUS
<1>1. CASE HostStep
  BY <1>1, HostStartIInv, HostStartedIInv, HostSendIInv, HostAckedIInv, HostFinishIInv,
     HostCompletedIInv, HostFailsIInv DEF HostStep
<1>2. CASE DeviceInput
  BY <1>2, RequestTakenIInv, DeviceStartIInv, DeviceFinishIInv, DeviceAbortIInv,
     DeviceDataIInv DEF DeviceInput
<1>3. CASE RxTake \/ RxProcess
  BY <1>3, RxTakeIInv, RxProcessIInv
<1>4. CASE WorkerStep
  BY <1>4, WorkerStopsIInv, WorkerTakeIInv, WorkerWriteIInv, WorkerFinishesIInv,
     WorkerVerifiesIInv, WorkerChecksIInv, WorkerBootsIInv, WorkerRepliesIInv,
     WorkerExitsIInv DEF WorkerStep
<1>5. CASE Connect \/ Disconnect \/ DownStarts("error") \/ DownStarts("down") \/ Close
  BY <1>5, ConnectIInv, DisconnectIInv, DownStartsIInv, CloseIInv
<1>6. CASE DownStep
  BY <1>6, DownDrainsIInv, DownClearsIInv, DownEndsIInv DEF DownStep
<1>7. CASE UNCHANGED vars
  <2>1. Records' /\ Digests' /\ SameSession
    BY <1>7 DEF vars, IInv, Records, Digests, SameSession
  <2> QED
    BY <2>1, SameSessionIInv
<1> QED
  BY <1>1, <1>2, <1>3, <1>4, <1>5, <1>6, <1>7 DEF Next

\* It holds throughout.
LEMMA SpecIInv == Spec => []IInv
  BY InitIInv, NextIInv, PTL DEF Spec

\* Only a whole image of one upload is ever selected for boot: esp_ota_end and
\* esp_ota_set_boot_partition are reached with flash holding exactly what the
\* accepted digest was computed over.
THEOREM OtaBootsWhole == Spec => []BootsWhole
<1>1. IInv => BootsWhole
  BY DEF IInv, Digests, Images, BootsWhole
<1> QED
  BY <1>1, SpecIInv, PTL

\* An ABORT that was accepted keeps its image from being booted, whichever step of
\* the worker it falls on.
THEOREM OtaAbortedNeverBoots == Spec => []AbortedNeverBoots
<1>1. IInv => AbortedNeverBoots
  BY DEF IInv
<1> QED
  BY <1>1, SpecIInv, PTL

\* Every FINISH taken on is answered at most once, by the verification or by the
\* end of the worker.
THEOREM OtaFinishAnsweredOnce == Spec => []FinishAnsweredOnce
<1>1. IInv => FinishAnsweredOnce
  BY DEF IInv, Owed, FinishAnsweredOnce
<1> QED
  BY <1>1, SpecIInv, PTL

------------------------------------------------------------------------------
(* Where the requests for chunks are, and what a session does with one *)

DataMsgs ==
    [kind : {"data"}, link : 0 .. MaxLinks, seq : Nat, sid : Nat, c : Offsets,
     u : 1 .. MaxUploads]
Pieces == [c : Offsets, u : 1 .. MaxUploads]

\* A nonempty set of numbers has a least one: what an induction needs.
LEMMA LeastNumber ==
    ASSUME NEW S \in SUBSET Nat, S # {}
    PROVE  \E m \in S : \A k \in S : m <= k
<1> DEFINE R == OpToRel(<, Nat)
<1>1. IsWellFoundedOn(R, Nat)
  BY NatLessThanWellFounded, Zenon
<1>2. \A x, y \in Nat : x < y => <<x, y>> \in R
  BY DEF OpToRel
<1> HIDE DEF R
<1>3. PICK x \in S : \A y \in S : ~(<<y, x>> \in R)
  BY <1>1, WFMin
<1>4. \A y \in S : ~(y < x)
  BY <1>2, <1>3
<1> QED
  BY <1>4

\* The chunk held for an offset is held and has that offset.
LEMMA TheHeldIs ==
    ASSUME NEW s, NEW c, HeldAt(s, c) # {}
    PROVE  TheHeld(s, c) \in s.holds /\ TheHeld(s, c).c = c
  BY DEF HeldAt, TheHeld

\* The n chunks that data_holds_drain takes out, and what they are in the ring.
Run(r, n) == r.s.received .. r.s.received + n - 1
Chain(r, n) ==
    [i \in 1 .. n |-> [c |-> r.s.received + i - 1, u |-> TheHeld(r.s, r.s.received + i - 1).u]]

\* Draining n held chunks, field by field.
LEMMA DrainedIs ==
    ASSUME NEW r, NEW n, IsSession(r.s)
    PROVE  /\ Drained(r, n).s.holds = {h \in r.s.holds : h.c \notin Run(r, n)}
           /\ Drained(r, n).s.ring = r.s.ring \o Chain(r, n)
           /\ Drained(r, n).s.received = r.s.received + n
           /\ Drained(r, n).s.queued = r.s.queued + n
           /\ Drained(r, n).answers =
                r.answers \cup {[seq |-> TheHeld(r.s, c).seq, status |-> "ok"] : c \in Run(r, n)}
           /\ IsSession(Drained(r, n).s) /\ Kept(Drained(r, n).s, r.s)
<1>1. IsSession(Drained(r, n).s) /\ Kept(Drained(r, n).s, r.s)
  BY DrainedKeeps
<1>2. Drained(r, n).answers =
         r.answers \cup {[seq |-> TheHeld(r.s, c).seq, status |-> "ok"] : c \in Run(r, n)}
  BY DEF Drained, Outcome, Run
<1>3. Drained(r, n).s =
         [r.s EXCEPT !.holds = {h \in @ : h.c \notin Run(r, n)}, !.ring = @ \o Chain(r, n),
                     !.queued = @ + n, !.received = @ + n]
  BY DEF Drained, Outcome, Run, Chain
<1> QED
  BY <1>1, <1>2, <1>3 DEF IsSession

\* A step of the drain takes a held chunk and finds room for it.
LEMMA DrainsOnIs ==
    ASSUME NEW r, NEW n \in Nat, IsSession(r.s), r.s.received \in Nat, DrainsOn(r, n),
           r.s.ring \in Seq(Pieces)
    PROVE  /\ HeldAt(r.s, r.s.received + n) # {}
           /\ Len(r.s.ring \o Chain(r, n)) < RingSlots
<1>1. HeldAt(Drained(r, n).s, r.s.received + n) # {}
  BY DrainedIs DEF DrainsOn
<1>2. PICK h \in Drained(r, n).s.holds : h.c = r.s.received + n
  BY <1>1 DEF HeldAt
<1>3. h \in r.s.holds
  BY <1>2, DrainedIs
<1>4. ~(Len(r.s.ring \o Chain(r, n)) >= RingSlots)
  BY DrainedIs DEF DrainsOn, RingFull
<1>5. Len(r.s.ring \o Chain(r, n)) \in Nat /\ RingSlots \in Nat
  <2>1. Chain(r, n) \in Seq({Chain(r, n)[i] : i \in 1 .. n})
    BY DEF Chain
  <2> QED
    BY <2>1, SessionConstants
<1> QED
  BY <1>2, <1>3, <1>4, <1>5 DEF HeldAt

\* The drain stops, for it takes a held chunk each time.
LEMMA DrainStops ==
    ASSUME NEW r, IsSession(r.s), r.s.received \in Nat, r.s.ring \in Seq(Pieces),
           IsFiniteSet(r.s.holds), Cardinality(r.s.holds) <= HoldSlots
    PROVE  \E k \in 0 .. HoldSlots :
                ~DrainsOn(r, k) /\ \A i \in 0 .. k - 1 : DrainsOn(r, i)
<1> DEFINE S == {k \in 0 .. HoldSlots : ~DrainsOn(r, k)}
           first == r.s.received
<1>0. HoldSlots \in Nat /\ Cardinality(r.s.holds) \in Nat
  BY SessionConstants, FS_CardinalityType
<1>1. S # {}
  <2> SUFFICES ASSUME \A k \in 0 .. HoldSlots : DrainsOn(r, k)
               PROVE  FALSE
    OBVIOUS
  <2> DEFINE f == [k \in 0 .. HoldSlots |-> TheHeld(r.s, first + k)]
  <2>1. \A k \in 0 .. HoldSlots : HeldAt(r.s, first + k) # {}
    BY <1>0, DrainsOnIs
  <2>2. \A k \in 0 .. HoldSlots : f[k] \in r.s.holds /\ f[k].c = first + k
    BY <2>1, TheHeldIs
  <2>3. f \in [0 .. HoldSlots -> r.s.holds]
    BY <2>2
  <2>4. IsFiniteSet(0 .. HoldSlots) /\ Cardinality(0 .. HoldSlots) = HoldSlots + 1
    BY <1>0, FS_Interval
  <2> HIDE DEF f
  <2> DEFINE K == 0 .. HoldSlots
  <2>5. Cardinality(r.s.holds) < Cardinality(K)
    BY <1>0, <2>4
  <2>6. IsFiniteSet(K) /\ f \in [K -> r.s.holds]
    BY <2>3, <2>4
  <2> HIDE DEF K
  <2>7. PICK x, y \in K : x # y /\ f[x] = f[y]
    BY <2>5, <2>6, FS_PigeonHole
  <2> USE DEF K
  <2> QED
    BY <2>2, <2>7
<1>2. S \in SUBSET Nat
  BY <1>0
<1>3. PICK k \in S : \A i \in S : k <= i
  BY <1>1, <1>2, LeastNumber
<1>4. \A i \in 0 .. k - 1 : i \in 0 .. HoldSlots /\ i \notin S
  BY <1>0, <1>2, <1>3
<1> QED
  BY <1>3, <1>4

\* What a DATA request may do (ota_rx_process_msg): chunks of it and of the held
\* ones follow on what was received, those answered are D, and "ok" is only said of
\* one that was received or is held already.
Receipt(s, m, r) ==
    \E new \in Seq(Pieces), D \in SUBSET ({m} \cup s.holds) : \E f \in [D -> Statuses] :
        /\ r.answers = {[seq |-> d.seq, status |-> f[d]] : d \in D}
        /\ \A d \in D : d \in r.s.holds => d = m /\ m \in s.holds
        /\ \A d \in D : f[d] = "ok" =>
              d.c < r.s.received \/ (d = m /\ \E h \in s.holds : h.c = m.c)
        /\ r.s.holds \subseteq {m} \cup s.holds
        /\ r.s.ring = s.ring \o new /\ r.s.received = s.received + Len(new)
        /\ r.s.queued = s.queued + Len(new)
        /\ \A i \in 1 .. Len(new) : \E d \in {m} \cup s.holds :
              d.c = s.received + i - 1 /\ new[i] = [c |-> d.c, u |-> d.u]
        /\ Len(r.s.ring) <= RingSlots
        /\ IsFiniteSet(r.s.holds) /\ Cardinality(r.s.holds) <= HoldSlots

\* The session as far as chunks go.
Holding(s) ==
    /\ IsSession(s) /\ s.received \in 0 .. Chunks /\ s.queued \in Int
    /\ s.ring \in Seq(Pieces) /\ Len(s.ring) <= RingSlots
    /\ s.holds \in SUBSET DataMsgs /\ IsFiniteSet(s.holds) /\ Cardinality(s.holds) <= HoldSlots

\* A request answered at once.
LEMMA AnswersAlone ==
    ASSUME NEW s, NEW m \in DataMsgs, NEW st \in Statuses, Holding(s),
           st = "ok" => m.c < s.received \/ \E h \in s.holds : h.c = m.c
    PROVE  Receipt(s, m, Outcome(s, Answer(m, st)))
<1> DEFINE D == {m}
           f == [d \in D |-> st]
           r == Outcome(s, Answer(m, st))
<1>1. r.s = s /\ r.answers = {[seq |-> d.seq, status |-> f[d]] : d \in D}
  BY DEF Outcome, Answer
<1>2. <<>> \in Seq(Pieces) /\ s.ring = s.ring \o <<>> /\ Len(<<>>) = 0
  BY ConcatProperties, EmptySeq DEF Holding
<1>3. D \in SUBSET ({m} \cup s.holds) /\ f \in [D -> Statuses]
  OBVIOUS
<1>4. \A d \in D : f[d] = st /\ d = m
  OBVIOUS
<1>5. s.received = s.received + Len(<<>>) /\ s.queued = s.queued + Len(<<>>)
  BY <1>2 DEF Holding
<1> HIDE DEF r, f, D
<1>6. /\ r.answers = {[seq |-> d.seq, status |-> f[d]] : d \in D}
      /\ \A d \in D : d \in r.s.holds => d = m /\ m \in s.holds
      /\ \A d \in D : f[d] = "ok" =>
            d.c < r.s.received \/ (d = m /\ \E h \in s.holds : h.c = m.c)
      /\ r.s.holds \subseteq {m} \cup s.holds
  BY <1>1, <1>4
<1>7. /\ r.s.ring = s.ring \o <<>> /\ r.s.received = s.received + Len(<<>>)
      /\ r.s.queued = s.queued + Len(<<>>)
      /\ \A i \in 1 .. Len(<<>>) : \E d \in {m} \cup s.holds :
            d.c = s.received + i - 1 /\ <<>>[i] = [c |-> d.c, u |-> d.u]
      /\ Len(r.s.ring) <= RingSlots
      /\ IsFiniteSet(r.s.holds) /\ Cardinality(r.s.holds) <= HoldSlots
  BY <1>1, <1>2, <1>5 DEF Holding
<1>8. Receipt(s, m, r)
  BY <1>2, <1>3, <1>6, <1>7 DEF Receipt
<1> QED
  BY <1>8 DEF r

\* A request held back.
LEMMA HeldBack ==
    ASSUME NEW s, NEW m \in DataMsgs, Holding(s), Cardinality(s.holds) < HoldSlots
    PROVE  Receipt(s, m, Outcome([s EXCEPT !.holds = @ \cup {m}], {}))
<1> DEFINE f == [d \in {} |-> "ok"]
           r == Outcome([s EXCEPT !.holds = @ \cup {m}], {})
<1>1. /\ r.s.holds = s.holds \cup {m} /\ r.s.ring = s.ring
      /\ r.s.received = s.received /\ r.s.queued = s.queued /\ r.answers = {}
  BY DEF Outcome, Holding, IsSession
<1>2. <<>> \in Seq(Pieces) /\ s.ring = s.ring \o <<>> /\ Len(<<>>) = 0
  BY ConcatProperties, EmptySeq DEF Holding
<1>3. f \in [{} -> Statuses] /\ {} = {[seq |-> d.seq, status |-> f[d]] : d \in {}}
  OBVIOUS
<1>4. IsFiniteSet(r.s.holds) /\ Cardinality(r.s.holds) <= HoldSlots
  <2>1. /\ IsFiniteSet(s.holds \cup {m})
        /\ Cardinality(s.holds \cup {m}) \in {Cardinality(s.holds), Cardinality(s.holds) + 1}
    BY FS_AddElement DEF Holding
  <2>2. Cardinality(s.holds) \in Nat /\ HoldSlots \in Nat
    BY FS_CardinalityType, SessionConstants DEF Holding
  <2>3. \A n, k, b \in Nat : n < b /\ k \in {n, n + 1} => k <= b
    OBVIOUS
  <2>4. Cardinality(s.holds \cup {m}) <= HoldSlots
    BY <2>1, <2>2, <2>3
  <2>5. r.s.holds = s.holds \cup {m}
    BY <1>1
  <2> HIDE DEF r
  <2> QED
    BY <2>1, <2>4, <2>5
<1>5. s.received = s.received + Len(<<>>) /\ s.queued = s.queued + Len(<<>>)
  BY <1>2 DEF Holding
<1> HIDE DEF r, f
<1>6. /\ r.answers = {[seq |-> d.seq, status |-> f[d]] : d \in {}}
      /\ r.s.holds \subseteq {m} \cup s.holds
      /\ r.s.ring = s.ring \o <<>> /\ r.s.received = s.received + Len(<<>>)
      /\ r.s.queued = s.queued + Len(<<>>)
      /\ Len(r.s.ring) <= RingSlots
  BY <1>1, <1>2, <1>3, <1>5 DEF Holding
<1>7. {} \in SUBSET ({m} \cup s.holds) /\ \A i \in 1 .. Len(<<>>) : FALSE
  BY <1>2
<1>8. Receipt(s, m, r)
  BY <1>2, <1>3, <1>4, <1>6, <1>7 DEF Receipt
<1> QED
  BY <1>8 DEF r

\* A run of n held chunks: each is held, at the offset that is its turn, and there
\* is room for all.
LEMMA RunIs ==
    ASSUME NEW r, NEW n \in Nat, Holding(r.s), \A i \in 0 .. n - 1 : DrainsOn(r, i)
    PROVE  /\ \A c \in Run(r, n) : TheHeld(r.s, c) \in r.s.holds /\ TheHeld(r.s, c).c = c
           /\ Chain(r, n) \in Seq(Pieces) /\ Len(Chain(r, n)) = n
           /\ Len(r.s.ring \o Chain(r, n)) <= RingSlots
<1>0. r.s.received \in Nat /\ IsSession(r.s) /\ r.s.ring \in Seq(Pieces)
  BY SessionConstants DEF Holding
<1>1. \A i \in 0 .. n - 1 : HeldAt(r.s, r.s.received + i) # {}
  BY <1>0, DrainsOnIs
<1>2. \A c \in Run(r, n) : c - r.s.received \in 0 .. n - 1 /\ r.s.received + (c - r.s.received) = c
  BY <1>0 DEF Run
<1>3. \A c \in Run(r, n) : HeldAt(r.s, c) # {}
  BY <1>1, <1>2
<1>4. \A c \in Run(r, n) : TheHeld(r.s, c) \in r.s.holds /\ TheHeld(r.s, c).c = c
  BY <1>3, TheHeldIs
<1>5. \A i \in 1 .. n : r.s.received + i - 1 \in Run(r, n)
  BY <1>0 DEF Run
<1>6. Chain(r, n) \in Seq(Pieces) /\ Len(Chain(r, n)) = n
  <2>1. \A i \in 1 .. n : Chain(r, n)[i] \in Pieces
    <3> TAKE i \in 1 .. n
    <3> DEFINE c == r.s.received + i - 1
    <3>1. c \in Run(r, n)
      BY <1>5
    <3>2. Chain(r, n)[i] = [c |-> c, u |-> TheHeld(r.s, c).u]
      BY DEF Chain
    <3> HIDE DEF c
    <3>3. TheHeld(r.s, c) \in DataMsgs /\ TheHeld(r.s, c).c = c
      BY <3>1, <1>4 DEF Holding
    <3> QED
      BY <3>2, <3>3 DEF DataMsgs, Pieces
  <2>2. Chain(r, n) \in [1 .. n -> Pieces]
    BY <2>1 DEF Chain
  <2> HIDE DEF Chain
  <2> QED
    BY <2>2
<1>7. Len(r.s.ring \o Chain(r, n)) <= RingSlots
  <2>1. Len(r.s.ring \o Chain(r, n)) = Len(r.s.ring) + n
    BY <1>0, <1>6, ConcatProperties
  <2>2. CASE n = 0
    BY <2>1, <2>2, <1>0, LenProperties DEF Holding
  <2>3. CASE n # 0
    <3>1. n - 1 \in Nat /\ n - 1 \in 0 .. n - 1
      BY <2>3
    <3>2. Len(r.s.ring \o Chain(r, n - 1)) < RingSlots
      BY <3>1, <1>0, DrainsOnIs
    <3>3. Chain(r, n - 1) \in [1 .. n - 1 -> Pieces]
      <4>1. \A i \in 1 .. n - 1 : Chain(r, n - 1)[i] = Chain(r, n)[i]
        BY <3>1 DEF Chain
      <4>2. \A i \in 1 .. n - 1 : Chain(r, n)[i] \in Pieces
        BY <1>6, <3>1, ElementOfSeq
      <4> QED
        BY <4>1, <4>2 DEF Chain
    <3>4. Len(r.s.ring \o Chain(r, n - 1)) = Len(r.s.ring) + (n - 1)
      <4> DEFINE q == Chain(r, n - 1)
                 k == n - 1
      <4>1. k \in Nat /\ q \in [1 .. k -> Pieces]
        BY <3>1, <3>3
      <4> HIDE DEF q, k
      <4>2. q \in Seq(Pieces) /\ Len(q) = k
        BY <4>1
      <4>3. Len(r.s.ring \o q) = Len(r.s.ring) + k
        BY <4>2, <1>0, ConcatProperties
      <4> USE DEF q, k
      <4> QED
        BY <4>3
    <3>5. Len(r.s.ring) \in Nat /\ RingSlots \in Nat
      BY <1>0, SessionConstants, LenProperties
    <3>6. Len(r.s.ring) + (n - 1) < RingSlots
      BY <3>2, <3>4
    <3>7. Len(r.s.ring) + n <= RingSlots
      BY <3>5, <3>6
    <3> QED
      BY <2>1, <3>7
  <2> QED
    BY <2>2, <2>3
<1> QED
  BY <1>4, <1>6, <1>7

\* The drain takes such a run, and drops the chunk it could not apply.
LEMMA DrainHoldsIs ==
    ASSUME NEW r, Holding(r.s)
    PROVE  \E n \in Nat :
             /\ \A i \in 0 .. n - 1 : DrainsOn(r, i)
             /\ \/ DrainHolds(r) = Drained(r, n)
                \/ LET s == Drained(r, n).s
                   IN  /\ HeldAt(s, s.received) # {}
                       /\ \E st \in {"busy", "refused"} :
                            DrainHolds(r) =
                                Outcome([s EXCEPT !.holds = @ \ HeldAt(s, s.received)],
                                        Drained(r, n).answers
                                            \cup Answer(TheHeld(s, s.received), st))
<1> DEFINE n == CHOOSE k \in 0 .. HoldSlots :
                   ~DrainsOn(r, k) /\ \A i \in 0 .. k - 1 : DrainsOn(r, i)
           s == Drained(r, n).s
           h == TheHeld(s, s.received)
<1>1. n \in 0 .. HoldSlots /\ ~DrainsOn(r, n) /\ \A i \in 0 .. n - 1 : DrainsOn(r, i)
  <2>1. \E k \in 0 .. HoldSlots : ~DrainsOn(r, k) /\ \A i \in 0 .. k - 1 : DrainsOn(r, i)
    BY DrainStops, SessionConstants DEF Holding
  <2> QED
    BY <2>1
<1>2. n \in Nat
  BY <1>1, SessionConstants
<1>3. DrainHolds(r) =
        IF HeldAt(s, s.received) = {} THEN Drained(r, n)
        ELSE Outcome([s EXCEPT !.holds = @ \ HeldAt(s, s.received)],
                     Drained(r, n).answers \cup ApplyChunk(s, h).answers)
  BY DEF DrainHolds
<1>4. HeldAt(s, s.received) = {} \/ ~Applicable(s) \/ RingFull(s)
  BY <1>1 DEF DrainsOn
<1> HIDE DEF n, s, h
<1>5. ~Applicable(s) \/ RingFull(s) =>
        \E st \in {"busy", "refused"} : ApplyChunk(s, h).answers = Answer(h, st)
  BY DEF ApplyChunk, Outcome
<1>6. CASE HeldAt(s, s.received) = {}
  <2>1. DrainHolds(r) = Drained(r, n)
    BY <1>3, <1>6
  <2> QED
    BY <1>1, <1>2, <2>1
<1>7. CASE HeldAt(s, s.received) # {}
  <2>1. PICK st \in {"busy", "refused"} : ApplyChunk(s, h).answers = Answer(h, st)
    BY <1>4, <1>5, <1>7
  <2>2. DrainHolds(r) = Outcome([s EXCEPT !.holds = @ \ HeldAt(s, s.received)],
                                 Drained(r, n).answers \cup Answer(h, st))
    BY <1>3, <1>7, <2>1
  <2> QED
    BY <1>1, <1>2, <1>7, <2>1, <2>2 DEF s, h
<1> QED
  BY <1>6, <1>7

\* An element at the end of one sequence is as good as at the start of the next.
LEMMA AppendThen ==
    ASSUME NEW S, NEW a \in Seq(S), NEW e \in S, NEW b \in Seq(S)
    PROVE  Append(a, e) \o b = a \o (<<e>> \o b)
<1> DEFINE x == Append(a, e) \o b
           y == a \o (<<e>> \o b)
<1>1. Append(a, e) \in Seq(S) /\ Len(Append(a, e)) = Len(a) + 1 /\ <<e>> \in Seq(S)
  OBVIOUS
<1>2. x \in Seq(S) /\ Len(x) = Len(a) + 1 + Len(b)
  BY <1>1, ConcatProperties
<1>3. <<e>> \o b \in Seq(S) /\ Len(<<e>> \o b) = 1 + Len(b)
  BY <1>1, ConcatProperties
<1>4. y \in Seq(S) /\ Len(y) = Len(a) + (1 + Len(b))
  BY <1>3, ConcatProperties
<1>5. Len(a) \in Nat /\ Len(b) \in Nat
  BY LenProperties
<1>6. \A i \in 1 .. Len(x) : x[i] = y[i]
  <2> TAKE i \in 1 .. Len(x)
  <2>1. x[i] = IF i <= Len(a) + 1 THEN Append(a, e)[i] ELSE b[i - (Len(a) + 1)]
    BY <1>1, <1>2, <1>5, ConcatProperties
  <2>2. y[i] = IF i <= Len(a) THEN a[i] ELSE (<<e>> \o b)[i - Len(a)]
    BY <1>2, <1>3, <1>4, <1>5, ConcatProperties
  <2>3. i - Len(a) \in 1 .. 1 + Len(b) =>
           (<<e>> \o b)[i - Len(a)] = IF i - Len(a) <= 1 THEN e ELSE b[i - Len(a) - 1]
    BY <1>1, <1>5, ConcatProperties
  <2> QED
    BY <2>1, <2>2, <2>3, <1>2, <1>5
<1> HIDE DEF x, y
<1>7. x = y
  <2>1. Len(x) = Len(y)
    BY <1>2, <1>4, <1>5
  <2> QED
    BY <1>2, <1>4, <1>6, <2>1, SeqEqual
<1> QED
  BY <1>7 DEF x, y

\* The chunk whose turn it is goes to the ring, and the held ones that follow with it.
Applied(s, m) ==
    Outcome([s EXCEPT !.ring = Append(@, [c |-> m.c, u |-> m.u]),
                      !.queued = @ + 1, !.received = @ + 1],
            Answer(m, "ok"))

\* That leaves a session DATA requests may be received in, one chunk further.
LEMMA AppliedIs ==
    ASSUME NEW s, NEW m \in DataMsgs, Holding(s), m.c = s.received, ~RingFull(s)
    PROVE  /\ Holding(Applied(s, m).s)
           /\ Applied(s, m).s.holds = s.holds
           /\ Applied(s, m).s.ring = Append(s.ring, [c |-> m.c, u |-> m.u])
           /\ [c |-> m.c, u |-> m.u] \in Pieces
           /\ Applied(s, m).s.received = s.received + 1
           /\ Applied(s, m).s.queued = s.queued + 1
           /\ Applied(s, m).answers = Answer(m, "ok")
<1> DEFINE p == [c |-> m.c, u |-> m.u]
           a == Applied(s, m)
<1>1. p \in Pieces /\ m.c \in Offsets
  BY DEF DataMsgs, Pieces
<1>2. /\ IsSession(a.s) /\ a.s.holds = s.holds /\ a.s.ring = Append(s.ring, p)
      /\ a.s.received = s.received + 1 /\ a.s.queued = s.queued + 1
      /\ a.answers = Answer(m, "ok")
  BY DEF Applied, Outcome, IsSession, Holding
<1> HIDE DEF a
<1>3. Append(s.ring, p) \in Seq(Pieces) /\ Len(Append(s.ring, p)) = Len(s.ring) + 1
  BY <1>1 DEF Holding
<1>4. Len(s.ring) \in Nat /\ RingSlots \in Nat /\ ~(Len(s.ring) >= RingSlots)
  BY SessionConstants, LenProperties DEF Holding, RingFull
<1>5. Len(s.ring) + 1 <= RingSlots
  BY <1>4
<1>6. s.received + 1 \in 0 .. Chunks /\ s.queued + 1 \in Int
  BY <1>1, SessionConstants DEF Offsets, Holding
<1>7. Holding(a.s)
  BY <1>2, <1>3, <1>5, <1>6 DEF Holding
<1> QED
  BY <1>1, <1>2, <1>7 DEF a

\* A chunk whose turn it is extends the stream, and so do the held ones after it.
LEMMA AppliedDrains ==
    ASSUME NEW s, NEW m \in DataMsgs, Holding(s), m.c = s.received, ~RingFull(s)
    PROVE  Receipt(s, m, DrainHolds(Applied(s, m)))
<1> DEFINE a == Applied(s, m)
           p == [c |-> m.c, u |-> m.u]
           r == DrainHolds(a)
<1>1. /\ Holding(a.s) /\ a.s.holds = s.holds /\ a.s.ring = Append(s.ring, p)
      /\ a.s.received = s.received + 1 /\ a.s.queued = s.queued + 1
      /\ a.answers = Answer(m, "ok") /\ p \in Pieces
  BY AppliedIs
<1>2. PICK n \in Nat :
         /\ \A i \in 0 .. n - 1 : DrainsOn(a, i)
         /\ \/ r = Drained(a, n)
            \/ LET t == Drained(a, n).s
               IN  /\ HeldAt(t, t.received) # {}
                   /\ \E st \in {"busy", "refused"} :
                        r = Outcome([t EXCEPT !.holds = @ \ HeldAt(t, t.received)],
                                    Drained(a, n).answers
                                        \cup Answer(TheHeld(t, t.received), st))
  BY <1>1, DrainHoldsIs
<1> DEFINE run == Run(a, n)
           H == {TheHeld(a.s, c) : c \in run}
           t == Drained(a, n).s
<1>3. IsSession(a.s)
  BY <1>1 DEF Holding
<1>4. /\ \A c \in run : TheHeld(a.s, c) \in s.holds /\ TheHeld(a.s, c).c = c
      /\ Chain(a, n) \in Seq(Pieces) /\ Len(Chain(a, n)) = n
      /\ Len(a.s.ring \o Chain(a, n)) <= RingSlots
  BY <1>1, <1>2, RunIs
<1>5. /\ t.holds = {h \in s.holds : h.c \notin run}
      /\ t.ring = a.s.ring \o Chain(a, n)
      /\ t.received = a.s.received + n /\ t.queued = a.s.queued + n
      /\ Drained(a, n).answers =
            Answer(m, "ok") \cup {[seq |-> TheHeld(a.s, c).seq, status |-> "ok"] : c \in run}
      /\ IsSession(t)
  <2>1. /\ t.holds = {h \in a.s.holds : h.c \notin run}
        /\ t.ring = a.s.ring \o Chain(a, n)
        /\ t.received = a.s.received + n /\ t.queued = a.s.queued + n
        /\ IsSession(t)
    BY <1>3, DrainedIs
  <2>2. Drained(a, n).answers =
            a.answers \cup {[seq |-> TheHeld(a.s, c).seq, status |-> "ok"] : c \in run}
    BY <1>3, DrainedIs
  <2> HIDE DEF a, t, run
  <2>3. t.holds = {h \in s.holds : h.c \notin run}
    BY <1>1, <2>1
  <2>4. Drained(a, n).answers =
            Answer(m, "ok") \cup {[seq |-> TheHeld(a.s, c).seq, status |-> "ok"] : c \in run}
    BY <1>1, <2>2
  <2> QED
    BY <2>1, <2>3, <2>4
<1> HIDE DEF a, r, run, t
<1>6. \E X \in SUBSET s.holds, st \in {"busy", "refused"} :
         /\ \A x \in X : x.c = t.received
         /\ r.s.holds = t.holds \ X \/ r.s.holds = t.holds \ HeldAt(t, t.received)
         /\ \A x \in X : x \notin r.s.holds
         /\ r.s.ring = t.ring /\ r.s.received = t.received /\ r.s.queued = t.queued
         /\ r.answers = Drained(a, n).answers \cup {[seq |-> x.seq, status |-> st] : x \in X}
  <2>1. CASE r = Drained(a, n)
    <3>1. r.s = t /\ r.answers = Drained(a, n).answers
      BY <2>1 DEF t
    <3>2. {} \in SUBSET s.holds /\ \A x \in {} : FALSE
      OBVIOUS
    <3>3. r.s.holds = t.holds \ {}
      BY <3>1
    <3>4. r.answers = Drained(a, n).answers \cup {[seq |-> x.seq, status |-> "busy"] : x \in {}}
      BY <3>1
    <3> QED
      BY <3>1, <3>2, <3>3, <3>4
  <2>2. CASE ~(r = Drained(a, n))
    <3> DEFINE h == TheHeld(t, t.received)
    <3>1. HeldAt(t, t.received) # {}
      BY <1>2, <2>2 DEF t
    <3>2. PICK st \in {"busy", "refused"} :
             r = Outcome([t EXCEPT !.holds = @ \ HeldAt(t, t.received)],
                         Drained(a, n).answers \cup Answer(h, st))
      BY <1>2, <2>2 DEF t
    <3>3. h \in t.holds /\ h.c = t.received
      BY <3>1, TheHeldIs
    <3> HIDE DEF h
    <3>4. /\ r.s.holds = t.holds \ HeldAt(t, t.received) /\ r.s.ring = t.ring
          /\ r.s.received = t.received /\ r.s.queued = t.queued
          /\ r.answers = Drained(a, n).answers \cup Answer(h, st)
      BY <3>2, <1>5 DEF Outcome, IsSession
    <3>5. Answer(h, st) = {[seq |-> x.seq, status |-> st] : x \in {h}}
      BY DEF Answer
    <3>6. h \notin r.s.holds /\ {h} \in SUBSET s.holds
      BY <3>3, <3>4, <1>5 DEF HeldAt
    <3>7. r.answers = Drained(a, n).answers \cup {[seq |-> x.seq, status |-> st] : x \in {h}}
      BY <3>4, <3>5
    <3> QED
      BY <3>3, <3>4, <3>6, <3>7
  <2> QED
    BY <2>1, <2>2
<1>7. PICK X \in SUBSET s.holds, st \in {"busy", "refused"} :
         /\ \A x \in X : x.c = t.received
         /\ r.s.holds = t.holds \ X \/ r.s.holds = t.holds \ HeldAt(t, t.received)
         /\ \A x \in X : x \notin r.s.holds
         /\ r.s.ring = t.ring /\ r.s.received = t.received /\ r.s.queued = t.queued
         /\ r.answers = Drained(a, n).answers \cup {[seq |-> x.seq, status |-> st] : x \in X}
  BY <1>6
<1> DEFINE new == <<p>> \o Chain(a, n)
           D == {m} \cup H \cup X
           f == [x \in D |-> IF x \in X THEN st ELSE "ok"]
<1>8. s.received \in Nat /\ s.queued \in Int /\ m.c \in Nat
  BY SessionConstants DEF Holding, DataMsgs, Offsets
<1>9. run = s.received + 1 .. s.received + n
  <2>1. run = a.s.received .. a.s.received + n - 1
    BY DEF run, Run
  <2>2. a.s.received = s.received + 1 /\ a.s.received + n - 1 = s.received + n
    BY <1>1, <1>8
  <2> QED
    BY <2>1, <2>2
<1>10. /\ t.received = s.received + 1 + n /\ t.received \notin run /\ s.received \notin run
  BY <1>1, <1>5, <1>8, <1>9
<1>11. H \subseteq s.holds /\ \A x \in H : x.c \in run
  BY <1>4 DEF a, run
<1>12. \A x \in X : x # m /\ x \notin H
  BY <1>7, <1>8, <1>10, <1>11
<1>13. D \in SUBSET ({m} \cup s.holds) /\ f \in [D -> Statuses]
  BY <1>11 DEF Statuses
<1>14. f[m] = "ok" /\ (\A x \in H : f[x] = "ok") /\ \A x \in X : f[x] = st
  BY <1>12
<1> HIDE DEF f, H, p
<1>15. r.answers = {[seq |-> d.seq, status |-> f[d]] : d \in D}
  <2>1. {[seq |-> TheHeld(a.s, c).seq, status |-> "ok"] : c \in run}
            = {[seq |-> x.seq, status |-> f[x]] : x \in H}
    BY <1>14 DEF H
  <2>2. Answer(m, "ok") = {[seq |-> x.seq, status |-> f[x]] : x \in {m}}
    BY <1>14 DEF Answer
  <2>3. {[seq |-> x.seq, status |-> st] : x \in X} = {[seq |-> x.seq, status |-> f[x]] : x \in X}
    BY <1>14
  <2> QED
    BY <1>5, <1>7, <2>1, <2>2, <2>3
<1>16. \A d \in D : d \in r.s.holds => d = m /\ m \in s.holds
  <2>1. r.s.holds \subseteq t.holds
    BY <1>7
  <2>2. \A x \in H : x \notin r.s.holds
    BY <1>5, <1>11, <2>1
  <2> QED
    BY <1>5, <1>7, <2>1, <2>2
<1>17. r.s.received = s.received + 1 + n /\ r.s.queued = s.queued + 1 + n
  BY <1>1, <1>5, <1>7, <1>8 DEF a
<1>18. \A d \in D : f[d] = "ok" => d.c < r.s.received
  <2>1. m.c < r.s.received
    BY <1>8, <1>17
  <2>2. \A x \in H : x.c < r.s.received
    BY <1>8, <1>9, <1>11, <1>17
  <2>3. \A x \in X : f[x] # "ok"
    BY <1>14
  <2> QED
    BY <2>1, <2>2, <2>3
<1>19. new \in Seq(Pieces) /\ Len(new) = 1 + n
  BY <1>1, <1>4, ConcatProperties
<1>20. r.s.ring = s.ring \o new
  <2>1. r.s.ring = Append(s.ring, p) \o Chain(a, n)
    BY <1>1, <1>5, <1>7 DEF a, p
  <2>2. s.ring \in Seq(Pieces) /\ p \in Pieces /\ Chain(a, n) \in Seq(Pieces)
    BY <1>1, <1>4 DEF Holding, p
  <2>3. Append(s.ring, p) = s.ring \o <<p>> /\ <<p>> \in Seq(Pieces)
    BY <2>2, AppendIsConcat
  <2> DEFINE q == Chain(a, n)
  <2>4. q \in Seq(Pieces)
    BY <2>2
  <2> HIDE DEF q
  <2>5. \A w \in Seq(Pieces), e \in Pieces, b \in Seq(Pieces) :
           Append(w, e) \o b = w \o (<<e>> \o b)
    BY AppendThen
  <2>6. Append(s.ring, p) \o q = s.ring \o (<<p>> \o q)
    BY <2>2, <2>4, <2>5
  <2> USE DEF q
  <2> QED
    BY <2>1, <2>6
<1>21. \A i \in 1 .. Len(new) : \E d \in {m} \cup s.holds :
         d.c = s.received + i - 1 /\ new[i] = [c |-> d.c, u |-> d.u]
  <2> TAKE i \in 1 .. Len(new)
  <2>1. CASE i = 1
    <3>1. new[i] = p
      BY <2>1, <1>1, <1>4, ConcatProperties
    <3> QED
      BY <3>1, <2>1, <1>8 DEF p
  <2>2. CASE i # 1
    <3> DEFINE j == i - 1
               c == s.received + i - 1
    <3>1. j \in 1 .. n /\ c \in run
      BY <2>2, <1>8, <1>9, <1>19
    <3>2. new[i] = Chain(a, n)[j]
      BY <2>2, <3>1, <1>1, <1>4, <1>19, ConcatProperties
    <3>3. a.s.received + j - 1 = c
      BY <1>1, <1>8
    <3>4. Chain(a, n)[j] = [c |-> a.s.received + j - 1, u |-> TheHeld(a.s, a.s.received + j - 1).u]
      BY <3>1 DEF Chain
    <3>5. TheHeld(a.s, c) \in s.holds /\ TheHeld(a.s, c).c = c
      BY <3>1, <1>4 DEF a, run
    <3> HIDE DEF new, j, c
    <3>6. new[i] = [c |-> c, u |-> TheHeld(a.s, c).u]
      BY <3>2, <3>3, <3>4
    <3>7. c = s.received + i - 1
      BY DEF c
    <3> QED
      BY <3>5, <3>6, <3>7
  <2> QED
    BY <2>1, <2>2
<1>22. /\ r.s.holds \subseteq s.holds /\ IsFiniteSet(r.s.holds)
       /\ Cardinality(r.s.holds) <= HoldSlots
  <2>1. r.s.holds \subseteq s.holds
    BY <1>5, <1>7
  <2>2. IsFiniteSet(s.holds) /\ Cardinality(s.holds) <= HoldSlots /\ HoldSlots \in Nat
    BY SessionConstants DEF Holding
  <2>3. IsFiniteSet(r.s.holds) /\ Cardinality(r.s.holds) <= Cardinality(s.holds)
    BY <2>1, <2>2, FS_Subset
  <2>4. Cardinality(r.s.holds) \in Nat /\ Cardinality(s.holds) \in Nat
    BY <2>2, <2>3, FS_CardinalityType
  <2> QED
    BY <2>1, <2>2, <2>3, <2>4
<1>23. Len(r.s.ring) <= RingSlots
  BY <1>4, <1>5, <1>7 DEF a
<1>24. r.s.received = s.received + Len(new) /\ r.s.queued = s.queued + Len(new)
  BY <1>8, <1>17, <1>19
<1>25. \A d \in D : f[d] = "ok" =>
          d.c < r.s.received \/ (d = m /\ \E h \in s.holds : h.c = m.c)
  BY <1>18
<1>26. r.s.holds \subseteq {m} \cup s.holds
  BY <1>22
<1> HIDE DEF new, D
<1>27. Receipt(s, m, r)
  BY <1>13, <1>15, <1>16, <1>19, <1>20, <1>21, <1>22, <1>23, <1>24, <1>25, <1>26 DEF Receipt
<1> QED
  BY <1>27 DEF r, a

\* So for every DATA request, whatever the session (ota_rx_process_msg).
LEMMA ReceiveIs ==
    ASSUME NEW s, NEW m \in DataMsgs, Holding(s)
    PROVE  /\ Receipt(s, m, ReceiveChunk(s, m))
           /\ DataRefused(s, m) => ReceiveChunk(s, m) = Outcome(s, Answer(m, "refused"))
<1>0. m.c \in Nat /\ s.received \in Nat
  BY SessionConstants DEF DataMsgs, Offsets, Holding
<1>1. CASE DataRefused(s, m)
  <2>1. ReceiveChunk(s, m) = Outcome(s, Answer(m, "refused"))
    BY <1>1 DEF ReceiveChunk
  <2>2. Receipt(s, m, Outcome(s, Answer(m, "refused")))
    BY AnswersAlone DEF Statuses
  <2> QED
    BY <2>1, <2>2
<1>2. CASE ~DataRefused(s, m) /\ Early(s, m)
  <2>1. ReceiveChunk(s, m) = HoldChunk(s, m)
    BY <1>2 DEF ReceiveChunk
  <2>2. CASE \E h \in s.holds : h.c = m.c
    <3>1. HoldChunk(s, m) = Outcome(s, Answer(m, "ok"))
      BY <2>2 DEF HoldChunk
    <3>2. Receipt(s, m, Outcome(s, Answer(m, "ok")))
      BY <2>2, AnswersAlone DEF Statuses
    <3> QED
      BY <1>2, <2>1, <3>1, <3>2
  <2>3. CASE ~(\E h \in s.holds : h.c = m.c) /\ Cardinality(s.holds) < HoldSlots
    <3>1. HoldChunk(s, m) = Outcome([s EXCEPT !.holds = @ \cup {m}], {})
      BY <2>3 DEF HoldChunk
    <3>2. Receipt(s, m, Outcome([s EXCEPT !.holds = @ \cup {m}], {}))
      BY <2>3, HeldBack
    <3> QED
      BY <1>2, <2>1, <3>1, <3>2
  <2>4. CASE ~(\E h \in s.holds : h.c = m.c) /\ ~(Cardinality(s.holds) < HoldSlots)
    <3>1. HoldChunk(s, m) = Outcome(s, Answer(m, "busy"))
      BY <2>4 DEF HoldChunk
    <3>2. Receipt(s, m, Outcome(s, Answer(m, "busy")))
      BY AnswersAlone DEF Statuses
    <3> QED
      BY <1>2, <2>1, <3>1, <3>2
  <2> QED
    BY <2>2, <2>3, <2>4
<1>3. CASE ~DataRefused(s, m) /\ ~Early(s, m) /\ m.c < s.received
  <2>1. ReceiveChunk(s, m) = Outcome(s, Answer(m, "ok"))
    BY <1>3 DEF ReceiveChunk
  <2>2. Receipt(s, m, Outcome(s, Answer(m, "ok")))
    BY <1>3, AnswersAlone DEF Statuses
  <2> QED
    BY <1>3, <2>1, <2>2
<1>4. CASE ~DataRefused(s, m) /\ ~Early(s, m) /\ ~(m.c < s.received)
  <2> DEFINE a == ApplyChunk(s, m)
  <2>1. m.c = s.received
    BY <1>0, <1>4 DEF Early
  <2>2. ReceiveChunk(s, m) = IF a.s = s THEN a ELSE DrainHolds(a)
    BY <1>4 DEF ReceiveChunk
  <2>3. CASE ~Applicable(s)
    <3>1. a = Outcome(s, Answer(m, "refused"))
      BY <2>3 DEF ApplyChunk
    <3>2. Receipt(s, m, Outcome(s, Answer(m, "refused")))
      BY AnswersAlone DEF Statuses
    <3>3. a.s = s
      BY <3>1 DEF Outcome
    <3> QED
      BY <1>4, <2>2, <3>1, <3>2, <3>3
  <2>4. CASE Applicable(s) /\ RingFull(s)
    <3>1. a = Outcome(s, Answer(m, "busy"))
      BY <2>4 DEF ApplyChunk
    <3>2. Receipt(s, m, Outcome(s, Answer(m, "busy")))
      BY AnswersAlone DEF Statuses
    <3>3. a.s = s
      BY <3>1 DEF Outcome
    <3> QED
      BY <1>4, <2>2, <3>1, <3>2, <3>3
  <2>5. CASE Applicable(s) /\ ~RingFull(s)
    <3>1. a = Applied(s, m)
      BY <2>5 DEF ApplyChunk, Applied
    <3>2. Applied(s, m).s.received = s.received + 1
      BY <2>1, <2>5, AppliedIs
    <3>3. a.s # s
      BY <3>1, <3>2, <1>0
    <3>4. Receipt(s, m, DrainHolds(Applied(s, m)))
      BY <2>1, <2>5, AppliedDrains
    <3> QED
      BY <1>4, <2>2, <3>1, <3>3, <3>4
  <2> QED
    BY <2>3, <2>4, <2>5
<1> QED
  BY <1>1, <1>2, <1>3, <1>4

------------------------------------------------------------------------------
(* An upload from the host's first request to its last *)

Pipes == [seq : Nat, c : Offsets, retries : 0 .. BusyRetries]
RequestTyped(m) ==
    /\ m.kind \in {"start", "data", "finish", "abort"} /\ m.seq \in Nat
    /\ m.kind = "data" => m \in DataMsgs
    /\ m.kind \in {"finish", "abort"} => m.sid \in Nat
HostTyped ==
    /\ host.at \in {"idle", "start", "data", "finish"}
    /\ host.sid \in Nat /\ host.seq \in Nat /\ host.next \in 0 .. Chunks
    /\ host.pipe \in SUBSET Pipes /\ IsFiniteSet(host.pipe)
    /\ Cardinality(host.pipe) <= PipeDepth
    /\ host.acked \subseteq Offsets
SessTyped ==
    /\ sess.received \in 0 .. Chunks /\ sess.written \in 0 .. Chunks
    /\ sess.queued \in 0 .. Chunks
    /\ sess.ring \in Seq(Pieces) /\ Len(sess.ring) <= RingSlots /\ sess.hash \in Seq(Pieces)
    /\ sess.holds \in SUBSET DataMsgs /\ IsFiniteSet(sess.holds)
    /\ Cardinality(sess.holds) <= HoldSlots
    /\ sess.finSeq \in Nat
    /\ sess.result.status \in Statuses /\ sess.result.sid \in Nat
    /\ sess.result = [valid |-> sess.result.valid, status |-> sess.result.status,
                      sid |-> sess.result.sid, sha |-> sess.result.sha]
Typed ==
    /\ conn \in [link : 0 .. MaxLinks, at : {"none", "up", "lost", "closing"}]
    /\ \A m \in req : RequestTyped(m)
    /\ rsp \subseteq [seq : Nat, status : Statuses, sid : Nat]
    /\ HostTyped /\ SessTyped
    /\ rxq \in Seq(DataMsgs) /\ Len(rxq) <= QueueDepth
    /\ rx \in DataMsgs \cup {NoMsg}
    /\ worker.got \in Pieces \cup {NoMsg} /\ worker.seq \in Nat
    /\ worker.at = "write" => worker.got # NoMsg
    /\ down \in [at : {"idle", "drain", "wait", "again"}, event : {"none", "error", "down"}]
    /\ req # {} => MaxUploads # 0

\* The chunks of uploads wherever they wait to be received.
ReqData == {m \in req : m.kind = "data"}
Queued == {rxq[n] : n \in 1 .. Len(rxq)}
Data == ReqData \cup Queued \cup ({rx} \ {NoMsg}) \cup sess.holds

\* What was received is one upload's, in order: hashed, with the worker, in the ring.
Open == sess.state = "receiving"
WithWorker == IF worker.got = NoMsg THEN 0 ELSE 1
OfUpload(u) ==
    /\ \A i \in 1 .. Len(sess.hash) : sess.hash[i] = [c |-> i - 1, u |-> u]
    /\ worker.got # NoMsg => worker.got = [c |-> Len(sess.hash), u |-> u]
    /\ \A i \in 1 .. Len(sess.ring) :
          sess.ring[i] = [c |-> Len(sess.hash) + WithWorker + i - 1, u |-> u]
    /\ \A d \in Data : d.sid = sess.sid => d.u = u
    /\ host.at \in {"data", "finish"} /\ host.sid = sess.sid => host.u = u
Streams ==
    Open =>
        /\ \A h \in sess.holds : h.sid = sess.sid
        /\ ~sess.abort =>
              /\ \E u \in 1 .. MaxUploads : OfUpload(u)
              /\ Len(sess.hash) = sess.written
              /\ sess.queued = WithWorker + Len(sess.ring)
              /\ sess.received = sess.written + sess.queued

\* Requests are numbered as they are sent: the upload's chunk c is number Base + c + 1.
Base == host.seq - host.next
Finishing ==
    (IF sess.finish THEN {sess.finSeq} ELSE {})
        \cup (IF worker.at \in {"verify", "check", "end", "reply"} THEN {worker.seq} ELSE {})
Booted(sid) == \E b \in hist.booted : b.sid = sid

Numbered ==
    /\ \A d \in Data : d.sid < nextSid /\ d.seq <= host.seq
    /\ \A r \in rsp : r.sid < nextSid /\ r.seq <= host.seq
    /\ \A q \in Finishing : q <= host.seq
    /\ \A m \in req : m.seq <= host.seq
    /\ host.sid < nextSid
Starting ==
    host.at = "start" =>
        /\ host.pipe = {} /\ host.next = 0 /\ host.acked = {}
        /\ \A d \in Data : d.seq < host.seq
        /\ \A q \in Finishing : q < host.seq
        /\ \A m \in req : m.seq = host.seq => m.kind = "start"
        /\ \A r \in rsp : r.seq = host.seq /\ r.status = "ok" =>
              /\ \A d \in Data : d.sid # r.sid
              /\ sess.sid = r.sid /\ Open => sess.received = 0
Sending ==
    host.at = "data" =>
        /\ host.next <= host.seq
        /\ \A p \in host.pipe : p.c < host.next /\ p.seq = Base + p.c + 1
        /\ \A d \in Data : d.sid = host.sid <=> d.seq > Base
        /\ \A d \in Data : d.sid = host.sid => d.u = host.u /\ d.seq = Base + d.c + 1
        /\ \A q \in Finishing : q <= Base
        /\ \A m \in req : m.kind # "data" => m.seq <= Base
Ending ==
    host.at = "finish" =>
        /\ \A d \in Data : d.seq < host.seq /\ (d.sid = host.sid => d.u = host.u)
        /\ \A m \in req : m.seq = host.seq => m.kind = "finish" /\ m.sid = host.sid
        /\ host.seq \in Finishing => sess.sid = host.sid
        /\ \A r \in rsp : r.seq = host.seq /\ r.status = "ok" => Booted(host.sid)

\* A chunk of the upload, or its answer, is in one place only.
OnePlace ==
    host.at = "data" =>
        /\ \A m, n \in ReqData : m.seq = n.seq /\ m.seq > Base => m = n
        /\ \A n, k \in 1 .. Len(rxq) : rxq[n].seq = rxq[k].seq /\ rxq[n].seq > Base => n = k
        /\ \A g, h \in sess.holds : g.seq = h.seq /\ g.seq > Base => g = h
        /\ \A r, a \in rsp : r.seq = a.seq /\ r.seq > Base => r = a
        /\ \A m \in ReqData, n \in 1 .. Len(rxq) : m.seq > Base => m.seq # rxq[n].seq
        /\ \A m \in ReqData, h \in sess.holds : m.seq > Base => m.seq # h.seq
        /\ \A m \in ReqData, r \in rsp : m.seq > Base => m.seq # r.seq
        /\ \A n \in 1 .. Len(rxq), h \in sess.holds : h.seq > Base => h.seq # rxq[n].seq
        /\ \A n \in 1 .. Len(rxq), r \in rsp : r.seq > Base => r.seq # rxq[n].seq
        /\ \A h \in sess.holds, r \in rsp : h.seq > Base => h.seq # r.seq
        /\ rx # NoMsg /\ rx.seq > Base =>
              /\ \A m \in ReqData : m.seq # rx.seq
              /\ \A n \in 1 .. Len(rxq) : rxq[n].seq # rx.seq
              /\ \A h \in sess.holds : h.seq # rx.seq
              /\ \A r \in rsp : r.seq # rx.seq

\* What the host was told or is being told was taken, has been.
AckedTaken ==
    Open /\ sess.sid = host.sid =>
        /\ host.at \in {"data", "finish"} => \A c \in host.acked : c < sess.received
        /\ host.at = "data" => \A r \in rsp :
              r.seq > Base /\ r.status = "ok" => r.seq - Base - 1 < sess.received

\* An image that is said to be completed is booted.
Completion ==
    /\ \A sid \in hist.completed : Booted(sid)
    /\ sess.result.valid /\ sess.result.status = "ok" => Booted(sess.result.sid)
    /\ worker.at = "reply" => Booted(sess.sid)

UInv ==
    /\ Typed /\ Streams /\ Numbered /\ Starting /\ Sending /\ Ending /\ OnePlace
    /\ AckedTaken /\ Completion

------------------------------------------------------------------------------
(* What a step of the device leaves of the way of requests and answers *)

\* START was accepted.
Restarted ==
    nextSid' = nextSid + 1 /\ sess'.sid = nextSid /\ sess'.received = 0
\* An answer to a chunk; to another request; of the worker to the FINISH; to a START
\* that is accepted.
DataAnswer(r) ==
    \E d \in Data : /\ r.sid = 0 /\ r.seq = d.seq
                    /\ host.at = "data" /\ d.seq > Base /\ r.status = "ok"
                          => d.c < sess'.received
ControlAnswer(r) ==
    \/ \E m \in req : /\ r.sid = 0 /\ r.seq = m.seq /\ m.kind # "data"
                      /\ r.status = "ok" =>
                            m.kind # "start" /\ (m.kind = "finish" => Booted(m.sid))
    \/ r.sid = 0 /\ r.seq \in Finishing /\ (r.status = "ok" => Booted(sess.sid))
    \/ Restarted /\ r.sid = nextSid /\ \E m \in req : r.seq = m.seq /\ m.kind = "start"
Onward ==
    /\ host' = host /\ nextSid' \in {nextSid, nextSid + 1}
    /\ req' \subseteq req /\ Data' \subseteq Data
    /\ hist.booted \subseteq hist'.booted /\ sess'.received \in Nat
    /\ Open' => \/ Restarted
                \/ /\ Open /\ sess'.sid = sess.sid /\ sess.received <= sess'.received
                   /\ sess'.received = sess.received \/ \E d \in Data : d.sid = sess.sid
    /\ \A q \in Finishing' :
          \/ q \in Finishing /\ sess'.sid = sess.sid
          \/ \E m \in req : m.kind = "finish" /\ m.seq = q /\ m.sid = sess'.sid
    /\ \A r \in rsp' : r \in rsp \/ DataAnswer(r) \/ ControlAnswer(r)

\* What the numbers are.
LEMMA NumbersAre ==
    ASSUME IInv, Typed
    PROVE  /\ host.seq \in Nat /\ host.next \in Nat /\ host.next <= Chunks /\ host.sid \in Nat
           /\ nextSid \in Nat
           /\ Base \in Int /\ sess.sid \in Nat /\ sess.received \in Nat
           /\ sess.received <= Chunks
           /\ \A d \in Data : /\ d \in DataMsgs /\ d.seq \in Nat /\ d.sid \in Nat
                              /\ d.c \in Nat /\ d.c < Chunks
           /\ \A m \in req : m.seq \in Nat
           /\ \A r \in rsp : r.seq \in Nat /\ r.sid \in Nat /\ r.status \in Statuses
           /\ \A q \in Finishing : q \in Nat
<1>1. /\ host.seq \in Nat /\ host.next \in Nat /\ host.next <= Chunks /\ host.sid \in Nat
      /\ sess.received \in Nat /\ sess.received <= Chunks
  BY SessionConstants DEF Typed, HostTyped, SessTyped
<1>2. nextSid \in Nat /\ sess.sid \in Nat
  BY DEF IInv, Sids
<1>3. \A d \in Data : d \in DataMsgs
  <2>1. \A d \in ReqData : d \in DataMsgs
    BY DEF ReqData, Typed, RequestTyped
  <2>2. \A d \in Queued : d \in DataMsgs
    BY ElementOfSeq DEF Queued, Typed
  <2>3. \A d \in sess.holds : d \in DataMsgs
    BY DEF Typed, SessTyped
  <2>4. \A d \in {rx} \ {NoMsg} : d \in DataMsgs
    BY DEF Typed
  <2> QED
    BY <2>1, <2>2, <2>3, <2>4 DEF Data
<1>4. \A d \in DataMsgs : /\ d.seq \in Nat /\ d.sid \in Nat /\ d.c \in Nat /\ d.c < Chunks
  BY SessionConstants DEF DataMsgs, Offsets
<1>5. \A q \in Finishing : q \in Nat
  BY DEF Finishing, Typed, SessTyped
<1>6. /\ \A m \in req : m.seq \in Nat
      /\ \A r \in rsp : r.seq \in Nat /\ r.sid \in Nat /\ r.status \in Statuses
  BY DEF Typed, RequestTyped
<1>7. Base \in Int
  BY <1>1 DEF Base
<1> QED
  BY <1>1, <1>2, <1>3, <1>4, <1>5, <1>6, <1>7

\* New answers carry numbers that were given.
LEMMA OnwardNumbered ==
    ASSUME IInv, UInv, Onward
    PROVE  Numbered'
<1>1. Typed
  BY DEF UInv
<1>2. \A r \in rsp' : r.sid < nextSid' /\ r.seq <= host.seq
  <2> TAKE r \in rsp'
  <2>1. CASE r \in rsp
    BY <1>1, <2>1, NumbersAre DEF UInv, Numbered, Onward
  <2>2. CASE DataAnswer(r)
    BY <1>1, <2>2, NumbersAre DEF UInv, Numbered, Onward, DataAnswer
  <2>3. CASE ControlAnswer(r)
    BY <1>1, <2>3, NumbersAre DEF UInv, Numbered, Onward, ControlAnswer, Restarted
  <2> QED
    BY <2>1, <2>2, <2>3 DEF Onward
<1>3. \A d \in Data' : d.sid < nextSid' /\ d.seq <= host.seq
  BY <1>1, NumbersAre DEF UInv, Numbered, Onward
<1>4. \A q \in Finishing' : q <= host.seq
  BY DEF UInv, Numbered, Onward
<1>5. (\A m \in req' : m.seq <= host.seq) /\ host.sid < nextSid'
  BY <1>1, NumbersAre DEF UInv, Numbered, Onward
<1>6. host' = host
  BY DEF Onward
<1> QED
  BY <1>2, <1>3, <1>4, <1>5, <1>6 DEF Numbered

\* Until START is answered, nothing has the number of its request.
LEMMA OnwardStarting ==
    ASSUME IInv, UInv, Onward
    PROVE  Starting'
<1> SUFFICES ASSUME host'.at = "start"
             PROVE  Starting'
  BY DEF Starting
<1>1. Typed /\ Numbered /\ host' = host /\ Starting /\ host.at = "start"
  BY DEF UInv, Onward
<1>2. \A d \in Data' : d.seq < host.seq
  BY <1>1 DEF Starting, Onward
<1>3. \A q \in Finishing' : q < host.seq
  <2>1. \A m \in req : m.kind = "finish" => m.seq < host.seq
    BY <1>1, NumbersAre DEF Starting, Numbered
  <2> QED
    BY <1>1, <2>1 DEF Starting, Onward
<1>4. \A m \in req' : m.seq = host.seq => m.kind = "start"
  BY <1>1 DEF Starting, Onward
<1>5. ASSUME NEW r \in rsp', r.seq = host.seq, r.status = "ok"
      PROVE  (\A d \in Data' : d.sid # r.sid) /\ (sess'.sid = r.sid /\ Open' => sess'.received = 0)
  <2>1. CASE r \in rsp
    <3>1. /\ \A d \in Data : d.sid # r.sid
          /\ sess.sid = r.sid /\ Open => sess.received = 0
      BY <1>1, <1>5, <2>1 DEF Starting
    <3>2. \A d \in Data' : d.sid # r.sid
      BY <3>1 DEF Onward
    <3>3. ASSUME sess'.sid = r.sid, Open'
          PROVE  sess'.received = 0
      <4>1. r.sid < nextSid
        BY <1>1, <2>1 DEF Numbered
      <4>2. CASE Restarted
        BY <4>2 DEF Restarted
      <4>3. CASE /\ Open /\ sess'.sid = sess.sid
                 /\ sess'.received = sess.received \/ \E d \in Data : d.sid = sess.sid
        BY <3>1, <3>3, <4>3
      <4> QED
        BY <3>3, <4>2, <4>3 DEF Onward
    <3> QED
      BY <3>2, <3>3
  <2>2. CASE DataAnswer(r)
    <3>1. \A d \in Data : d.seq < host.seq /\ d.seq \in Nat
      BY <1>1, NumbersAre DEF Starting
    <3> QED
      BY <1>1, <1>5, <2>2, <3>1, NumbersAre DEF DataAnswer
  <2>3. CASE ControlAnswer(r)
    <3>1. r.seq \notin Finishing
      BY <1>1, <1>5, NumbersAre DEF Starting
    <3>2. \A m \in req : r.seq = m.seq => m.kind = "start"
      BY <1>1, <1>5 DEF Starting
    <3>3. Restarted /\ r.sid = nextSid
      BY <1>5, <2>3, <3>1, <3>2 DEF ControlAnswer
    <3>4. \A d \in Data : d.sid # nextSid
      BY <1>1, NumbersAre DEF Numbered
    <3> QED
      BY <3>3, <3>4 DEF Restarted, Onward
  <2> QED
    BY <2>1, <2>2, <2>3 DEF Onward
<1>6. host'.pipe = {} /\ host'.next = 0 /\ host'.acked = {}
  BY <1>1 DEF Starting
<1> QED
  BY <1>1, <1>2, <1>3, <1>4, <1>5, <1>6 DEF Starting

\* While chunks are sent, the numbers above Base are theirs.
LEMMA OnwardSending ==
    ASSUME IInv, UInv, Onward
    PROVE  Sending'
<1> SUFFICES ASSUME host'.at = "data"
             PROVE  Sending'
  BY DEF Sending
<1>1. Typed /\ host' = host /\ Sending /\ host.at = "data"
  BY DEF UInv, Onward
<1>2. Base' = Base
  BY <1>1 DEF Base
<1>3. \A q \in Finishing' : q <= Base
  <2>1. \A m \in req : m.kind = "finish" => m.seq <= Base
    BY <1>1 DEF Sending
  <2> QED
    BY <1>1, <2>1 DEF Sending, Onward
<1>4. \A m \in req' : m.kind # "data" => m.seq <= Base
  BY <1>1 DEF Sending, Onward
<1>5. /\ \A d \in Data' : d.sid = host.sid <=> d.seq > Base
      /\ \A d \in Data' : d.sid = host.sid => d.u = host.u /\ d.seq = Base + d.c + 1
  BY <1>1 DEF Sending, Onward
<1>6. host.next <= host.seq /\ \A p \in host.pipe : p.c < host.next /\ p.seq = Base + p.c + 1
  BY <1>1 DEF Sending
<1> QED
  BY <1>1, <1>2, <1>3, <1>4, <1>5, <1>6 DEF Sending

\* An answer to the FINISH that says "ok" is the one of an image that is booted.
LEMMA OnwardEnding ==
    ASSUME IInv, UInv, Onward
    PROVE  Ending'
<1> SUFFICES ASSUME host'.at = "finish"
             PROVE  Ending'
  BY DEF Ending
<1>1. Typed /\ host' = host /\ Ending /\ host.at = "finish"
  BY DEF UInv, Onward
<1>2. \A d \in Data' : d.seq < host.seq /\ (d.sid = host.sid => d.u = host.u)
  BY <1>1 DEF Ending, Onward
<1>3. \A m \in req' : m.seq = host.seq => m.kind = "finish" /\ m.sid = host.sid
  BY <1>1 DEF Ending, Onward
<1>4. host.seq \in Finishing' => sess'.sid = host.sid
  <2>1. \A m \in req : m.seq = host.seq => m.sid = host.sid
    BY <1>1 DEF Ending
  <2>2. host.seq \in Finishing => sess.sid = host.sid
    BY <1>1 DEF Ending
  <2> QED
    BY <1>1, <2>1, <2>2 DEF Onward
<1>5. ASSUME NEW r \in rsp', r.seq = host.seq, r.status = "ok"
      PROVE  Booted(host.sid)'
  <2>1. \A sid : Booted(sid) => Booted(sid)'
    BY DEF Booted, Onward
  <2>2. Booted(host.sid) => Booted(host.sid)'
    BY <2>1, <1>1 DEF Booted
  <2>3. CASE r \in rsp
    BY <1>1, <1>5, <2>2, <2>3 DEF Ending
  <2>4. CASE DataAnswer(r)
    <3>1. \A d \in Data : d.seq < host.seq /\ d.seq \in Nat
      BY <1>1, NumbersAre DEF Ending
    <3> QED
      BY <1>1, <1>5, <2>4, <3>1, NumbersAre DEF DataAnswer
  <2>5. CASE ControlAnswer(r)
    <3>1. \A m \in req : r.seq = m.seq => m.kind = "finish" /\ m.sid = host.sid
      BY <1>1, <1>5 DEF Ending
    <3>2. r.seq \in Finishing => sess.sid = host.sid
      BY <1>1, <1>5 DEF Ending
    <3>3. Booted(host.sid)
      BY <1>5, <2>5, <3>1, <3>2 DEF ControlAnswer
    <3> QED
      BY <2>2, <3>3
  <2> QED
    BY <2>3, <2>4, <2>5 DEF Onward
<1> QED
  BY <1>1, <1>2, <1>3, <1>4, <1>5 DEF Ending

\* What was taken stays taken, and answers to chunks are true.
LEMMA OnwardAcked ==
    ASSUME IInv, UInv, Onward
    PROVE  AckedTaken'
<1> SUFFICES ASSUME Open', sess'.sid = host'.sid
             PROVE  AckedTaken'
  BY DEF AckedTaken
<1>1. Typed /\ host' = host /\ Numbered /\ Sending /\ AckedTaken
  BY DEF UInv, Onward
<1>2. Base' = Base
  BY <1>1 DEF Base
<1>3. host.sid < nextSid
  BY <1>1 DEF Numbered
<1>4. Open /\ sess'.sid = sess.sid /\ sess.received <= sess'.received
  BY <1>1, <1>3, NumbersAre DEF Onward, Restarted
<1>5. sess.sid = host.sid
  BY <1>1, <1>4
<1>6. sess'.received \in Nat /\ sess.received \in Nat /\ Base \in Int
  BY <1>1, NumbersAre DEF Onward
<1>7. host'.at \in {"data", "finish"} => \A c \in host'.acked : c < sess'.received
  <2>1. host.at \in {"data", "finish"} => \A c \in host.acked : c < sess.received
    BY <1>1, <1>4, <1>5 DEF AckedTaken
  <2>2. \A c \in host.acked : c \in Nat
    BY <1>1, SessionConstants DEF Typed, HostTyped, Offsets
  <2> QED
    BY <1>1, <1>4, <1>6, <2>1, <2>2
<1>8. ASSUME host.at = "data", NEW r \in rsp', r.seq > Base, r.status = "ok"
      PROVE  r.seq - Base - 1 < sess'.received
  <2>1. CASE r \in rsp
    <3>1. r.seq - Base - 1 < sess.received /\ r.seq \in Nat
      BY <1>1, <1>4, <1>5, <1>8, <2>1, NumbersAre DEF AckedTaken
    <3> QED
      BY <3>1, <1>4, <1>6
  <2>2. CASE DataAnswer(r)
    <3>1. PICK d \in Data : r.seq = d.seq /\ (d.seq > Base => d.c < sess'.received)
      BY <1>8, <2>2 DEF DataAnswer
    <3>2. d.seq > Base /\ d.seq = Base + d.c + 1
      BY <1>1, <1>8, <3>1 DEF Sending
    <3>3. d.c \in Nat
      BY <1>1, NumbersAre
    <3> QED
      BY <3>1, <3>2, <3>3, <1>6
  <2>3. CASE ControlAnswer(r)
    <3>1. /\ \A m \in req : m.kind # "data" => m.seq <= Base /\ m.seq \in Nat
          /\ \A q \in Finishing : q <= Base /\ q \in Nat
      BY <1>1, <1>8, NumbersAre DEF Sending
    <3> QED
      BY <1>6, <1>8, <2>3, <3>1 DEF ControlAnswer
  <2> QED
    BY <2>1, <2>2, <2>3 DEF Onward
<1> QED
  BY <1>1, <1>2, <1>7, <1>8 DEF AckedTaken

\* Where nothing moves but control answers, and chunks only disappear, a chunk stays
\* in one place.
Fewer ==
    /\ req' \subseteq req /\ sess'.holds \subseteq sess.holds /\ rx' \in {rx, NoMsg}
    /\ \E g \in [1 .. Len(rxq') -> 1 .. Len(rxq)] :
          /\ \A n \in 1 .. Len(rxq') : rxq'[n] = rxq[g[n]]
          /\ \A n, k \in 1 .. Len(rxq') : g[n] = g[k] => n = k
Shrinks == Onward /\ Fewer /\ \A r \in rsp' : r \in rsp \/ ControlAnswer(r)

\* Then no chunk is new.
LEMMA FewerData ==
    ASSUME Fewer
    PROVE  ReqData' \subseteq ReqData /\ Data' \subseteq Data
<1>1. ReqData' \subseteq ReqData
  BY DEF Fewer, ReqData
<1>2. PICK g \in [1 .. Len(rxq') -> 1 .. Len(rxq)] :
         \A n \in 1 .. Len(rxq') : rxq'[n] = rxq[g[n]]
  BY DEF Fewer
<1>3. Queued' \subseteq Queued
  <2> SUFFICES ASSUME NEW d \in Queued' PROVE d \in Queued
    OBVIOUS
  <2>1. PICK n \in 1 .. Len(rxq') : d = rxq'[n]
    BY DEF Queued
  <2>2. g[n] \in 1 .. Len(rxq) /\ d = rxq[g[n]]
    BY <1>2, <2>1
  <2> QED
    BY <2>2 DEF Queued
<1>4. sess'.holds \subseteq sess.holds /\ {rx'} \ {NoMsg} \subseteq {rx} \ {NoMsg}
  BY DEF Fewer
<1> QED
  BY <1>1, <1>3, <1>4 DEF Data

\* Then what was in one place only still is.
LEMMA ShrinksPlace ==
    ASSUME IInv, UInv, Shrinks
    PROVE  OnePlace'
<1> SUFFICES ASSUME host'.at = "data"
             PROVE  OnePlace'
  BY DEF OnePlace
<1>1. Typed /\ host' = host /\ OnePlace /\ host.at = "data" /\ Sending
  BY DEF UInv, Shrinks, Onward
<1>2. Base' = Base /\ Base \in Int
  BY <1>1, NumbersAre DEF Base
<1>3. \A r \in rsp' : r \in rsp \/ ~(r.seq > Base)
  <2>1. /\ \A m \in req : m.kind # "data" => ~(m.seq > Base)
        /\ \A q \in Finishing : ~(q > Base)
    BY <1>1, <1>2, NumbersAre DEF Sending
  <2> QED
    BY <2>1 DEF Shrinks, ControlAnswer
<1>4. PICK g \in [1 .. Len(rxq') -> 1 .. Len(rxq)] :
         /\ \A n \in 1 .. Len(rxq') : rxq'[n] = rxq[g[n]]
         /\ \A n, k \in 1 .. Len(rxq') : g[n] = g[k] => n = k
  BY DEF Shrinks, Fewer
<1>5. \A n \in 1 .. Len(rxq') : g[n] \in 1 .. Len(rxq)
  BY <1>4
<1>6. /\ ReqData' \subseteq ReqData /\ sess'.holds \subseteq sess.holds /\ rx' \in {rx, NoMsg}
  BY FewerData DEF Shrinks, Fewer
<1>7. /\ \A m, n \in ReqData' : m.seq = n.seq /\ m.seq > Base => m = n
      /\ \A n, k \in 1 .. Len(rxq') : rxq'[n].seq = rxq'[k].seq /\ rxq'[n].seq > Base => n = k
      /\ \A h, k \in sess'.holds : h.seq = k.seq /\ h.seq > Base => h = k
      /\ \A r, a \in rsp' : r.seq = a.seq /\ r.seq > Base => r = a
  BY <1>1, <1>3, <1>4, <1>5, <1>6 DEF OnePlace
<1>8. /\ \A m \in ReqData', n \in 1 .. Len(rxq') : m.seq > Base => m.seq # rxq'[n].seq
      /\ \A m \in ReqData', h \in sess'.holds : m.seq > Base => m.seq # h.seq
      /\ \A m \in ReqData', r \in rsp' : m.seq > Base => m.seq # r.seq
  BY <1>1, <1>3, <1>4, <1>5, <1>6 DEF OnePlace
<1>9. /\ \A n \in 1 .. Len(rxq'), h \in sess'.holds : h.seq > Base => h.seq # rxq'[n].seq
      /\ \A n \in 1 .. Len(rxq'), r \in rsp' : r.seq > Base => r.seq # rxq'[n].seq
      /\ \A h \in sess'.holds, r \in rsp' : h.seq > Base => h.seq # r.seq
  BY <1>1, <1>3, <1>4, <1>5, <1>6 DEF OnePlace
<1>10. rx' # NoMsg /\ rx'.seq > Base =>
         /\ \A m \in ReqData' : m.seq # rx'.seq
         /\ \A n \in 1 .. Len(rxq') : rxq'[n].seq # rx'.seq
         /\ \A h \in sess'.holds : h.seq # rx'.seq
         /\ \A r \in rsp' : r.seq # rx'.seq
  BY <1>1, <1>3, <1>4, <1>5, <1>6 DEF OnePlace
<1> QED
  BY <1>1, <1>2, <1>7, <1>8, <1>9, <1>10 DEF OnePlace

\* Where the session stays as it is as far as its chunks go, so does its stream.
StreamStays ==
    /\ host' = host /\ Data' \subseteq Data
    /\ Open' => /\ Open /\ sess'.sid = sess.sid /\ sess'.holds \subseteq sess.holds
                /\ ~sess'.abort =>
                      /\ ~sess.abort /\ sess'.hash = sess.hash /\ sess'.ring = sess.ring
                      /\ sess'.written = sess.written /\ sess'.queued = sess.queued
                      /\ sess'.received = sess.received /\ worker'.got = worker.got

\* Then what was received is still one upload's.
LEMMA StreamStaysStreams ==
    ASSUME Streams, StreamStays
    PROVE  Streams'
<1> SUFFICES ASSUME Open' PROVE Streams'
  BY DEF Streams
<1>1. \A h \in sess'.holds : h.sid = sess'.sid
  BY DEF Streams, StreamStays
<1>2. ASSUME ~sess'.abort
      PROVE  /\ \E u \in 1 .. MaxUploads : OfUpload(u)'
             /\ Len(sess'.hash) = sess'.written
             /\ sess'.queued = WithWorker' + Len(sess'.ring)
             /\ sess'.received = sess'.written + sess'.queued
  <2>1. /\ \E u \in 1 .. MaxUploads : OfUpload(u)
        /\ Len(sess.hash) = sess.written
        /\ sess.queued = WithWorker + Len(sess.ring)
        /\ sess.received = sess.written + sess.queued
    BY <1>2 DEF Streams, StreamStays
  <2>2. WithWorker' = WithWorker
    BY <1>2 DEF StreamStays, WithWorker
  <2>3. PICK u \in 1 .. MaxUploads : OfUpload(u)
    BY <2>1
  <2>4. OfUpload(u)'
    BY <1>2, <2>2, <2>3 DEF OfUpload, StreamStays
  <2> QED
    BY <1>2, <2>1, <2>2, <2>4 DEF StreamStays
<1> QED
  BY <1>1, <1>2 DEF Streams

------------------------------------------------------------------------------
(* Steps that only look at what waits *)

\* For a step that goes on in this way four parts of the invariant remain to be shown.
LEMMA UInvBy ==
    ASSUME IInv, UInv, Onward, Typed', Streams', OnePlace', Completion'
    PROVE  UInv'
<1>1. Numbered' /\ Starting' /\ Sending' /\ Ending' /\ AckedTaken'
  BY OnwardNumbered, OnwardStarting, OnwardSending, OnwardEnding, OnwardAcked
<1> QED
  BY <1>1 DEF UInv

\* A step that leaves the queue and the receive task alone.
Aside ==
    /\ UNCHANGED <<host, rxq, rx, nextSid>>
    /\ req' \subseteq req /\ sess'.holds \subseteq sess.holds
    /\ hist.booted \subseteq hist'.booted
    /\ Open' => Open /\ sess'.sid = sess.sid /\ sess'.received = sess.received
    /\ \A q \in Finishing' :
          \/ q \in Finishing /\ sess'.sid = sess.sid
          \/ \E m \in req : m.kind = "finish" /\ m.seq = q /\ m.sid = sess'.sid
    /\ \A r \in rsp' : r \in rsp \/ ControlAnswer(r)

\* Such a step only lets chunks disappear and FINISH answers come.
LEMMA AsideShrinks ==
    ASSUME IInv, UInv, Aside, Typed'
    PROVE  Shrinks
<1>1. Typed /\ rxq \in Seq(DataMsgs)
  BY DEF UInv, Typed
<1>2. sess.received \in Nat /\ sess'.received \in Nat
  <2>1. SessTyped /\ SessTyped'
    BY DEF UInv, Typed
  <2>2. sess.received \in 0 .. Chunks /\ sess'.received \in 0 .. Chunks
    BY <2>1 DEF SessTyped
  <2> QED
    BY <2>2, SessionConstants
<1>3. \E g \in [1 .. Len(rxq') -> 1 .. Len(rxq)] :
          /\ \A n \in 1 .. Len(rxq') : rxq'[n] = rxq[g[n]]
          /\ \A n, k \in 1 .. Len(rxq') : g[n] = g[k] => n = k
  <2> DEFINE g == [n \in 1 .. Len(rxq) |-> n]
  <2>1. g \in [1 .. Len(rxq') -> 1 .. Len(rxq)] /\ \A n \in 1 .. Len(rxq) : g[n] = n
    BY DEF Aside
  <2> HIDE DEF g
  <2> QED
    BY <2>1 DEF Aside
<1>4. Fewer
  BY <1>3 DEF Fewer, Aside
<1>5. Data' \subseteq Data
  BY <1>4, FewerData
<1>6. nextSid \in Nat
  BY DEF IInv, Sids
<1>7. Onward
  BY <1>2, <1>5, <1>6 DEF Aside, Onward
<1> QED
  BY <1>4, <1>7 DEF Shrinks, Aside

\* So the stream, the types and what is completed remain to be shown of it.
LEMMA AsideUInv ==
    ASSUME IInv, UInv, Aside, Typed', Streams', Completion'
    PROVE  UInv'
<1>1. Shrinks
  BY AsideShrinks
<1>2. OnePlace' /\ Onward
  BY <1>1, ShrinksPlace DEF Shrinks
<1> QED
  BY <1>2, UInvBy

\* The new answer, if the link is up.
LEMMA AnswersOneIs ==
    ASSUME NEW seq, NEW status, AnswersOne(seq, status)
    PROVE  \A r \in rsp' : r \in rsp \/ r = [seq |-> seq, status |-> status, sid |-> 0]
  BY DEF AnswersOne, Answers

Answerings == [seq : Nat, status : Statuses, sid : Nat]
\* It is an answer.
LEMMA AnswersOneTyped ==
    ASSUME Typed, NEW seq \in Nat, NEW status \in Statuses, AnswersOne(seq, status)
    PROVE  rsp' \subseteq Answerings
<1>1. rsp \subseteq Answerings /\ [seq |-> seq, status |-> status, sid |-> 0] \in Answerings
  BY DEF Typed, Answerings
<1> QED
  BY <1>1, AnswersOneIs

\* What a step of the worker has to keep of the types.
LEMMA WorkerTyped ==
    ASSUME Typed, UNCHANGED <<conn, req, host, rxq, rx, down>>, SessTyped',
           worker'.got \in Pieces \cup {NoMsg}, worker'.seq \in Nat,
           worker'.at = "write" => worker'.got # NoMsg, rsp' \subseteq Answerings
    PROVE  Typed'
<1>1. HostTyped'
  BY DEF Typed, HostTyped
<1>2. \A m \in req' : RequestTyped(m)'
  BY DEF Typed, RequestTyped
<1> QED
  BY <1>1, <1>2 DEF Typed, Answerings

(* The worker *)

\* It sees the abort flag.
LEMMA WorkerStopsUInv ==
    ASSUME IInv, UInv, WorkerStops
    PROVE  UInv'
<1>1. /\ UNCHANGED <<conn, req, rsp, host, sess, rxq, rx, down, flash, nextSid, hist>>
      /\ worker.at = "loop" /\ worker'.at = "exit" /\ worker'.got = worker.got
      /\ worker'.seq = worker.seq
  BY DEF WorkerStops, At, Goes, netVars, IInv, Records
<1>2. Typed'
  <2>1. Typed /\ SessTyped /\ rsp \subseteq Answerings
    BY DEF UInv, Typed, Answerings
  <2>2. SessTyped'
    BY <1>1, <2>1 DEF SessTyped
  <2> QED
    BY <1>1, <2>1, <2>2, WorkerTyped DEF Typed
<1>3. Finishing' \subseteq Finishing
  BY <1>1 DEF Finishing
<1>4. Aside
  BY <1>1, <1>3 DEF Aside, Open
<1>5. Data' = Data
  BY <1>1 DEF Data, ReqData, Queued
<1>6. Streams'
  BY <1>1, <1>5, StreamStaysStreams DEF UInv, StreamStays, Open
<1>7. Completion'
  BY <1>1 DEF UInv, Completion, Booted
<1> QED
  BY <1>2, <1>4, <1>6, <1>7, AsideUInv

\* No chunk is no chunk.
LEMMA PieceIsNot == \A p \in Pieces : p # NoMsg
<1> SUFFICES ASSUME NEW p \in Pieces, p = NoMsg PROVE FALSE
  OBVIOUS
<1>1. DOMAIN p = {"c", "u"} /\ DOMAIN NoMsg = {"kind"}
  BY DEF Pieces, NoMsg
<1> QED
  BY <1>1

\* It takes the oldest chunk from the ring.
LEMMA WorkerTakeUInv ==
    ASSUME IInv, UInv, WorkerTake
    PROVE  UInv'
<1>1. /\ UNCHANGED <<conn, req, rsp, host, rxq, rx, down, flash, nextSid, hist>>
      /\ worker.at = "loop" /\ worker'.at = "write" /\ worker'.got = Head(sess.ring)
      /\ worker'.seq = worker.seq /\ worker.got = NoMsg
      /\ sess.ring # <<>> /\ sess' = [sess EXCEPT !.ring = Tail(@)]
  BY DEF WorkerTake, At, netVars, IInv, Records, WorkerPlaces
<1>2. /\ sess'.ring = Tail(sess.ring) /\ sess'.state = sess.state /\ sess'.sid = sess.sid
      /\ sess'.received = sess.received /\ sess'.written = sess.written
      /\ sess'.queued = sess.queued /\ sess'.hash = sess.hash /\ sess'.holds = sess.holds
      /\ sess'.finish = sess.finish /\ sess'.finSeq = sess.finSeq
      /\ sess'.result = sess.result /\ sess'.abort = sess.abort
  BY <1>1 DEF IInv, Records, IsSession
<1>3. /\ Typed /\ SessTyped /\ rsp \subseteq Answerings /\ sess.ring \in Seq(Pieces)
  BY DEF UInv, Typed, SessTyped, Answerings
<1>4. /\ Head(sess.ring) \in Pieces /\ Tail(sess.ring) \in Seq(Pieces)
      /\ Len(Tail(sess.ring)) = Len(sess.ring) - 1 /\ Len(sess.ring) \in Nat
      /\ \A i \in 1 .. Len(sess.ring) - 1 : Tail(sess.ring)[i] = sess.ring[i + 1]
      /\ Head(sess.ring) = sess.ring[1] /\ 1 \in 1 .. Len(sess.ring)
  BY <1>1, <1>3, HeadTailProperties, LenProperties
<1>5. SessTyped'
  <2>1. Len(Tail(sess.ring)) <= RingSlots
    BY <1>3, <1>4, SessionConstants DEF SessTyped
  <2> QED
    BY <1>2, <1>3, <1>4, <2>1 DEF SessTyped
<1>6. Typed'
  BY <1>1, <1>3, <1>4, <1>5, PieceIsNot, WorkerTyped DEF Typed
<1>7. Finishing' \subseteq Finishing
  BY <1>1, <1>2 DEF Finishing
<1>8. Aside
  BY <1>1, <1>2, <1>7 DEF Aside, Open
<1>9. Data' = Data
  BY <1>1, <1>2 DEF Data, ReqData, Queued
<1>10. Streams'
  <2> SUFFICES ASSUME Open' PROVE Streams'
    BY DEF Streams
  <2>1. Open /\ Streams
    BY <1>2 DEF Open, UInv
  <2>2. \A h \in sess'.holds : h.sid = sess'.sid
    BY <1>2, <2>1 DEF Streams
  <2>3. WithWorker = 0 /\ WithWorker' = 1
    <3>1. worker'.got # NoMsg
      BY <1>1, <1>4, PieceIsNot
    <3> QED
      BY <1>1, <3>1 DEF WithWorker
  <2>4. ASSUME ~sess'.abort, NEW u \in 1 .. MaxUploads, OfUpload(u)
        PROVE  OfUpload(u)'
    <3>1. worker'.got = [c |-> Len(sess'.hash), u |-> u]
      <4>1. sess.ring[1] = [c |-> Len(sess.hash) + WithWorker + 1 - 1, u |-> u]
        BY <1>4, <2>4 DEF OfUpload
      <4>2. Len(sess.hash) \in Nat
        BY <1>3, LenProperties DEF SessTyped
      <4>3. Len(sess.hash) + WithWorker + 1 - 1 = Len(sess.hash)
        BY <2>3, <4>2
      <4> QED
        BY <1>1, <1>2, <1>4, <4>1, <4>3
    <3>2. \A i \in 1 .. Len(sess'.ring) :
             sess'.ring[i] = [c |-> Len(sess'.hash) + WithWorker' + i - 1, u |-> u]
      <4> TAKE i \in 1 .. Len(sess'.ring)
      <4>1. i \in 1 .. Len(sess.ring) - 1 /\ i + 1 \in 1 .. Len(sess.ring)
        BY <1>2, <1>4
      <4>2. sess.ring[i + 1] = [c |-> Len(sess.hash) + WithWorker + (i + 1) - 1, u |-> u]
        BY <2>4, <4>1 DEF OfUpload
      <4>3. Len(sess.hash) \in Nat
        BY <1>3, LenProperties DEF SessTyped
      <4>4. Len(sess.hash) + WithWorker + (i + 1) - 1 = Len(sess'.hash) + WithWorker' + i - 1
        BY <1>2, <2>3, <4>1, <4>3
      <4> QED
        BY <1>2, <1>4, <4>1, <4>2, <4>4
    <3>3. /\ \A i \in 1 .. Len(sess'.hash) : sess'.hash[i] = [c |-> i - 1, u |-> u]
          /\ \A d \in Data' : d.sid = sess'.sid => d.u = u
          /\ host'.at \in {"data", "finish"} /\ host'.sid = sess'.sid => host'.u = u
      BY <1>1, <1>2, <1>9, <2>4 DEF OfUpload
    <3> QED
      BY <3>1, <3>2, <3>3 DEF OfUpload
  <2>5. ASSUME ~sess'.abort
        PROVE  /\ \E u \in 1 .. MaxUploads : OfUpload(u)'
               /\ Len(sess'.hash) = sess'.written
               /\ sess'.queued = WithWorker' + Len(sess'.ring)
               /\ sess'.received = sess'.written + sess'.queued
    <3>1. /\ \E u \in 1 .. MaxUploads : OfUpload(u)
          /\ Len(sess.hash) = sess.written
          /\ sess.queued = WithWorker + Len(sess.ring)
          /\ sess.received = sess.written + sess.queued
      BY <1>2, <2>1, <2>5 DEF Streams
    <3>2. WithWorker' + Len(sess'.ring) = WithWorker + Len(sess.ring)
      BY <1>2, <1>4, <2>3
    <3> QED
      BY <1>2, <2>4, <2>5, <3>1, <3>2
  <2> QED
    BY <2>2, <2>5 DEF Streams
<1>11. Completion'
  BY <1>1, <1>2 DEF UInv, Completion, Booted
<1> QED
  BY <1>6, <1>8, <1>10, <1>11, AsideUInv

\* It writes the chunk it took, or fails and with it the session.
LEMMA WorkerWriteUInv ==
    ASSUME IInv, UInv, WorkerWrite
    PROVE  UInv'
<1>1. /\ UNCHANGED <<conn, req, rsp, host, rxq, rx, down, nextSid, hist>>
      /\ worker.at = "write" /\ worker'.got = NoMsg /\ worker'.seq = worker.seq
      /\ worker'.at \in {"loop", "exit"} /\ Open
  BY DEF WorkerWrite, At, netVars, IInv, Records, WorkerPlaces, Open
<1>2. \/ Writable(sess, worker.got) /\ sess' = Written(sess, worker.got)
      \/ sess' = AfterFailure(sess, worker.got)
  BY DEF WorkerWrite
<1>3. /\ sess'.ring = sess.ring /\ sess'.state = sess.state /\ sess'.sid = sess.sid
      /\ sess'.received = sess.received /\ sess'.holds = sess.holds
      /\ sess'.finish = sess.finish /\ sess'.finSeq = sess.finSeq
      /\ sess'.result = sess.result
  BY <1>2 DEF IInv, Records, IsSession, Written, AfterFailure
<1>4. /\ Typed /\ SessTyped /\ rsp \subseteq Answerings /\ sess.hash \in Seq(Pieces)
      /\ worker.got \in Pieces /\ worker.got # NoMsg
  BY <1>1 DEF UInv, Typed, SessTyped, Answerings
<1>5. ASSUME Writable(sess, worker.got), sess' = Written(sess, worker.got)
      PROVE  SessTyped' /\ Data' = Data /\ Streams'
  <2>1. /\ sess'.hash = Append(sess.hash, worker.got) /\ sess'.written = sess.written + 1
        /\ sess'.queued = sess.queued - 1 /\ sess'.abort = sess.abort
    BY <1>5 DEF IInv, Records, IsSession, Written
  <2>2. ~sess.abort /\ worker.got.c = sess.written
    BY <1>5 DEF IInv, Records, IsSession, Writable
  <2>3. /\ \E u \in 1 .. MaxUploads : OfUpload(u)
        /\ Len(sess.hash) = sess.written
        /\ sess.queued = WithWorker + Len(sess.ring)
        /\ sess.received = sess.written + sess.queued
    BY <1>1, <2>2 DEF UInv, Streams
  <2>4. WithWorker = 1 /\ WithWorker' = 0
    BY <1>1, <1>4 DEF WithWorker
  <2>5. /\ Append(sess.hash, worker.got) \in Seq(Pieces)
        /\ Len(Append(sess.hash, worker.got)) = Len(sess.hash) + 1
        /\ \A i \in 1 .. Len(sess.hash) + 1 :
              Append(sess.hash, worker.got)[i] =
                  IF i <= Len(sess.hash) THEN sess.hash[i] ELSE worker.got
        /\ Len(sess.hash) \in Nat /\ Len(sess.ring) \in Nat
    BY <1>4, AppendProperties, LenProperties DEF SessTyped
  <2>6. /\ sess.written \in Nat /\ sess.written + 1 <= Chunks
        /\ sess.queued \in Nat /\ sess.queued - 1 \in 0 .. Chunks
    <3>1. worker.got.c \in Nat /\ worker.got.c < Chunks /\ Chunks \in Nat
      BY <1>4, SessionConstants DEF Pieces, Offsets
    <3>2. sess.queued \in 0 .. Chunks
      BY <1>4 DEF SessTyped
    <3> QED
      BY <2>2, <2>3, <2>4, <2>5, <3>1, <3>2
  <2>7. SessTyped'
    <3>1. sess'.written \in 0 .. Chunks /\ sess'.queued \in 0 .. Chunks
      BY <2>1, <2>6, SessionConstants
    <3> QED
      BY <1>1, <1>3, <1>4, <2>1, <2>5, <3>1 DEF SessTyped
  <2>8. Data' = Data
    BY <1>1, <1>3 DEF Data, ReqData, Queued
  <2>9. ASSUME NEW u \in 1 .. MaxUploads, OfUpload(u)
        PROVE  OfUpload(u)'
    <3>1. \A i \in 1 .. Len(sess'.hash) : sess'.hash[i] = [c |-> i - 1, u |-> u]
      <4> TAKE i \in 1 .. Len(sess'.hash)
      <4>1. i \in 1 .. Len(sess.hash) + 1
        BY <2>1, <2>5
      <4>2. CASE i <= Len(sess.hash)
        BY <2>1, <2>5, <2>9, <4>1, <4>2 DEF OfUpload
      <4>3. CASE ~(i <= Len(sess.hash))
        <5>1. i - 1 = Len(sess.hash)
          BY <2>5, <4>1, <4>3
        <5>2. sess'.hash[i] = worker.got
          BY <2>1, <2>5, <4>1, <4>3
        <5> QED
          BY <1>4, <2>9, <5>1, <5>2 DEF OfUpload
      <4> QED
        BY <4>2, <4>3
    <3>2. \A i \in 1 .. Len(sess'.ring) :
             sess'.ring[i] = [c |-> Len(sess'.hash) + WithWorker' + i - 1, u |-> u]
      <4> TAKE i \in 1 .. Len(sess'.ring)
      <4>1. sess.ring[i] = [c |-> Len(sess.hash) + WithWorker + i - 1, u |-> u]
        BY <1>3, <2>9 DEF OfUpload
      <4>2. Len(sess.hash) + WithWorker + i - 1 = Len(sess'.hash) + WithWorker' + i - 1
        BY <1>3, <2>1, <2>4, <2>5
      <4> QED
        BY <1>3, <4>1, <4>2
    <3>3. /\ worker'.got = NoMsg
          /\ \A d \in Data' : d.sid = sess'.sid => d.u = u
          /\ host'.at \in {"data", "finish"} /\ host'.sid = sess'.sid => host'.u = u
      BY <1>1, <1>3, <2>8, <2>9 DEF OfUpload
    <3> QED
      BY <3>1, <3>2, <3>3 DEF OfUpload
  <2>10. Streams'
    <3>1. \A h \in sess'.holds : h.sid = sess'.sid
      BY <1>1, <1>3 DEF UInv, Streams
    <3>2. /\ Len(sess'.hash) = sess'.written
          /\ sess'.queued = WithWorker' + Len(sess'.ring)
          /\ sess'.received = sess'.written + sess'.queued
      <4>1. Len(sess'.hash) = sess'.written
        BY <2>1, <2>3, <2>5
      <4>2. sess'.queued = WithWorker' + Len(sess'.ring)
        BY <1>3, <2>1, <2>3, <2>4, <2>5
      <4>3. sess'.received = sess'.written + sess'.queued
        BY <1>3, <2>1, <2>3, <2>6
      <4> QED
        BY <4>1, <4>2, <4>3
    <3> QED
      BY <2>3, <2>9, <3>1, <3>2 DEF Streams
  <2> QED
    BY <2>7, <2>8, <2>10
<1>6. ASSUME sess' = AfterFailure(sess, worker.got)
      PROVE  SessTyped' /\ Data' = Data /\ Streams'
  <2>1. /\ sess'.hash = sess.hash /\ sess'.written = sess.written
        /\ sess'.queued = sess.queued /\ sess'.abort = TRUE
    BY <1>6 DEF IInv, Records, IsSession, AfterFailure
  <2>2. SessTyped'
    BY <1>1, <1>3, <1>4, <2>1 DEF SessTyped
  <2>3. Data' = Data
    BY <1>1, <1>3 DEF Data, ReqData, Queued
  <2>4. Streams'
    BY <1>1, <1>3, <2>1 DEF UInv, Streams
  <2> QED
    BY <2>2, <2>3, <2>4
<1>7. SessTyped' /\ Data' = Data /\ Streams'
  BY <1>2, <1>5, <1>6
<1>8. Typed'
  BY <1>1, <1>4, <1>7, WorkerTyped DEF Typed
<1>9. Finishing' \subseteq Finishing
  BY <1>1, <1>3 DEF Finishing
<1>10. Aside
  BY <1>1, <1>3, <1>9 DEF Aside, Open
<1>11. Completion'
  BY <1>1, <1>3 DEF UInv, Completion, Booted
<1> QED
  BY <1>7, <1>8, <1>10, <1>11, AsideUInv

\* What the worker does with a FINISH leaves the chunks alone.
ResultTyped(r) ==
    /\ r.status \in Statuses /\ r.sid \in Nat
    /\ r = [valid |-> r.valid, status |-> r.status, sid |-> r.sid, sha |-> r.sha]
ChunksStay ==
    /\ sess'.ring = sess.ring /\ sess'.hash = sess.hash /\ sess'.holds = sess.holds
    /\ sess'.received = sess.received /\ sess'.written = sess.written
    /\ sess'.queued = sess.queued /\ sess'.sid = sess.sid /\ sess'.abort = sess.abort
    /\ worker'.got = worker.got
WorkerSide ==
    /\ UNCHANGED <<conn, req, host, rxq, rx, down, nextSid>>
    /\ ChunksStay /\ sess'.finSeq = sess.finSeq /\ (Open' => Open)
    /\ worker'.seq \in Nat /\ worker'.at # "write" /\ ResultTyped(sess'.result)
    /\ hist.booted \subseteq hist'.booted /\ Finishing' \subseteq Finishing
    /\ \A r \in rsp' : r \in rsp \/ /\ r \in Answerings /\ r.sid = 0 /\ r.seq \in Finishing
                                    /\ r.status = "ok" => Booted(sess.sid)

\* Such a step of the worker keeps the invariant if it keeps what is completed.
LEMMA WorkerSideUInv ==
    ASSUME IInv, UInv, WorkerSide, Completion'
    PROVE  UInv'
<1>1. Typed /\ SessTyped /\ rsp \subseteq Answerings
  BY DEF UInv, Typed, Answerings
<1>2. SessTyped'
  BY <1>1 DEF WorkerSide, ChunksStay, ResultTyped, SessTyped
<1>3. rsp' \subseteq Answerings
  BY <1>1 DEF WorkerSide
<1>4. worker'.got \in Pieces \cup {NoMsg}
  BY <1>1 DEF WorkerSide, ChunksStay, Typed
<1>5. Typed'
  BY <1>1, <1>2, <1>3, <1>4, WorkerTyped DEF WorkerSide
<1>6. Data' = Data
  BY DEF WorkerSide, ChunksStay, Data, ReqData, Queued
<1>7. StreamStays
  BY <1>6 DEF StreamStays, WorkerSide, ChunksStay
<1>8. Streams'
  BY <1>7, StreamStaysStreams DEF UInv
<1>9. \A r \in rsp' : r \in rsp \/ ControlAnswer(r)
  BY DEF WorkerSide, ControlAnswer
<1>10. Aside
  BY <1>9 DEF Aside, WorkerSide, ChunksStay
<1> QED
  BY <1>5, <1>8, <1>10, AsideUInv

\* It starts on a FINISH whose turn has come.
LEMMA WorkerFinishesUInv ==
    ASSUME IInv, UInv, WorkerFinishes
    PROVE  UInv'
<1>1. /\ UNCHANGED <<conn, req, rsp, host, sess, rxq, rx, down, flash, nextSid, hist>>
      /\ worker.at = "loop" /\ worker'.at = "verify" /\ worker'.got = worker.got
      /\ worker'.seq = sess.finSeq /\ sess.finish
  BY DEF WorkerFinishes, FinishDue, At, netVars, IInv, Records
<1>2. Finishing' \subseteq Finishing
  BY <1>1 DEF Finishing
<1>3. SessTyped /\ Completion
  BY DEF UInv, Typed
<1>4. Completion'
  BY <1>1, <1>3 DEF Completion, Booted
<1>5. ResultTyped(sess.result) /\ sess.finSeq \in Nat
  BY <1>3 DEF SessTyped, ResultTyped
<1>6. WorkerSide
  BY <1>1, <1>2, <1>5 DEF WorkerSide, ChunksStay, Open
<1> QED
  BY <1>4, <1>6, WorkerSideUInv

\* The FINISH fails.
LEMMA FinishFailsUInv ==
    ASSUME IInv, UInv, FinishFails, worker.at \in {"verify", "check", "end"},
           UNCHANGED <<conn, req, host, rxq, rx, down, flash, nextSid>>
    PROVE  UInv'
<1>1. sess' = Failed(sess) /\ AnswersOne(worker.seq, "refused")
  BY DEF FinishFails
<1>2. /\ hist'.booted = hist.booted /\ hist'.completed = hist.completed
      /\ worker'.at = "exit" /\ worker'.got = worker.got /\ worker'.seq = worker.seq
  BY DEF FinishFails, Answered, Goes, IInv, Records
<1>3. /\ sess'.ring = sess.ring /\ sess'.hash = sess.hash /\ sess'.holds = sess.holds
      /\ sess'.received = sess.received /\ sess'.written = sess.written
      /\ sess'.queued = sess.queued /\ sess'.sid = sess.sid /\ sess'.abort = sess.abort
      /\ sess'.finSeq = sess.finSeq /\ sess'.state = sess.state /\ sess'.finish = FALSE
      /\ sess'.result =
            [valid |-> TRUE, status |-> "refused", sid |-> sess.sid, sha |-> sess.finSha]
  BY <1>1 DEF Failed, SetResult, IInv, Records, IsSession
<1>4. Finishing' \subseteq Finishing
  BY <1>2, <1>3 DEF Finishing
<1>5. Typed /\ sess.sid \in Nat /\ worker.seq \in Nat /\ worker.seq \in Finishing
  BY DEF UInv, Typed, IInv, Sids, Finishing
<1>6. ResultTyped(sess'.result)
  BY <1>3, <1>5 DEF ResultTyped, Statuses
<1>7. \A r \in rsp' : r \in rsp \/ /\ r \in Answerings /\ r.sid = 0 /\ r.seq \in Finishing
                                   /\ r.status = "ok" => Booted(sess.sid)
  BY <1>1, <1>5, AnswersOneIs DEF Answerings, Statuses
<1>8. Completion'
  BY <1>2, <1>3 DEF UInv, Completion, Booted
<1>9. WorkerSide
  <2>1. ChunksStay
    BY <1>2, <1>3 DEF ChunksStay
  <2>2. sess'.finSeq = sess.finSeq /\ (Open' => Open) /\ worker'.seq \in Nat
        /\ worker'.at # "write" /\ hist.booted \subseteq hist'.booted
    BY <1>2, <1>3, <1>5 DEF Open
  <2> QED
    BY <1>4, <1>6, <1>7, <2>1, <2>2 DEF WorkerSide
<1> QED
  BY <1>8, <1>9, WorkerSideUInv

\* It closes the session to an ABORT.
LEMMA WorkerVerifiesUInv ==
    ASSUME IInv, UInv, WorkerVerifies
    PROVE  UInv'
<1>1. UNCHANGED <<conn, req, host, rxq, rx, down, flash, nextSid>> /\ worker.at = "verify"
  BY DEF WorkerVerifies, At
<1>2. CASE sess' = Applying(sess) /\ Goes("check") /\ UNCHANGED <<rsp, hist>>
  <2>1. /\ worker'.at = "check" /\ worker'.got = worker.got /\ worker'.seq = worker.seq
    BY <1>2 DEF Goes, IInv, Records
  <2>2. /\ sess'.ring = sess.ring /\ sess'.hash = sess.hash /\ sess'.holds = sess.holds
        /\ sess'.received = sess.received /\ sess'.written = sess.written
        /\ sess'.queued = sess.queued /\ sess'.sid = sess.sid /\ sess'.abort = sess.abort
        /\ sess'.finSeq = sess.finSeq /\ sess'.state = "applying" /\ sess'.finish = FALSE
        /\ sess'.result = sess.result
    BY <1>2 DEF Applying, IInv, Records, IsSession
  <2>3. Finishing' \subseteq Finishing
    BY <1>1, <2>1, <2>2 DEF Finishing
  <2>4. SessTyped /\ worker.seq \in Nat
    BY DEF UInv, Typed
  <2>5. ResultTyped(sess'.result)
    BY <2>2, <2>4 DEF SessTyped, ResultTyped
  <2>6. Completion'
    BY <1>2, <2>1, <2>2 DEF UInv, Completion, Booted
  <2>7. WorkerSide
    BY <1>1, <1>2, <2>1, <2>2, <2>3, <2>4, <2>5 DEF WorkerSide, ChunksStay, Open
  <2> QED
    BY <2>6, <2>7, WorkerSideUInv
<1>3. CASE FinishFails
  BY <1>1, <1>3, FinishFailsUInv
<1> QED
  BY <1>2, <1>3 DEF WorkerVerifies

\* It compares the digests and looks for an ABORT.
LEMMA WorkerChecksUInv ==
    ASSUME IInv, UInv, WorkerChecks
    PROVE  UInv'
<1>1. UNCHANGED <<conn, req, host, rxq, rx, down, flash, nextSid>> /\ worker.at = "check"
  BY DEF WorkerChecks, At
<1>2. CASE Goes("end") /\ UNCHANGED <<rsp, sess, hist>>
  <2>1. /\ worker'.at = "end" /\ worker'.got = worker.got /\ worker'.seq = worker.seq
    BY <1>2 DEF Goes, IInv, Records
  <2>2. Finishing' \subseteq Finishing
    BY <1>1, <1>2, <2>1 DEF Finishing
  <2>3. SessTyped /\ worker.seq \in Nat
    BY DEF UInv, Typed
  <2>4. ResultTyped(sess'.result)
    BY <1>2, <2>3 DEF SessTyped, ResultTyped
  <2>5. Completion'
    BY <1>2, <2>1 DEF UInv, Completion, Booted
  <2>6. WorkerSide
    BY <1>1, <1>2, <2>1, <2>2, <2>3, <2>4 DEF WorkerSide, ChunksStay, Open
  <2> QED
    BY <2>5, <2>6, WorkerSideUInv
<1>3. CASE FinishFails
  BY <1>1, <1>3, FinishFailsUInv
<1> QED
  BY <1>2, <1>3 DEF WorkerChecks

\* It makes the image the one to boot.
LEMMA WorkerBootsUInv ==
    ASSUME IInv, UInv, WorkerBoots
    PROVE  UInv'
<1>1. UNCHANGED <<conn, req, host, rxq, rx, down, flash, nextSid>> /\ worker.at = "end"
  BY DEF WorkerBoots, At
<1>2. CASE /\ hist' = [hist EXCEPT !.booted = @ \cup {[sid |-> sess.sid, data |-> flash]}]
           /\ Goes("reply") /\ UNCHANGED <<rsp, sess>>
  <2>1. /\ worker'.at = "reply" /\ worker'.got = worker.got /\ worker'.seq = worker.seq
        /\ hist'.completed = hist.completed
        /\ hist'.booted = hist.booted \cup {[sid |-> sess.sid, data |-> flash]}
    BY <1>2 DEF Goes, IInv, Records
  <2>2. Finishing' \subseteq Finishing
    BY <1>1, <1>2, <2>1 DEF Finishing
  <2>3. SessTyped /\ worker.seq \in Nat
    BY DEF UInv, Typed
  <2>4. ResultTyped(sess'.result)
    BY <1>2, <2>3 DEF SessTyped, ResultTyped
  <2>5. Completion'
    <3>1. \A sid : Booted(sid) => Booted(sid)'
      BY <2>1 DEF Booted
    <3>2. Booted(sess.sid)'
      <4>1. [sid |-> sess.sid, data |-> flash] \in hist'.booted
        BY <2>1
      <4> QED
        BY <1>2, <4>1 DEF Booted
    <3>3. Completion
      BY DEF UInv
    <3> QED
      BY <1>2, <2>1, <3>1, <3>2, <3>3 DEF Completion
  <2>6. WorkerSide
    BY <1>1, <1>2, <2>1, <2>2, <2>3, <2>4 DEF WorkerSide, ChunksStay, Open
  <2> QED
    BY <2>5, <2>6, WorkerSideUInv
<1>3. CASE FinishFails
  BY <1>1, <1>3, FinishFailsUInv
<1> QED
  BY <1>2, <1>3 DEF WorkerBoots

\* It says so.
LEMMA WorkerRepliesUInv ==
    ASSUME IInv, UInv, WorkerReplies
    PROVE  UInv'
<1>1. /\ UNCHANGED <<conn, req, host, rxq, rx, down, flash, nextSid>> /\ worker.at = "reply"
      /\ sess' = SetResult(sess, "ok") /\ AnswersOne(worker.seq, "ok")
  BY DEF WorkerReplies, At
<1>2. /\ hist'.booted = hist.booted /\ hist'.completed = hist.completed
      /\ worker'.at = "done" /\ worker'.got = worker.got /\ worker'.seq = worker.seq
  BY DEF WorkerReplies, Answered, Goes, IInv, Records
<1>3. /\ sess'.ring = sess.ring /\ sess'.hash = sess.hash /\ sess'.holds = sess.holds
      /\ sess'.received = sess.received /\ sess'.written = sess.written
      /\ sess'.queued = sess.queued /\ sess'.sid = sess.sid /\ sess'.abort = sess.abort
      /\ sess'.finSeq = sess.finSeq /\ sess'.state = sess.state /\ sess'.finish = sess.finish
      /\ sess'.result = [valid |-> TRUE, status |-> "ok", sid |-> sess.sid, sha |-> sess.finSha]
  BY <1>1 DEF SetResult, IInv, Records, IsSession
<1>4. Finishing' \subseteq Finishing
  BY <1>2, <1>3 DEF Finishing
<1>5. Typed /\ sess.sid \in Nat /\ worker.seq \in Nat /\ worker.seq \in Finishing
  BY <1>1 DEF UInv, Typed, IInv, Sids, Finishing
<1>6. ResultTyped(sess'.result)
  BY <1>3, <1>5 DEF ResultTyped, Statuses
<1>7. Booted(sess.sid) /\ Completion
  BY <1>1 DEF UInv, Completion
<1>8. \A r \in rsp' : r \in rsp \/ /\ r \in Answerings /\ r.sid = 0 /\ r.seq \in Finishing
                                   /\ r.status = "ok" => Booted(sess.sid)
  BY <1>1, <1>5, <1>7, AnswersOneIs DEF Answerings, Statuses
<1>9. Completion'
  BY <1>2, <1>3, <1>7 DEF Completion, Booted
<1>10. WorkerSide
  <2>1. ChunksStay
    BY <1>2, <1>3 DEF ChunksStay
  <2>2. sess'.finSeq = sess.finSeq /\ (Open' => Open) /\ worker'.seq \in Nat
        /\ worker'.at # "write" /\ hist.booted \subseteq hist'.booted
    BY <1>2, <1>3, <1>5 DEF Open
  <2> QED
    BY <1>1, <1>4, <1>6, <1>8, <2>1, <2>2 DEF WorkerSide
<1> QED
  BY <1>9, <1>10, WorkerSideUInv

\* It leaves, and with it the session's chunks; a FINISH still pending is refused.
LEMMA WorkerExitsUInv ==
    ASSUME IInv, UInv, WorkerExits
    PROVE  UInv'
<1>1. /\ UNCHANGED <<conn, req, host, rxq, rx, down, flash, nextSid>>
      /\ worker.at \in {"exit", "done"} /\ worker' = Resting
      /\ sess' = WorkerEnds(sess, At("done"))
      /\ \/ At("exit") /\ Owes(sess) /\ AnswersOne(sess.finSeq, "refused")
            /\ hist' = Answered(sess.finSeq)
         \/ UNCHANGED <<rsp, hist>>
  BY DEF WorkerExits
<1>2. /\ hist'.booted = hist.booted /\ hist'.completed = hist.completed
      /\ worker'.at = "none" /\ worker'.got = NoMsg /\ worker'.seq = 0
  BY <1>1 DEF Answered, Resting, IInv, Records
<1>3. /\ sess'.ring = <<>> /\ sess'.hash = sess.hash /\ sess'.holds \in {sess.holds, {}}
      /\ sess'.received \in {sess.received, 0} /\ sess'.written \in {sess.written, 0}
      /\ sess'.queued = 0 /\ sess'.finSeq = sess.finSeq /\ sess'.state # "receiving"
      /\ sess'.finish = FALSE /\ sess'.result = sess.result
  <2>1. CASE At("done")
    <3>1. sess' = WorkerFinish(sess) /\ sess.state = "applying"
      BY <1>1, <2>1 DEF WorkerEnds, At, IInv, WorkerPlaces
    <3> QED
      BY <3>1 DEF WorkerFinish, IInv, Records, IsSession
  <2>2. CASE ~At("done")
    <3>1. sess' = ClearState(WorkerFinish(AbortOta(sess)))
      BY <1>1, <2>2 DEF WorkerEnds
    <3> QED
      BY <3>1 DEF WorkerFinish, ClearState, AbortOta, IInv, Records, IsSession
  <2> QED
    BY <2>1, <2>2
<1>4. Finishing' = {} /\ ~Open'
  BY <1>2, <1>3 DEF Finishing, Open
<1>5. Typed /\ SessTyped /\ rsp \subseteq Answerings
  BY DEF UInv, Typed, Answerings
<1>6. \A r \in rsp' : r \in rsp \/ /\ r \in Answerings /\ r.sid = 0 /\ r.seq \in Finishing
                                   /\ r.status # "ok"
  <2>1. CASE UNCHANGED <<rsp, hist>>
    BY <2>1
  <2>2. CASE Owes(sess) /\ AnswersOne(sess.finSeq, "refused")
    <3>1. sess.finSeq \in Finishing /\ sess.finSeq \in Nat
      BY <1>5, <2>2 DEF Owes, Finishing, SessTyped
    <3> QED
      BY <2>2, <3>1, AnswersOneIs DEF Answerings, Statuses
  <2> QED
    BY <1>1, <2>1, <2>2
<1>7. SessTyped'
  <2>1. IsFiniteSet({}) /\ Cardinality({}) = 0 /\ <<>> \in Seq(Pieces) /\ Len(<<>>) = 0
    BY FS_EmptySet
  <2>2. 0 \in 0 .. Chunks /\ 0 <= RingSlots /\ 0 <= HoldSlots
    BY SessionConstants
  <2> QED
    BY <1>1, <1>3, <1>5, <2>1, <2>2 DEF SessTyped
<1>8. Typed'
  BY <1>1, <1>2, <1>5, <1>6, <1>7, WorkerTyped
<1>9. Streams' /\ Completion'
  BY <1>2, <1>3, <1>4 DEF UInv, Streams, Completion, Booted
<1>10. \A r \in rsp' : r \in rsp \/ ControlAnswer(r)
  BY <1>6 DEF ControlAnswer
<1>11. Aside
  BY <1>1, <1>2, <1>3, <1>4, <1>10 DEF Aside
<1> QED
  BY <1>8, <1>9, <1>11, AsideUInv

(* Requests of the upload that carry no chunk *)

\* What a step of the device that only looks at what waits has to keep of the types.
LEMMA DeviceTyped ==
    ASSUME Typed, UNCHANGED <<host, rxq, rx>>, req' \subseteq req, SessTyped',
           conn' \in [link : 0 .. MaxLinks, at : {"none", "up", "lost", "closing"}],
           down' \in [at : {"idle", "drain", "wait", "again"}, event : {"none", "error", "down"}],
           worker' = worker, rsp' \subseteq Answerings
    PROVE  Typed'
<1>1. HostTyped'
  BY DEF Typed, HostTyped
<1>2. \A m \in req' : RequestTyped(m)'
  BY DEF Typed, RequestTyped
<1>3. req' # {} => req # {}
  OBVIOUS
<1> QED
  BY <1>1, <1>2, <1>3 DEF Typed, Answerings

\* The session a request finds: the one there is, or an idle one without anything.
LEMMA CurrentIs ==
    ASSUME IInv, ~LeftToWorker
    PROVE  \/ Current = sess
           \/ /\ Current = Fresh(conn.link) /\ sess.state = "idle" /\ sess.holds = {}
              /\ ~sess.finish /\ worker.at = "none"
<1>1. CASE sess.used
  BY <1>1 DEF Current
<1>2. CASE ~sess.used
  <2>1. Current = Fresh(conn.link)
    BY <1>2 DEF Current
  <2>2. worker.at = "none" /\ sess.state = "idle"
    BY <1>2 DEF LeftToWorker, IInv, WorkerPlaces, Left
  <2>3. sess.holds = {} /\ ~sess.finish
    BY <2>2 DEF IInv, Idle, NoWork
  <2> QED
    BY <2>1, <2>2, <2>3
<1> QED
  BY <1>1, <1>2

\* A session entry that was just taken is empty.
LEMMA FreshTyped ==
    ASSUME NEW l, NEW s, s = Fresh(l), sess' = s
    PROVE  /\ SessTyped' /\ sess'.state = "idle" /\ sess'.holds = {}
           /\ sess'.finish = FALSE /\ ~sess'.result.valid
<1>1. /\ s.ring = <<>> /\ s.hash = <<>> /\ s.holds = {} /\ s.received = 0 /\ s.written = 0
      /\ s.queued = 0 /\ s.finSeq = 0 /\ s.state = "idle" /\ s.finish = FALSE
      /\ s.result = NoResult
  BY DEF Fresh, Unused
<1>2. IsFiniteSet({}) /\ Cardinality({}) = 0 /\ <<>> \in Seq(Pieces) /\ Len(<<>>) = 0
  BY FS_EmptySet
<1>3. 0 \in 0 .. Chunks /\ 0 <= RingSlots /\ 0 <= HoldSlots
  BY SessionConstants
<1> QED
  BY <1>1, <1>2, <1>3 DEF SessTyped, NoResult, Statuses

\* A request that finds its session, or changes nothing of it but the holds.
LEMMA LookedUpUInv ==
    ASSUME IInv, UInv,
           \/ ~LeftToWorker /\ sess' = Current
           \/ sess' \in {sess, [sess EXCEPT !.holds = {}]},
           UNCHANGED <<conn, host, rxq, rx, down, worker, nextSid>>, req' \subseteq req,
           hist'.booted = hist.booted, hist'.completed = hist.completed,
           \A r \in rsp' : r \in rsp \/ (r \in Answerings /\ ControlAnswer(r))
    PROVE  UInv'
<1>0. Typed /\ SessTyped /\ rsp \subseteq Answerings /\ Streams /\ Completion
  BY DEF UInv, Typed, Answerings
<1>1. CASE sess' \in {sess, [sess EXCEPT !.holds = {}]}
  <2>1. /\ sess'.ring = sess.ring /\ sess'.hash = sess.hash /\ sess'.holds \in {sess.holds, {}}
        /\ sess'.received = sess.received /\ sess'.written = sess.written
        /\ sess'.queued = sess.queued /\ sess'.sid = sess.sid /\ sess'.abort = sess.abort
        /\ sess'.finSeq = sess.finSeq /\ sess'.state = sess.state
        /\ sess'.finish = sess.finish /\ sess'.result = sess.result
    BY <1>1 DEF IInv, Records, IsSession
  <2>2. SessTyped'
    <3>1. IsFiniteSet({}) /\ Cardinality({}) = 0 /\ 0 <= HoldSlots
      BY FS_EmptySet, SessionConstants
    <3> QED
      BY <1>0, <2>1, <3>1 DEF SessTyped
  <2>3. Finishing' = Finishing
    BY <2>1 DEF Finishing
  <2>4. Typed'
    BY <1>0, <2>2, DeviceTyped DEF Typed
  <2>5. Aside
    BY <2>1, <2>3 DEF Aside, Open
  <2>6. Data' \subseteq Data
    BY <2>4, <2>5, AsideShrinks DEF Shrinks, Onward
  <2>7. StreamStays
    BY <2>1, <2>6 DEF StreamStays, Open
  <2>8. Completion'
    BY <1>0, <2>1 DEF Completion, Booted
  <2> QED
    BY <1>0, <2>4, <2>5, <2>7, <2>8, StreamStaysStreams, AsideUInv
<1>2. CASE ~(sess' \in {sess, [sess EXCEPT !.holds = {}]})
  <2>1. sess' = Fresh(conn.link) /\ worker.at = "none"
    BY <1>2, CurrentIs
  <2>2. /\ SessTyped' /\ sess'.state = "idle" /\ sess'.holds = {}
        /\ sess'.finish = FALSE /\ ~sess'.result.valid
    BY <2>1, FreshTyped
  <2>3. Finishing' = {}
    BY <2>1, <2>2 DEF Finishing
  <2>4. Typed'
    BY <1>0, <2>2, DeviceTyped DEF Typed
  <2>5. Aside
    BY <2>2, <2>3 DEF Aside, Open
  <2>6. Streams'
    BY <2>2 DEF Streams, Open
  <2>7. Completion'
    BY <1>0, <2>1, <2>2 DEF Completion, Booted
  <2> QED
    BY <2>4, <2>5, <2>6, <2>7, AsideUInv
<1> QED
  BY <1>1, <1>2

\* The session of a request is looked up.
LEMMA RequestTakenUInv ==
    ASSUME IInv, UInv, NEW m, RequestTaken(m)
    PROVE  UInv'
  BY LookedUpUInv DEF RequestTaken

\* FINISH: answered, and with "ok" only as the last result was, or noted.
LEMMA DeviceFinishUInv ==
    ASSUME IInv, UInv, NEW m \in req, DeviceFinish(m)
    PROVE  UInv'
<1>1. /\ m \in req /\ m.kind = "finish" /\ req' = req \ {m}
      /\ UNCHANGED <<conn, host, rxq, rx, down, worker, flash, nextSid>>
  BY DEF DeviceFinish, Control
<1>2. m.seq \in Nat /\ Typed /\ SessTyped
  BY <1>1 DEF UInv, Typed, RequestTyped
<1>3. CASE /\ UNCHANGED <<sess, hist>>
           /\ AnswersOne(m.seq, IF sess.closing THEN "refused"
                                ELSE FinishStatus(sess, m.sid, m.sha))
  <2> DEFINE st == IF sess.closing THEN "refused" ELSE FinishStatus(sess, m.sid, m.sha)
  <2>1. st \in {"refused", "busy"} \/ (Known(sess, m.sid, m.sha) /\ st = sess.result.status)
    BY DEF FinishStatus
  <2>2. st \in Statuses
    BY <1>2, <2>1 DEF SessTyped, Statuses
  <2>3. st = "ok" => Booted(m.sid)
    BY <2>1 DEF Known, UInv, Completion
  <2>4. AnswersOne(m.seq, st)
    BY <1>3
  <2> HIDE DEF st
  <2>5. \A r \in rsp' : r \in rsp \/ (r \in Answerings /\ ControlAnswer(r))
    <3> TAKE r \in rsp'
    <3>1. r \in rsp \/ r = [seq |-> m.seq, status |-> st, sid |-> 0]
      BY <2>4, AnswersOneIs
    <3> QED
      BY <3>1, <1>1, <1>2, <2>2, <2>3 DEF Answerings, ControlAnswer
  <2> QED
    BY <1>1, <1>3, <2>5, LookedUpUInv
<1>4. CASE /\ TakesFinish(sess, m.sid, m.sha) /\ sess' = FinishPending(sess, m.seq, m.sha)
           /\ hist' = [hist EXCEPT !.owed = @ \cup {m.seq}] /\ UNCHANGED rsp
  <2>1. sess.state = "receiving" /\ m.sid = sess.sid
    BY <1>4 DEF TakesFinish, Complete
  <2>2. /\ sess'.ring = sess.ring /\ sess'.hash = sess.hash /\ sess'.holds = sess.holds
        /\ sess'.received = sess.received /\ sess'.written = sess.written
        /\ sess'.queued = sess.queued /\ sess'.sid = sess.sid /\ sess'.abort = sess.abort
        /\ sess'.finSeq = m.seq /\ sess'.state = sess.state /\ sess'.finish = TRUE
        /\ sess'.result = sess.result
    BY <1>4, <2>1 DEF FinishPending, IInv, Records, IsSession
  <2>3. hist'.booted = hist.booted /\ hist'.completed = hist.completed
    BY <1>4 DEF IInv, Records
  <2>4. SessTyped'
    BY <1>2, <2>2 DEF SessTyped
  <2>5. Typed'
    BY <1>1, <1>2, <1>4, <2>4, DeviceTyped DEF Typed, Answerings
  <2>6. \A q \in Finishing' : q \in Finishing \/ q = m.seq
    BY <1>1, <2>2 DEF Finishing
  <2>7. Aside
    BY <1>1, <1>4, <2>1, <2>2, <2>3, <2>6 DEF Aside, Open
  <2>8. Data' \subseteq Data
    BY <2>5, <2>7, AsideShrinks DEF Shrinks, Onward
  <2>9. StreamStays
    BY <1>1, <2>2, <2>8 DEF StreamStays, Open
  <2>10. Completion'
    BY <1>1, <2>2, <2>3 DEF UInv, Completion, Booted
  <2> QED
    BY <2>5, <2>7, <2>9, <2>10, StreamStaysStreams, AsideUInv DEF UInv
<1> QED
  BY <1>3, <1>4 DEF DeviceFinish

\* ABORT: the chunks held are given up.
LEMMA DeviceAbortUInv ==
    ASSUME IInv, UInv, NEW m \in req, DeviceAbort(m)
    PROVE  UInv'
<1>1. /\ m \in req /\ m.kind = "abort" /\ req' = req \ {m}
      /\ UNCHANGED <<conn, host, rxq, rx, down, worker, flash, nextSid>>
      /\ AnswersOne(m.seq, IF sess.closing THEN "refused" ELSE AbortStatus(sess, m.sid))
  BY DEF DeviceAbort, Control
<1>2. m.seq \in Nat /\ Typed /\ SessTyped
  BY <1>1 DEF UInv, Typed, RequestTyped
<1>3. \A r \in rsp' : r \in rsp \/ (r \in Answerings /\ ControlAnswer(r))
  <2> DEFINE st == IF sess.closing THEN "refused" ELSE AbortStatus(sess, m.sid)
  <2>1. st \in Statuses
    BY DEF AbortStatus, Statuses
  <2>2. AnswersOne(m.seq, st)
    BY <1>1
  <2> HIDE DEF st
  <2> TAKE r \in rsp'
  <2>3. r \in rsp \/ r = [seq |-> m.seq, status |-> st, sid |-> 0]
    BY <2>2, AnswersOneIs
  <2> QED
    BY <1>1, <1>2, <2>1, <2>3 DEF Answerings, ControlAnswer
<1>4. CASE UNCHANGED <<sess, hist>>
  BY <1>1, <1>3, <1>4, LookedUpUInv
<1>5. CASE /\ Aborts(sess, m.sid) /\ sess' = AbortAsync(sess)
           /\ hist' = [hist EXCEPT !.aborted = @ \cup {sess.sid}]
  <2>1. sess.worker
    BY <1>5 DEF Aborts, IInv, WorkerPlaces
  <2>2. sess' = [sess EXCEPT !.holds = {}, !.abort = TRUE]
    BY <1>5, <2>1 DEF AbortAsync
  <2>3. /\ sess'.ring = sess.ring /\ sess'.hash = sess.hash /\ sess'.holds = {}
        /\ sess'.received = sess.received /\ sess'.written = sess.written
        /\ sess'.queued = sess.queued /\ sess'.sid = sess.sid /\ sess'.abort
        /\ sess'.finSeq = sess.finSeq /\ sess'.state = sess.state
        /\ sess'.finish = sess.finish /\ sess'.result = sess.result
    BY <2>2 DEF IInv, Records, IsSession
  <2>4. hist'.booted = hist.booted /\ hist'.completed = hist.completed
    BY <1>5 DEF IInv, Records
  <2>5. SessTyped'
    <3>1. IsFiniteSet({}) /\ Cardinality({}) = 0 /\ 0 <= HoldSlots
      BY FS_EmptySet, SessionConstants
    <3> QED
      BY <1>2, <2>3, <3>1 DEF SessTyped
  <2>6. Typed'
    BY <1>1, <1>2, <1>3, <2>5, DeviceTyped DEF Typed, Answerings
  <2>7. Finishing' = Finishing
    BY <1>1, <2>3 DEF Finishing
  <2>8. Aside
    BY <1>1, <1>3, <2>3, <2>4, <2>7 DEF Aside, Open
  <2>9. Streams'
    BY <2>3 DEF Streams
  <2>10. Completion'
    BY <1>1, <2>3, <2>4 DEF UInv, Completion, Booted
  <2> QED
    BY <2>6, <2>8, <2>9, <2>10, AsideUInv
<1> QED
  BY <1>4, <1>5 DEF DeviceAbort

\* START is accepted: a session id that was never given, and nothing received yet.
LEMMA DeviceOpensUInv ==
    ASSUME IInv, UInv, NEW m, m \in req, m.kind = "start", req' = req \ {m},
           ~StartRefused(sess), sess' = Opened(sess, nextSid),
           worker' = [Resting EXCEPT !.at = "loop"], nextSid' = nextSid + 1,
           Answers({[seq |-> m.seq, status |-> "ok"]}, nextSid),
           UNCHANGED <<conn, host, rxq, rx, down, hist>>
    PROVE  UInv'
<1>1. /\ sess'.holds = {} /\ sess'.ring = <<>> /\ sess'.written = 0 /\ sess'.queued = 0
      /\ sess'.received = 0 /\ sess'.hash = <<>> /\ sess'.finish = FALSE /\ sess'.abort = FALSE
      /\ sess'.state = "receiving" /\ sess'.sid = nextSid /\ sess'.finSeq = sess.finSeq
      /\ sess'.result = [sess.result EXCEPT !.valid = FALSE]
  BY DEF Opened, IInv, Records, IsSession
<1>2. worker'.at = "loop" /\ worker'.got = NoMsg /\ worker'.seq = 0
  BY DEF Resting
<1>3. /\ Typed /\ SessTyped /\ rsp \subseteq Answerings /\ m.seq \in Nat /\ MaxUploads # 0
      /\ nextSid \in Nat /\ Numbered
  BY DEF UInv, Typed, RequestTyped, Answerings, IInv, Sids
<1>4. /\ sess.finSeq \in Nat /\ sess.result.status \in Statuses
      /\ sess.result.sid \in Nat
      /\ sess.result = [valid |-> sess.result.valid, status |-> sess.result.status,
                           sid |-> sess.result.sid, sha |-> sess.result.sha]
  BY <1>3 DEF SessTyped
<1>5. /\ sess'.result.valid = FALSE /\ sess'.result.status \in Statuses
      /\ sess'.result.sid \in Nat
      /\ sess'.result = [valid |-> sess'.result.valid, status |-> sess'.result.status,
                         sid |-> sess'.result.sid, sha |-> sess'.result.sha]
  BY <1>1, <1>4
<1>6. SessTyped'
  <2>1. IsFiniteSet({}) /\ Cardinality({}) = 0 /\ <<>> \in Seq(Pieces) /\ Len(<<>>) = 0
    BY FS_EmptySet
  <2>2. 0 \in 0 .. Chunks /\ 0 <= RingSlots /\ 0 <= HoldSlots
    BY SessionConstants
  <2> QED
    BY <1>1, <1>4, <1>5, <2>1, <2>2 DEF SessTyped
<1>7. \A r \in rsp' : r \in rsp \/ r = [seq |-> m.seq, status |-> "ok", sid |-> nextSid]
  BY DEF Answers
<1>8. rsp' \subseteq Answerings
  BY <1>3, <1>7 DEF Answerings, Statuses
<1>9. Typed'
  <2>1. HostTyped'
    BY <1>3 DEF Typed, HostTyped
  <2>2. \A r \in req' : RequestTyped(r)'
    BY <1>3 DEF Typed, RequestTyped
  <2> QED
    BY <1>2, <1>3, <1>6, <1>8, <2>1, <2>2 DEF Typed, Answerings
<1>10. Finishing' = {}
  BY <1>1, <1>2 DEF Finishing
<1>11. Restarted
  BY <1>1 DEF Restarted
<1>12. \A r \in rsp' : r \in rsp \/ ControlAnswer(r)
  BY <1>7, <1>11 DEF ControlAnswer
<1>13. Fewer
  <2>1. rxq \in Seq(DataMsgs)
    BY <1>3 DEF Typed
  <2> DEFINE g == [n \in 1 .. Len(rxq) |-> n]
  <2>2. g \in [1 .. Len(rxq') -> 1 .. Len(rxq)] /\ \A n \in 1 .. Len(rxq) : g[n] = n
    OBVIOUS
  <2> HIDE DEF g
  <2>3. \E f \in [1 .. Len(rxq') -> 1 .. Len(rxq)] :
          /\ \A n \in 1 .. Len(rxq') : rxq'[n] = rxq[f[n]]
          /\ \A n, k \in 1 .. Len(rxq') : f[n] = f[k] => n = k
    BY <2>2
  <2> QED
    BY <1>1, <2>3 DEF Fewer
<1>14. Data' \subseteq Data
  BY <1>13, FewerData
<1>15. Onward
  BY <1>1, <1>10, <1>11, <1>12, <1>14 DEF Onward
<1>16. OnePlace'
  BY <1>12, <1>13, <1>15, ShrinksPlace DEF Shrinks
<1>17. Streams'
  <2>1. \A d \in Data' : d.sid # sess'.sid
    BY <1>1, <1>3, <1>14, NumbersAre DEF Numbered
  <2>2. host'.sid # sess'.sid
    BY <1>1, <1>3, NumbersAre DEF Numbered
  <2>3. 1 \in 1 .. MaxUploads
    BY <1>3, OtaConstants
  <2>4. WithWorker' = 0
    BY <1>2 DEF WithWorker
  <2>5. OfUpload(1)'
    BY <1>1, <1>2, <2>1, <2>2 DEF OfUpload
  <2> QED
    BY <1>1, <2>3, <2>4, <2>5 DEF Streams
<1>18. Completion'
  BY <1>2, <1>5 DEF UInv, Completion, Booted
<1> QED
  BY <1>9, <1>15, <1>16, <1>17, <1>18, UInvBy

\* START is accepted or refused.
LEMMA DeviceStartUInv ==
    ASSUME IInv, UInv, NEW m \in req, DeviceStart(m)
    PROVE  UInv'
<1>1. /\ m \in req /\ m.kind = "start" /\ req' = req \ {m}
      /\ UNCHANGED <<conn, host, rxq, rx, down, hist>>
  BY DEF DeviceStart, Control
<1>2. CASE /\ ~StartRefused(sess) /\ sess' = Opened(sess, nextSid)
           /\ worker' = [Resting EXCEPT !.at = "loop"] /\ nextSid' = nextSid + 1
           /\ Answers({[seq |-> m.seq, status |-> "ok"]}, nextSid)
  BY <1>1, <1>2, DeviceOpensUInv
<1>3. CASE /\ sess' = IF StartRefused(sess) THEN sess ELSE [sess EXCEPT !.holds = {}]
           /\ AnswersOne(m.seq, "refused") /\ UNCHANGED <<worker, flash, nextSid>>
  <2>1. m.seq \in Nat
    BY <1>1 DEF UInv, Typed, RequestTyped
  <2>2. \A r \in rsp' : r \in rsp \/ (r \in Answerings /\ ControlAnswer(r))
    <3> TAKE r \in rsp'
    <3>1. r \in rsp \/ r = [seq |-> m.seq, status |-> "refused", sid |-> 0]
      BY <1>3, AnswersOneIs
    <3> QED
      BY <3>1, <1>1, <2>1 DEF Answerings, Statuses, ControlAnswer
  <2>3. sess' \in {sess, [sess EXCEPT !.holds = {}]}
    BY <1>3
  <2> QED
    BY <1>1, <1>3, <2>2, <2>3, LookedUpUInv
<1> QED
  BY <1>2, <1>3 DEF DeviceStart

(* Links *)

\* A step that leaves the session and its worker alone, too.
LEMMA LinkUInv ==
    ASSUME IInv, UInv, UNCHANGED <<host, sess, rxq, rx, worker, nextSid, hist>>,
           req' \subseteq req, rsp' \subseteq rsp,
           conn' \in [link : 0 .. MaxLinks, at : {"none", "up", "lost", "closing"}],
           down' \in [at : {"idle", "drain", "wait", "again"}, event : {"none", "error", "down"}]
    PROVE  UInv'
<1>1. Typed /\ SessTyped /\ rsp \subseteq Answerings /\ Streams /\ Completion
  BY DEF UInv, Typed, Answerings
<1>2. SessTyped'
  BY <1>1 DEF SessTyped
<1>3. Typed'
  BY <1>1, <1>2, DeviceTyped
<1>4. Finishing' = Finishing
  BY DEF Finishing
<1>5. Aside
  BY <1>4 DEF Aside, Open
<1>6. Data' \subseteq Data
  BY <1>3, <1>5, AsideShrinks DEF Shrinks, Onward
<1>7. StreamStays
  BY <1>6 DEF StreamStays, Open
<1>8. Completion'
  BY <1>1 DEF Completion, Booted
<1> QED
  BY <1>1, <1>3, <1>5, <1>7, <1>8, StreamStaysStreams, AsideUInv

\* A link comes up.
LEMMA ConnectUInv ==
    ASSUME IInv, UInv, Connect
    PROVE  UInv'
<1>1. conn \in [link : 0 .. MaxLinks, at : {"none", "up", "lost", "closing"}]
      /\ down \in [at : {"idle", "drain", "wait", "again"}, event : {"none", "error", "down"}]
  BY DEF UInv, Typed
<1>2. conn.link + 1 \in 0 .. MaxLinks
  BY <1>1, OtaConstants DEF Connect
<1> QED
  BY <1>1, <1>2, LinkUInv DEF Connect

\* It is lost, and with it the answers.
LEMMA DisconnectUInv ==
    ASSUME IInv, UInv, Disconnect
    PROVE  UInv'
<1>1. conn \in [link : 0 .. MaxLinks, at : {"none", "up", "lost", "closing"}]
      /\ down \in [at : {"idle", "drain", "wait", "again"}, event : {"none", "error", "down"}]
  BY DEF UInv, Typed
<1> QED
  BY <1>1, LinkUInv DEF Disconnect

\* It is closed, and the requests that had not arrived are gone.
LEMMA CloseUInv ==
    ASSUME IInv, UInv, Close
    PROVE  UInv'
<1>1. conn \in [link : 0 .. MaxLinks, at : {"none", "up", "lost", "closing"}]
      /\ down \in [at : {"idle", "drain", "wait", "again"}, event : {"none", "error", "down"}]
  BY DEF UInv, Typed
<1> QED
  BY <1>1, LinkUInv DEF Close

\* The teardown closes the session, which gives up its stream.
LEMMA DownStartsUInv ==
    ASSUME IInv, UInv, NEW event \in {"error", "down"}, DownStarts(event)
    PROVE  UInv'
<1>1. conn \in [link : 0 .. MaxLinks, at : {"none", "up", "lost", "closing"}]
      /\ down \in [at : {"idle", "drain", "wait", "again"}, event : {"none", "error", "down"}]
      /\ Typed /\ SessTyped /\ rsp \subseteq Answerings
  BY DEF UInv, Typed, Answerings
<1>2. CASE conn' = [conn EXCEPT !.at = "closing"] /\ UNCHANGED <<sess, down>>
  BY <1>1, <1>2, LinkUInv DEF DownStarts
<1>3. CASE /\ sess' = [sess EXCEPT !.closing = TRUE, !.abort = TRUE]
           /\ down' = [at |-> "drain", event |-> event] /\ UNCHANGED conn
  <2>1. /\ sess'.ring = sess.ring /\ sess'.hash = sess.hash /\ sess'.holds = sess.holds
        /\ sess'.received = sess.received /\ sess'.written = sess.written
        /\ sess'.queued = sess.queued /\ sess'.sid = sess.sid /\ sess'.abort = TRUE
        /\ sess'.finSeq = sess.finSeq /\ sess'.state = sess.state
        /\ sess'.finish = sess.finish /\ sess'.result = sess.result
    BY <1>3 DEF IInv, Records, IsSession
  <2>2. UNCHANGED <<req, rsp, host, rxq, rx, worker, flash, nextSid, hist>>
    BY DEF DownStarts
  <2>3. SessTyped'
    BY <1>1, <2>1 DEF SessTyped
  <2>4. Typed'
    BY <1>1, <1>3, <2>2, <2>3, DeviceTyped
  <2>5. Finishing' = Finishing
    BY <2>1, <2>2 DEF Finishing
  <2>6. Aside
    BY <2>1, <2>2, <2>5 DEF Aside, Open
  <2>7. Streams'
    BY <2>1 DEF UInv, Streams, Open
  <2>8. Completion'
    BY <2>1, <2>2 DEF UInv, Completion, Booted
  <2> QED
    BY <2>4, <2>6, <2>7, <2>8, AsideUInv
<1> QED
  BY <1>2, <1>3 DEF DownStarts

\* It clears the session once the worker is gone.
LEMMA DownClearsUInv ==
    ASSUME IInv, UInv, DownClears
    PROVE  UInv'
<1>1. /\ UNCHANGED <<conn, req, rsp, host, rxq, rx, worker, flash, nextSid, hist>>
      /\ sess' = TornDown(sess) /\ down' = [down EXCEPT !.at = "again"] /\ ~sess.worker
  BY DEF DownClears, netVars
<1>2. /\ conn \in [link : 0 .. MaxLinks, at : {"none", "up", "lost", "closing"}]
      /\ down \in [at : {"idle", "drain", "wait", "again"}, event : {"none", "error", "down"}]
      /\ Typed /\ SessTyped /\ rsp \subseteq Answerings
  BY DEF UInv, Typed, Answerings
<1>3. /\ sess'.ring = <<>> /\ sess'.hash = sess.hash /\ sess'.holds = {}
      /\ sess'.received = 0 /\ sess'.written = 0 /\ sess'.queued = 0
      /\ sess'.finSeq = sess.finSeq /\ sess'.state = "idle"
      /\ sess'.finish = FALSE /\ sess'.result = [sess.result EXCEPT !.valid = FALSE]
  BY <1>1 DEF TornDown, ClearState, AbortOta, WorkerFinish, IInv, Records, IsSession
<1>4. /\ sess'.result.valid = FALSE /\ sess'.result.status \in Statuses
      /\ sess'.result.sid \in Nat
      /\ sess'.result = [valid |-> sess'.result.valid, status |-> sess'.result.status,
                         sid |-> sess'.result.sid, sha |-> sess'.result.sha]
  BY <1>2, <1>3 DEF SessTyped
<1>5. SessTyped'
  <2>1. IsFiniteSet({}) /\ Cardinality({}) = 0 /\ <<>> \in Seq(Pieces) /\ Len(<<>>) = 0
    BY FS_EmptySet
  <2>2. 0 \in 0 .. Chunks /\ 0 <= RingSlots /\ 0 <= HoldSlots
    BY SessionConstants
  <2> QED
    BY <1>2, <1>3, <1>4, <2>1, <2>2 DEF SessTyped
<1>6. Typed'
  BY <1>1, <1>2, <1>5, DeviceTyped
<1>7. worker.at = "none"
  BY <1>1 DEF IInv, WorkerPlaces
<1>8. Finishing' = {}
  BY <1>1, <1>3, <1>7 DEF Finishing
<1>9. Aside
  BY <1>1, <1>3, <1>8 DEF Aside, Open
<1>10. Streams'
  BY <1>3 DEF Streams, Open
<1>11. Completion'
  BY <1>1, <1>4, <1>7 DEF UInv, Completion, Booted
<1> QED
  BY <1>6, <1>9, <1>10, <1>11, AsideUInv

\* As many places as a sequence is long.
LEMMA PositionsCount ==
  \A N \in Nat : IsFiniteSet(1 .. N) /\ Cardinality(1 .. N) = N
<1>1. \A a, b \in Int : /\ IsFiniteSet(a .. b)
                        /\ Cardinality(a .. b) = IF a > b THEN 0 ELSE b - a + 1
  BY FS_Interval
<1> SUFFICES ASSUME NEW N \in Nat
             PROVE  IsFiniteSet(1 .. N) /\ Cardinality(1 .. N) = N
  OBVIOUS
<1> DEFINE k == N
<1>2. 1 \in Int /\ k \in Int /\ (IF 1 > k THEN 0 ELSE k - 1 + 1) = N
  OBVIOUS
<1> HIDE DEF k
<1>3. /\ IsFiniteSet(1 .. k)
      /\ Cardinality(1 .. k) = IF 1 > k THEN 0 ELSE k - 1 + 1
  BY <1>1, <1>2, Zenon
<1> QED BY <1>2, <1>3 DEF k

\* What is left of the queue is in order and was there.
LEMMA DrainedQueue ==
    ASSUME Typed, DrainQueue
    PROVE  /\ rxq' \in Seq(DataMsgs) /\ Len(rxq') <= QueueDepth
           /\ \E g \in [1 .. Len(rxq') -> 1 .. Len(rxq)] :
                /\ \A n \in 1 .. Len(rxq') : rxq'[n] = rxq[g[n]]
                /\ \A n, k \in 1 .. Len(rxq') : g[n] = g[k] => n = k
<1> DEFINE N == Cardinality(Others)
<1>1. rxq \in Seq(DataMsgs) /\ Len(rxq) \in Nat /\ Len(rxq) <= QueueDepth
      /\ DOMAIN rxq = 1 .. Len(rxq)
  BY LenProperties DEF Typed
<1>2. Others \subseteq 1 .. Len(rxq)
  BY <1>1 DEF Others
<1>3. IsFiniteSet(1 .. Len(rxq)) /\ Cardinality(1 .. Len(rxq)) = Len(rxq)
  BY <1>1, PositionsCount
<1>4. N \in Nat /\ N <= Len(rxq)
  <2>1. IsFiniteSet(Others) /\ Cardinality(Others) <= Cardinality(1 .. Len(rxq))
    BY <1>2, <1>3, FS_Subset
  <2> QED
    BY <1>3, <2>1, FS_CardinalityType
<1> HIDE DEF N
<1>5. PICK kept \in [1 .. N -> Others] :
         /\ \A a, b \in DOMAIN kept : a < b => kept[a] < kept[b]
         /\ rxq' = [n \in DOMAIN kept |-> rxq[kept[n]]]
  BY DEF DrainQueue, N
<1>6. \A n \in 1 .. N : kept[n] \in 1 .. Len(rxq)
  BY <1>2, <1>5
<1>7. rxq' = [n \in 1 .. N |-> rxq[kept[n]]]
  BY <1>5
<1>8. \A n \in 1 .. N : rxq[kept[n]] \in DataMsgs
  BY <1>1, <1>6, ElementOfSeq
<1>9. rxq' \in [1 .. N -> DataMsgs]
  BY <1>7, <1>8
<1>10. rxq' \in Seq(DataMsgs) /\ Len(rxq') = N
  BY <1>4, <1>9
<1>11. \A n, k \in 1 .. N : kept[n] = kept[k] => n = k
  <2> SUFFICES ASSUME NEW n \in 1 .. N, NEW k \in 1 .. N, kept[n] = kept[k], n # k
               PROVE  FALSE
    OBVIOUS
  <2>1. n < k \/ k < n
    BY <1>4
  <2>2. kept[n] < kept[k] \/ kept[k] < kept[n]
    BY <1>5, <2>1
  <2>3. kept[n] \in Nat
    BY <1>6
  <2> QED
    BY <2>2, <2>3
<1>12. Len(rxq') <= QueueDepth
  BY <1>1, <1>4, <1>10, OtaConstants
<1>13. kept \in [1 .. Len(rxq') -> 1 .. Len(rxq)]
  BY <1>5, <1>6, <1>10
<1>14. /\ \A n \in 1 .. Len(rxq') : rxq'[n] = rxq[kept[n]]
       /\ \A n, k \in 1 .. Len(rxq') : kept[n] = kept[k] => n = k
  BY <1>7, <1>10, <1>11
<1>15. \E g \in [1 .. Len(rxq') -> 1 .. Len(rxq)] :
          /\ \A n \in 1 .. Len(rxq') : rxq'[n] = rxq[g[n]]
          /\ \A n, k \in 1 .. Len(rxq') : g[n] = g[k] => n = k
  BY <1>13, <1>14
<1> QED
  BY <1>10, <1>12, <1>15

\* The queue keeps what came from other links, in order (ota_rx_queue_drain_link).
LEMMA DrainQueueUInv ==
    ASSUME IInv, UInv, DrainQueue, UNCHANGED <<req, rsp, host, sess, rx, worker, nextSid, hist>>,
           conn' \in [link : 0 .. MaxLinks, at : {"none", "up", "lost", "closing"}],
           down' \in [at : {"idle", "drain", "wait", "again"}, event : {"none", "error", "down"}]
    PROVE  UInv'
<1>1. Typed /\ SessTyped /\ HostTyped /\ Streams /\ Completion
  BY DEF UInv, Typed
<1>2. /\ rxq' \in Seq(DataMsgs) /\ Len(rxq') <= QueueDepth
      /\ \E g \in [1 .. Len(rxq') -> 1 .. Len(rxq)] :
            /\ \A n \in 1 .. Len(rxq') : rxq'[n] = rxq[g[n]]
            /\ \A n, k \in 1 .. Len(rxq') : g[n] = g[k] => n = k
  BY <1>1, DrainedQueue
<1>3. Typed'
  <2>1. HostTyped' /\ SessTyped'
    BY <1>1 DEF HostTyped, SessTyped
  <2>2. \A m \in req' : RequestTyped(m)'
    BY <1>1 DEF Typed, RequestTyped
  <2> QED
    BY <1>1, <1>2, <2>1, <2>2 DEF Typed
<1>4. Fewer
  BY <1>2 DEF Fewer
<1>5. Data' \subseteq Data
  BY <1>4, FewerData
<1>6. Finishing' = Finishing
  BY DEF Finishing
<1>7. sess.received \in Nat
  BY <1>1, NumbersAre
<1>8. Onward
  BY <1>5, <1>6, <1>7 DEF Onward, Open
<1>9. OnePlace'
  BY <1>4, <1>8, ShrinksPlace DEF Shrinks
<1>10. StreamStays
  BY <1>5 DEF StreamStays, Open
<1>11. Completion'
  BY <1>1 DEF Completion, Booted
<1> QED
  BY <1>1, <1>3, <1>8, <1>9, <1>10, <1>11, StreamStaysStreams, UInvBy

\* The teardown empties the queue.
LEMMA DownDrainsUInv ==
    ASSUME IInv, UInv, DownDrains
    PROVE  UInv'
<1>1. conn \in [link : 0 .. MaxLinks, at : {"none", "up", "lost", "closing"}]
      /\ down \in [at : {"idle", "drain", "wait", "again"}, event : {"none", "error", "down"}]
  BY DEF UInv, Typed
<1> QED
  BY <1>1, DrainQueueUInv DEF DownDrains, netVars

\* It empties it again, and is over.
LEMMA DownEndsUInv ==
    ASSUME IInv, UInv, DownEnds
    PROVE  UInv'
<1>1. conn \in [link : 0 .. MaxLinks, at : {"none", "up", "lost", "closing"}]
      /\ down \in [at : {"idle", "drain", "wait", "again"}, event : {"none", "error", "down"}]
  BY DEF UInv, Typed
<1>2. conn' \in [link : 0 .. MaxLinks, at : {"none", "up", "lost", "closing"}]
      /\ down' \in [at : {"idle", "drain", "wait", "again"}, event : {"none", "error", "down"}]
  BY <1>1 DEF DownEnds, NoDown
<1>3. DrainQueue /\ UNCHANGED <<req, rsp, host, sess, rx, worker, nextSid, hist>>
  BY DEF DownEnds
<1> QED
  BY <1>2, <1>3, DrainQueueUInv

(* Chunks on their way *)

\* The receive task takes the oldest, or refuses it without a session.
LEMMA RxTakeUInv ==
    ASSUME IInv, UInv, RxTake
    PROVE  UInv'
<1> DEFINE x == Head(rxq)
<1>1. /\ rx = NoMsg /\ rxq # <<>> /\ rxq' = Tail(rxq)
      /\ UNCHANGED <<conn, req, host, sess, worker, down, flash, nextSid, hist>>
      /\ \/ rx' = x /\ UNCHANGED rsp
         \/ rx' = NoMsg /\ UNCHANGED rsp
         \/ rx' = NoMsg /\ AnswersOne(x.seq, "refused")
  BY DEF RxTake
<1>2. Typed /\ SessTyped /\ HostTyped /\ Streams /\ Completion /\ rxq \in Seq(DataMsgs)
      /\ rsp \subseteq Answerings
  BY DEF UInv, Typed, Answerings
<1>3. /\ x \in DataMsgs /\ Tail(rxq) \in Seq(DataMsgs) /\ Len(Tail(rxq)) = Len(rxq) - 1
      /\ Len(rxq) \in Nat /\ x = rxq[1] /\ 1 \in 1 .. Len(rxq)
      /\ \A n \in 1 .. Len(rxq) - 1 : Tail(rxq)[n] = rxq[n + 1]
  BY <1>1, <1>2, HeadTailProperties, LenProperties
<1>4. x.seq \in Nat
  BY <1>3 DEF DataMsgs
<1> HIDE DEF x
<1>5. \A n \in 1 .. Len(rxq') : n + 1 \in 1 .. Len(rxq) /\ rxq'[n] = rxq[n + 1]
  BY <1>1, <1>3
<1>6. Queued' \subseteq Queued /\ x \in Queued
  BY <1>3, <1>5 DEF Queued
<1>7. Data' \subseteq Data /\ x \in Data /\ ReqData' = ReqData
  BY <1>1, <1>6 DEF Data, ReqData
<1>8. \A r \in rsp' : r \in rsp \/ r = [seq |-> x.seq, status |-> "refused", sid |-> 0]
  BY <1>1, AnswersOneIs
<1>9. \A r \in rsp' : r \in rsp \/ DataAnswer(r)
  BY <1>7, <1>8 DEF DataAnswer
<1>10. Typed'
  <2>1. HostTyped' /\ SessTyped'
    BY <1>1, <1>2 DEF HostTyped, SessTyped
  <2>2. \A m \in req' : RequestTyped(m)'
    BY <1>1, <1>2 DEF Typed, RequestTyped
  <2>3. rsp' \subseteq Answerings
    BY <1>2, <1>4, <1>8 DEF Answerings, Statuses
  <2>4. Len(rxq') <= QueueDepth
    BY <1>1, <1>2, <1>3, OtaConstants DEF Typed
  <2> QED
    BY <1>1, <1>2, <1>3, <2>1, <2>2, <2>3, <2>4 DEF Typed, Answerings
<1>11. Finishing' = Finishing
  BY <1>1 DEF Finishing
<1>12. sess.received \in Nat
  BY <1>2, NumbersAre
<1>13. Onward
  BY <1>1, <1>7, <1>9, <1>11, <1>12 DEF Onward, Open
<1>14. OnePlace'
  <2> SUFFICES ASSUME host'.at = "data"
               PROVE  OnePlace'
    BY DEF OnePlace
  <2>1. host' = host /\ OnePlace /\ host.at = "data"
    BY <1>1 DEF UInv
  <2>2. Base' = Base /\ Base \in Int
    BY <1>2, <2>1, NumbersAre DEF Base
  <2>3. sess'.holds = sess.holds /\ ReqData' = ReqData
    BY <1>1, <1>7
  <2>4. rx' = NoMsg \/ (rx' = x /\ rsp' = rsp)
    BY <1>1
  <2>5. /\ \A m, n \in ReqData' : m.seq = n.seq /\ m.seq > Base => m = n
        /\ \A n, k \in 1 .. Len(rxq') : rxq'[n].seq = rxq'[k].seq /\ rxq'[n].seq > Base => n = k
        /\ \A h, k \in sess'.holds : h.seq = k.seq /\ h.seq > Base => h = k
    <3>1. \A m, n \in ReqData' : m.seq = n.seq /\ m.seq > Base => m = n
      BY <2>1, <2>3 DEF OnePlace
    <3>2. \A n, k \in 1 .. Len(rxq') : rxq'[n].seq = rxq'[k].seq /\ rxq'[n].seq > Base => n = k
      <4>1. \A n, k \in 1 .. Len(rxq') : n + 1 = k + 1 => n = k
        OBVIOUS
      <4> QED
        BY <1>5, <2>1, <4>1 DEF OnePlace
    <3>3. \A h, k \in sess'.holds : h.seq = k.seq /\ h.seq > Base => h = k
      BY <2>1, <2>3 DEF OnePlace
    <3> QED
      BY <3>1, <3>2, <3>3
  <2>6. \A r, a \in rsp' : r.seq = a.seq /\ r.seq > Base => r = a
    BY <1>3, <1>8, <2>1 DEF OnePlace
  <2>7. /\ \A m \in ReqData', n \in 1 .. Len(rxq') : m.seq > Base => m.seq # rxq'[n].seq
        /\ \A m \in ReqData', h \in sess'.holds : m.seq > Base => m.seq # h.seq
        /\ \A m \in ReqData', r \in rsp' : m.seq > Base => m.seq # r.seq
    BY <1>3, <1>5, <1>8, <2>1, <2>3 DEF OnePlace
  <2>8. /\ \A n \in 1 .. Len(rxq'), h \in sess'.holds : h.seq > Base => h.seq # rxq'[n].seq
        /\ \A h \in sess'.holds, r \in rsp' : h.seq > Base => h.seq # r.seq
    BY <1>3, <1>5, <1>8, <2>1, <2>3 DEF OnePlace
  <2>9. \A n \in 1 .. Len(rxq'), r \in rsp' : r.seq > Base => r.seq # rxq'[n].seq
    <3>1. \A n \in 1 .. Len(rxq') : n + 1 # 1
      OBVIOUS
    <3>2. \A n \in 1 .. Len(rxq') : x.seq > Base => x.seq # rxq'[n].seq
      BY <1>3, <1>5, <2>1, <3>1 DEF OnePlace
    <3>3. \A n \in 1 .. Len(rxq'), r \in rsp : r.seq > Base => r.seq # rxq'[n].seq
      BY <1>5, <2>1 DEF OnePlace
    <3> QED
      BY <1>8, <3>2, <3>3
  <2>10. rx' # NoMsg /\ rx'.seq > Base =>
           /\ \A m \in ReqData' : m.seq # rx'.seq
           /\ \A n \in 1 .. Len(rxq') : rxq'[n].seq # rx'.seq
           /\ \A h \in sess'.holds : h.seq # rx'.seq
           /\ \A r \in rsp' : r.seq # rx'.seq
    <3> SUFFICES ASSUME rx' = x, rsp' = rsp, x.seq > Base
                 PROVE  /\ \A m \in ReqData' : m.seq # x.seq
                        /\ \A n \in 1 .. Len(rxq') : rxq'[n].seq # x.seq
                        /\ \A h \in sess'.holds : h.seq # x.seq
                        /\ \A r \in rsp' : r.seq # x.seq
      BY <2>4
    <3>1. \A m \in ReqData' : m.seq # x.seq
      BY <1>3, <2>1, <2>3 DEF OnePlace
    <3>2. \A n \in 1 .. Len(rxq') : rxq'[n].seq # x.seq
      <4>1. \A n \in 1 .. Len(rxq') : n + 1 # 1
        OBVIOUS
      <4> QED
        BY <1>3, <1>5, <2>1, <4>1 DEF OnePlace
    <3>3. \A h \in sess'.holds : h.seq # x.seq
      BY <1>3, <2>1, <2>3 DEF OnePlace
    <3>4. \A r \in rsp' : r.seq # x.seq
      BY <1>3, <2>1 DEF OnePlace
    <3> QED
      BY <3>1, <3>2, <3>3, <3>4
  <2> QED
    BY <2>1, <2>2, <2>5, <2>6, <2>7, <2>8, <2>9, <2>10 DEF OnePlace
<1>15. StreamStays
  BY <1>1, <1>7 DEF StreamStays, Open
<1>16. Completion'
  BY <1>1, <1>2 DEF Completion, Booted
<1> QED
  BY <1>2, <1>10, <1>13, <1>14, <1>15, <1>16, StreamStaysStreams, UInvBy

\* DATA arrives: it is refused, finds the queue full or is queued.
LEMMA DeviceDataUInv ==
    ASSUME IInv, UInv, NEW m, DeviceData(m)
    PROVE  UInv'
<1>1. /\ m \in req /\ m.kind = "data" /\ req' = req \ {m}
      /\ UNCHANGED <<conn, host, sess, rx, worker, down, flash, nextSid, hist>>
      /\ \/ /\ AnswersOne(m.seq, "refused") \/ AnswersOne(m.seq, "busy")
            /\ UNCHANGED rxq
         \/ Len(rxq) < QueueDepth /\ rxq' = Append(rxq, m) /\ UNCHANGED rsp
  BY DEF DeviceData, Arrives
<1>2. Typed /\ SessTyped /\ HostTyped /\ Streams /\ Completion /\ rxq \in Seq(DataMsgs)
      /\ rsp \subseteq Answerings
  BY DEF UInv, Typed, Answerings
<1>3. m \in DataMsgs /\ m.seq \in Nat /\ m \in ReqData /\ m \in Data
  BY <1>1, <1>2 DEF Typed, RequestTyped, DataMsgs, ReqData, Data
<1>4. ReqData' = ReqData \ {m}
  BY <1>1 DEF ReqData
<1>5. \A r \in rsp' : \/ r \in rsp
                      \/ /\ r.seq = m.seq /\ r.sid = 0 /\ r.status \in {"refused", "busy"}
                         /\ r \in Answerings /\ rxq' = rxq
                         /\ \A a \in rsp' : a \in rsp \/ a = r
  BY <1>1, <1>3, AnswersOneIs DEF Answerings, Statuses
<1>6. \/ rxq' = rxq
      \/ /\ Len(rxq') = Len(rxq) + 1 /\ rxq'[Len(rxq) + 1] = m /\ rsp' = rsp
         /\ \A n \in 1 .. Len(rxq) : rxq'[n] = rxq[n]
         /\ Len(rxq) < QueueDepth /\ rxq' \in Seq(DataMsgs)
  BY <1>1, <1>2, <1>3, AppendProperties
<1>7. Len(rxq) \in Nat
  BY <1>2, LenProperties
<1>8. rxq' \in Seq(DataMsgs) /\ Len(rxq') <= QueueDepth
  BY <1>2, <1>6, <1>7, OtaConstants DEF Typed
<1>9. \A n \in 1 .. Len(rxq') : \/ n \in 1 .. Len(rxq) /\ rxq'[n] = rxq[n]
                                \/ n = Len(rxq) + 1 /\ rxq'[n] = m /\ rsp' = rsp
  BY <1>6, <1>7
<1>10. Data' \subseteq Data
  <2>1. Queued' \subseteq Queued \cup {m}
    <3> SUFFICES ASSUME NEW d \in Queued' PROVE d \in Queued \/ d = m
      OBVIOUS
    <3>1. PICK n \in 1 .. Len(rxq') : d = rxq'[n]
      BY DEF Queued
    <3> QED
      BY <1>9, <3>1 DEF Queued
  <2> QED
    BY <1>1, <1>3, <1>4, <2>1 DEF Data
<1>11. \A r \in rsp' : r \in rsp \/ DataAnswer(r)
  BY <1>3, <1>5 DEF DataAnswer
<1>12. Typed'
  <2>1. HostTyped' /\ SessTyped'
    BY <1>1, <1>2 DEF HostTyped, SessTyped
  <2>2. \A k \in req' : RequestTyped(k)'
    BY <1>1, <1>2 DEF Typed, RequestTyped
  <2>3. rsp' \subseteq Answerings
    BY <1>2, <1>5
  <2> QED
    BY <1>1, <1>2, <1>8, <2>1, <2>2, <2>3 DEF Typed, Answerings
<1>13. Finishing' = Finishing
  BY <1>1 DEF Finishing
<1>14. sess.received \in Nat
  BY <1>2, NumbersAre
<1>15. Onward
  BY <1>1, <1>10, <1>11, <1>13, <1>14 DEF Onward, Open
<1>16. OnePlace'
  <2> SUFFICES ASSUME host'.at = "data"
               PROVE  OnePlace'
    BY DEF OnePlace
  <2>1. host' = host /\ OnePlace /\ host.at = "data"
    BY <1>1 DEF UInv
  <2>2. Base' = Base /\ Base \in Int
    BY <1>2, <2>1, NumbersAre DEF Base
  <2>3. sess'.holds = sess.holds /\ ReqData' = ReqData \ {m} /\ rx' = rx
    BY <1>1, <1>4
  <2>4. m.seq > Base =>
           /\ \A k \in ReqData' : k.seq # m.seq
           /\ \A n \in 1 .. Len(rxq) : rxq[n].seq # m.seq
           /\ \A h \in sess.holds : h.seq # m.seq
           /\ \A r \in rsp : r.seq # m.seq
           /\ rx # NoMsg => rx.seq # m.seq
    BY <1>3, <2>1, <2>3 DEF OnePlace
  <2>5. \A j, k \in ReqData' : j.seq = k.seq /\ j.seq > Base => j = k
    BY <2>1, <2>3 DEF OnePlace
  <2>6. \A n, k \in 1 .. Len(rxq') : rxq'[n].seq = rxq'[k].seq /\ rxq'[n].seq > Base => n = k
    BY <1>9, <2>1, <2>4 DEF OnePlace
  <2>7. \A h, k \in sess'.holds : h.seq = k.seq /\ h.seq > Base => h = k
    BY <2>1, <2>3 DEF OnePlace
  <2>8. \A r, a \in rsp' : r.seq = a.seq /\ r.seq > Base => r = a
    BY <1>5, <2>1, <2>4 DEF OnePlace
  <2>9. \A j \in ReqData', n \in 1 .. Len(rxq') : j.seq > Base => j.seq # rxq'[n].seq
    BY <1>9, <2>1, <2>3, <2>4 DEF OnePlace
  <2>10. /\ \A j \in ReqData', h \in sess'.holds : j.seq > Base => j.seq # h.seq
         /\ \A j \in ReqData', r \in rsp' : j.seq > Base => j.seq # r.seq
    BY <1>5, <2>1, <2>3, <2>4 DEF OnePlace
  <2>11. \A n \in 1 .. Len(rxq'), h \in sess'.holds : h.seq > Base => h.seq # rxq'[n].seq
    BY <1>9, <2>1, <2>3, <2>4 DEF OnePlace
  <2>12. \A n \in 1 .. Len(rxq'), r \in rsp' : r.seq > Base => r.seq # rxq'[n].seq
    BY <1>5, <1>9, <2>1, <2>4 DEF OnePlace
  <2>13. \A h \in sess'.holds, r \in rsp' : h.seq > Base => h.seq # r.seq
    BY <1>5, <2>1, <2>3, <2>4 DEF OnePlace
  <2>14. rx' # NoMsg /\ rx'.seq > Base =>
           /\ \A j \in ReqData' : j.seq # rx'.seq
           /\ \A n \in 1 .. Len(rxq') : rxq'[n].seq # rx'.seq
           /\ \A h \in sess'.holds : h.seq # rx'.seq
           /\ \A r \in rsp' : r.seq # rx'.seq
    BY <1>5, <1>9, <2>1, <2>3, <2>4 DEF OnePlace
  <2> QED
    BY <2>1, <2>2, <2>5, <2>6, <2>7, <2>8, <2>9, <2>10, <2>11, <2>12, <2>13, <2>14
       DEF OnePlace
<1>17. StreamStays
  BY <1>1, <1>10 DEF StreamStays, Open
<1>18. Completion'
  BY <1>1, <1>2 DEF Completion, Booted
<1> QED
  BY <1>2, <1>12, <1>15, <1>16, <1>17, <1>18, StreamStaysStreams, UInvBy

\* The receive task works on the session with it.
LEMMA RxProcessUInv ==
    ASSUME IInv, UInv, RxProcess
    PROVE  UInv'
<1> DEFINE r == ReceiveChunk(sess, rx)
<1>1. /\ rx # NoMsg /\ rx' = NoMsg /\ sess' = r.s
      /\ UNCHANGED <<conn, req, host, rxq, worker, down, flash, nextSid, hist>>
      /\ Answers(r.answers, 0) \/ UNCHANGED rsp
  BY DEF RxProcess
<1>2. /\ Typed /\ SessTyped /\ HostTyped /\ Streams /\ Completion /\ Numbered /\ Sending
      /\ rsp \subseteq Answerings /\ rx \in DataMsgs /\ rx \in Data
  BY <1>1 DEF UInv, Typed, Answerings, Data
<1>3. IsSession(sess) /\ Holding(sess)
  BY <1>2 DEF IInv, Records, Holding, SessTyped
<1>4. IsSession(r.s) /\ Kept(r.s, sess)
  BY <1>3, ReceiveKeeps
<1>5. PICK new \in Seq(Pieces), D \in SUBSET ({rx} \cup sess.holds) : \E f \in [D -> Statuses] :
        /\ r.answers = {[seq |-> d.seq, status |-> f[d]] : d \in D}
        /\ \A d \in D : d \in r.s.holds => d = rx /\ rx \in sess.holds
        /\ \A d \in D : f[d] = "ok" =>
              d.c < r.s.received \/ (d = rx /\ \E h \in sess.holds : h.c = rx.c)
        /\ r.s.holds \subseteq {rx} \cup sess.holds
        /\ r.s.ring = sess.ring \o new /\ r.s.received = sess.received + Len(new)
        /\ r.s.queued = sess.queued + Len(new)
        /\ \A i \in 1 .. Len(new) : \E d \in {rx} \cup sess.holds :
              d.c = sess.received + i - 1 /\ new[i] = [c |-> d.c, u |-> d.u]
        /\ Len(r.s.ring) <= RingSlots
        /\ IsFiniteSet(r.s.holds) /\ Cardinality(r.s.holds) <= HoldSlots
  BY <1>2, <1>3, ReceiveIs DEF Receipt
<1>6. PICK f \in [D -> Statuses] :
        /\ r.answers = {[seq |-> d.seq, status |-> f[d]] : d \in D}
        /\ \A d \in D : d \in r.s.holds => d = rx /\ rx \in sess.holds
        /\ \A d \in D : f[d] = "ok" =>
              d.c < r.s.received \/ (d = rx /\ \E h \in sess.holds : h.c = rx.c)
  BY <1>5
<1>7. DataRefused(sess, rx) =>
         r.s = sess /\ r.answers = {[seq |-> rx.seq, status |-> "refused"]}
  BY <1>2, <1>3, ReceiveIs DEF Outcome, Answer
<1>8. ~DataRefused(sess, rx) => Open /\ ~sess.abort /\ rx.sid = sess.sid
  BY DEF DataRefused, Open
<1> HIDE DEF r
<1>9. /\ sess'.holds \subseteq {rx} \cup sess.holds /\ sess'.ring = sess.ring \o new
      /\ sess'.received = sess.received + Len(new) /\ sess'.queued = sess.queued + Len(new)
      /\ Len(sess'.ring) <= RingSlots
      /\ IsFiniteSet(sess'.holds) /\ Cardinality(sess'.holds) <= HoldSlots
  BY <1>1, <1>5
<1>10. /\ sess'.state = sess.state /\ sess'.sid = sess.sid /\ sess'.written = sess.written
       /\ sess'.hash = sess.hash /\ sess'.abort = sess.abort /\ sess'.finish = sess.finish
       /\ sess'.finSeq = sess.finSeq /\ sess'.result = sess.result
  BY <1>1, <1>4 DEF Kept
<1>11. Len(new) \in Nat /\ sess.received \in Nat /\ sess.queued \in Nat /\ Chunks \in Nat
  BY <1>2, LenProperties, SessionConstants DEF SessTyped
<1>12. D \subseteq Data
  BY <1>2, <1>5 DEF Data
<1>13. \A d \in D : d \in DataMsgs /\ d.seq \in Nat /\ d.c \in Nat
  BY <1>2, <1>12, NumbersAre
<1>14. \A a \in rsp' : a \in rsp \/ \E d \in D : a = [seq |-> d.seq, status |-> f[d], sid |-> 0]
  BY <1>1, <1>6 DEF Answers
<1>15. SessTyped'
  <2>1. sess'.received \in 0 .. Chunks
    <3>1. CASE Len(new) = 0
      BY <1>2, <1>9, <1>11, <3>1 DEF SessTyped
    <3>2. CASE Len(new) # 0
      <4> DEFINE i == Len(new)
      <4>1. i \in 1 .. Len(new)
        BY <1>11, <3>2
      <4>2. new[i] \in Pieces
        BY <4>1, ElementOfSeq
      <4>3. PICK d \in {rx} \cup sess.holds : d.c = sess.received + i - 1
        BY <1>5, <4>1
      <4>4. d \in Data
        BY <1>2 DEF Data
      <4>5. d.c \in Nat /\ d.c < Chunks
        BY <1>2, <4>4, NumbersAre
      <4> QED
        BY <1>9, <1>11, <4>3, <4>5
    <3> QED
      BY <3>1, <3>2
  <2>2. sess'.queued \in 0 .. Chunks
    <3>1. CASE DataRefused(sess, rx)
      BY <1>1, <1>2, <1>7, <3>1 DEF SessTyped
    <3>2. CASE ~DataRefused(sess, rx)
      <4>1. sess.received = sess.written + sess.queued
        BY <1>2, <1>8, <3>2 DEF Streams
      <4>2. sess.written \in Nat
        BY <1>2, SessionConstants DEF SessTyped
      <4> QED
        BY <1>9, <1>11, <2>1, <4>1, <4>2
    <3> QED
      BY <3>1, <3>2
  <2>3. sess.ring \o new \in Seq(Pieces)
    BY <1>2, ConcatProperties DEF SessTyped
  <2>4. sess'.holds \in SUBSET DataMsgs
    BY <1>2, <1>9 DEF SessTyped
  <2> QED
    BY <1>1, <1>2, <1>9, <1>10, <2>1, <2>2, <2>3, <2>4 DEF SessTyped
<1>16. Typed'
  <2>1. HostTyped'
    BY <1>1, <1>2 DEF HostTyped
  <2>2. \A k \in req' : RequestTyped(k)'
    BY <1>1, <1>2 DEF Typed, RequestTyped
  <2>3. rsp' \subseteq Answerings
    BY <1>2, <1>13, <1>14 DEF Answerings
  <2> QED
    BY <1>1, <1>2, <1>15, <2>1, <2>2, <2>3 DEF Typed, Answerings
<1>17. Data' \subseteq Data /\ ReqData' = ReqData /\ Finishing' = Finishing
  BY <1>1, <1>2, <1>9, <1>10 DEF Data, ReqData, Queued, Finishing
<1>18. \A d \in D : f[d] = "ok" /\ host.at = "data" /\ d.seq > Base => d.c < sess'.received
  <2> SUFFICES ASSUME NEW d \in D, f[d] = "ok", host.at = "data", d.seq > Base,
                      ~(d.c < sess'.received)
               PROVE  FALSE
    OBVIOUS
  <2>1. d = rx /\ \E h \in sess.holds : h.c = rx.c
    BY <1>1, <1>6
  <2>2. PICK h \in sess.holds : h.c = rx.c
    BY <2>1
  <2>3. ~DataRefused(sess, rx)
    <3>1. [seq |-> d.seq, status |-> f[d]] \in r.answers
      BY <1>6
    <3>2. [seq |-> d.seq, status |-> f[d]].status = "ok"
      OBVIOUS
    <3> QED
      BY <1>7, <3>1, <3>2
  <2>4. h.sid = sess.sid /\ rx.sid = sess.sid
    BY <1>2, <1>8, <2>3 DEF Streams
  <2>5. h \in Data
    BY DEF Data
  <2>6. rx.sid = host.sid /\ rx.seq = Base + rx.c + 1
    BY <1>2, <2>1 DEF Sending
  <2>7. h.seq = Base + h.c + 1
    BY <1>2, <2>4, <2>5, <2>6 DEF Sending
  <2>8. h.seq # rx.seq
    BY <1>1, <2>1 DEF UInv, OnePlace
  <2> QED
    BY <2>2, <2>6, <2>7, <2>8
<1>19. \A a \in rsp' : a \in rsp \/ DataAnswer(a)
  BY <1>12, <1>14, <1>18 DEF DataAnswer
<1>20. Onward
  <2>1. sess'.received \in Nat /\ sess.received <= sess'.received
    BY <1>9, <1>11
  <2>2. sess'.received = sess.received \/ \E d \in Data : d.sid = sess.sid
    BY <1>1, <1>2, <1>7, <1>8
  <2> QED
    BY <1>1, <1>10, <1>17, <1>19, <2>1, <2>2 DEF Onward, Open
<1>21. OnePlace'
  <2> SUFFICES ASSUME host'.at = "data"
               PROVE  OnePlace'
    BY DEF OnePlace
  <2>1. host' = host /\ OnePlace /\ host.at = "data"
    BY <1>1 DEF UInv
  <2>2. Base' = Base /\ Base \in Int
    BY <1>2, <2>1, NumbersAre DEF Base
  <2>3. rxq' = rxq /\ ReqData' = ReqData /\ rx' = NoMsg
    BY <1>1, <1>17
  <2>4. rx.seq > Base =>
           /\ \A k \in ReqData : k.seq # rx.seq
           /\ \A n \in 1 .. Len(rxq) : rxq[n].seq # rx.seq
           /\ \A h \in sess.holds : h.seq # rx.seq
           /\ \A a \in rsp : a.seq # rx.seq
    BY <1>1, <2>1 DEF OnePlace
  <2>5. \A d \in {rx} \cup sess.holds : d.seq > Base =>
           /\ \A k \in ReqData : k.seq # d.seq
           /\ \A n \in 1 .. Len(rxq) : rxq[n].seq # d.seq
           /\ \A h \in {rx} \cup sess.holds : h.seq = d.seq => h = d
           /\ \A a \in rsp : a.seq # d.seq
    BY <2>1, <2>4 DEF OnePlace
  <2>6. \A d \in D : d.seq > Base => d \notin sess'.holds
    BY <1>1, <1>6, <2>4
  <2>7. D \subseteq {rx} \cup sess.holds
    OBVIOUS
  <2>8. /\ \A m, n \in ReqData' : m.seq = n.seq /\ m.seq > Base => m = n
        /\ \A n, k \in 1 .. Len(rxq') : rxq'[n].seq = rxq'[k].seq /\ rxq'[n].seq > Base => n = k
        /\ \A m \in ReqData', n \in 1 .. Len(rxq') : m.seq > Base => m.seq # rxq'[n].seq
    BY <2>1, <2>3 DEF OnePlace
  <2>9. \A g, h \in sess'.holds : g.seq = h.seq /\ g.seq > Base => g = h
    BY <1>9, <2>5
  <2>10. \A a, b \in rsp' : a.seq = b.seq /\ a.seq > Base => a = b
    <3>1. \A a, b \in rsp : a.seq = b.seq /\ a.seq > Base => a = b
      BY <2>1 DEF OnePlace
    <3>2. \A a \in rsp, d \in D : d.seq > Base => a.seq # d.seq
      BY <2>5, <2>7
    <3>3. \A d, e \in D : d.seq = e.seq /\ d.seq > Base => d = e
      BY <2>5, <2>7
    <3> QED
      BY <1>14, <3>1, <3>2, <3>3
  <2>11. \A m \in ReqData', h \in sess'.holds : m.seq > Base => m.seq # h.seq
    BY <1>9, <2>3, <2>5
  <2>12. \A m \in ReqData', a \in rsp' : m.seq > Base => m.seq # a.seq
    <3>1. \A m \in ReqData, a \in rsp : m.seq > Base => m.seq # a.seq
      BY <2>1 DEF OnePlace
    <3> QED
      BY <1>14, <2>3, <2>5, <2>7, <3>1
  <2>13. \A n \in 1 .. Len(rxq'), h \in sess'.holds : h.seq > Base => h.seq # rxq'[n].seq
    BY <1>9, <2>3, <2>5
  <2>14. \A n \in 1 .. Len(rxq'), a \in rsp' : a.seq > Base => a.seq # rxq'[n].seq
    <3>1. \A n \in 1 .. Len(rxq), a \in rsp : a.seq > Base => a.seq # rxq[n].seq
      BY <2>1 DEF OnePlace
    <3> QED
      BY <1>14, <2>3, <2>5, <2>7, <3>1
  <2>15. \A h \in sess'.holds, a \in rsp' : h.seq > Base => h.seq # a.seq
    <3>1. \A h \in sess'.holds, a \in rsp : h.seq > Base => h.seq # a.seq
      BY <1>9, <2>5
    <3>2. \A h \in sess'.holds, d \in D : h.seq > Base => h.seq # d.seq
      BY <1>9, <2>5, <2>6, <2>7
    <3> QED
      BY <1>14, <3>1, <3>2
  <2> QED
    BY <2>1, <2>2, <2>3, <2>8, <2>9, <2>10, <2>11, <2>12, <2>13, <2>14, <2>15 DEF OnePlace
<1>22. Streams'
  <2> SUFFICES ASSUME Open'
               PROVE  Streams'
    BY DEF Streams
  <2>1. Open
    BY <1>10 DEF Open
  <2>2. CASE DataRefused(sess, rx)
    <3>1. StreamStays
      BY <1>1, <1>7, <1>17, <2>1, <2>2 DEF StreamStays
    <3> QED
      BY <1>2, <3>1, StreamStaysStreams
  <2>3. CASE ~DataRefused(sess, rx)
    <3>1. \A d \in {rx} \cup sess.holds : d.sid = sess.sid
      BY <1>2, <1>8, <2>1, <2>3 DEF Streams
    <3>2. /\ Len(sess.hash) = sess.written
          /\ sess.queued = WithWorker + Len(sess.ring)
          /\ sess.received = sess.written + sess.queued
      BY <1>2, <1>8, <2>1, <2>3 DEF Streams
    <3>3. PICK u \in 1 .. MaxUploads : OfUpload(u)
      BY <1>2, <1>8, <2>1, <2>3 DEF Streams
    <3>4. WithWorker' = WithWorker /\ WithWorker \in Nat
      BY <1>1 DEF WithWorker
    <3>5. sess.ring \in Seq(Pieces) /\ Len(sess.ring) \in Nat /\ sess.written \in Nat
      BY <1>2, LenProperties, SessionConstants DEF SessTyped
    <3>6. /\ Len(sess'.ring) = Len(sess.ring) + Len(new)
          /\ \A i \in 1 .. Len(sess.ring) + Len(new) :
                sess'.ring[i] = IF i <= Len(sess.ring) THEN sess.ring[i]
                                ELSE new[i - Len(sess.ring)]
      BY <1>9, <3>5, ConcatProperties
    <3>7. \A i \in 1 .. Len(sess'.ring) :
             sess'.ring[i] = [c |-> Len(sess'.hash) + WithWorker' + i - 1, u |-> u]
      <4> TAKE i \in 1 .. Len(sess'.ring)
      <4>1. CASE i <= Len(sess.ring)
        <5>1. i \in 1 .. Len(sess.ring)
          BY <3>5, <4>1
        <5>2. sess.ring[i] = [c |-> Len(sess.hash) + WithWorker + i - 1, u |-> u]
          BY <3>3, <5>1 DEF OfUpload
        <5>3. sess'.ring[i] = sess.ring[i]
          BY <3>6, <4>1
        <5> QED
          BY <1>10, <3>4, <5>2, <5>3
      <4>2. CASE ~(i <= Len(sess.ring))
        <5> DEFINE j == i - Len(sess.ring)
        <5>1. j \in 1 .. Len(new)
          BY <1>11, <3>5, <3>6, <4>2
        <5>2. sess'.ring[i] = new[j]
          BY <3>6, <4>2
        <5>3. PICK d \in {rx} \cup sess.holds :
                 d.c = sess.received + j - 1 /\ new[j] = [c |-> d.c, u |-> d.u]
          BY <1>5, <5>1
        <5>4. d \in Data /\ d.sid = sess.sid
          BY <1>2, <3>1 DEF Data
        <5>5. d.u = u
          BY <3>3, <5>4 DEF OfUpload
        <5>6. sess.received + j - 1 = Len(sess.hash) + WithWorker + i - 1
          BY <1>11, <3>2, <3>4, <3>5
        <5> HIDE DEF j
        <5>7. sess'.ring[i] = [c |-> Len(sess.hash) + WithWorker + i - 1, u |-> u]
          BY <5>2, <5>3, <5>5, <5>6
        <5> QED
          BY <1>10, <3>4, <5>7
      <4> QED
        BY <4>1, <4>2
    <3>8. /\ \A i \in 1 .. Len(sess'.hash) : sess'.hash[i] = [c |-> i - 1, u |-> u]
          /\ worker'.got # NoMsg => worker'.got = [c |-> Len(sess'.hash), u |-> u]
          /\ \A d \in Data' : d.sid = sess'.sid => d.u = u
          /\ host'.at \in {"data", "finish"} /\ host'.sid = sess'.sid => host'.u = u
      BY <1>1, <1>10, <1>17, <3>3 DEF OfUpload
    <3>9. OfUpload(u)'
      BY <3>7, <3>8 DEF OfUpload
    <3>10. \A h \in sess'.holds : h.sid = sess'.sid
      BY <1>9, <1>10, <3>1
    <3>11. /\ Len(sess'.hash) = sess'.written
           /\ sess'.queued = WithWorker' + Len(sess'.ring)
           /\ sess'.received = sess'.written + sess'.queued
      <4>1. Len(sess'.hash) = sess'.written
        BY <1>10, <3>2
      <4>2. sess'.queued = WithWorker' + Len(sess'.ring)
        BY <1>9, <1>11, <3>2, <3>4, <3>5, <3>6
      <4>3. sess'.received = sess'.written + sess'.queued
        BY <1>9, <1>10, <1>11, <3>2, <3>5
      <4> QED
        BY <4>1, <4>2, <4>3
    <3> QED
      BY <3>9, <3>10, <3>11 DEF Streams
  <2> QED
    BY <2>2, <2>3
<1>23. Completion'
  BY <1>1, <1>2, <1>10 DEF Completion, Booted
<1> QED
  BY <1>16, <1>20, <1>21, <1>22, <1>23, UInvBy

(* The host *)

\* A step of the host leaves the device alone and takes answers.
HostSide ==
    /\ UNCHANGED <<conn, sess, rxq, rx, worker, down, nextSid>>
    /\ hist'.booted = hist.booted /\ rsp' \subseteq rsp
    /\ HostTyped' /\ \A m \in req' : m \in req \/ (RequestTyped(m) /\ MaxUploads # 0)

\* Such a step keeps the types and what the device has.
LEMMA HostSideTyped ==
    ASSUME Typed, HostSide
    PROVE  Typed' /\ Finishing' = Finishing /\ (ReqData' = ReqData => Data' = Data)
<1>1. SessTyped'
  BY DEF Typed, SessTyped, HostSide
<1>2. \A m \in req' : RequestTyped(m)'
  BY DEF Typed, HostSide, RequestTyped
<1>3. req' # {} => MaxUploads # 0
  BY DEF Typed, HostSide
<1>4. Typed'
  BY <1>1, <1>2, <1>3 DEF Typed, HostSide
<1>5. Finishing' = Finishing /\ (ReqData' = ReqData => Data' = Data)
  BY DEF HostSide, Finishing, Data, Queued
<1> QED
  BY <1>4, <1>5

\* A request that carries no chunk.
LEMMA SameReqData ==
    ASSUME \A m \in req' : m \in req \/ m.kind # "data", req \subseteq req'
    PROVE  ReqData' = ReqData
  BY DEF ReqData

\* An upload that is over, or not yet answered, has no chunks on their way.
LEMMA HostRestsUInv ==
    ASSUME IInv, UInv, HostSide, ReqData' = ReqData,
           host'.at \in {"idle", "start"}, host'.pipe = {}, host'.next = 0, host'.acked = {},
           host'.sid = 0, host'.seq >= host.seq,
           \A m \in req' : m \in req \/ m.seq = host'.seq,
           host'.at = "start" => host'.seq = host.seq + 1 /\ \A m \in req' : m \in req \/ m.kind = "start",
           \A sid \in hist'.completed : sid \in hist.completed \/ Booted(sid)
    PROVE  UInv'
<1>1. Typed /\ Numbered /\ Streams /\ Completion
  BY DEF UInv
<1>2. Typed' /\ Finishing' = Finishing /\ Data' = Data
  BY <1>1, HostSideTyped
<1>3. /\ host.seq \in Nat /\ nextSid \in Nat /\ 0 < nextSid /\ host'.seq \in Nat
      /\ \A d \in Data : d.seq \in Nat
      /\ \A m \in req : m.seq \in Nat
      /\ \A r \in rsp : r.seq \in Nat
      /\ \A q \in Finishing : q \in Nat
  <2>1. host'.seq \in Nat
    BY DEF HostSide, HostTyped
  <2>2. sess.sid \in Nat /\ sess.sid < nextSid
    BY DEF IInv, Sids
  <2> QED
    BY <1>1, <2>1, <2>2, NumbersAre
<1>4. Numbered'
  BY <1>1, <1>2, <1>3 DEF Numbered, HostSide
<1>5. Starting'
  <2> SUFFICES ASSUME host'.at = "start"
               PROVE  Starting'
    BY DEF Starting
  <2>1. host'.seq = host.seq + 1 /\ \A m \in req' : m \in req \/ m.kind = "start"
    OBVIOUS
  <2>2. /\ \A d \in Data' : d.seq < host'.seq
        /\ \A q \in Finishing' : q < host'.seq
        /\ \A m \in req' : m.seq = host'.seq => m.kind = "start"
        /\ \A r \in rsp' : r.seq # host'.seq
    BY <1>1, <1>2, <1>3, <2>1 DEF Numbered, HostSide
  <2> QED
    BY <2>2 DEF Starting
<1>6. Sending' /\ Ending' /\ OnePlace'
  BY DEF Sending, Ending, OnePlace
<1>7. AckedTaken'
  BY DEF AckedTaken
<1>8. Streams'
  <2> SUFFICES ASSUME Open' PROVE Streams'
    BY DEF Streams
  <2>1. Open
    BY DEF Open, HostSide
  <2>2. \A u : OfUpload(u) => OfUpload(u)'
    BY <1>2 DEF OfUpload, HostSide, WithWorker
  <2>3. WithWorker' = WithWorker
    BY DEF WithWorker, HostSide
  <2> QED
    BY <1>1, <2>1, <2>2, <2>3 DEF Streams, HostSide
<1>9. Completion'
  BY <1>1 DEF Completion, Booted, HostSide
<1> QED
  BY <1>2, <1>4, <1>5, <1>6, <1>7, <1>8, <1>9 DEF UInv

\* A host between uploads, or with START unanswered, has nothing in its pipe.
LEMMA NoHostIs ==
    ASSUME NEW a \in {"idle", "start"}, NEW u, NEW seq \in Nat,
           host' = [at |-> a, u |-> u, sid |-> 0, seq |-> seq, next |-> 0, pipe |-> {},
                    acked |-> {}]
    PROVE  /\ host'.at = a /\ host'.u = u /\ host'.seq = seq /\ host'.sid = 0
           /\ host'.next = 0 /\ host'.pipe = {} /\ host'.acked = {}
           /\ HostTyped'
<1>1. /\ host'.at = a /\ host'.u = u /\ host'.seq = seq /\ host'.sid = 0
      /\ host'.next = 0 /\ host'.pipe = {} /\ host'.acked = {}
  OBVIOUS
<1>2. IsFiniteSet({}) /\ Cardinality({}) = 0 /\ 0 <= PipeDepth /\ 0 \in 0 .. Chunks
  BY FS_EmptySet, OtaConstants, SessionConstants
<1> QED
  BY <1>1, <1>2 DEF HostTyped

\* An upload begins.
LEMMA HostStartUInv ==
    ASSUME IInv, UInv, HostStart
    PROVE  UInv'
<1> DEFINE m == [kind |-> "start", seq |-> host.seq + 1]
<1>1. /\ host' = [NoHost EXCEPT !.at = "start", !.u = host.u + 1, !.seq = host.seq + 1]
      /\ req' = req \cup {m} /\ host.u < MaxUploads
      /\ UNCHANGED <<conn, rsp, sess, rxq, rx, worker, down, nextSid, hist>>
  BY DEF HostStart, Sent
<1>2. host.seq \in Nat /\ host.u \in Nat
  BY OtaConstants DEF UInv, Typed, HostTyped, IInv, Digests
<1>3. /\ host'.at = "start" /\ host'.seq = host.seq + 1 /\ host'.sid = 0
      /\ host'.next = 0 /\ host'.pipe = {} /\ host'.acked = {} /\ HostTyped'
  <2>1. host' = [at |-> "start", u |-> host.u + 1, sid |-> 0, seq |-> host.seq + 1,
                 next |-> 0, pipe |-> {}, acked |-> {}]
    BY <1>1 DEF NoHost
  <2>2. host.seq + 1 \in Nat
    BY <1>2
  <2> QED
    BY <2>1, <2>2, NoHostIs
<1>4. RequestTyped(m) /\ MaxUploads # 0 /\ m.kind = "start" /\ m.seq = host.seq + 1
  BY <1>1, <1>2, OtaConstants DEF RequestTyped
<1> HIDE DEF m
<1>5. HostSide
  BY <1>1, <1>3, <1>4 DEF HostSide
<1>6. ReqData' = ReqData
  BY <1>1, <1>4, SameReqData
<1>7. \A k \in req' : k \in req \/ (k.seq = host'.seq /\ k.kind = "start")
  BY <1>1, <1>3, <1>4
<1> QED
  BY <1>1, <1>2, <1>3, <1>5, <1>6, <1>7, HostRestsUInv

\* It fails, with or without an ABORT.
LEMMA HostFailsUInv ==
    ASSUME IInv, UInv, HostFails
    PROVE  UInv'
<1> DEFINE m == [kind |-> "abort", seq |-> host.seq + 1, sid |-> host.sid]
           seq == IF host.at = "start" THEN host.seq ELSE host.seq + 1
<1>1. /\ host' = [NoHost EXCEPT !.u = host.u, !.seq = seq] /\ host.at # "idle"
      /\ req' = req \/ (req' = req \cup {m} /\ host.at # "start")
      /\ UNCHANGED <<conn, rsp, sess, rxq, rx, worker, down, nextSid, hist>>
  BY DEF HostFails, Sent
<1>2. host.seq \in Nat /\ host.sid \in Nat /\ seq \in Nat
  BY DEF UInv, Typed, HostTyped
<1>3. host' = [at |-> "idle", u |-> host.u, sid |-> 0, seq |-> seq, next |-> 0,
            pipe |-> {}, acked |-> {}]
  BY <1>1 DEF NoHost
<1>4. /\ host'.at = "idle" /\ host'.seq = seq /\ host'.sid = 0
      /\ host'.next = 0 /\ host'.pipe = {} /\ host'.acked = {} /\ HostTyped'
  BY <1>2, <1>3, NoHostIs
<1>5. RequestTyped(m) /\ m.kind # "data" /\ m.seq = host.seq + 1
  BY <1>2 DEF RequestTyped
<1>6. MaxUploads # 0
  BY <1>1, OtaConstants DEF IInv, Digests
<1> HIDE DEF m
<1>7. HostSide
  BY <1>1, <1>4, <1>5, <1>6 DEF HostSide
<1>8. ReqData' = ReqData
  BY <1>1, <1>5, SameReqData
<1>9. (\A k \in req' : k \in req \/ k.seq = host'.seq) /\ host'.seq >= host.seq
  BY <1>1, <1>2, <1>4, <1>5
<1> QED
  BY <1>1, <1>4, <1>7, <1>8, <1>9, HostRestsUInv

\* Its FINISH is accepted: the image is booted.
LEMMA HostCompletedUInv ==
    ASSUME IInv, UInv, HostCompleted
    PROVE  UInv'
<1>1. /\ host' = [NoHost EXCEPT !.u = host.u, !.seq = host.seq] /\ host.at = "finish"
      /\ hist' = [hist EXCEPT !.completed = @ \cup {host.sid}]
      /\ UNCHANGED <<conn, req, sess, rxq, rx, worker, down, nextSid>>
  BY DEF HostCompleted
<1>2. PICK m \in rsp : Matches(m, host.seq) /\ m.status = "ok" /\ rsp' = rsp \ {m}
  BY DEF HostCompleted
<1>3. Booted(host.sid)
  BY <1>1, <1>2 DEF Matches, UInv, Ending
<1>4. host.seq \in Nat
  BY DEF UInv, Typed, HostTyped
<1>5. host' = [at |-> "idle", u |-> host.u, sid |-> 0, seq |-> host.seq, next |-> 0,
            pipe |-> {}, acked |-> {}]
  BY <1>1 DEF NoHost
<1>6. /\ host'.at = "idle" /\ host'.seq = host.seq /\ host'.sid = 0
      /\ host'.next = 0 /\ host'.pipe = {} /\ host'.acked = {} /\ HostTyped'
  BY <1>4, <1>5, NoHostIs
<1>7. hist'.booted = hist.booted /\ hist'.completed = hist.completed \cup {host.sid}
  BY <1>1 DEF IInv, Records
<1>8. HostSide
  BY <1>1, <1>2, <1>6, <1>7 DEF HostSide
<1>9. ReqData' = ReqData
  BY <1>1 DEF ReqData
<1> QED
  BY <1>1, <1>3, <1>4, <1>6, <1>7, <1>8, <1>9, HostRestsUInv

\* Its START is accepted: no chunk carries the new session's id yet.
LEMMA HostStartedUInv ==
    ASSUME IInv, UInv, HostStarted
    PROVE  UInv'
<1>1. PICK m \in rsp :
         /\ m.seq = host.seq /\ m.status = "ok" /\ rsp' = rsp \ {m}
         /\ host' = [host EXCEPT !.at = "data", !.sid = m.sid]
  BY DEF HostStarted, Matches
<1>2. /\ host.at = "start"
      /\ UNCHANGED <<conn, req, sess, rxq, rx, worker, down, nextSid, hist>>
  BY DEF HostStarted
<1>3. Typed /\ Numbered /\ Starting /\ Streams /\ Completion
  BY DEF UInv
<1>4. /\ host'.at = "data" /\ host'.sid = m.sid /\ host'.seq = host.seq /\ host'.u = host.u
      /\ host'.next = host.next /\ host'.pipe = host.pipe /\ host'.acked = host.acked
  BY <1>1 DEF IInv, Records
<1>5. m.sid \in Nat /\ m.sid < nextSid
  BY <1>3, NumbersAre DEF Numbered
<1>6. HostTyped'
  BY <1>3, <1>4, <1>5 DEF Typed, HostTyped
<1>7. HostSide
  BY <1>1, <1>2, <1>6 DEF HostSide
<1>8. ReqData' = ReqData
  BY <1>2 DEF ReqData
<1>9. Typed' /\ Finishing' = Finishing /\ Data' = Data
  BY <1>3, <1>7, <1>8, HostSideTyped
<1>10. /\ host.pipe = {} /\ host.next = 0 /\ host.acked = {}
       /\ \A d \in Data : d.seq < host.seq /\ d.sid # m.sid
       /\ \A q \in Finishing : q < host.seq
       /\ \A k \in req : k.seq = host.seq => k.kind = "start"
       /\ sess.sid = m.sid /\ Open => sess.received = 0
  BY <1>1, <1>2, <1>3 DEF Starting
<1>11. Numbered'
  BY <1>1, <1>2, <1>3, <1>4, <1>5, <1>9 DEF Numbered
<1>12. Starting' /\ Ending'
  BY <1>4 DEF Starting, Ending
<1>13. /\ host.seq \in Nat /\ Base' = host.seq
       /\ \A d \in Data : d.seq \in Nat
       /\ \A q \in Finishing : q \in Nat
       /\ \A r \in rsp : r.seq \in Nat
       /\ \A k \in req : k.seq \in Nat
  BY <1>3, <1>4, <1>10, NumbersAre DEF Base
<1>14. /\ \A d \in Data' : ~(d.seq > host.seq)
       /\ \A r \in rsp' : ~(r.seq > host.seq)
       /\ \A q \in Finishing' : q <= host.seq
       /\ \A k \in req' : k.seq <= host.seq
  BY <1>1, <1>2, <1>3, <1>9, <1>10, <1>13 DEF Numbered
<1>15. Sending'
  <2>1. /\ host'.next <= host'.seq /\ host'.pipe = {}
        /\ \A d \in Data' : d.sid # host'.sid
    BY <1>4, <1>9, <1>10, <1>13
  <2> QED
    BY <1>4, <1>13, <1>14, <2>1 DEF Sending
<1>16. OnePlace'
  <2>1. /\ ReqData' \subseteq Data' /\ sess'.holds \subseteq Data'
        /\ rx' # NoMsg => rx' \in Data'
        /\ \A n \in 1 .. Len(rxq') : rxq'[n] \in Data'
    BY DEF Data, Queued
  <2>2. /\ \A k \in ReqData' : ~(k.seq > Base')
        /\ \A k \in sess'.holds : ~(k.seq > Base')
        /\ rx' # NoMsg => ~(rx'.seq > Base')
        /\ \A n \in 1 .. Len(rxq') : ~(rxq'[n].seq > Base')
        /\ \A r \in rsp' : ~(r.seq > Base')
    BY <2>1, <1>13, <1>14
  <2> QED
    BY <2>2 DEF OnePlace
<1>17. AckedTaken'
  BY <1>4, <1>10, <1>13, <1>14 DEF AckedTaken
<1>18. Streams'
  <2> SUFFICES ASSUME Open' PROVE Streams'
    BY DEF Streams
  <2>1. Open /\ WithWorker' = WithWorker
    BY <1>2 DEF Open, WithWorker
  <2>2. ASSUME ~sess.abort
        PROVE  \E u \in 1 .. MaxUploads : OfUpload(u)'
    <3>1. PICK u \in 1 .. MaxUploads : OfUpload(u)
      BY <1>3, <2>1, <2>2 DEF Streams
    <3>2. CASE sess.sid # m.sid
      <4>1. OfUpload(u)'
        BY <1>2, <1>4, <1>9, <2>1, <3>1, <3>2 DEF OfUpload
      <4> QED
        BY <4>1
    <3>3. CASE sess.sid = m.sid
      <4>1. /\ Len(sess.hash) = sess.written /\ sess.queued = WithWorker + Len(sess.ring)
            /\ sess.received = sess.written + sess.queued /\ sess.received = 0
        BY <1>3, <1>10, <2>1, <2>2, <3>3 DEF Streams
      <4>2. Len(sess.hash) \in Nat /\ Len(sess.ring) \in Nat
        BY <1>3, LenProperties DEF Typed, SessTyped
      <4>3. Len(sess.hash) = 0 /\ Len(sess.ring) = 0 /\ worker.got = NoMsg
        <5>1. WithWorker \in {0, 1} /\ (WithWorker = 0 => worker.got = NoMsg)
          BY DEF WithWorker
        <5>2. Len(sess.hash) + (WithWorker + Len(sess.ring)) = 0
          BY <4>1
        <5>3. \A a, c \in Nat, b \in {0, 1} : a + (b + c) = 0 => a = 0 /\ b = 0 /\ c = 0
          OBVIOUS
        <5> QED
          BY <4>2, <5>1, <5>2, <5>3
      <4>4. PICK v \in 1 .. MaxUploads : v = host.u
        BY <1>2, OtaConstants DEF IInv, Digests
      <4>5. \A i : ~(i \in 1 .. 0)
        OBVIOUS
      <4>6. OfUpload(v)'
        BY <1>2, <1>4, <1>9, <1>10, <3>3, <4>3, <4>4, <4>5 DEF OfUpload
      <4> QED
        BY <4>6
    <3> QED
      BY <3>2, <3>3
  <2> QED
    BY <1>2, <1>3, <2>1, <2>2 DEF Streams
<1>19. Completion'
  BY <1>2, <1>3 DEF Completion, Booted
<1> QED
  BY <1>9, <1>11, <1>12, <1>15, <1>16, <1>17, <1>18, <1>19 DEF UInv

\* All chunks are accepted: FINISH carries a number of its own.
LEMMA HostFinishUInv ==
    ASSUME IInv, UInv, HostFinish
    PROVE  UInv'
<1> DEFINE m == [kind |-> "finish", seq |-> host.seq + 1, sid |-> host.sid,
                 sha |-> Image(host.u)]
<1>1. /\ host' = [host EXCEPT !.at = "finish", !.seq = @ + 1] /\ host.at = "data"
      /\ req' = req \cup {m}
      /\ UNCHANGED <<conn, rsp, sess, rxq, rx, worker, down, nextSid, hist>>
  BY DEF HostFinish, Sent
<1>2. Typed /\ Numbered /\ Sending /\ Streams /\ Completion /\ AckedTaken
  BY DEF UInv
<1>3. /\ host'.at = "finish" /\ host'.sid = host.sid /\ host'.seq = host.seq + 1
      /\ host'.u = host.u /\ host'.next = host.next /\ host'.pipe = host.pipe
      /\ host'.acked = host.acked
  BY <1>1 DEF IInv, Records
<1>4. host.seq \in Nat /\ host.sid \in Nat
  BY <1>2, NumbersAre
<1>5. /\ RequestTyped(m) /\ m.kind = "finish" /\ m.seq = host.seq + 1 /\ m.sid = host.sid
  BY <1>4 DEF RequestTyped
<1> HIDE DEF m
<1>6. HostTyped'
  <2>1. host'.seq \in Nat
    BY <1>3, <1>4
  <2> QED
    BY <1>2, <1>3, <2>1 DEF Typed, HostTyped
<1>7. MaxUploads # 0
  BY <1>1, OtaConstants DEF IInv, Digests
<1>8. HostSide
  BY <1>1, <1>5, <1>6, <1>7 DEF HostSide
<1>9. ReqData' = ReqData
  BY <1>1, <1>5, SameReqData
<1>10. Typed' /\ Finishing' = Finishing /\ Data' = Data
  BY <1>2, <1>8, <1>9, HostSideTyped
<1>11. /\ \A d \in Data : d.seq \in Nat /\ d.seq <= host.seq
       /\ \A q \in Finishing : q \in Nat /\ q <= host.seq
       /\ \A r \in rsp : r.seq \in Nat /\ r.seq <= host.seq
       /\ \A k \in req : k.seq \in Nat /\ k.seq <= host.seq
  BY <1>2, NumbersAre DEF Numbered
<1>12. Numbered'
  <2>1. /\ \A d \in Data : d.seq <= host.seq + 1
        /\ \A q \in Finishing : q <= host.seq + 1
        /\ \A r \in rsp : r.seq <= host.seq + 1
        /\ \A k \in req : k.seq <= host.seq + 1
    BY <1>4, <1>11
  <2>2. m.seq <= host.seq + 1
    BY <1>4, <1>5
  <2>3. \A k \in req' : k.seq <= host.seq + 1
    BY <1>1, <2>1, <2>2
  <2> QED
    BY <1>1, <1>2, <1>3, <1>10, <2>1, <2>3 DEF Numbered
<1>13. Starting' /\ Sending' /\ OnePlace'
  BY <1>3 DEF Starting, Sending, OnePlace
<1>14. Ending'
  <2>1. \A d \in Data' : d.seq < host'.seq
    BY <1>3, <1>4, <1>10, <1>11
  <2>2. \A d \in Data' : d.sid = host'.sid => d.u = host'.u
    BY <1>1, <1>2, <1>3, <1>10 DEF Sending
  <2>3. \A k \in req' : k.seq = host'.seq => k.kind = "finish" /\ k.sid = host'.sid
    <3>1. \A k \in req : k.seq # host.seq + 1
      BY <1>4, <1>11
    <3> QED
      BY <1>1, <1>3, <1>5, <3>1
  <2>4. host'.seq \notin Finishing' /\ \A r \in rsp' : r.seq # host'.seq
    BY <1>1, <1>3, <1>4, <1>10, <1>11
  <2> QED
    BY <2>1, <2>2, <2>3, <2>4 DEF Ending
<1>15. AckedTaken'
  BY <1>1, <1>2, <1>3 DEF AckedTaken, Open
<1>16. Streams'
  <2> SUFFICES ASSUME Open' PROVE Streams'
    BY DEF Streams
  <2>1. Open /\ WithWorker' = WithWorker
    BY <1>1 DEF Open, WithWorker
  <2>2. \A u : OfUpload(u) => OfUpload(u)'
    BY <1>1, <1>3, <1>10, <2>1 DEF OfUpload
  <2> QED
    BY <1>1, <1>2, <2>1, <2>2 DEF Streams
<1>17. Completion'
  BY <1>1, <1>2 DEF Completion, Booted
<1> QED
  BY <1>10, <1>12, <1>13, <1>14, <1>15, <1>16, <1>17 DEF UInv

\* A chunk that is sent has a number that nothing else has.
LEMMA HostSendUInv ==
    ASSUME IInv, UInv, HostSend
    PROVE  UInv'
<1> DEFINE m == DataMsg(host.seq + 1, host.next)
           p == [seq |-> host.seq + 1, c |-> host.next, retries |-> 0]
<1>1. /\ host' = [host EXCEPT !.seq = @ + 1, !.next = @ + 1, !.pipe = @ \cup {p}]
      /\ host.at = "data" /\ host.next < Chunks /\ Cardinality(host.pipe) < PipeDepth
      /\ req' = req \cup {m}
      /\ UNCHANGED <<conn, rsp, sess, rxq, rx, worker, down, nextSid, hist>>
  BY DEF HostSend, Sent
<1>2. /\ Typed /\ Numbered /\ Sending /\ Streams /\ Completion /\ AckedTaken /\ OnePlace
      /\ HostTyped
  BY DEF UInv, Typed
<1>3. /\ host'.at = "data" /\ host'.sid = host.sid /\ host'.seq = host.seq + 1
      /\ host'.u = host.u /\ host'.next = host.next + 1 /\ host'.pipe = host.pipe \cup {p}
      /\ host'.acked = host.acked
  <2>1. host = [at |-> host.at, u |-> host.u, sid |-> host.sid, seq |-> host.seq,
                next |-> host.next, pipe |-> host.pipe, acked |-> host.acked]
    BY DEF IInv, Records
  <2> HIDE DEF p
  <2> QED
    BY <1>1, <2>1
<1>4. /\ host.seq \in Nat /\ host.sid \in Nat /\ host.next \in Nat /\ host.next \in Offsets
      /\ host.u \in 1 .. MaxUploads /\ conn.link \in 0 .. MaxLinks /\ MaxUploads # 0
  <2>1. host.u \in 1 .. MaxUploads
    BY <1>1, OtaConstants DEF IInv, Digests
  <2>2. host.seq \in Nat /\ host.sid \in Nat /\ host.next \in Nat
    BY <1>2, NumbersAre
  <2>3. conn.link \in 0 .. MaxLinks
    BY <1>2 DEF Typed
  <2>4. host.next \in Offsets
    BY <1>1, <2>2, SessionConstants DEF Offsets
  <2> QED
    BY <2>1, <2>2, <2>3, <2>4, OtaConstants
<1>5. /\ m \in DataMsgs /\ m.kind = "data" /\ m.seq = host.seq + 1 /\ m.sid = host.sid
      /\ m.c = host.next /\ m.u = host.u
  BY <1>4 DEF DataMsg, DataMsgs
<1>6. p \in Pipes /\ p.seq = host.seq + 1 /\ p.c = host.next
  BY <1>4, OtaConstants DEF Pipes
<1> HIDE DEF m, p
<1>7. HostTyped'
  <2>1. host'.pipe \in SUBSET Pipes /\ IsFiniteSet(host'.pipe)
        /\ Cardinality(host'.pipe) <= PipeDepth
    <3>1. IsFiniteSet(host.pipe) /\ host.pipe \in SUBSET Pipes
      BY <1>2 DEF HostTyped
    <3>2. /\ IsFiniteSet(host.pipe \cup {p})
          /\ Cardinality(host.pipe \cup {p}) = Cardinality(host.pipe)
             \/ Cardinality(host.pipe \cup {p}) = Cardinality(host.pipe) + 1
      BY <3>1, FS_AddElement
    <3>3. Cardinality(host.pipe) \in Nat
      BY <3>1, FS_CardinalityType
    <3> QED
      BY <1>1, <1>3, <1>6, <3>1, <3>2, <3>3, OtaConstants
  <2>2. host'.seq \in Nat /\ host'.next \in 0 .. Chunks
    BY <1>1, <1>3, <1>4, SessionConstants
  <2> QED
    BY <1>2, <1>3, <2>1, <2>2 DEF HostTyped
<1>8. HostSide
  <2>1. RequestTyped(m)
    BY <1>4, <1>5 DEF RequestTyped
  <2> QED
    BY <1>1, <1>4, <1>7, <2>1 DEF HostSide
<1>9. ReqData' = ReqData \cup {m}
  BY <1>1, <1>5 DEF ReqData
<1>10. Data' = Data \cup {m} /\ Finishing' = Finishing
  BY <1>1, <1>9 DEF Data, Queued, Finishing
<1>11. Typed'
  BY <1>2, <1>8, HostSideTyped
<1>12. /\ \A d \in Data : d.seq \in Nat /\ d.seq <= host.seq
       /\ \A q \in Finishing : q \in Nat /\ q <= host.seq
       /\ \A r \in rsp : r.seq \in Nat /\ r.seq <= host.seq
       /\ \A k \in req : k.seq \in Nat /\ k.seq <= host.seq
  BY <1>2, NumbersAre DEF Numbered
<1>13. Base' = Base /\ Base \in Int /\ host.seq + 1 = Base + host.next + 1
       /\ host.seq + 1 > Base
  BY <1>3, <1>4 DEF Base
<1>14. Numbered'
  <2>1. /\ \A d \in Data' : d.seq <= host.seq + 1
        /\ \A q \in Finishing : q <= host.seq + 1
        /\ \A r \in rsp : r.seq <= host.seq + 1
        /\ \A k \in req' : k.seq <= host.seq + 1
    BY <1>1, <1>4, <1>5, <1>10, <1>12
  <2>2. \A d \in Data' : d.sid < nextSid
    BY <1>2, <1>5, <1>10 DEF Numbered
  <2> QED
    BY <1>1, <1>2, <1>3, <1>10, <2>1, <2>2 DEF Numbered
<1>15. Starting' /\ Ending'
  BY <1>3 DEF Starting, Ending
<1>16. Sending'
  <2>1. host'.next <= host'.seq
    BY <1>1, <1>2, <1>3, <1>4 DEF Sending
  <2>2. \A k \in host'.pipe : k.c < host'.next /\ k.seq = Base + k.c + 1
    <3>1. \A k \in host.pipe : k.c \in Nat
      BY <1>2, SessionConstants DEF HostTyped, Pipes, Offsets
    <3>2. \A k \in host.pipe : k.c < host.next + 1 /\ k.seq = Base + k.c + 1
      BY <1>1, <1>2, <1>4, <3>1 DEF Sending
    <3>3. p.c < host.next + 1 /\ p.seq = Base + p.c + 1
      BY <1>4, <1>6, <1>13
    <3> QED
      BY <1>3, <3>2, <3>3
  <2>3. /\ \A d \in Data' : d.sid = host.sid <=> d.seq > Base
        /\ \A d \in Data' : d.sid = host.sid => d.u = host.u /\ d.seq = Base + d.c + 1
    BY <1>1, <1>2, <1>5, <1>10, <1>13 DEF Sending
  <2>4. /\ \A q \in Finishing' : q <= Base
        /\ \A k \in req' : k.kind # "data" => k.seq <= Base
    BY <1>1, <1>2, <1>5, <1>10 DEF Sending
  <2> QED
    BY <1>3, <1>13, <2>1, <2>2, <2>3, <2>4 DEF Sending
<1>17. OnePlace'
  <2>1. /\ ReqData \subseteq Data /\ sess.holds \subseteq Data
        /\ rx # NoMsg => rx \in Data
        /\ \A n \in 1 .. Len(rxq) : rxq[n] \in Data
    BY DEF Data, Queued
  <2>2. /\ \A k \in ReqData : k.seq # m.seq
        /\ \A k \in sess.holds : k.seq # m.seq
        /\ rx # NoMsg => rx.seq # m.seq
        /\ \A n \in 1 .. Len(rxq) : rxq[n].seq # m.seq
        /\ \A r \in rsp : r.seq # m.seq
    <3>1. /\ \A d \in Data : d.seq # m.seq
          /\ \A r \in rsp : r.seq # m.seq
      BY <1>4, <1>5, <1>12
    <3> QED
      BY <2>1, <3>1
  <2>3. \A k, n \in ReqData' : k.seq = n.seq /\ k.seq > Base' => k = n
    BY <1>1, <1>2, <1>9, <1>13, <2>2 DEF OnePlace
  <2>4. /\ \A k \in ReqData', n \in 1 .. Len(rxq') : k.seq > Base' => k.seq # rxq'[n].seq
        /\ \A k \in ReqData', h \in sess'.holds : k.seq > Base' => k.seq # h.seq
        /\ \A k \in ReqData', r \in rsp' : k.seq > Base' => k.seq # r.seq
    BY <1>1, <1>2, <1>9, <1>13, <2>2 DEF OnePlace
  <2>5. rx' # NoMsg /\ rx'.seq > Base' => \A k \in ReqData' : k.seq # rx'.seq
    BY <1>1, <1>2, <1>9, <1>13, <2>2 DEF OnePlace
  <2>6. UNCHANGED <<rxq, rx, rsp, sess>>
    BY <1>1
  <2> QED
    BY <1>1, <1>2, <1>13, <2>3, <2>4, <2>5, <2>6 DEF OnePlace
<1>18. AckedTaken'
  BY <1>1, <1>2, <1>3, <1>13 DEF AckedTaken, Open
<1>19. Streams'
  <2> SUFFICES ASSUME Open' PROVE Streams'
    BY DEF Streams
  <2>1. Open /\ WithWorker' = WithWorker
    BY <1>1 DEF Open, WithWorker
  <2>2. ASSUME NEW u, OfUpload(u) PROVE OfUpload(u)'
    <3>1. host.sid = sess.sid => host.u = u
      BY <1>1, <2>2 DEF OfUpload
    <3>2. \A d \in Data' : d.sid = sess.sid => d.u = u
      BY <1>5, <1>10, <2>2, <3>1 DEF OfUpload
    <3> QED
      BY <1>1, <1>3, <2>1, <2>2, <3>1, <3>2 DEF OfUpload
  <2> QED
    BY <1>1, <1>2, <2>1, <2>2 DEF Streams
<1>20. Completion'
  BY <1>1, <1>2 DEF Completion, Booted
<1> QED
  BY <1>11, <1>14, <1>15, <1>16, <1>17, <1>18, <1>19, <1>20 DEF UInv

\* An accepted chunk has been taken.
LEMMA HostAckedOkUInv ==
    ASSUME IInv, UInv, NEW m \in rsp, NEW p \in host.pipe,
           host.at = "data", m.seq = p.seq, m.status = "ok", rsp' = rsp \ {m},
           host' = [host EXCEPT !.pipe = @ \ {p}, !.acked = @ \cup {p.c}],
           UNCHANGED <<conn, req, sess, rxq, rx, worker, down, nextSid, hist>>
    PROVE  UInv'
<1>1. /\ Typed /\ Numbered /\ Sending /\ Streams /\ Completion /\ AckedTaken /\ OnePlace
      /\ HostTyped
  BY DEF UInv, Typed
<1>2. /\ host'.at = "data" /\ host'.sid = host.sid /\ host'.seq = host.seq
      /\ host'.u = host.u /\ host'.next = host.next /\ host'.pipe = host.pipe \ {p}
      /\ host'.acked = host.acked \cup {p.c}
  BY DEF IInv, Records
<1>3. HostTyped'
  <2>1. p \in Pipes /\ p.c \in Offsets
    BY <1>1 DEF HostTyped, Pipes
  <2>2. /\ IsFiniteSet(host.pipe) /\ host.pipe \in SUBSET Pipes
        /\ Cardinality(host.pipe) <= PipeDepth
    BY <1>1 DEF HostTyped
  <2>3. /\ IsFiniteSet(host.pipe \ {p})
        /\ Cardinality(host.pipe \ {p}) = Cardinality(host.pipe) - 1
    BY <2>2, FS_RemoveElement
  <2>4. Cardinality(host.pipe) \in Nat
    BY <2>2, FS_CardinalityType
  <2>5. Cardinality(host'.pipe) <= PipeDepth
    BY <1>2, <2>2, <2>3, <2>4, OtaConstants
  <2> QED
    BY <1>1, <1>2, <2>1, <2>2, <2>3, <2>5 DEF HostTyped
<1>4. HostSide
  BY <1>3 DEF HostSide
<1>5. ReqData' = ReqData
  BY DEF ReqData
<1>6. Typed' /\ Finishing' = Finishing /\ Data' = Data
  BY <1>1, <1>4, <1>5, HostSideTyped
<1>7. Base' = Base /\ Base \in Int
  BY <1>1, <1>2, NumbersAre DEF Base
<1>8. Numbered' /\ Starting' /\ Ending'
  BY <1>1, <1>2, <1>6 DEF Numbered, Starting, Ending
<1>9. Sending'
  BY <1>1, <1>2, <1>6, <1>7 DEF Sending
<1>10. OnePlace'
  <2>1. ReqData' = ReqData /\ rsp' \subseteq rsp
    BY <1>5
  <2> QED
    BY <1>1, <1>7, <2>1 DEF OnePlace
<1>11. AckedTaken'
  <2> SUFFICES ASSUME Open, sess.sid = host.sid
               PROVE  AckedTaken'
    BY <1>2 DEF AckedTaken, Open
  <2>1. p.c \in Nat /\ p.seq = Base + p.c + 1
    BY <1>1, SessionConstants DEF HostTyped, Pipes, Offsets, Sending
  <2>2. m.seq > Base /\ m.seq - Base - 1 = p.c
    BY <1>7, <2>1
  <2>3. p.c < sess.received
    BY <1>1, <2>2 DEF AckedTaken
  <2> QED
    BY <1>1, <1>2, <1>7, <2>3 DEF AckedTaken
<1>12. Streams'
  <2> SUFFICES ASSUME Open' PROVE Streams'
    BY DEF Streams
  <2>1. Open /\ WithWorker' = WithWorker
    BY DEF Open, WithWorker
  <2>2. \A u : OfUpload(u) => OfUpload(u)'
    BY <1>2, <1>6, <2>1 DEF OfUpload
  <2> QED
    BY <1>1, <2>1, <2>2 DEF Streams
<1>13. Completion'
  BY <1>1 DEF Completion, Booted
<1> QED
  BY <1>6, <1>8, <1>9, <1>10, <1>11, <1>12, <1>13 DEF UInv

\* A chunk that was busy goes out again: its answer was all there was of it.
LEMMA HostAckedBusyUInv ==
    ASSUME IInv, UInv, NEW m \in rsp, NEW p \in host.pipe,
           host.at = "data", m.seq = p.seq, rsp' = rsp \ {m}, p.retries < BusyRetries,
           host' = [host EXCEPT !.pipe = (@ \ {p}) \cup {[p EXCEPT !.retries = @ + 1]}],
           req' = req \cup {DataMsg(p.seq, p.c)},
           UNCHANGED <<conn, sess, rxq, rx, worker, down, nextSid, hist>>
    PROVE  UInv'
<1> DEFINE d == DataMsg(p.seq, p.c)
           q == [p EXCEPT !.retries = @ + 1]
<1>1. /\ Typed /\ Numbered /\ Sending /\ Streams /\ Completion /\ AckedTaken /\ OnePlace
      /\ HostTyped
  BY DEF UInv, Typed
<1>2. /\ host'.at = "data" /\ host'.sid = host.sid /\ host'.seq = host.seq
      /\ host'.u = host.u /\ host'.next = host.next /\ host'.pipe = (host.pipe \ {p}) \cup {q}
      /\ host'.acked = host.acked
  <2>1. host = [at |-> host.at, u |-> host.u, sid |-> host.sid, seq |-> host.seq,
                next |-> host.next, pipe |-> host.pipe, acked |-> host.acked]
    BY DEF IInv, Records
  <2>2. host' = [host EXCEPT !.pipe = (@ \ {p}) \cup {q}]
    OBVIOUS
  <2> HIDE DEF q
  <2> QED
    BY <2>1, <2>2
<1>3. /\ p \in Pipes /\ p.c \in Offsets /\ p.c \in Nat /\ p.seq \in Nat
      /\ p.c < host.next /\ p.seq = Base + p.c + 1
  <2>1. p \in Pipes
    BY <1>1 DEF HostTyped
  <2>2. p.c < host.next /\ p.seq = Base + p.c + 1
    BY <1>1 DEF Sending
  <2>3. p.c \in Offsets /\ p.seq \in Nat
    BY <2>1 DEF Pipes
  <2>4. p.c \in Nat
    BY <2>3, SessionConstants DEF Offsets
  <2> QED
    BY <2>1, <2>2, <2>3, <2>4
<1>4. /\ host.seq \in Nat /\ host.sid \in Nat /\ host.next \in Nat
      /\ host.u \in 1 .. MaxUploads /\ conn.link \in 0 .. MaxLinks /\ MaxUploads # 0
  <2>1. host.u \in 1 .. MaxUploads
    BY OtaConstants DEF IInv, Digests
  <2>2. host.seq \in Nat /\ host.sid \in Nat /\ host.next \in Nat
    BY <1>1, NumbersAre
  <2>3. conn.link \in 0 .. MaxLinks
    BY <1>1 DEF Typed
  <2> QED
    BY <2>1, <2>2, <2>3, OtaConstants
<1>5. /\ d \in DataMsgs /\ d.kind = "data" /\ d.seq = p.seq /\ d.sid = host.sid
      /\ d.c = p.c /\ d.u = host.u
  BY <1>3, <1>4 DEF DataMsg, DataMsgs
<1>6. q \in Pipes /\ q.seq = p.seq /\ q.c = p.c
  <2>1. p.retries \in 0 .. BusyRetries
    BY <1>3 DEF Pipes
  <2>2. p.retries + 1 \in 0 .. BusyRetries
    BY <2>1, OtaConstants
  <2>3. p = [seq |-> p.seq, c |-> p.c, retries |-> p.retries]
    BY <1>3 DEF Pipes
  <2>4. q = [seq |-> p.seq, c |-> p.c, retries |-> p.retries + 1]
    BY <2>3
  <2> QED
    BY <1>3, <2>2, <2>4 DEF Pipes
<1>7. req' = req \cup {d}
  OBVIOUS
<1> HIDE DEF d, q
<1>8. HostTyped'
  <2>1. /\ IsFiniteSet(host.pipe) /\ host.pipe \in SUBSET Pipes
        /\ Cardinality(host.pipe) <= PipeDepth
    BY <1>1 DEF HostTyped
  <2> DEFINE rest == host.pipe \ {p}
  <2>2. IsFiniteSet(rest) /\ Cardinality(rest) = Cardinality(host.pipe) - 1
    BY <2>1, FS_RemoveElement
  <2>3. rest \in SUBSET Pipes /\ host'.pipe = rest \cup {q}
    BY <1>2, <2>1
  <2> HIDE DEF rest
  <2>4. /\ IsFiniteSet(rest \cup {q})
        /\ \/ Cardinality(rest \cup {q}) = Cardinality(rest)
           \/ Cardinality(rest \cup {q}) = Cardinality(rest) + 1
    BY <2>2, FS_AddElement
  <2>5. Cardinality(host.pipe) \in Nat /\ Cardinality(rest) \in Nat
    BY <2>1, <2>2, FS_CardinalityType
  <2>6. Cardinality(host'.pipe) <= PipeDepth
    <3>1. \A n, a, b, c \in Nat : a <= n /\ b = a - 1 /\ (c = b \/ c = b + 1) => c <= n
      OBVIOUS
    <3>2. PipeDepth \in Nat /\ Cardinality(rest \cup {q}) \in Nat
      BY <2>4, FS_CardinalityType, OtaConstants
    <3>3. Cardinality(rest \cup {q}) <= PipeDepth
      BY <2>1, <2>2, <2>4, <2>5, <3>1, <3>2
    <3> QED
      BY <2>3, <3>3
  <2>7. host'.pipe \in SUBSET Pipes /\ IsFiniteSet(host'.pipe)
    BY <1>6, <2>3, <2>4
  <2> QED
    BY <1>1, <1>2, <2>6, <2>7 DEF HostTyped
<1>9. HostSide
  <2>1. RequestTyped(d)
    BY <1>3, <1>5 DEF RequestTyped
  <2> QED
    BY <1>4, <1>7, <1>8, <2>1 DEF HostSide
<1>10. ReqData' = ReqData \cup {d}
  BY <1>5, <1>7 DEF ReqData
<1>11. Data' = Data \cup {d} /\ Finishing' = Finishing
  BY <1>10 DEF Data, Queued, Finishing
<1>12. Typed'
  BY <1>1, <1>9, HostSideTyped
<1>13. Base' = Base /\ Base \in Int /\ d.seq > Base /\ d.seq <= host.seq
  <2>1. Base \in Int /\ host.seq = Base + host.next
    BY <1>4 DEF Base
  <2> QED
    BY <1>2, <1>3, <1>4, <1>5, <2>1 DEF Base
<1>14. Numbered'
  <2>1. \A k \in Data' : k.sid < nextSid /\ k.seq <= host.seq
    BY <1>1, <1>5, <1>11, <1>13 DEF Numbered
  <2>2. \A k \in req' : k.seq <= host.seq
    BY <1>1, <1>7, <1>13 DEF Numbered
  <2> QED
    BY <1>1, <1>2, <1>11, <2>1, <2>2 DEF Numbered
<1>15. Starting' /\ Ending'
  BY <1>2 DEF Starting, Ending
<1>16. Sending'
  <2>1. \A k \in host'.pipe : k.c < host.next /\ k.seq = Base + k.c + 1
    BY <1>1, <1>2, <1>3, <1>6 DEF Sending
  <2>2. /\ \A k \in Data' : k.sid = host.sid <=> k.seq > Base
        /\ \A k \in Data' : k.sid = host.sid => k.u = host.u /\ k.seq = Base + k.c + 1
    BY <1>1, <1>3, <1>5, <1>11, <1>13 DEF Sending
  <2>3. \A k \in req' : k.kind # "data" => k.seq <= Base
    BY <1>1, <1>5, <1>7 DEF Sending
  <2> QED
    BY <1>1, <1>2, <1>11, <1>13, <2>1, <2>2, <2>3 DEF Sending
<1>17. OnePlace'
  <2>1. m.seq > Base /\ m.seq = d.seq
    BY <1>5, <1>13
  <2>2. /\ \A k \in ReqData : k.seq # d.seq
        /\ \A k \in sess.holds : k.seq # d.seq
        /\ rx # NoMsg => rx.seq # d.seq
        /\ \A n \in 1 .. Len(rxq) : rxq[n].seq # d.seq
        /\ \A r \in rsp' : r.seq # d.seq
    BY <1>1, <2>1 DEF OnePlace
  <2>3. \A k, n \in ReqData' : k.seq = n.seq /\ k.seq > Base' => k = n
    BY <1>1, <1>10, <1>13, <2>2 DEF OnePlace
  <2>4. /\ \A k \in ReqData', n \in 1 .. Len(rxq') : k.seq > Base' => k.seq # rxq'[n].seq
        /\ \A k \in ReqData', h \in sess'.holds : k.seq > Base' => k.seq # h.seq
        /\ \A k \in ReqData', r \in rsp' : k.seq > Base' => k.seq # r.seq
    BY <1>1, <1>10, <1>13, <2>2 DEF OnePlace
  <2>5. rx' # NoMsg /\ rx'.seq > Base' => \A k \in ReqData' : k.seq # rx'.seq
    BY <1>1, <1>10, <1>13, <2>2 DEF OnePlace
  <2>6. UNCHANGED <<rxq, rx, sess>> /\ rsp' \subseteq rsp
    OBVIOUS
  <2> QED
    BY <1>1, <1>13, <2>3, <2>4, <2>5, <2>6 DEF OnePlace
<1>18. AckedTaken'
  BY <1>1, <1>2, <1>13 DEF AckedTaken, Open
<1>19. Streams'
  <2> SUFFICES ASSUME Open' PROVE Streams'
    BY DEF Streams
  <2>1. Open /\ WithWorker' = WithWorker
    BY DEF Open, WithWorker
  <2>2. ASSUME NEW u, OfUpload(u) PROVE OfUpload(u)'
    <3>1. host.sid = sess.sid => host.u = u
      BY <2>2 DEF OfUpload
    <3>2. \A k \in Data' : k.sid = sess.sid => k.u = u
      BY <1>5, <1>11, <2>2, <3>1 DEF OfUpload
    <3> QED
      BY <1>2, <2>1, <2>2, <3>1, <3>2 DEF OfUpload
  <2> QED
    BY <1>1, <2>1, <2>2 DEF Streams
<1>20. Completion'
  BY <1>1 DEF Completion, Booted
<1> QED
  BY <1>12, <1>14, <1>15, <1>16, <1>17, <1>18, <1>19, <1>20 DEF UInv

\* The host takes the answer to a chunk.
LEMMA HostAckedUInv ==
    ASSUME IInv, UInv, HostAcked
    PROVE  UInv'
<1>1. /\ host.at = "data"
      /\ UNCHANGED <<conn, sess, rxq, rx, worker, down, nextSid, hist>>
  BY DEF HostAcked
<1>2. PICK m \in rsp, p \in host.pipe :
         /\ m.seq = p.seq /\ rsp' = rsp \ {m}
         /\ \/ /\ m.status = "ok"
               /\ host' = [host EXCEPT !.pipe = @ \ {p}, !.acked = @ \cup {p.c}]
               /\ UNCHANGED req
            \/ /\ p.retries < BusyRetries
               /\ host' = [host EXCEPT !.pipe = (@ \ {p}) \cup {[p EXCEPT !.retries = @ + 1]}]
               /\ req' = req \cup {DataMsg(p.seq, p.c)}
  BY DEF HostAcked, Matches, Sent
<1> QED
  BY <1>1, <1>2, HostAckedOkUInv, HostAckedBusyUInv

------------------------------------------------------------------------------
(* The invariant of an upload, initially and by each step *)

\* The program starts in a state of the invariant.
LEMMA InitUInv == Init => UInv
<1> SUFFICES ASSUME Init PROVE UInv
  OBVIOUS
<1>1. /\ sess = Unused /\ host = NoHost /\ worker = Resting /\ rxq = <<>> /\ rx = NoMsg
      /\ req = {} /\ rsp = {} /\ down = NoDown /\ nextSid = 1
      /\ conn = [link |-> 0, at |-> "none"]
      /\ hist = [aborted |-> {}, booted |-> {}, completed |-> {}, owed |-> {}, twice |-> FALSE]
  BY DEF Init
<1>2. IsFiniteSet({}) /\ Cardinality({}) = 0
  BY FS_EmptySet
<1>3. /\ host.at = "idle" /\ host.sid = 0 /\ host.seq = 0 /\ host.next = 0
      /\ host.pipe = {} /\ host.acked = {}
  BY <1>1 DEF NoHost
<1>4. /\ sess.state = "idle" /\ sess.received = 0 /\ sess.written = 0 /\ sess.queued = 0
      /\ sess.ring = <<>> /\ sess.hash = <<>> /\ sess.holds = {} /\ sess.finSeq = 0
      /\ ~sess.finish /\ sess.result = [valid |-> FALSE, status |-> "ok", sid |-> 0, sha |-> <<>>]
  BY <1>1 DEF Unused, NoResult
<1>5. worker.at = "none" /\ worker.got = NoMsg /\ worker.seq = 0
  BY <1>1 DEF Resting
<1>6. HostTyped
  BY <1>2, <1>3, OtaConstants, SessionConstants DEF HostTyped
<1>7. SessTyped
  <2>1. Len(sess.ring) = 0 /\ sess.ring \in Seq(Pieces) /\ sess.hash \in Seq(Pieces)
    BY <1>4
  <2>2. 0 \in 0 .. Chunks /\ 0 <= RingSlots /\ 0 <= HoldSlots
    BY SessionConstants
  <2> QED
    BY <1>2, <1>4, <2>1, <2>2 DEF SessTyped, Statuses
<1>8. Typed
  <2>1. rxq \in Seq(DataMsgs) /\ Len(rxq) <= QueueDepth
    BY <1>1, OtaConstants
  <2>2. conn \in [link : 0 .. MaxLinks, at : {"none", "up", "lost", "closing"}]
    BY <1>1, OtaConstants
  <2>3. down \in [at : {"idle", "drain", "wait", "again"}, event : {"none", "error", "down"}]
    BY <1>1 DEF NoDown
  <2> QED
    BY <1>1, <1>5, <1>6, <1>7, <2>1, <2>2, <2>3 DEF Typed
<1>9. Data = {} /\ Finishing = {}
  <2>1. \A n : ~(n \in 1 .. 0)
    OBVIOUS
  <2>2. Queued = {}
    BY <1>1, <2>1 DEF Queued
  <2> QED
    BY <1>1, <1>4, <1>5, <2>2 DEF Data, ReqData, Finishing
<1>10. Numbered /\ Starting /\ Sending /\ Ending /\ OnePlace
  BY <1>1, <1>3, <1>9 DEF Numbered, Starting, Sending, Ending, OnePlace
<1>11. Streams /\ AckedTaken
  BY <1>4 DEF Streams, AckedTaken, Open
<1>12. Completion
  BY <1>1, <1>4, <1>5 DEF Completion
<1> QED
  BY <1>8, <1>10, <1>11, <1>12 DEF UInv

\* Every step keeps it.
LEMMA NextUInv == IInv /\ UInv /\ [Next]_vars => UInv'
<1> SUFFICES ASSUME IInv, UInv, [Next]_vars PROVE UInv'
  OBVIOUS
<1>1. CASE HostStep
  BY <1>1, HostStartUInv, HostStartedUInv, HostSendUInv, HostAckedUInv, HostFinishUInv,
     HostCompletedUInv, HostFailsUInv DEF HostStep
<1>2. CASE DeviceInput
  BY <1>2, RequestTakenUInv, DeviceStartUInv, DeviceFinishUInv, DeviceAbortUInv,
     DeviceDataUInv DEF DeviceInput
<1>3. CASE RxTake \/ RxProcess
  BY <1>3, RxTakeUInv, RxProcessUInv
<1>4. CASE WorkerStep
  BY <1>4, WorkerStopsUInv, WorkerTakeUInv, WorkerWriteUInv, WorkerFinishesUInv,
     WorkerVerifiesUInv, WorkerChecksUInv, WorkerBootsUInv, WorkerRepliesUInv,
     WorkerExitsUInv DEF WorkerStep
<1>5. CASE Connect \/ Disconnect \/ DownStarts("error") \/ DownStarts("down") \/ Close
  BY <1>5, ConnectUInv, DisconnectUInv, DownStartsUInv, CloseUInv
<1>6. CASE DownStep
  BY <1>6, DownDrainsUInv, DownClearsUInv, DownEndsUInv DEF DownStep
<1>7. CASE UNCHANGED vars
  <2>1. UNCHANGED <<conn, req, rsp, host, sess, rxq, rx, worker, down, nextSid, hist>>
    BY <1>7 DEF vars
  <2>2. Typed' /\ Data' = Data /\ Finishing' = Finishing /\ ReqData' = ReqData
    BY <2>1 DEF UInv, Typed, HostTyped, SessTyped, RequestTyped, Data, ReqData, Queued, Finishing
  <2>3. Base' = Base /\ WithWorker' = WithWorker
    BY <2>1 DEF Base, WithWorker
  <2>4. Streams'
    <3>1. \A u : OfUpload(u) => OfUpload(u)'
      BY <2>1, <2>2, <2>3 DEF OfUpload
    <3> QED
      BY <2>1, <2>3, <3>1 DEF UInv, Streams, Open
  <2>5. Numbered' /\ Starting' /\ Sending'
    BY <2>1, <2>2, <2>3 DEF UInv, Numbered, Starting, Sending, Open
  <2>6. Ending' /\ AckedTaken' /\ Completion'
    BY <2>1, <2>2, <2>3 DEF UInv, Ending, AckedTaken, Completion, Booted, Open
  <2>7. OnePlace'
    BY <2>1, <2>2, <2>3 DEF UInv, OnePlace
  <2> QED
    BY <2>2, <2>4, <2>5, <2>6, <2>7 DEF UInv
<1> QED
  BY <1>1, <1>2, <1>3, <1>4, <1>5, <1>6, <1>7 DEF Next

\* Both invariants hold throughout.
LEMMA SpecUInv == Spec => [](IInv /\ UInv)
<1>1. Init => IInv /\ UInv
  BY InitIInv, InitUInv
<1>2. IInv /\ UInv /\ [Next]_vars => (IInv /\ UInv)'
  BY NextIInv, NextUInv
<1> QED
  BY <1>1, <1>2, PTL DEF Spec

------------------------------------------------------------------------------
(* An entry that nobody uses *)

\* A teardown that runs while a request is in hand finds the entry first, or is over
\* before the next link; so a START that opens a session on an unused entry cannot
\* answer, and nobody knows the id it draws.
Taken ==
    /\ input = NoMsg \/ (input \in req /\ input.kind # "data")
    /\ down.at # "idle" /\ conn.at = "up" => input = NoMsg /\ down.event = "error"
Unknown ==
    /\ \A d \in Data : d.sid # sess.sid
    /\ \A r \in rsp : r.sid # sess.sid
    /\ host.at \in {"data", "finish"} => host.sid # sess.sid
Orphaned ==
    ~sess.used =>
        /\ sess.ring = <<>> /\ sess.holds = {} /\ worker.at \in {"none", "loop", "exit"}
        /\ input # NoMsg => conn.at # "up"
        /\ Open => sess.sid # 0 /\ Unknown
OInv == Taken /\ Orphaned

\* The id stays unknown while only what is known is sent.
LEMMA UnknownStays ==
    ASSUME Unknown, sess.sid # 0, sess'.sid = sess.sid,
           \A d \in Data' : d \in Data \/ (host.at = "data" /\ d.sid = host.sid),
           \A r \in rsp' : r \in rsp \/ r.sid = 0,
           host'.at \in {"data", "finish"} =>
               \/ host.at \in {"data", "finish"} /\ host'.sid = host.sid
               \/ \E r \in rsp : host'.sid = r.sid
    PROVE  Unknown'
  BY DEF Unknown

\* A step of the host.
LEMMA HostOInv ==
    ASSUME IInv, UInv, OInv, HostStep
    PROVE  OInv'
<1>1. /\ UNCHANGED <<conn, input, sess, rxq, rx, worker, down>>
      /\ req \subseteq req' /\ rsp' \subseteq rsp
  <2>1. CASE HostStart
    BY <2>1 DEF HostStart, Sent
  <2>2. CASE HostStarted
    BY <2>2 DEF HostStarted
  <2>3. CASE HostSend
    BY <2>3 DEF HostSend, Sent
  <2>4. CASE HostAcked
    BY <2>4 DEF HostAcked, Sent
  <2>5. CASE HostFinish
    BY <2>5 DEF HostFinish, Sent
  <2>6. CASE HostCompleted
    BY <2>6 DEF HostCompleted
  <2>7. CASE HostFails
    BY <2>7 DEF HostFails, Sent
  <2> QED
    BY <2>1, <2>2, <2>3, <2>4, <2>5, <2>6, <2>7 DEF HostStep
<1>2. \A m \in req' : m \in req \/ m.kind # "data" \/ (host.at = "data" /\ m.sid = host.sid)
  <2>1. CASE HostStart
    BY <2>1 DEF HostStart, Sent
  <2>2. CASE HostStarted \/ HostCompleted
    <3>1. HostStarted => req' = req
      BY DEF HostStarted
    <3>2. HostCompleted => req' = req
      BY DEF HostCompleted
    <3> QED
      BY <2>2, <3>1, <3>2
  <2>3. CASE HostFinish
    BY <2>3 DEF HostFinish, Sent
  <2>4. CASE HostFails
    BY <2>4 DEF HostFails, Sent
  <2>5. \A seq, c : DataMsg(seq, c).sid = host.sid
    BY DEF DataMsg
  <2>6. CASE HostSend
    BY <2>5, <2>6 DEF HostSend, Sent
  <2>7. CASE HostAcked
    <3>1. host.at = "data"
      BY <2>7 DEF HostAcked
    <3>2. req' = req \/ \E p \in host.pipe : req' = req \cup {DataMsg(p.seq, p.c)}
      BY <2>7 DEF HostAcked, Sent
    <3> QED
      BY <2>5, <3>1, <3>2
  <2> QED
    BY <2>1, <2>2, <2>3, <2>4, <2>6, <2>7 DEF HostStep
<1>3. host'.at \in {"data", "finish"} =>
         \/ host.at \in {"data", "finish"} /\ host'.sid = host.sid
         \/ \E r \in rsp : host'.sid = r.sid
  <2>1. host = [at |-> host.at, u |-> host.u, sid |-> host.sid, seq |-> host.seq,
                next |-> host.next, pipe |-> host.pipe, acked |-> host.acked]
    BY DEF IInv, Records
  <2>2. CASE HostStart \/ HostCompleted \/ HostFails
    BY <2>1, <2>2 DEF HostStart, HostCompleted, HostFails, NoHost
  <2>3. CASE HostStarted
    BY <2>1, <2>3 DEF HostStarted
  <2>4. CASE HostSend
    BY <2>1, <2>4 DEF HostSend
  <2>5. CASE HostFinish
    BY <2>1, <2>5 DEF HostFinish
  <2>6. CASE HostAcked
    <3>1. host.at = "data"
      BY <2>6 DEF HostAcked
    <3>2. PICK m \in rsp, p \in host.pipe :
             \/ host' = [host EXCEPT !.pipe = @ \ {p}, !.acked = @ \cup {p.c}]
             \/ host' = [host EXCEPT !.pipe = (@ \ {p}) \cup {[p EXCEPT !.retries = @ + 1]}]
      BY <2>6, Zenon DEF HostAcked
    <3>3. CASE host' = [host EXCEPT !.pipe = @ \ {p}, !.acked = @ \cup {p.c}]
      BY <2>1, <3>1, <3>3
    <3>4. CASE host' = [host EXCEPT !.pipe = (@ \ {p}) \cup {[p EXCEPT !.retries = @ + 1]}]
      BY <2>1, <3>1, <3>4
    <3> QED
      BY <3>2, <3>3, <3>4
  <2> QED
    BY <2>2, <2>3, <2>4, <2>5, <2>6 DEF HostStep
<1>4. \A d \in Data' : d \in Data \/ (host.at = "data" /\ d.sid = host.sid)
  BY <1>1, <1>2 DEF Data, ReqData, Queued
<1>5. Taken'
  BY <1>1 DEF OInv, Taken
<1>6. Orphaned'
  BY <1>1, <1>3, <1>4, UnknownStays DEF OInv, Orphaned, Open
<1> QED
  BY <1>5, <1>6 DEF OInv

\* A request is looked up: the entry is used from here on.
LEMMA RequestTakenOInv ==
    ASSUME IInv, OInv, NEW m \in req, RequestTaken(m)
    PROVE  OInv'
<1>1. sess'.used
  BY CurrentSession DEF RequestTaken
<1>2. Taken'
  BY DEF RequestTaken, Arrives, OInv, Taken
<1> QED
  BY <1>1, <1>2 DEF OInv, Orphaned

\* A request in hand is handled on the entry it was looked up in, whose session is
\* idle if its link was torn down meanwhile; that link is lost.
LEMMA ControlIs ==
    ASSUME IInv, OInv, NEW m \in req, NEW kind \in {"start", "finish", "abort"}, Control(m, kind)
    PROVE  /\ Taken' \/ conn' # conn \/ down' # down
           /\ ~sess.used => sess.state = "idle" /\ conn.at # "up"
<1>1. input = m /\ m # NoMsg /\ input' = NoMsg
  BY DEF Control, NoMsg
<1> QED
  BY <1>1 DEF OInv, Orphaned, Taken, IInv, Left

\* START opens a session on an unused entry, with an id it can tell nobody, or is
\* refused.
LEMMA DeviceStartOInv ==
    ASSUME IInv, UInv, OInv, NEW m \in req, DeviceStart(m)
    PROVE  OInv'
<1>1. /\ Control(m, "start") /\ input' = NoMsg /\ req' \subseteq req
      /\ UNCHANGED <<conn, host, rxq, rx, down, hist>>
  BY DEF DeviceStart, Control
<1>2. Taken'
  BY <1>1, ControlIs
<1>3. ASSUME ~sess.used
      PROVE  Orphaned'
  <2>1. sess.state = "idle" /\ conn.at # "up"
    BY <1>1, <1>3, ControlIs
  <2>2. CASE /\ sess' = Opened(sess, nextSid) /\ worker' = [Resting EXCEPT !.at = "loop"]
             /\ Answers({[seq |-> m.seq, status |-> "ok"]}, nextSid)
    <3>1. sess'.ring = <<>> /\ sess'.holds = {} /\ sess'.sid = nextSid /\ worker'.at = "loop"
      BY <2>2 DEF Opened, Resting, IInv, Records, IsSession
    <3>2. rsp' = rsp
      BY <2>1, <2>2 DEF Answers
    <3>3. Data' \subseteq Data
      BY <1>1, <3>1 DEF Data, ReqData, Queued
    <3>4. Typed /\ Numbered /\ nextSid \in Nat /\ nextSid # 0
      BY DEF UInv, IInv, Sids
    <3>5. Unknown'
      BY <1>1, <3>1, <3>2, <3>3, <3>4, NumbersAre DEF Unknown, Numbered
    <3> QED
      BY <1>1, <3>1, <3>4, <3>5 DEF Orphaned
  <2>3. CASE sess' \in {sess, [sess EXCEPT !.holds = {}]} /\ UNCHANGED worker
    <3>1. sess'.state = "idle" /\ sess'.ring = sess.ring /\ sess'.holds \in {sess.holds, {}}
      BY <2>1, <2>3 DEF IInv, Records, IsSession
    <3> QED
      BY <1>1, <1>3, <2>3, <3>1 DEF OInv, Orphaned, Open
  <2> QED
    BY <2>2, <2>3 DEF DeviceStart
<1>4. ASSUME sess.used
      PROVE  sess'.used
  <2>1. sess' \in {sess, Opened(sess, nextSid), [sess EXCEPT !.holds = {}]}
    BY DEF DeviceStart
  <2> QED
    BY <1>4, <2>1 DEF Opened, IInv, Records, IsSession
<1> QED
  BY <1>2, <1>3, <1>4 DEF OInv, Orphaned

\* FINISH and ABORT find nothing to do on an unused entry.
LEMMA DeviceEndsOInv ==
    ASSUME IInv, OInv, NEW m \in req, DeviceFinish(m) \/ DeviceAbort(m)
    PROVE  OInv'
<1>1. /\ Control(m, "finish") \/ Control(m, "abort")
      /\ input' = NoMsg /\ req' \subseteq req
      /\ UNCHANGED <<conn, host, rxq, rx, worker, down>>
  BY DEF DeviceFinish, DeviceAbort, Control
<1>2. Taken'
  BY <1>1, ControlIs
<1>3. ASSUME ~sess.used
      PROVE  Orphaned'
  <2>1. sess.state = "idle"
    BY <1>1, <1>3, ControlIs
  <2>2. sess' = sess
    BY <2>1 DEF DeviceFinish, DeviceAbort, TakesFinish, Complete, Aborts
  <2> QED
    BY <1>1, <1>3, <2>1, <2>2 DEF OInv, Orphaned, Open
<1>4. ASSUME sess.used
      PROVE  sess'.used
  <2>1. sess' \in {sess, FinishPending(sess, m.seq, m.sha), AbortAsync(sess)}
    BY DEF DeviceFinish, DeviceAbort
  <2>2. FinishPending(sess, m.seq, m.sha).used
    BY <1>4 DEF FinishPending, IInv, Records, IsSession
  <2>3. AbortAsync(sess).used
    BY <1>4 DEF AbortAsync, ClearState, AbortOta, WorkerFinish, IInv, Records, IsSession
  <2> QED
    BY <1>4, <2>1, <2>2, <2>3
<1> QED
  BY <1>2, <1>3, <1>4 DEF OInv, Orphaned

\* A step of the device that leaves session and worker alone, answers with no id and
\* brings no chunk.
LEMMA AloneOInv ==
    ASSUME OInv, UNCHANGED <<sess, worker, host>>, Taken',
           Data' \subseteq Data, \A r \in rsp' : r \in rsp \/ r.sid = 0,
           input' = NoMsg \/ (input' = input /\ (conn'.at = "up" => conn.at = "up"))
    PROVE  OInv'
<1>1. Orphaned'
  BY UnknownStays DEF OInv, Orphaned, Open
<1> QED
  BY <1>1 DEF OInv

\* DATA is only queued.
LEMMA DeviceDataOInv ==
    ASSUME OInv, UInv, NEW m \in req, DeviceData(m)
    PROVE  OInv'
<1>1. /\ m.kind = "data" /\ req' = req \ {m} /\ input = NoMsg
      /\ UNCHANGED <<conn, host, input, sess, rx, worker, down>>
  BY DEF DeviceData, Arrives
<1>2. \A r \in rsp' : r \in rsp \/ r.sid = 0
  BY AnswersOneIs DEF DeviceData
<1>3. Data' \subseteq Data
  <2>1. CASE UNCHANGED rxq
    BY <1>1, <2>1 DEF Data, ReqData, Queued
  <2>2. CASE rxq' = Append(rxq, m)
    <3>1. rxq \in Seq(DataMsgs)
      BY DEF UInv, Typed
    <3>2. m \in DataMsgs /\ m \in ReqData
      BY <1>1 DEF UInv, Typed, RequestTyped, ReqData
    <3>3. Queued' \subseteq Queued \cup {m}
      BY <2>2, <3>1, <3>2, AppendProperties DEF Queued
    <3> QED
      BY <1>1, <3>2, <3>3 DEF Data, ReqData
  <2> QED
    BY <2>1, <2>2 DEF DeviceData
<1>4. Taken'
  BY <1>1 DEF OInv, Taken
<1> QED
  BY <1>1, <1>2, <1>3, <1>4, AloneOInv

\* The receive task takes a chunk.
LEMMA RxTakeOInv ==
    ASSUME OInv, UInv, RxTake
    PROVE  OInv'
<1>1. /\ rx = NoMsg /\ rxq # <<>> /\ rxq' = Tail(rxq) /\ rx' \in {Head(rxq), NoMsg}
      /\ UNCHANGED <<conn, req, host, input, sess, worker, down>>
  BY DEF RxTake
<1>2. \A r \in rsp' : r \in rsp \/ r.sid = 0
  BY AnswersOneIs DEF RxTake
<1>3. Data' \subseteq Data
  <2>1. rxq \in Seq(DataMsgs)
    BY DEF UInv, Typed
  <2>2. /\ Len(rxq) \in Nat /\ Len(rxq) > 0 /\ Head(rxq) = rxq[1] /\ Len(rxq') = Len(rxq) - 1
        /\ \A n \in 1 .. Len(rxq) - 1 : rxq'[n] = rxq[n + 1]
    BY <1>1, <2>1, HeadTailProperties, LenProperties
  <2>3. \A n \in 1 .. Len(rxq') : n + 1 \in 1 .. Len(rxq) /\ rxq'[n] = rxq[n + 1]
    BY <2>2
  <2>4. Head(rxq) \in Queued /\ Queued' \subseteq Queued
    BY <2>2, <2>3 DEF Queued
  <2> QED
    BY <1>1, <2>4 DEF Data, ReqData
<1>4. Taken'
  BY <1>1 DEF OInv, Taken
<1> QED
  BY <1>1, <1>2, <1>3, <1>4, AloneOInv

\* A chunk it works on is of another session than one on an unused entry.
LEMMA RxProcessOInv ==
    ASSUME IInv, OInv, RxProcess
    PROVE  OInv'
<1> DEFINE r == ReceiveChunk(sess, rx)
<1>1. /\ rx # NoMsg /\ sess' = r.s /\ rx' = NoMsg
      /\ UNCHANGED <<conn, req, host, input, rxq, worker, down>>
      /\ UNCHANGED rsp \/ Answers(r.answers, 0)
  BY DEF RxProcess
<1>2. Taken'
  BY <1>1 DEF OInv, Taken
<1>3. sess'.used = sess.used
  BY <1>1, ReceiveKeeps DEF IInv, Records, Kept
<1>4. ASSUME ~sess.used
      PROVE  sess' = sess
  <2>1. rx \in Data
    BY <1>1 DEF Data
  <2>2. DataRefused(sess, rx)
    BY <1>4, <2>1 DEF DataRefused, OInv, Orphaned, Unknown, Open
  <2> QED
    BY <1>1, <2>2 DEF ReceiveChunk, Outcome
<1>5. ASSUME ~sess.used
      PROVE  OInv'
  <2>1. Data' \subseteq Data
    BY <1>1, <1>4, <1>5 DEF Data, ReqData, Queued
  <2>2. \A a \in rsp' : a \in rsp \/ a.sid = 0
    BY <1>1 DEF Answers
  <2> HIDE DEF r
  <2> QED
    BY <1>1, <1>2, <1>4, <1>5, <2>1, <2>2, AloneOInv
<1> QED
  BY <1>2, <1>3, <1>5 DEF OInv, Orphaned

\* The worker of such a session waits for ever, or sees the abort flag.
LEMMA WorkerOInv ==
    ASSUME IInv, OInv, WorkerStep
    PROVE  OInv'
<1>1. UNCHANGED <<conn, req, host, input, rxq, rx, down>>
  BY DEF WorkerStep, WorkerStops, WorkerTake, WorkerWrite, WorkerFinishes, WorkerVerifies,
         WorkerChecks, WorkerBoots, WorkerReplies, WorkerExits, netVars
<1>2. Taken'
  BY <1>1 DEF OInv, Taken
<1>3. ASSUME sess.used
      PROVE  sess'.used
  <2>1. CASE WorkerStops \/ WorkerTake \/ WorkerWrite \/ WorkerFinishes
    <3>1. sess' \in {sess, [sess EXCEPT !.ring = Tail(sess.ring)], Written(sess, worker.got),
                     AfterFailure(sess, worker.got)}
      BY <2>1 DEF WorkerStops, WorkerTake, WorkerWrite, WorkerFinishes, netVars
    <3>2. Written(sess, worker.got).used /\ AfterFailure(sess, worker.got).used
      BY <1>3 DEF Written, AfterFailure, IInv, Records, IsSession
    <3>3. [sess EXCEPT !.ring = Tail(sess.ring)].used
      BY <1>3 DEF IInv, Records, IsSession
    <3> QED
      BY <1>3, <3>1, <3>2, <3>3
  <2>2. CASE WorkerVerifies \/ WorkerChecks \/ WorkerBoots \/ WorkerReplies
    BY <1>3, <2>2 DEF WorkerVerifies, WorkerChecks, WorkerBoots, WorkerReplies, FinishFails,
                      Applying, Failed, SetResult, IInv, Records, IsSession
  <2>3. CASE WorkerExits
    BY <1>3, <2>3 DEF WorkerExits, WorkerEnds, ClearState, WorkerFinish, AbortOta, IInv,
                      Records, IsSession
  <2> QED
    BY <2>1, <2>2, <2>3 DEF WorkerStep
<1>4. ASSUME ~sess.used
      PROVE  Orphaned'
  <2>1. /\ worker.at \in {"none", "loop", "exit"} /\ sess.ring = <<>> /\ sess.holds = {}
        /\ ~sess.finish
    BY <1>4 DEF OInv, Orphaned, IInv, Left
  <2>2. WorkerStops \/ (WorkerExits /\ worker.at = "exit")
    BY <2>1 DEF WorkerStep, WorkerTake, WorkerWrite, WorkerFinishes, WorkerVerifies,
                WorkerChecks, WorkerBoots, WorkerReplies, WorkerExits, At, FinishDue
  <2>3. CASE WorkerStops
    <3>1. sess' = sess /\ rsp' = rsp /\ worker'.at = "exit"
      BY <2>3 DEF WorkerStops, Goes, netVars, IInv, Records
    <3>2. Unknown' = Unknown
      BY <1>1, <3>1 DEF Unknown, Data, ReqData, Queued
    <3> QED
      BY <1>1, <1>4, <3>1, <3>2 DEF OInv, Orphaned, Open
  <2>4. CASE WorkerExits /\ worker.at = "exit"
    <3>1. sess' = ClearState(WorkerFinish(AbortOta(sess))) /\ worker'.at = "none"
      BY <2>4 DEF WorkerExits, WorkerEnds, At, Resting
    <3>2. sess'.state = "idle" /\ sess'.ring = <<>> /\ sess'.holds = {}
      BY <3>1 DEF ClearState, WorkerFinish, AbortOta, IInv, Records, IsSession
    <3> QED
      BY <1>1, <1>4, <3>1, <3>2 DEF OInv, Orphaned, Open
  <2> QED
    BY <2>2, <2>3, <2>4
<1> QED
  BY <1>2, <1>3, <1>4 DEF OInv, Orphaned

\* A link comes, is lost or closed.
LEMMA LinkOInv ==
    ASSUME UInv, OInv, Connect \/ Disconnect \/ Close
    PROVE  OInv'
<1>1. /\ UNCHANGED <<sess, worker, host, input, rxq, rx, down>>
      /\ req' = req \/ req' = req \cap {input}
      /\ rsp' \subseteq rsp
      /\ input = NoMsg \/ conn'.at # "up"
      /\ conn'.at = "up" => down.at = "idle"
  <2>1. CASE Connect
    BY <2>1 DEF Connect
  <2>2. CASE Disconnect
    <3>1. conn'.at = "lost"
      BY <2>2 DEF Disconnect, UInv, Typed
    <3> QED
      BY <2>2, <3>1 DEF Disconnect
  <2>3. CASE Close
    <3>1. conn'.at = "none"
      BY <2>3 DEF Close, UInv, Typed
    <3> QED
      BY <2>3, <3>1 DEF Close
  <2> QED
    BY <2>1, <2>2, <2>3
<1>2. Taken'
  BY <1>1 DEF OInv, Taken
<1>3. Data' \subseteq Data
  BY <1>1 DEF Data, ReqData, Queued
<1> QED
  BY <1>1, <1>2, <1>3, AloneOInv

\* A teardown begins on an entry that is used.
LEMMA DownStartsOInv ==
    ASSUME IInv, UInv, OInv, NEW event \in {"error", "down"}, DownStarts(event)
    PROVE  OInv'
<1>1. /\ UNCHANGED <<req, rsp, host, input, rxq, rx, worker>>
      /\ conn.at = "up" => event = "error" /\ input = NoMsg
  BY DEF DownStarts
<1>2. CASE /\ Found(conn.link) /\ UNCHANGED conn
           /\ sess' = [sess EXCEPT !.closing = TRUE, !.abort = TRUE]
           /\ down' = [at |-> "drain", event |-> event]
  <2>1. Taken'
    BY <1>1, <1>2 DEF OInv, Taken
  <2>2. sess'.used
    BY <1>2 DEF Found, IInv, Records, IsSession
  <2> QED
    BY <2>1, <2>2 DEF OInv, Orphaned
<1>3. CASE conn' = [conn EXCEPT !.at = "closing"] /\ UNCHANGED <<sess, down>>
  <2>1. conn'.at = "closing"
    BY <1>3 DEF UInv, Typed
  <2>2. Taken'
    BY <1>1, <1>3, <2>1 DEF OInv, Taken
  <2>3. Data' \subseteq Data
    BY <1>1, <1>3 DEF Data, ReqData, Queued
  <2> QED
    BY <1>1, <1>3, <2>1, <2>2, <2>3, AloneOInv
<1> QED
  BY <1>2, <1>3 DEF DownStarts

\* It leaves an entry that is empty.
LEMMA DownStepOInv ==
    ASSUME IInv, UInv, OInv, DownStep
    PROVE  OInv'
<1>1. down \in [at : {"idle", "drain", "wait", "again"}, event : {"none", "error", "down"}]
      /\ conn \in [link : 0 .. MaxLinks, at : {"none", "up", "lost", "closing"}]
  BY DEF UInv, Typed
<1>2. UNCHANGED <<req, rsp, host, input, rx, worker>> /\ (conn'.at = "up" => conn.at = "up")
  BY <1>1 DEF DownStep, DownDrains, DownClears, DownEnds, netVars
<1>3. Taken'
  BY <1>1, <1>2 DEF DownStep, DownDrains, DownClears, DownEnds, netVars, NoDown, OInv, Taken
<1>4. CASE DownDrains \/ DownEnds
  <2>1. DrainQueue /\ UNCHANGED sess
    BY <1>4 DEF DownDrains, DownEnds
  <2>2. Queued' \subseteq Queued
    BY <2>1, DrainedQueue DEF UInv, Queued
  <2>3. Data' \subseteq Data
    BY <1>2, <2>1, <2>2 DEF Data, ReqData
  <2> QED
    BY <1>2, <1>3, <2>1, <2>3, AloneOInv
<1>5. CASE DownClears
  <2>1. sess' = TornDown(sess) /\ ~sess.worker /\ down.at = "wait" /\ UNCHANGED conn
    BY <1>5 DEF DownClears, netVars
  <2>2. sess'.ring = <<>> /\ sess'.holds = {} /\ sess'.state = "idle"
    BY <2>1 DEF TornDown, ClearState, AbortOta, WorkerFinish, IInv, Records, IsSession
  <2>3. worker.at = "none"
    BY <2>1 DEF IInv, WorkerPlaces
  <2>4. input # NoMsg => conn.at # "up"
    BY <2>1 DEF OInv, Taken
  <2> QED
    BY <1>2, <1>3, <2>1, <2>2, <2>3, <2>4 DEF OInv, Orphaned, Open
<1> QED
  BY <1>4, <1>5 DEF DownStep

\* Every step keeps it.
LEMMA NextOInv == IInv /\ UInv /\ OInv /\ [Next]_vars => OInv'
<1> SUFFICES ASSUME IInv, UInv, OInv, [Next]_vars PROVE OInv'
  OBVIOUS
<1>1. CASE DeviceInput
  BY <1>1, RequestTakenOInv, DeviceStartOInv, DeviceEndsOInv, DeviceDataOInv DEF DeviceInput
<1>2. CASE HostStep \/ RxTake \/ RxProcess \/ WorkerStep
  BY <1>2, HostOInv, RxTakeOInv, RxProcessOInv, WorkerOInv
<1>3. CASE Connect \/ Disconnect \/ Close \/ DownStarts("error") \/ DownStarts("down") \/ DownStep
  BY <1>3, LinkOInv, DownStartsOInv, DownStepOInv
<1>4. CASE UNCHANGED vars
  <2>1. UNCHANGED <<conn, req, rsp, host, input, sess, rxq, rx, worker, down>>
    BY <1>4 DEF vars
  <2>2. Data' \subseteq Data /\ Taken'
    BY <2>1 DEF Data, ReqData, Queued, OInv, Taken
  <2> QED
    BY <2>1, <2>2, AloneOInv
<1> QED
  BY <1>1, <1>2, <1>3, <1>4 DEF Next

\* It holds throughout.
LEMMA SpecOInv == Spec => [](IInv /\ UInv /\ OInv)
<1>1. Init => OInv
  BY DEF Init, OInv, Taken, Orphaned, Open, Unused, Resting, NoDown
<1>2. Init => IInv /\ UInv /\ OInv
  BY <1>1, InitIInv, InitUInv
<1>3. IInv /\ UInv /\ OInv /\ [Next]_vars => (IInv /\ UInv /\ OInv)'
  BY NextIInv, NextUInv, NextOInv
<1> QED
  BY <1>2, <1>3, PTL DEF Spec

\* A session that is over holds no worker, handle, ring buffer or chunk, on every
\* path that ends one; and one that a late START opens on an entry its link's
\* teardown has left gets no chunk and no FINISH.
THEOREM OtaIdleHoldsNothing == Spec => []IdleHoldsNothing
<1>1. IInv /\ OInv => IdleHoldsNothing
  <2> SUFFICES ASSUME IInv, OInv PROVE IdleHoldsNothing
    OBVIOUS
  <2>1. ~sess.used => NoWork /\ sess.state # "applying"
    BY DEF IInv, Left, WorkerPlaces, OInv, Orphaned, NoWork
  <2> QED
    BY <2>1 DEF IInv, Idle, IdleHoldsNothing
<1> QED
  BY <1>1, SpecOInv, PTL

------------------------------------------------------------------------------
(* What this says of host and device *)

\* Piece by piece the start of an image is that start.
LEMMA StartOfImage ==
    ASSUME NEW u \in 1 .. MaxUploads, NEW n \in 0 .. Chunks, NEW s \in Seq(Pieces),
           Len(s) = n, \A i \in 1 .. n : s[i] = [c |-> i - 1, u |-> u]
    PROVE  s = SubSeq(Image(u), 1, n)
<1> DEFINE t == SubSeq(Image(u), 1, n)
<1>1. n \in Nat /\ n <= Chunks /\ Chunks \in Nat
  BY SessionConstants
<1>2. \A i \in 1 .. n : Image(u)[i] = [c |-> i - 1, u |-> u] /\ Image(u)[i] \in Pieces
  <2> TAKE i \in 1 .. n
  <2>1. i \in 1 .. Chunks /\ i - 1 \in Offsets
    BY <1>1 DEF Offsets
  <2> QED
    BY <2>1 DEF Image, Pieces
<1>3. /\ t \in Seq(Pieces) /\ Len(t) = IF 1 <= n THEN n - 1 + 1 ELSE 0
      /\ \A i \in 1 .. n - 1 + 1 : t[i] = Image(u)[1 + i - 1]
  BY <1>1, <1>2, SubSeqProperties
<1>4. Len(t) = n /\ \A i \in 1 .. n : t[i] = Image(u)[i]
  BY <1>1, <1>3
<1> HIDE DEF t
<1>5. s = t
  BY <1>2, <1>3, <1>4, SeqEqual
<1> QED
  BY <1>5 DEF t

\* What was hashed, what the worker holds and the ring, one after the other.
LEMMA StreamIs ==
    ASSUME IInv, UInv
    PROVE  StreamContiguous
<1> SUFFICES ASSUME sess.state = "receiving", ~sess.abort
             PROVE  /\ \E u \in 1 .. MaxUploads :
                         sess.hash \o InWorker \o sess.ring
                             = SubSeq(Image(u), 1, sess.received)
                    /\ Len(sess.hash) = sess.written
                    /\ sess.queued = sess.received - sess.written
  BY DEF StreamContiguous
<1>1. /\ \E u \in 1 .. MaxUploads : OfUpload(u)
      /\ Len(sess.hash) = sess.written
      /\ sess.queued = WithWorker + Len(sess.ring)
      /\ sess.received = sess.written + sess.queued
  BY DEF UInv, Streams, Open
<1>2. PICK u \in 1 .. MaxUploads : OfUpload(u)
  BY <1>1
<1>3. /\ sess.ring \in Seq(Pieces) /\ sess.hash \in Seq(Pieces)
      /\ sess.received \in 0 .. Chunks /\ sess.written \in 0 .. Chunks
      /\ sess.queued \in 0 .. Chunks /\ worker.got \in Pieces \cup {NoMsg}
  BY DEF UInv, Typed, SessTyped
<1>4. /\ InWorker \in Seq(Pieces) /\ Len(InWorker) = WithWorker
      /\ worker.got # NoMsg => InWorker[1] = worker.got
      /\ WithWorker \in {0, 1} /\ (WithWorker = 1 => worker.got # NoMsg)
  BY <1>3 DEF InWorker, WithWorker
<1> DEFINE a == sess.hash \o InWorker
           b == sess.hash \o InWorker \o sess.ring
           h == Len(sess.hash)
           r == Len(sess.ring)
<1>5. h \in Nat /\ r \in Nat
  BY <1>3, LenProperties
<1>6. /\ a \in Seq(Pieces) /\ Len(a) = h + WithWorker
      /\ \A i \in 1 .. h + WithWorker :
            a[i] = IF i <= h THEN sess.hash[i] ELSE InWorker[i - h]
  BY <1>3, <1>4, ConcatProperties
<1> HIDE DEF a
<1>7. /\ b \in Seq(Pieces) /\ Len(b) = Len(a) + r
      /\ \A i \in 1 .. Len(a) + r : b[i] = IF i <= Len(a) THEN a[i] ELSE sess.ring[i - Len(a)]
  <2>1. b = a \o sess.ring
    BY DEF a
  <2> HIDE DEF b
  <2> QED
    BY <1>3, <1>6, <2>1, ConcatProperties
<1>8. Len(b) = sess.received /\ sess.received = h + WithWorker + r
  <2>1. sess.received = h + (WithWorker + r)
    BY <1>1
  <2>2. Len(b) = h + WithWorker + r
    BY <1>6, <1>7
  <2> HIDE DEF h, r, b
  <2>3. \A x, z \in Nat, y \in {0, 1} : x + (y + z) = x + y + z
    OBVIOUS
  <2> QED
    BY <1>4, <1>5, <2>1, <2>2, <2>3
<1> HIDE DEF b
<1>9. /\ \A i \in 1 .. h : sess.hash[i] = [c |-> i - 1, u |-> u]
      /\ WithWorker = 1 => InWorker[1] = [c |-> h, u |-> u]
      /\ \A i \in 1 .. r : sess.ring[i] = [c |-> h + WithWorker + i - 1, u |-> u]
  BY <1>2, <1>4 DEF OfUpload
<1> HIDE DEF h, r
<1>10. \A i \in 1 .. sess.received : b[i] = [c |-> i - 1, u |-> u]
  <2> SUFFICES ASSUME NEW i \in 1 .. h + WithWorker + r
               PROVE  b[i] = [c |-> i - 1, u |-> u]
    BY <1>8
  <2>1. b[i] = IF i <= h + WithWorker THEN a[i] ELSE sess.ring[i - (h + WithWorker)]
    BY <1>6, <1>7
  <2>2. CASE i <= h
    <3>1. i \in 1 .. h /\ i \in 1 .. h + WithWorker /\ i <= h + WithWorker
      BY <1>4, <1>5, <2>2
    <3>2. b[i] = sess.hash[i]
      BY <1>6, <2>1, <2>2, <3>1
    <3> QED
      BY <1>9, <3>1, <3>2
  <2>3. CASE i > h /\ i <= h + WithWorker
    <3>1. i = h + 1 /\ WithWorker = 1 /\ i - h = 1 /\ ~(i <= h) /\ i \in 1 .. h + WithWorker
      BY <1>4, <1>5, <2>3
    <3>2. b[i] = InWorker[1]
      BY <1>6, <2>1, <3>1
    <3>3. i - 1 = h
      BY <1>5, <3>1
    <3> QED
      BY <1>9, <3>1, <3>2, <3>3
  <2>4. CASE i > h + WithWorker
    <3> DEFINE j == i - (h + WithWorker)
    <3>1. j \in 1 .. r /\ ~(i <= h + WithWorker) /\ h + WithWorker + j - 1 = i - 1
      BY <1>4, <1>5, <2>4
    <3>2. b[i] = sess.ring[j]
      BY <2>1, <3>1
    <3> HIDE DEF j
    <3>3. sess.ring[j] = [c |-> h + WithWorker + j - 1, u |-> u]
      BY <1>9, <3>1
    <3> QED
      BY <3>1, <3>2, <3>3
  <2> QED
    BY <1>4, <1>5, <2>2, <2>3, <2>4
<1>11. b = SubSeq(Image(u), 1, sess.received)
  BY <1>3, <1>7, <1>8, <1>10, StartOfImage
<1>12. sess.queued = sess.received - sess.written
  BY <1>1, <1>3
<1> QED
  BY <1>1, <1>11, <1>12 DEF b

\* The types of everything the host, the device and the link keep, and the limits of
\* the pipe, the ring buffer, the holds and the receive queue.
THEOREM OtaTypes == Spec => []TypeOK
<1>1. IInv /\ UInv /\ OInv => TypeOK
  <2> SUFFICES ASSUME IInv, UInv, OInv PROVE TypeOK
    OBVIOUS
  <2>1. /\ Cardinality(host.pipe) <= PipeDepth /\ \A p \in host.pipe : p.retries <= BusyRetries
        /\ host.at \in {"idle", "start", "data", "finish"} /\ host.next \in 0 .. Chunks
    <3>1. HostTyped
      BY DEF UInv, Typed
    <3>2. \A p \in Pipes : p.retries <= BusyRetries
      BY OtaConstants DEF Pipes
    <3> QED
      BY <3>1, <3>2 DEF HostTyped
  <2>2. /\ conn \in [link : 0 .. MaxLinks, at : {"none", "up", "lost", "closing"}]
        /\ \A m \in req : m.kind \in {"start", "data", "finish", "abort"}
        /\ rsp \subseteq [seq : Nat, status : Statuses, sid : Nat]
        /\ Len(rxq) <= QueueDepth
        /\ down \in [at : {"idle", "drain", "wait", "again"}, event : {"none", "error", "down"}]
    BY DEF UInv, Typed, RequestTyped
  <2>3. /\ sess.written \in 0 .. Chunks /\ sess.received \in 0 .. Chunks
        /\ sess.queued \in 0 .. Chunks
        /\ Len(sess.ring) <= RingSlots /\ Cardinality(sess.holds) <= HoldSlots
    BY DEF UInv, Typed, SessTyped
  <2>4. /\ sess.state \in {"idle", "receiving", "applying"}
        /\ worker.at \in {"none", "loop", "write", "verify", "check", "end", "reply",
                          "done", "exit"}
        /\ (sess.worker <=> worker.at # "none")
    BY DEF IInv, WorkerPlaces
  <2>5. input = NoMsg \/ (input \in req /\ input.kind # "data")
    BY DEF OInv, Taken
  <2> QED
    BY <2>1, <2>2, <2>3, <2>4, <2>5 DEF TypeOK
<1> QED
  BY <1>1, SpecOInv, PTL

\* The hashed bytes, the chunk the worker holds and the ring buffer are together the
\* start of one upload, in order, however DATA requests were delayed, reordered,
\* repeated after a busy answer or left over from an earlier upload.
THEOREM OtaStreamContiguous == Spec => []StreamContiguous
  BY StreamIs, SpecUInv, PTL

\* No chunk the host was told is accepted is given up later.
THEOREM OtaAcceptedIsKept == Spec => []AcceptedIsKept
<1>1. UInv => AcceptedIsKept
  <2> SUFFICES ASSUME UInv, sess.state = "receiving", host.at # "idle", host.sid = sess.sid
               PROVE  \A c \in host.acked : c < sess.received
    BY DEF AcceptedIsKept
  <2>1. CASE host.at = "start"
    BY <2>1 DEF UInv, Starting
  <2>2. CASE host.at \in {"data", "finish"}
    BY <2>2 DEF UInv, AckedTaken, Open
  <2> QED
    BY <2>1, <2>2 DEF UInv, Typed, HostTyped
<1> QED
  BY <1>1, SpecUInv, PTL

\* An upload that the host reports as completed has been selected for boot: no other
\* request's answer, nor an earlier upload's, passes for the one of its FINISH.
THEOREM OtaCompletedBoots == Spec => []CompletedBoots
<1>1. UInv => CompletedBoots
  BY DEF UInv, Completion, Booted, CompletedBoots
<1> QED
  BY <1>1, SpecUInv, PTL
===============================================================================
