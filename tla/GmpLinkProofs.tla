---------------------------- MODULE GmpLinkProofs -----------------------------
(***************************************************************************)
(* What the operations on one entry of the link table do to it, for every  *)
(* depth of its queue.                                                     *)
(***************************************************************************)
EXTENDS GmpLink, FiniteSetTheorems, SequenceTheorems, TLAPS

\* An entry within its bounds; a free one is empty and a closing one has dropped
\* its queue.
Fits(e) ==
    /\ e \in EntryType
    /\ Len(e.txq) <= TxDepth /\ Cardinality(e.fly) <= TxDepth
    /\ e.key = NoLink => e = Free
    /\ e.closing => e.txq = <<>>
    /\ \A m, n \in DOMAIN e.txq : e.txq[m] = e.txq[n] => m = n

\* Between two critical sections a closing entry has something to wait for.
Sound(e) == Fits(e) /\ (e.closing => e.fly # {})

\* What an operation that ends a frame or the link leaves of an entry's key.
KeyKept(e, g) == g.key = e.key \/ g = Free

------------------------------------------------------------------------------
(* Queues and sets of frames *)

LEMMA FlyFinite ==
    ASSUME NEW e \in EntryType
    PROVE  IsFiniteSet(e.fly) /\ Cardinality(e.fly) \in Nat
<1>1. IsFiniteSet(Frames)
  BY LinkConstants, FS_Interval DEF Frames
<1>2. e.fly \in SUBSET Frames
  BY DEF EntryType
<1> QED
  BY <1>1, <1>2, FS_Subset, FS_CardinalityType

LEMMA FreeSound == Sound(Free) /\ Queued(Free) = {}
<1>1. Free \in EntryType /\ Len(Free.txq) = 0 /\ Free.fly = {} /\ Free.txq = <<>>
  BY DEF Free, EntryType, NoLink
<1>2. Cardinality(Free.fly) = 0
  BY <1>1, FS_EmptySet
<1>3. ~Free.closing
  BY DEF Free
<1>4. Queued(Free) = {}
  BY <1>1 DEF Queued
<1> QED
  BY <1>1, <1>2, <1>3, <1>4, LinkConstants DEF Sound, Fits

\* A new link starts empty.
LEMMA RegisteredSound ==
    ASSUME NEW l \in Links
    PROVE  /\ Sound(Registered(l)) /\ Registered(l).key = l
           /\ Queued(Registered(l)) = {} /\ Registered(l).fly = {} /\ Open(Registered(l))
<1> DEFINE r == Registered(l)
<1>1. Free \in EntryType /\ Free.fly = {} /\ Free.txq = <<>> /\ ~Free.closing
  BY FreeSound DEF Sound, Fits, Free
<1>2. r \in EntryType /\ r.fly = {} /\ r.txq = <<>> /\ ~r.closing /\ r.key = l
  BY <1>1 DEF Registered, EntryType
<1>3. l # NoLink /\ Len(r.txq) = 0
  BY <1>2, LinkConstants DEF NoLink
<1>4. Cardinality(r.fly) = 0
  BY <1>2, FS_EmptySet
<1>5. Queued(r) = {}
  BY <1>2 DEF Queued
<1> HIDE DEF r
<1>6. Sound(r)
  BY <1>2, <1>3, <1>4, LinkConstants DEF Sound, Fits
<1> QED
  BY <1>2, <1>3, <1>5, <1>6 DEF r, Open

\* in_flight_track: the caller has found room.
LEMMA TrackFits ==
    ASSUME NEW e, Fits(e), Open(e), CanTrack(e), NEW f \in Frames
    PROVE  /\ Fits(Track(e, f)) /\ Open(Track(e, f)) /\ Track(e, f).key = e.key
           /\ Track(e, f).txq = e.txq /\ Track(e, f).fly = e.fly \cup {f}
<1> DEFINE g == Track(e, f)
<1>1. e \in EntryType
  BY DEF Fits
<1>2. g \in EntryType /\ g.key = e.key /\ g.closing = e.closing /\ g.txq = e.txq
      /\ g.fly = e.fly \cup {f}
  BY <1>1 DEF Track, EntryType
<1>3. Cardinality(g.fly) <= TxDepth
  <2>1. Cardinality(g.fly) \in {Cardinality(e.fly), Cardinality(e.fly) + 1}
    BY <1>1, <1>2, FlyFinite, FS_AddElement
  <2> QED
    BY <2>1, <1>1, FlyFinite, LinkConstants DEF CanTrack
<1> HIDE DEF g
<1> QED
  BY <1>2, <1>3 DEF g, Fits, Open

LEMMA ForgetFits ==
    ASSUME NEW e, Fits(e), NEW f \in Frames
    PROVE  /\ Fits(Forget(e, f)) /\ Forget(e, f).key = e.key
           /\ Forget(e, f).closing = e.closing
           /\ Forget(e, f).txq = e.txq /\ Forget(e, f).fly = e.fly \ {f}
<1> DEFINE g == Forget(e, f)
<1>1. e \in EntryType
  BY DEF Fits
<1>2. g \in EntryType /\ g.key = e.key /\ g.closing = e.closing /\ g.txq = e.txq
      /\ g.fly = e.fly \ {f}
  BY <1>1 DEF Forget, EntryType
<1>3. Cardinality(g.fly) <= TxDepth
  <2>1. g.fly \in SUBSET e.fly
    BY <1>2
  <2>2. Cardinality(g.fly) <= Cardinality(e.fly) /\ Cardinality(g.fly) \in Nat
    BY <2>1, <1>1, <1>2, FlyFinite, FS_Subset
  <2> QED
    BY <2>2, <1>1, FlyFinite, LinkConstants DEF Fits
<1>4. g.key = NoLink => g = Free
  <2> SUFFICES ASSUME e = Free PROVE g = e
    BY <1>2 DEF Fits
  <2>1. e.fly \ {f} = e.fly
    BY DEF Free
  <2> QED
    BY <2>1, <1>1 DEF Forget, EntryType
<1> HIDE DEF g
<1> QED
  BY <1>2, <1>3, <1>4 DEF g, Fits

\* link_clear_if_idle_locked.
LEMMA ClearIfIdleSound ==
    ASSUME NEW e, Fits(e)
    PROVE  /\ Sound(ClearIfIdle(e)) /\ KeyKept(e, ClearIfIdle(e))
           /\ Queued(ClearIfIdle(e)) = Queued(e) /\ ClearIfIdle(e).fly = e.fly
           /\ (Open(ClearIfIdle(e)) <=> Open(e))
<1>1. CASE e.closing /\ e.fly = {}
  <2>1. ClearIfIdle(e) = Free /\ Free.fly = {} /\ ~Open(Free)
    BY <1>1 DEF ClearIfIdle, Free, Open
  <2>2. Queued(e) = {}
    BY <1>1 DEF Fits, Queued
  <2> QED
    BY <2>1, <2>2, <1>1, FreeSound DEF KeyKept, Open
<1>2. CASE ~(e.closing /\ e.fly = {})
  BY <1>2 DEF ClearIfIdle, Sound, KeyKept
<1> QED
  BY <1>1, <1>2

\* link_queue_frame_locked, when there is room.
LEMMA EnqueueFits ==
    ASSUME NEW e, Fits(e), Open(e), HasRoom(e), NEW f \in Frames, f \notin Queued(e)
    PROVE  /\ Fits(Enqueue(e, f)) /\ Open(Enqueue(e, f)) /\ Enqueue(e, f).key = e.key
           /\ Queued(Enqueue(e, f)) = Queued(e) \cup {f} /\ Enqueue(e, f).fly = e.fly
<1> DEFINE g == Enqueue(e, f)
<1>1. e \in EntryType /\ e.txq \in Seq(Frames) /\ Append(e.txq, f) \in Seq(Frames)
  BY DEF Fits, EntryType
<1>2. g \in EntryType /\ g.key = e.key /\ g.closing = e.closing /\ g.fly = e.fly
      /\ g.txq = Append(e.txq, f)
  BY <1>1 DEF Enqueue, EntryType
<1>3. DOMAIN g.txq = 1 .. Len(e.txq) + 1 /\ Len(g.txq) = Len(e.txq) + 1
      /\ Len(e.txq) \in Nat /\ DOMAIN e.txq = 1 .. Len(e.txq)
  BY <1>1, <1>2
<1>4. \A n \in DOMAIN g.txq : g.txq[n] = IF n = Len(e.txq) + 1 THEN f ELSE e.txq[n]
  BY <1>1, <1>2, <1>3
<1>5. Queued(g) = Queued(e) \cup {f}
  <2>1. \A n \in DOMAIN g.txq : g.txq[n] \in Queued(e) \cup {f}
    BY <1>3, <1>4 DEF Queued
  <2>2. \A n \in DOMAIN e.txq : n \in DOMAIN g.txq /\ g.txq[n] = e.txq[n]
    BY <1>3, <1>4
  <2>3. Len(e.txq) + 1 \in DOMAIN g.txq /\ g.txq[Len(e.txq) + 1] = f
    BY <1>3, <1>4
  <2> QED
    BY <2>1, <2>2, <2>3 DEF Queued
<1>6. \A m, n \in DOMAIN g.txq : g.txq[m] = g.txq[n] => m = n
  <2>1. \A n \in DOMAIN e.txq : e.txq[n] # f
    BY DEF Queued
  <2> QED
    BY <2>1, <1>3, <1>4 DEF Fits
<1> HIDE DEF g
<1> QED
  BY <1>2, <1>3, <1>5, <1>6, LinkConstants DEF g, Fits, Open, HasRoom

\* The head of the queue leaves it for good.
LEMMA DequeueFits ==
    ASSUME NEW e, Fits(e), Open(e), e.txq # <<>>
    PROVE  /\ Fits(Dequeue(e)) /\ Open(Dequeue(e)) /\ Dequeue(e).key = e.key
           /\ Head(e.txq) \in Queued(e)
           /\ Queued(Dequeue(e)) = Queued(e) \ {Head(e.txq)} /\ Dequeue(e).fly = e.fly
<1> DEFINE g == Dequeue(e)
<1>1. e \in EntryType /\ e.txq \in Seq(Frames)
  BY DEF Fits, EntryType
<1>2. Tail(e.txq) \in Seq(Frames)
  BY <1>1
<1>3. g \in EntryType /\ g.key = e.key /\ g.closing = e.closing /\ g.fly = e.fly
      /\ g.txq = Tail(e.txq)
  BY <1>1, <1>2 DEF Dequeue, EntryType
<1>4. Len(e.txq) \in Nat \ {0} /\ DOMAIN e.txq = 1 .. Len(e.txq)
      /\ DOMAIN g.txq = 1 .. Len(e.txq) - 1 /\ Len(g.txq) = Len(e.txq) - 1
      /\ Head(e.txq) = e.txq[1]
  BY <1>1, <1>3
<1>5. \A n \in DOMAIN g.txq : n + 1 \in DOMAIN e.txq /\ g.txq[n] = e.txq[n + 1]
  BY <1>1, <1>3, <1>4
<1>6. Queued(g) = Queued(e) \ {Head(e.txq)}
  <2>1. ASSUME NEW n \in DOMAIN g.txq
        PROVE  g.txq[n] \in Queued(e) \ {Head(e.txq)}
    <3>1. n + 1 \in DOMAIN e.txq /\ g.txq[n] = e.txq[n + 1] /\ n \in Nat \ {0}
      BY <1>4, <1>5
    <3>2. 1 \in DOMAIN e.txq /\ n + 1 # 1
      BY <1>4, <3>1
    <3>3. e.txq[n + 1] # Head(e.txq)
      BY <1>4, <3>1, <3>2 DEF Fits
    <3>4. e.txq[n + 1] \in Queued(e)
      BY <3>1 DEF Queued
    <3> QED
      BY <3>1, <3>3, <3>4
  <2>2. \A n \in DOMAIN e.txq : e.txq[n] # Head(e.txq) =>
            \E m \in DOMAIN g.txq : g.txq[m] = e.txq[n]
    <3> TAKE n \in DOMAIN e.txq
    <3> HAVE e.txq[n] # Head(e.txq)
    <3>1. n \in Nat /\ n # 1 /\ n - 1 \in 1 .. Len(e.txq) - 1 /\ (n - 1) + 1 = n
      BY <1>4
    <3>2. n - 1 \in DOMAIN g.txq
      BY <1>4, <3>1
    <3>3. g.txq[n - 1] = e.txq[n]
      BY <1>5, <3>1, <3>2
    <3> QED
      BY <3>2, <3>3
  <2> QED
    BY <2>1, <2>2 DEF Queued
<1>7. \A m, n \in DOMAIN g.txq : g.txq[m] = g.txq[n] => m = n
  <2> TAKE m, n \in DOMAIN g.txq
  <2> HAVE g.txq[m] = g.txq[n]
  <2>1. e.txq[m + 1] = e.txq[n + 1] /\ m + 1 \in DOMAIN e.txq /\ n + 1 \in DOMAIN e.txq
    BY <1>5
  <2>2. m + 1 = n + 1
    BY <2>1 DEF Fits
  <2> QED
    BY <2>2, <1>4
<1>8. Head(e.txq) \in Queued(e)
  BY <1>4 DEF Queued
<1> HIDE DEF g
<1> QED
  BY <1>3, <1>4, <1>6, <1>7, <1>8, LinkConstants DEF g, Fits, Open

------------------------------------------------------------------------------
(* The functions of esp_gmp.c *)

LEMMA SubmitSound ==
    ASSUME NEW e, Sound(e), Open(e), NEW f \in Frames, f \notin Queued(e), NEW canSend
    PROVE  LET g == Submit(e, f, canSend)
           IN  /\ Sound(g) /\ g.key = e.key /\ Open(g)
               /\ SubmitSends(e, canSend) =>
                      Queued(g) = Queued(e) /\ g.fly = e.fly \cup {f}
               /\ SubmitQueues(e, canSend) =>
                      Queued(g) = Queued(e) \cup {f} /\ g.fly = e.fly
               /\ ~SubmitSends(e, canSend) /\ ~SubmitQueues(e, canSend) => g = e
<1>1. CASE SubmitSends(e, canSend)
  <2>1. Submit(e, f, canSend) = Track(e, f) /\ ~SubmitQueues(e, canSend)
    BY <1>1 DEF Submit, SubmitQueues
  <2>2. CanTrack(e)
    BY <1>1 DEF SubmitSends
  <2> QED
    BY <2>1, <2>2, <1>1, TrackFits DEF Sound, Open, Queued
<1>2. CASE ~SubmitSends(e, canSend) /\ SubmitQueues(e, canSend)
  <2>1. Submit(e, f, canSend) = Enqueue(e, f) /\ HasRoom(e)
    BY <1>2 DEF Submit, SubmitQueues
  <2> QED
    BY <2>1, <1>2, EnqueueFits DEF Sound, Open
<1>3. CASE ~SubmitSends(e, canSend) /\ ~SubmitQueues(e, canSend)
  BY <1>3 DEF Submit
<1> QED
  BY <1>1, <1>2, <1>3

LEMMA DrainTurnSound ==
    ASSUME NEW e, Fits(e), NEW canSend, DrainSends(e, canSend)
    PROVE  LET g == DrainTurn(e)
           IN  /\ Sound(g) /\ g.key = e.key /\ Open(g)
               /\ Head(e.txq) \in Queued(e) /\ Head(e.txq) \in Frames
               /\ Queued(g) = Queued(e) \ {Head(e.txq)}
               /\ g.fly = e.fly \cup {Head(e.txq)}
<1>1. Open(e) /\ e.txq # <<>> /\ CanTrack(e)
  BY DEF DrainSends
<1>2. Head(e.txq) \in Frames
  BY <1>1 DEF Fits, EntryType
<1>3. CanTrack(Dequeue(e))
  BY <1>1, DequeueFits DEF CanTrack
<1> QED
  BY <1>1, <1>2, <1>3, DequeueFits, TrackFits DEF DrainTurn, Sound, Open, Queued

LEMMA FailedSendSound ==
    ASSUME NEW e, Sound(e), NEW f \in Frames, f \notin Queued(e), NEW busy \in BOOLEAN
    PROVE  LET g == FailedSend(e, f, busy)
           IN  /\ Sound(g) /\ KeyKept(e, g) /\ g.fly = e.fly \ {f}
               /\ Requeues(e, busy) => Queued(g) = Queued(e) \cup {f} /\ g.key = e.key
               /\ ~Requeues(e, busy) => Queued(g) = Queued(e)
               /\ (Open(g) <=> Open(e))
<1> DEFINE r == Forget(e, f)
<1>1. Fits(r) /\ r.key = e.key /\ r.closing = e.closing /\ r.txq = e.txq
      /\ r.fly = e.fly \ {f}
  BY ForgetFits DEF Sound
<1>2. Queued(r) = Queued(e) /\ (Open(r) <=> Open(e)) /\ (HasRoom(r) <=> HasRoom(e))
  BY <1>1 DEF Queued, Open, HasRoom
<1>3. FailedSend(e, f, busy) = IF busy /\ Open(e) THEN Enqueue(r, f) ELSE ClearIfIdle(r)
  BY DEF FailedSend
<1> HIDE DEF r
<1>4. CASE busy /\ Open(e) /\ HasRoom(e)
  BY <1>1, <1>2, <1>3, <1>4, EnqueueFits DEF Requeues, Sound, Open, KeyKept
<1>5. CASE busy /\ Open(e) /\ ~HasRoom(e)
  <2>1. FailedSend(e, f, busy) = r
    BY <1>2, <1>3, <1>5 DEF Enqueue
  <2> QED
    BY <2>1, <1>1, <1>2, <1>5 DEF Requeues, Sound, Open, KeyKept
<1>6. CASE ~(busy /\ Open(e))
  BY <1>1, <1>2, <1>3, <1>6, ClearIfIdleSound DEF Requeues, KeyKept
<1> QED
  BY <1>4, <1>5, <1>6

LEMMA CloseSound ==
    ASSUME NEW e, Sound(e), e.key # NoLink
    PROVE  /\ Sound(Close(e)) /\ KeyKept(e, Close(e)) /\ ~Open(Close(e))
           /\ Queued(Close(e)) = {} /\ Close(e).fly = e.fly
<1> DEFINE r == [e EXCEPT !.txq = <<>>, !.closing = TRUE]
<1>1. e \in EntryType /\ <<>> \in Seq(Frames)
  BY DEF Sound, Fits
<1>2. r \in EntryType /\ r.key = e.key /\ r.closing /\ r.txq = <<>> /\ r.fly = e.fly
  BY <1>1 DEF EntryType
<1>3. Close(e) = ClearIfIdle(r)
  BY DEF Close
<1> HIDE DEF r
<1>4. Fits(r)
  BY <1>2, LinkConstants DEF Sound, Fits
<1>5. Queued(r) = {} /\ ~Open(r)
  BY <1>2 DEF Queued, Open
<1> QED
  BY <1>2, <1>3, <1>4, <1>5, ClearIfIdleSound DEF KeyKept
===============================================================================
