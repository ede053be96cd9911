--------------------------- MODULE PipelineProofs ---------------------------
(***************************************************************************)
(* Proofs about the pipeline for every set of messages, publishes and      *)
(* workers, every capacity, batch size and retry limit, and every fault.   *)
(***************************************************************************)
EXTENDS Pipeline, FiniteSetTheorems, TLAPS

(* The inductive invariant. *)

\* A worker between two batches holds nothing, the loops work on a part of the
\* batch, a process that is down has no running worker, a worker backs off
\* only with a retry left, and only accepted messages get into its hands.
HandsInv ==
  \A w \in Workers :
    /\ pc[w] \in {"wait", "stopped"} => batch[w] = {}
    /\ pc[w] \in {"requeue", "deadletter"} => todo[w] \subseteq batch[w]
    /\ phase = "down" => pc[w] = "stopped"
    /\ pc[w] = "backoff" => attempt[w] < MaxRetries
    /\ batch[w] \subseteq accepted
    /\ read[w] \subseteq accepted

\* Only accepted messages are buffered or settled, and the one being routed is
\* a delivery that was not accepted before.
OriginInv ==
  /\ Range(ring) \subseteq accepted
  /\ wal \subseteq accepted
  /\ Settled \subseteq accepted
  /\ \A m \in accepted : of[m] # None
  /\ subPc \in {"route", "spill"} =>
       subMsg \in Msgs /\ subMsg \notin accepted /\ of[subMsg] # None
  /\ subPc = "unparseable" => subPub \in BadTopics

\* A worker reaches the dead-letter loop for a reason.
ReasonInv ==
  /\ \A w \in Workers :
       pc[w] = "deadletter" => walFailed \/ accepted \cap Poison # {}
  /\ NoTransientDeadLetter

PipelineInv == TypeOK /\ HandsInv /\ OriginInv /\ ReasonInv /\ Conserved

-----------------------------------------------------------------------------
(* Sequences. *)

\* Appending to the ring adds one message to it.
LEMMA RangeAppend ==
  ASSUME NEW S, NEW s \in Seq(S), NEW x \in S
  PROVE  Range(Append(s, x)) = Range(s) \cup {x}
<1>1. /\ DOMAIN Append(s, x) = 1..(Len(s) + 1)
      /\ \A i \in 1..Len(s) : Append(s, x)[i] = s[i]
      /\ Append(s, x)[Len(s) + 1] = x
  OBVIOUS
<1>2. Range(s) = {s[i] : i \in 1..Len(s)}
  BY DEF Range
<1>3. Range(Append(s, x)) = {Append(s, x)[i] : i \in 1..(Len(s) + 1)}
  BY <1>1 DEF Range
<1>4. Len(s) + 1 \in 1..(Len(s) + 1) /\ 1..Len(s) \subseteq 1..(Len(s) + 1)
  OBVIOUS
<1>5. \A i \in 1..(Len(s) + 1) : i = Len(s) + 1 \/ i \in 1..Len(s)
  OBVIOUS
<1> QED BY <1>1, <1>2, <1>3, <1>4, <1>5

\* A dequeue splits the ring's messages between the batch and the rest.
LEMMA RangeSplit ==
  ASSUME NEW S, NEW s \in Seq(S), NEW k \in 0..Len(s)
  PROVE  Range(SubSeq(s, 1, k)) \cup Range(SubSeq(s, k + 1, Len(s))) = Range(s)
<1>1. \A i \in 1..k : SubSeq(s, 1, k)[i] = s[i]
  OBVIOUS
<1>2. \A i \in 1..(Len(s) - k) : SubSeq(s, k + 1, Len(s))[i] = s[k + i]
  OBVIOUS
<1>3. DOMAIN SubSeq(s, 1, k) = 1..k /\ DOMAIN SubSeq(s, k + 1, Len(s)) = 1..(Len(s) - k)
  OBVIOUS
<1>4. ASSUME NEW i \in 1..Len(s)
      PROVE  s[i] \in Range(SubSeq(s, 1, k)) \cup Range(SubSeq(s, k + 1, Len(s)))
  <2>1. CASE i \in 1..k
    BY <1>1, <1>3, <2>1 DEF Range
  <2>2. CASE i \notin 1..k
    <3>1. i - k \in 1..(Len(s) - k) /\ k + (i - k) = i
      BY <2>2
    <3> QED BY <1>2, <1>3, <3>1 DEF Range
  <2> QED BY <2>1, <2>2
<1>5. \A i \in 1..(Len(s) - k) : k + i \in 1..Len(s)
  OBVIOUS
<1>6. Range(s) = {s[i] : i \in 1..Len(s)}
  BY DEF Range
<1>7. /\ Range(SubSeq(s, 1, k)) \subseteq Range(s)
      /\ Range(SubSeq(s, k + 1, Len(s))) \subseteq Range(s)
  BY <1>1, <1>2, <1>3, <1>5, <1>6 DEF Range
<1> QED BY <1>4, <1>6, <1>7

\* Elements of a sequence over S are in S.
LEMMA RangeType ==
  ASSUME NEW S, NEW s \in Seq(S)
  PROVE  Range(s) \subseteq S
BY DEF Range

-----------------------------------------------------------------------------
(* How messages may move without getting lost. *)

\* Dropping a set of messages records exactly these as lost.
LEMMA DropLoses ==
  ASSUME NEW S, NEW c, Drop(S, c)
  PROVE  Lost' = Lost \cup S
<1>1. lost' = lost \cup (S \X {c})
  BY DEF Drop
<1>2. {l[1] : l \in S \X {c}} = S
  <2>1. \A l \in S \X {c} : l[1] \in S
    OBVIOUS
  <2>2. \A x \in S : <<x, c>> \in S \X {c} /\ <<x, c>>[1] = x
    OBVIOUS
  <2>3. \A x \in S : x \in {l[1] : l \in S \X {c}}
    BY <2>2
  <2> QED BY <2>1, <2>3
<1>3. Lost' = {l[1] : l \in lost'}
  BY DEF Lost
<1> QED BY <1>1, <1>2, <1>3 DEF Lost

\* Conserved survives a step that loses track of no message.
LEMMA ConservedStep ==
  ASSUME Conserved,
         accepted' \subseteq accepted \cup InFlight',
         Settled \subseteq Settled',
         InFlight \subseteq InFlight' \cup Settled'
  PROVE  Conserved'
BY DEF Conserved

\* A step of one worker only has to account for the ring, the WAL and what
\* this worker held.
LEMMA WorkerConserves ==
  ASSUME Conserved, NEW w \in Workers,
         \A v \in Workers \ {w} : /\ pc'[v] = pc[v]
                                 /\ batch'[v] = batch[v]
                                 /\ todo'[v] = todo[v],
         accepted' = accepted,
         Settled \subseteq Settled',
         Range(ring) \cup wal \cup HeldBy(w)
           \subseteq Range(ring') \cup wal' \cup HeldBy(w)' \cup Settled'
  PROVE  Conserved'
<1>1. \A v \in Workers \ {w} : HeldBy(v)' = HeldBy(v)
  BY DEF HeldBy
<1>2. InFlight = Range(ring) \cup wal \cup UNION {HeldBy(v) : v \in Workers}
  BY DEF InFlight, InMemory
<1>3. InFlight' = Range(ring') \cup wal' \cup UNION {HeldBy(v)' : v \in Workers}
  BY DEF InFlight, InMemory
<1>4. InFlight \subseteq InFlight' \cup Settled'
  <2> SUFFICES ASSUME NEW m \in InFlight
               PROVE  m \in InFlight' \cup Settled'
    OBVIOUS
  <2>1. CASE m \in Range(ring) \cup wal \cup HeldBy(w)
    BY <1>3, <2>1
  <2>2. CASE m \notin Range(ring) \cup wal \cup HeldBy(w)
    <3>1. PICK v \in Workers \ {w} : m \in HeldBy(v)
      BY <1>2, <2>2
    <3> QED BY <1>1, <1>3, <3>1
  <2> QED BY <2>1, <2>2
<1> QED BY <1>4, ConservedStep

-----------------------------------------------------------------------------
(* The workers' steps. *)

\* The dequeue moves the front of the ring into empty hands.
LEMMA PullRingPreserves ==
  ASSUME PipelineInv, NEW w \in Workers, NEW n \in BatchSizes,
         PullRing(w, n), UNCHANGED subVars
  PROVE  PipelineInv'
<1> USE BuffersAssumption, FlusherAssumption DEF PipelineInv
<1>1. /\ ring \in Seq(Msgs) /\ Len(ring) <= RingCapacity
      /\ n \in Nat \ {0}
      /\ Taken(n) \in 0..Len(ring) /\ Taken(n) <= n
  BY DEF TypeOK, BuffersTypeOK, Taken
<1>2. /\ Front(n) \cup Range(Rest(n)) = Range(ring)
      /\ Rest(n) \in Seq(Msgs) /\ Len(Rest(n)) <= RingCapacity
      /\ Front(n) \subseteq Msgs
  <2>1. Front(n) \cup Range(Rest(n)) = Range(ring)
    BY <1>1, RangeSplit DEF Front, Rest
  <2>2. Rest(n) \in Seq(Msgs) /\ Len(Rest(n)) <= RingCapacity
    BY <1>1 DEF Rest
  <2>3. Range(ring) \subseteq Msgs
    BY <1>1, RangeType
  <2> QED BY <2>1, <2>2, <2>3
<1>3. n - Taken(n) \in Nat
  BY <1>1
<1>4. TypeOK'
  <2>1. BuffersTypeOK'
    BY <1>2 DEF PullRing, TypeOK, BuffersTypeOK
  <2>2. SubscriberTypeOK'
    BY DEF TypeOK, SubscriberTypeOK, subVars
  <2>3. /\ batch' \in [Workers -> SUBSET Msgs] /\ room' \in [Workers -> Nat]
        /\ attempt' \in [Workers -> 0..MaxRetries]
    BY <1>2, <1>3 DEF PullRing, SetBatch, TypeOK, FlusherTypeOK
  <2>4. FlusherTypeOK'
    BY <2>3 DEF PullRing, Goto, TypeOK, FlusherTypeOK
  <2> QED BY <2>1, <2>2, <2>4 DEF TypeOK
<1>5. HandsInv'
  BY <1>1, <1>2 DEF PullRing, Goto, SetBatch, TypeOK, FlusherTypeOK, HandsInv,
                    OriginInv, subVars, Front
<1>6. OriginInv'
  BY <1>2 DEF PullRing, OriginInv, Settled, Lost, subVars
<1>7. ReasonInv'
  BY DEF PullRing, Goto, TypeOK, FlusherTypeOK, ReasonInv, NoTransientDeadLetter, subVars
<1>8. Conserved'
  <2>1. HeldBy(w) = {}
    BY DEF HeldBy, HandsInv, PullRing
  <2>2. HeldBy(w)' = Front(n)
    BY DEF HeldBy, PullRing, SetBatch, Goto, TypeOK, FlusherTypeOK
  <2>3. \A v \in Workers \ {w} : pc'[v] = pc[v] /\ batch'[v] = batch[v] /\ todo'[v] = todo[v]
    BY DEF PullRing, SetBatch, Goto, TypeOK, FlusherTypeOK
  <2>4. Settled' = Settled /\ accepted' = accepted /\ ring' = Rest(n) /\ wal' = wal
    BY DEF PullRing, Settled, Lost, subVars
  <2> QED BY <1>2, <2>1, <2>2, <2>3, <2>4, WorkerConserves
<1> QED BY <1>4, <1>5, <1>6, <1>7, <1>8

\* Drain's read transaction moves nothing.
LEMMA DrainReadPreserves ==
  ASSUME PipelineInv, NEW w \in Workers, NEW S, DrainRead(w, S), UNCHANGED subVars
  PROVE  PipelineInv'
<1> USE FlusherAssumption DEF PipelineInv, DrainRead, Goto, AfterPull
<1>0. S \in SUBSET Msgs
  BY DEF TypeOK, BuffersTypeOK
<1>1. TypeOK'
  BY <1>0 DEF TypeOK, BuffersTypeOK, SubscriberTypeOK, FlusherTypeOK, Causes, subVars, bufVars
<1>2. HandsInv'
  BY DEF TypeOK, FlusherTypeOK, HandsInv, OriginInv, subVars, bufVars
<1>3. Settled' = Settled /\ accepted' = accepted
  BY DEF Settled, Lost, subVars
<1>4. OriginInv'
  BY <1>3 DEF OriginInv, HandsInv, subVars, bufVars
<1>5. ReasonInv'
  BY DEF TypeOK, FlusherTypeOK, ReasonInv, NoTransientDeadLetter, HandsInv, subVars
<1>6. Conserved'
  <2>1. \A v \in Workers \ {w} : pc'[v] = pc[v] /\ batch'[v] = batch[v] /\ todo'[v] = todo[v]
    BY DEF TypeOK, FlusherTypeOK
  <2>2. Range(ring) \cup wal \cup HeldBy(w)
          \subseteq Range(ring') \cup wal' \cup HeldBy(w)' \cup Settled'
    BY <1>3 DEF TypeOK, FlusherTypeOK, HeldBy, HandsInv, bufVars
  <2> QED BY <1>3, <2>1, <2>2, WorkerConserves
<1> QED BY <1>1, <1>2, <1>4, <1>5, <1>6

\* What Drain deletes is in the worker's hands.
LEMMA DrainDeletePreserves ==
  ASSUME PipelineInv, NEW w \in Workers, DrainDelete(w), UNCHANGED subVars
  PROVE  PipelineInv'
<1> USE FlusherAssumption DEF PipelineInv, DrainDelete, Undrained, Goto, SetBatch
<1>1. TypeOK'
  BY DEF TypeOK, BuffersTypeOK, SubscriberTypeOK, FlusherTypeOK, Causes, subVars, bufVars
<1>2. HandsInv'
  BY DEF TypeOK, FlusherTypeOK, HandsInv, OriginInv, subVars, bufVars
<1>3. Settled' = Settled /\ accepted' = accepted
  BY DEF Settled, Lost, subVars
<1>4. OriginInv'
  BY <1>3 DEF OriginInv, HandsInv, subVars, bufVars
<1>5. ReasonInv'
  BY DEF TypeOK, FlusherTypeOK, ReasonInv, NoTransientDeadLetter, HandsInv, subVars
<1>6. Conserved'
  <2>1. \A v \in Workers \ {w} : pc'[v] = pc[v] /\ batch'[v] = batch[v] /\ todo'[v] = todo[v]
    BY DEF TypeOK, FlusherTypeOK
  <2>2. Range(ring) \cup wal \cup HeldBy(w)
          \subseteq Range(ring') \cup wal' \cup HeldBy(w)' \cup Settled'
    BY <1>3 DEF TypeOK, FlusherTypeOK, HeldBy, HandsInv, bufVars
  <2> QED BY <1>3, <2>1, <2>2, WorkerConserves
<1> QED BY <1>1, <1>2, <1>4, <1>5, <1>6

\* A failed drain leaves its entries in the WAL.
LEMMA DrainErrorPreserves ==
  ASSUME PipelineInv, NEW w \in Workers, DrainError(w), UNCHANGED subVars
  PROVE  PipelineInv'
<1> USE FlusherAssumption DEF PipelineInv, DrainError, Goto, AfterPull
<1>1. TypeOK'
  BY DEF TypeOK, BuffersTypeOK, SubscriberTypeOK, FlusherTypeOK, Causes, subVars, bufVars
<1>2. HandsInv'
  BY DEF TypeOK, FlusherTypeOK, HandsInv, OriginInv, subVars, bufVars
<1>3. Settled' = Settled /\ accepted' = accepted
  BY DEF Settled, Lost, subVars
<1>4. OriginInv'
  BY <1>3 DEF OriginInv, HandsInv, subVars, bufVars
<1>5. ReasonInv'
  BY DEF TypeOK, FlusherTypeOK, ReasonInv, NoTransientDeadLetter, HandsInv, subVars
<1>6. Conserved'
  <2>1. \A v \in Workers \ {w} : pc'[v] = pc[v] /\ batch'[v] = batch[v] /\ todo'[v] = todo[v]
    BY DEF TypeOK, FlusherTypeOK
  <2>2. Range(ring) \cup wal \cup HeldBy(w)
          \subseteq Range(ring') \cup wal' \cup HeldBy(w)' \cup Settled'
    BY <1>3 DEF TypeOK, FlusherTypeOK, HeldBy, HandsInv, bufVars
  <2> QED BY <1>3, <2>1, <2>2, WorkerConserves
<1> QED BY <1>1, <1>2, <1>4, <1>5, <1>6

\* A committed batch is stored.
LEMMA CopyOKPreserves ==
  ASSUME PipelineInv, NEW w \in Workers, CopyOK(w), UNCHANGED subVars
  PROVE  PipelineInv'
<1> USE FlusherAssumption DEF PipelineInv, CopyOK, Goto, SetBatch
<1>1. TypeOK'
  BY DEF TypeOK, BuffersTypeOK, SubscriberTypeOK, FlusherTypeOK, Causes, subVars, bufVars
<1>2. HandsInv'
  BY DEF TypeOK, FlusherTypeOK, HandsInv, OriginInv, subVars, bufVars
<1>3. Settled' = Settled \cup batch[w] /\ accepted' = accepted
  BY DEF Settled, Lost, subVars
<1>4. OriginInv'
  BY <1>3 DEF OriginInv, HandsInv, subVars, bufVars
<1>5. ReasonInv'
  BY DEF TypeOK, FlusherTypeOK, ReasonInv, NoTransientDeadLetter, HandsInv, subVars
<1>6. Conserved'
  <2>1. \A v \in Workers \ {w} : pc'[v] = pc[v] /\ batch'[v] = batch[v] /\ todo'[v] = todo[v]
    BY DEF TypeOK, FlusherTypeOK
  <2>2. Range(ring) \cup wal \cup HeldBy(w)
          \subseteq Range(ring') \cup wal' \cup HeldBy(w)' \cup Settled'
    BY <1>3 DEF TypeOK, FlusherTypeOK, HeldBy, HandsInv, bufVars
  <2> QED BY <1>3, <2>1, <2>2, WorkerConserves
<1> QED BY <1>1, <1>2, <1>4, <1>5, <1>6

\* A transient error, committed or not, keeps the batch in hand.
LEMMA CopyTransientPreserves ==
  ASSUME PipelineInv, NEW w \in Workers, CopyTransient(w), UNCHANGED subVars
  PROVE  PipelineInv'
<1> USE FlusherAssumption DEF PipelineInv, CopyTransient, AfterError, Goto, SetTodo
<1>1. TypeOK'
  BY DEF TypeOK, BuffersTypeOK, SubscriberTypeOK, FlusherTypeOK, Causes, subVars, bufVars
<1>2. HandsInv'
  BY DEF TypeOK, FlusherTypeOK, HandsInv, OriginInv, subVars, bufVars
<1>3. Settled \subseteq Settled' /\ Settled' \subseteq Settled \cup batch[w] /\ accepted' = accepted
  BY DEF Settled, Lost, subVars
<1>4. OriginInv'
  BY <1>3 DEF OriginInv, HandsInv, subVars, bufVars
<1>5. ReasonInv'
  BY DEF TypeOK, FlusherTypeOK, ReasonInv, NoTransientDeadLetter, HandsInv, subVars
<1>6. Conserved'
  <2>1. \A v \in Workers \ {w} : pc'[v] = pc[v] /\ batch'[v] = batch[v] /\ todo'[v] = todo[v]
    BY DEF TypeOK, FlusherTypeOK
  <2>2. Range(ring) \cup wal \cup HeldBy(w)
          \subseteq Range(ring') \cup wal' \cup HeldBy(w)' \cup Settled'
    BY <1>3 DEF TypeOK, FlusherTypeOK, HeldBy, HandsInv, bufVars
  <2> QED BY <1>3, <2>1, <2>2, WorkerConserves
<1> QED BY <1>1, <1>2, <1>4, <1>5, <1>6

\* A poison error keeps the batch in hand.
LEMMA CopyPoisonPreserves ==
  ASSUME PipelineInv, NEW w \in Workers, CopyPoison(w), UNCHANGED subVars
  PROVE  PipelineInv'
<1> USE FlusherAssumption DEF PipelineInv, CopyPoison, AfterError, Goto, SetTodo
<1>1. TypeOK'
  BY DEF TypeOK, BuffersTypeOK, SubscriberTypeOK, FlusherTypeOK, Causes, subVars, bufVars
<1>2. HandsInv'
  BY DEF TypeOK, FlusherTypeOK, HandsInv, OriginInv, subVars, bufVars
<1>3. Settled' = Settled /\ accepted' = accepted
  BY DEF Settled, Lost, subVars
<1>4. OriginInv'
  BY <1>3 DEF OriginInv, HandsInv, subVars, bufVars
<1>5. ReasonInv'
  BY DEF TypeOK, FlusherTypeOK, ReasonInv, NoTransientDeadLetter, HandsInv, subVars
<1>6. Conserved'
  <2>1. \A v \in Workers \ {w} : pc'[v] = pc[v] /\ batch'[v] = batch[v] /\ todo'[v] = todo[v]
    BY DEF TypeOK, FlusherTypeOK
  <2>2. Range(ring) \cup wal \cup HeldBy(w)
          \subseteq Range(ring') \cup wal' \cup HeldBy(w)' \cup Settled'
    BY <1>3 DEF TypeOK, FlusherTypeOK, HeldBy, HandsInv, bufVars
  <2> QED BY <1>3, <2>1, <2>2, WorkerConserves
<1> QED BY <1>1, <1>2, <1>4, <1>5, <1>6

\* A retry keeps the batch in hand.
LEMMA RetryPreserves ==
  ASSUME PipelineInv, NEW w \in Workers, Retry(w), UNCHANGED subVars
  PROVE  PipelineInv'
<1> USE FlusherAssumption DEF PipelineInv, Retry, Goto
<1>0. attempt[w] + 1 \in 0..MaxRetries
  BY DEF TypeOK, FlusherTypeOK, HandsInv
<1>1. TypeOK'
  BY <1>0 DEF TypeOK, BuffersTypeOK, SubscriberTypeOK, FlusherTypeOK, Causes, subVars, bufVars
<1>2. HandsInv'
  BY DEF TypeOK, FlusherTypeOK, HandsInv, OriginInv, subVars, bufVars
<1>3. Settled' = Settled /\ accepted' = accepted
  BY DEF Settled, Lost, subVars
<1>4. OriginInv'
  BY <1>3 DEF OriginInv, HandsInv, subVars, bufVars
<1>5. ReasonInv'
  BY DEF TypeOK, FlusherTypeOK, ReasonInv, NoTransientDeadLetter, HandsInv, subVars
<1>6. Conserved'
  <2>1. \A v \in Workers \ {w} : pc'[v] = pc[v] /\ batch'[v] = batch[v] /\ todo'[v] = todo[v]
    BY DEF TypeOK, FlusherTypeOK
  <2>2. Range(ring) \cup wal \cup HeldBy(w)
          \subseteq Range(ring') \cup wal' \cup HeldBy(w)' \cup Settled'
    BY <1>3 DEF TypeOK, FlusherTypeOK, HeldBy, HandsInv, bufVars
  <2> QED BY <1>3, <2>1, <2>2, WorkerConserves
<1> QED BY <1>1, <1>2, <1>4, <1>5, <1>6

\* A worker that stops has nothing in hand.
LEMMA StopPreserves ==
  ASSUME PipelineInv, NEW w \in Workers, Stop(w), UNCHANGED subVars
  PROVE  PipelineInv'
<1> USE FlusherAssumption DEF PipelineInv, Stop, Goto
<1>1. TypeOK'
  BY DEF TypeOK, BuffersTypeOK, SubscriberTypeOK, FlusherTypeOK, Causes, subVars, bufVars
<1>2. HandsInv'
  BY DEF TypeOK, FlusherTypeOK, HandsInv, OriginInv, subVars, bufVars
<1>3. Settled' = Settled /\ accepted' = accepted
  BY DEF Settled, Lost, subVars
<1>4. OriginInv'
  BY <1>3 DEF OriginInv, HandsInv, subVars, bufVars
<1>5. ReasonInv'
  BY DEF TypeOK, FlusherTypeOK, ReasonInv, NoTransientDeadLetter, HandsInv, subVars
<1>6. Conserved'
  <2>1. \A v \in Workers \ {w} : pc'[v] = pc[v] /\ batch'[v] = batch[v] /\ todo'[v] = todo[v]
    BY DEF TypeOK, FlusherTypeOK
  <2>2. Range(ring) \cup wal \cup HeldBy(w)
          \subseteq Range(ring') \cup wal' \cup HeldBy(w)' \cup Settled'
    BY <1>3 DEF TypeOK, FlusherTypeOK, HeldBy, HandsInv, bufVars
  <2> QED BY <1>3, <2>1, <2>2, WorkerConserves
<1> QED BY <1>1, <1>2, <1>4, <1>5, <1>6

\* A batch given up on cancellation is recorded as lost.
LEMMA CancelBackoffPreserves ==
  ASSUME PipelineInv, NEW w \in Workers, CancelBackoff(w), UNCHANGED subVars
  PROVE  PipelineInv'
<1> USE FlusherAssumption DEF PipelineInv, CancelBackoff, Goto, SetBatch
<1>0. lost' \subseteq Msgs \X Causes
  <2>1. batch[w] \X {"cancel"} \subseteq Msgs \X Causes
    BY DEF TypeOK, FlusherTypeOK, Causes
  <2> QED BY <2>1 DEF TypeOK, FlusherTypeOK, Drop
<1>1. TypeOK'
  BY <1>0 DEF TypeOK, BuffersTypeOK, SubscriberTypeOK, FlusherTypeOK, Causes, subVars, bufVars
<1>2. HandsInv'
  BY DEF TypeOK, FlusherTypeOK, HandsInv, OriginInv, subVars, bufVars
<1>3. Settled' = Settled \cup batch[w] /\ accepted' = accepted
  BY DropLoses DEF Settled, subVars
<1>4. OriginInv'
  BY <1>3 DEF OriginInv, HandsInv, subVars, bufVars
<1>5. ReasonInv'
  BY DEF TypeOK, FlusherTypeOK, ReasonInv, NoTransientDeadLetter, HandsInv, subVars
<1>6. Conserved'
  <2>1. \A v \in Workers \ {w} : pc'[v] = pc[v] /\ batch'[v] = batch[v] /\ todo'[v] = todo[v]
    BY DEF TypeOK, FlusherTypeOK
  <2>2. Range(ring) \cup wal \cup HeldBy(w)
          \subseteq Range(ring') \cup wal' \cup HeldBy(w)' \cup Settled'
    BY <1>3 DEF TypeOK, FlusherTypeOK, HeldBy, HandsInv, bufVars
  <2> QED BY <1>3, <2>1, <2>2, WorkerConserves
<1> QED BY <1>1, <1>2, <1>4, <1>5, <1>6

\* A requeued message is in the WAL.
LEMMA RequeuePreserves ==
  ASSUME PipelineInv, NEW w \in Workers, NEW m \in Msgs, Requeue(w, m), UNCHANGED subVars
  PROVE  PipelineInv'
<1> USE FlusherAssumption DEF PipelineInv, Requeue, FinishOne, Goto, SetBatch, SetTodo
<1>1. TypeOK'
  BY DEF TypeOK, BuffersTypeOK, SubscriberTypeOK, FlusherTypeOK, Causes, subVars, bufVars
<1>2. HandsInv'
  BY DEF TypeOK, FlusherTypeOK, HandsInv, OriginInv, subVars, bufVars
<1>3. Settled' = Settled /\ accepted' = accepted
  BY DEF Settled, Lost, subVars
<1>4. OriginInv'
  BY <1>3 DEF OriginInv, HandsInv, subVars, bufVars
<1>5. ReasonInv'
  BY DEF TypeOK, FlusherTypeOK, ReasonInv, NoTransientDeadLetter, HandsInv, subVars
<1>6. Conserved'
  <2>1. \A v \in Workers \ {w} : pc'[v] = pc[v] /\ batch'[v] = batch[v] /\ todo'[v] = todo[v]
    BY DEF TypeOK, FlusherTypeOK
  <2>2. Range(ring) \cup wal \cup HeldBy(w)
          \subseteq Range(ring') \cup wal' \cup HeldBy(w)' \cup Settled'
    BY <1>3 DEF TypeOK, FlusherTypeOK, HeldBy, HandsInv, bufVars
  <2> QED BY <1>3, <2>1, <2>2, WorkerConserves
<1> QED BY <1>1, <1>2, <1>4, <1>5, <1>6

\* A failed requeue takes the whole batch back.
LEMMA RequeueFailsPreserves ==
  ASSUME PipelineInv, NEW w \in Workers, NEW m \in Msgs, RequeueFails(w, m), UNCHANGED subVars
  PROVE  PipelineInv'
<1> USE FlusherAssumption DEF PipelineInv, RequeueFails, FallThrough, Goto, SetTodo
<1>1. TypeOK'
  BY DEF TypeOK, BuffersTypeOK, SubscriberTypeOK, FlusherTypeOK, Causes, subVars, bufVars
<1>2. HandsInv'
  BY DEF TypeOK, FlusherTypeOK, HandsInv, OriginInv, subVars, bufVars
<1>3. Settled' = Settled /\ accepted' = accepted
  BY DEF Settled, Lost, subVars
<1>4. OriginInv'
  BY <1>3 DEF OriginInv, HandsInv, subVars, bufVars
<1>5. ReasonInv'
  BY DEF TypeOK, FlusherTypeOK, ReasonInv, NoTransientDeadLetter, HandsInv, subVars
<1>6. Conserved'
  <2>1. \A v \in Workers \ {w} : pc'[v] = pc[v] /\ batch'[v] = batch[v] /\ todo'[v] = todo[v]
    BY DEF TypeOK, FlusherTypeOK
  <2>2. Range(ring) \cup wal \cup HeldBy(w)
          \subseteq Range(ring') \cup wal' \cup HeldBy(w)' \cup Settled'
    BY <1>3 DEF TypeOK, FlusherTypeOK, HeldBy, HandsInv, bufVars
  <2> QED BY <1>3, <2>1, <2>2, WorkerConserves
<1> QED BY <1>1, <1>2, <1>4, <1>5, <1>6

\* A dead-lettered message is settled.
LEMMA DeadLetterPreserves ==
  ASSUME PipelineInv, NEW w \in Workers, NEW m \in Msgs, DeadLetter(w, m), UNCHANGED subVars
  PROVE  PipelineInv'
<1> USE FlusherAssumption DEF PipelineInv, DeadLetter, FinishOne, Goto, SetBatch, SetTodo
<1>1. TypeOK'
  BY DEF TypeOK, BuffersTypeOK, SubscriberTypeOK, FlusherTypeOK, Causes, subVars, bufVars
<1>2. HandsInv'
  BY DEF TypeOK, FlusherTypeOK, HandsInv, OriginInv, subVars, bufVars
<1>3. Settled' = Settled \cup {m} /\ accepted' = accepted
  BY DEF Settled, Lost, subVars
<1>4. OriginInv'
  BY <1>3 DEF OriginInv, HandsInv, subVars, bufVars
<1>5. ReasonInv'
  BY DEF TypeOK, FlusherTypeOK, ReasonInv, NoTransientDeadLetter, HandsInv, subVars
<1>6. Conserved'
  <2>1. \A v \in Workers \ {w} : pc'[v] = pc[v] /\ batch'[v] = batch[v] /\ todo'[v] = todo[v]
    BY DEF TypeOK, FlusherTypeOK
  <2>2. Range(ring) \cup wal \cup HeldBy(w)
          \subseteq Range(ring') \cup wal' \cup HeldBy(w)' \cup Settled'
    BY <1>3 DEF TypeOK, FlusherTypeOK, HeldBy, HandsInv, bufVars
  <2> QED BY <1>3, <2>1, <2>2, WorkerConserves
<1> QED BY <1>1, <1>2, <1>4, <1>5, <1>6

\* A message whose dead-letter write fails is recorded as lost.
LEMMA DeadLetterFailsPreserves ==
  ASSUME PipelineInv, NEW w \in Workers, NEW m \in Msgs, DeadLetterFails(w, m), UNCHANGED subVars
  PROVE  PipelineInv'
<1> USE FlusherAssumption DEF PipelineInv, DeadLetterFails, FinishOne, Goto, SetBatch, SetTodo
<1>0. lost' \subseteq Msgs \X Causes
  <2>1. {m} \X {"deadletter"} \subseteq Msgs \X Causes
    BY DEF TypeOK, FlusherTypeOK, Causes
  <2> QED BY <2>1 DEF TypeOK, FlusherTypeOK, Drop
<1>1. TypeOK'
  BY <1>0 DEF TypeOK, BuffersTypeOK, SubscriberTypeOK, FlusherTypeOK, Causes, subVars, bufVars
<1>2. HandsInv'
  BY DEF TypeOK, FlusherTypeOK, HandsInv, OriginInv, subVars, bufVars
<1>3. Settled' = Settled \cup {m} /\ accepted' = accepted
  BY DropLoses DEF Settled, subVars
<1>4. OriginInv'
  BY <1>3 DEF OriginInv, HandsInv, subVars, bufVars
<1>5. ReasonInv'
  BY DEF TypeOK, FlusherTypeOK, ReasonInv, NoTransientDeadLetter, HandsInv, subVars
<1>6. Conserved'
  <2>1. \A v \in Workers \ {w} : pc'[v] = pc[v] /\ batch'[v] = batch[v] /\ todo'[v] = todo[v]
    BY DEF TypeOK, FlusherTypeOK
  <2>2. Range(ring) \cup wal \cup HeldBy(w)
          \subseteq Range(ring') \cup wal' \cup HeldBy(w)' \cup Settled'
    BY <1>3 DEF TypeOK, FlusherTypeOK, HeldBy, HandsInv, bufVars
  <2> QED BY <1>3, <2>1, <2>2, WorkerConserves
<1> QED BY <1>1, <1>2, <1>4, <1>5, <1>6

-----------------------------------------------------------------------------
(* The subscriber's steps. *)

\* A step of the subscriber may only add to the ring and to the WAL, and what
\* it accepts must be there.
LEMMA SubscriberConserves ==
  ASSUME PipelineInv, UNCHANGED flushVars,
         Range(ring) \subseteq Range(ring'), wal \subseteq wal',
         accepted' \subseteq accepted \cup Range(ring') \cup wal'
  PROVE  Conserved' /\ Settled' = Settled
<1>1. Settled' = Settled
  BY DEF Settled, Lost, flushVars
<1>2. \A w \in Workers : HeldBy(w)' = HeldBy(w)
  BY DEF HeldBy, flushVars
<1>3. InFlight = Range(ring) \cup wal \cup UNION {HeldBy(v) : v \in Workers}
  BY DEF InFlight, InMemory
<1>4. InFlight' = Range(ring') \cup wal' \cup UNION {HeldBy(v)' : v \in Workers}
  BY DEF InFlight, InMemory
<1>5. InFlight \subseteq InFlight'
  BY <1>2, <1>3, <1>4
<1>6. accepted' \subseteq accepted \cup InFlight'
  BY <1>4
<1> QED BY <1>1, <1>5, <1>6, ConservedStep DEF PipelineInv

\* Steps that neither buffer nor accept anything.
LEMMA QuietStepPreserves ==
  ASSUME PipelineInv, UNCHANGED flushVars, UNCHANGED <<ring, wal, accepted, of>>,
         BuffersTypeOK', SubscriberTypeOK',
         phase' = "down" => phase = "down",
         subPc' \in {"route", "spill"} =>
           subPc \in {"route", "spill"} /\ UNCHANGED subMsg,
         subPc' = "unparseable" => subPub' \in BadTopics
  PROVE  PipelineInv'
<1> USE DEF PipelineInv
<1>1. TypeOK'
  BY DEF TypeOK, FlusherTypeOK, flushVars
<1>2. Conserved' /\ Settled' = Settled
  BY SubscriberConserves
<1>3. HandsInv'
  BY DEF HandsInv, flushVars
<1>4. OriginInv'
  BY <1>2 DEF OriginInv
<1>5. ReasonInv'
  BY DEF ReasonInv, NoTransientDeadLetter, flushVars
<1> QED BY <1>1, <1>2, <1>3, <1>4, <1>5

\* A delivery gets a message of its own.
LEMMA ReceivePreserves ==
  ASSUME PipelineInv, NEW p \in Publishes, NEW m \in Msgs, Receive(p, m),
         UNCHANGED flushVars
  PROVE  PipelineInv'
<1> USE SubscriberAssumption DEF PipelineInv, Receive
<1>1. TypeOK'
  BY DEF TypeOK, BuffersTypeOK, SubscriberTypeOK, FlusherTypeOK, flushVars, bufVars
<1>2. Conserved' /\ Settled' = Settled
  BY SubscriberConserves DEF bufVars
<1>3. HandsInv'
  BY DEF HandsInv, flushVars, bufVars
<1>4. OriginInv'
  BY <1>2 DEF OriginInv, bufVars, TypeOK, SubscriberTypeOK
<1>5. ReasonInv'
  BY DEF ReasonInv, NoTransientDeadLetter, flushVars
<1> QED BY <1>1, <1>2, <1>3, <1>4, <1>5

\* The ring takes the routed message.
LEMMA EnqueueRingPreserves ==
  ASSUME PipelineInv, EnqueueRing, UNCHANGED flushVars
  PROVE  PipelineInv'
<1> USE BuffersAssumption DEF PipelineInv, EnqueueRing, RingHasRoom
<1>1. ring \in Seq(Msgs) /\ subMsg \in Msgs /\ subMsg \notin accepted /\ of[subMsg] # None
  BY DEF TypeOK, BuffersTypeOK, OriginInv
<1>2. Range(ring') = Range(ring) \cup {subMsg}
  BY <1>1, RangeAppend
<1>3. ring' \in Seq(Msgs) /\ Len(ring') <= RingCapacity
  BY <1>1 DEF TypeOK, BuffersTypeOK
<1>4. TypeOK'
  BY <1>1, <1>3 DEF TypeOK, BuffersTypeOK, SubscriberTypeOK, FlusherTypeOK, flushVars
<1>5. Conserved' /\ Settled' = Settled
  BY <1>2, SubscriberConserves
<1>6. HandsInv'
  BY DEF HandsInv, flushVars
<1>7. OriginInv'
  BY <1>1, <1>2, <1>5 DEF OriginInv
<1>8. ReasonInv'
  BY DEF ReasonInv, NoTransientDeadLetter, flushVars
<1> QED BY <1>4, <1>5, <1>6, <1>7, <1>8

\* The WAL takes the routed message.
LEMMA SpillToWALPreserves ==
  ASSUME PipelineInv, SpillToWAL, UNCHANGED flushVars
  PROVE  PipelineInv'
<1> USE DEF PipelineInv, SpillToWAL
<1>1. subMsg \in Msgs /\ subMsg \notin accepted /\ of[subMsg] # None
  BY DEF OriginInv
<1>2. TypeOK'
  BY <1>1 DEF TypeOK, BuffersTypeOK, SubscriberTypeOK, FlusherTypeOK, flushVars
<1>3. Conserved' /\ Settled' = Settled
  BY SubscriberConserves
<1>4. HandsInv'
  BY DEF HandsInv, flushVars
<1>5. OriginInv'
  BY <1>1, <1>3 DEF OriginInv
<1>6. ReasonInv'
  BY DEF ReasonInv, NoTransientDeadLetter, flushVars
<1> QED BY <1>2, <1>3, <1>4, <1>5, <1>6

\* Every step of the subscriber keeps the invariant.
LEMMA SubscriberPreserves ==
  ASSUME PipelineInv, SubscriberStep, UNCHANGED flushVars
  PROVE  PipelineInv'
<1>0. BuffersTypeOK /\ SubscriberTypeOK
  BY DEF PipelineInv, TypeOK
<1>1. ASSUME NEW p \in Publishes, NEW m \in Msgs, Receive(p, m)
      PROVE  PipelineInv'
  BY <1>1, ReceivePreserves
<1>2. ASSUME NEW p \in Publishes, ReceiveBadTopic(p)
      PROVE  PipelineInv'
  BY <1>0, <1>2, QuietStepPreserves
     DEF ReceiveBadTopic, BuffersTypeOK, SubscriberTypeOK, bufVars
<1>3. CASE handleParseFailure
  <2>1. subPub \in BadTopics
    BY <1>3 DEF handleParseFailure, PipelineInv, OriginInv
  <2> QED BY <1>0, <1>3, <2>1, QuietStepPreserves
             DEF InsertUnparseable, handleParseFailure, BuffersTypeOK, SubscriberTypeOK, bufVars
<1>4. CASE RingFull
  BY <1>0, <1>4, QuietStepPreserves DEF RingFull, BuffersTypeOK, SubscriberTypeOK, bufVars
<1>5. CASE SpillFails
  <2>1. subMsg \in Msgs
    BY <1>5 DEF SpillFails, PipelineInv, OriginInv
  <2> QED BY <1>0, <1>5, <2>1, QuietStepPreserves
             DEF SpillFails, BuffersTypeOK, SubscriberTypeOK, bufVars
<1>6. CASE Puback \/ PubackLost
  BY <1>0, <1>6, QuietStepPreserves
     DEF Puback, PubackLost, BuffersTypeOK, SubscriberTypeOK, bufVars
<1>7. CASE EnqueueRing
  BY <1>7, EnqueueRingPreserves
<1>8. CASE SpillToWAL
  BY <1>8, SpillToWALPreserves
<1> QED BY <1>1, <1>2, <1>3, <1>4, <1>5, <1>6, <1>7, <1>8 DEF SubscriberStep, Handle

\* Every step of a worker keeps the invariant.
LEMMA WorkerPreserves ==
  ASSUME PipelineInv, NEW w \in Workers, WorkerStep(w), UNCHANGED subVars
  PROVE  PipelineInv'
<1>1. ASSUME NEW n \in BatchSizes, PullRing(w, n)
      PROVE  PipelineInv'
  BY <1>1, PullRingPreserves
<1>2. ASSUME NEW S \in SUBSET wal, DrainRead(w, S)
      PROVE  PipelineInv'
  BY <1>2, DrainReadPreserves
<1>3. CASE DrainDelete(w) \/ DrainError(w)
  BY <1>3, DrainDeletePreserves, DrainErrorPreserves
<1>4. CASE CopyOK(w) \/ CopyTransient(w) \/ CopyPoison(w)
  BY <1>4, CopyOKPreserves, CopyTransientPreserves, CopyPoisonPreserves
<1>5. CASE Retry(w) \/ CancelBackoff(w) \/ Stop(w)
  BY <1>5, RetryPreserves, CancelBackoffPreserves, StopPreserves
<1>6. ASSUME NEW m \in Msgs, Requeue(w, m) \/ RequeueFails(w, m)
      PROVE  PipelineInv'
  BY <1>6, RequeuePreserves, RequeueFailsPreserves
<1>7. ASSUME NEW m \in Msgs, DeadLetter(w, m) \/ DeadLetterFails(w, m)
      PROVE  PipelineInv'
  BY <1>7, DeadLetterPreserves, DeadLetterFailsPreserves
<1> QED BY <1>1, <1>2, <1>3, <1>4, <1>5, <1>6, <1>7 DEF WorkerStep

-----------------------------------------------------------------------------
(* The process's steps. *)

\* What the memory held is recorded as lost; the WAL is still there.
LEMMA MemoryLostPreserves ==
  ASSUME PipelineInv, NEW c \in Causes, MemoryLost(c)
  PROVE  PipelineInv'
<1> USE DEF PipelineInv
<1>1. InMemory \subseteq accepted
  <2>1. \A w \in Workers : HeldBy(w) \subseteq accepted
    BY DEF HeldBy, HandsInv
  <2> QED BY <2>1 DEF InMemory, OriginInv
<1>2. accepted' = accepted /\ accepted \subseteq Msgs
  BY DEF MemoryLost, TypeOK, SubscriberTypeOK
<1>3. Lost' = Lost \cup InMemory
  BY DropLoses DEF MemoryLost
<1>4. Settled' = Settled \cup InMemory
  BY <1>3 DEF Settled, MemoryLost
<1>5. lost' \subseteq Msgs \X Causes
  <2>1. InMemory \X {c} \subseteq Msgs \X Causes
    BY <1>1, <1>2
  <2> QED BY <2>1 DEF MemoryLost, Drop, TypeOK, FlusherTypeOK
<1>6. TypeOK'
  <2>1. BuffersTypeOK'
    BY BuffersAssumption DEF MemoryLost, TypeOK, BuffersTypeOK, Phases
  <2>2. SubscriberTypeOK'
    BY DEF MemoryLost, TypeOK, SubscriberTypeOK
  <2>3. FlusherTypeOK'
    BY <1>5, FlusherAssumption DEF MemoryLost, TypeOK, FlusherTypeOK
  <2> QED BY <2>1, <2>2, <2>3 DEF TypeOK
<1>7. HandsInv'
  BY DEF MemoryLost, HandsInv
<1>8. OriginInv'
  <2>1. Range(ring') = {}
    BY DEF MemoryLost, Range
  <2>2. Settled' \subseteq accepted'
    BY <1>1, <1>2, <1>4 DEF OriginInv
  <2> QED BY <1>2, <2>1, <2>2 DEF MemoryLost, OriginInv
<1>9. ReasonInv'
  BY DEF MemoryLost, ReasonInv, NoTransientDeadLetter
<1>10. Conserved'
  <2>1. InFlight \subseteq InFlight' \cup Settled'
    BY <1>4 DEF InFlight, MemoryLost
  <2> QED BY <1>2, <1>4, <2>1, ConservedStep
<1> QED BY <1>6, <1>7, <1>8, <1>9, <1>10

\* The restarted workers begin with empty hands.
LEMMA RestartPreserves ==
  ASSUME PipelineInv, Restart
  PROVE  PipelineInv'
<1> USE DEF PipelineInv, Restart
<1>1. TypeOK'
  BY DEF TypeOK, BuffersTypeOK, SubscriberTypeOK, FlusherTypeOK, Phases, subVars
<1>2. Settled' = Settled /\ accepted' = accepted
  BY DEF Settled, Lost, subVars
<1>3. \A w \in Workers : HeldBy(w) = {} /\ batch[w] = {}
  BY DEF HandsInv, HeldBy
<1>4. HandsInv'
  BY <1>3 DEF HandsInv, subVars
<1>5. OriginInv'
  BY <1>2 DEF OriginInv, subVars
<1>6. ReasonInv'
  BY DEF ReasonInv, NoTransientDeadLetter, subVars
<1>7. Conserved'
  <2>1. InFlight \subseteq Range(ring) \cup wal
    BY <1>3 DEF InFlight, InMemory
  <2>2. Range(ring) \cup wal \subseteq InFlight'
    BY DEF InFlight, InMemory
  <2> QED BY <1>2, <2>1, <2>2, ConservedStep
<1> QED BY <1>1, <1>4, <1>5, <1>6, <1>7

\* An expired entry is recorded as lost.
LEMMA ExpirePreserves ==
  ASSUME PipelineInv, NEW m \in Msgs, Expire(m)
  PROVE  PipelineInv'
<1> USE DEF PipelineInv, Expire
<1>1. Lost' = Lost \cup {m}
  BY DropLoses
<1>2. Settled' = Settled \cup {m} /\ accepted' = accepted
  BY <1>1 DEF Settled, subVars
<1>3. lost' \subseteq Msgs \X Causes
  <2>1. {m} \X {"ttl"} \subseteq Msgs \X Causes
    BY DEF Causes
  <2> QED BY <2>1 DEF Drop, TypeOK, FlusherTypeOK
<1>4. TypeOK'
  BY <1>3 DEF TypeOK, BuffersTypeOK, SubscriberTypeOK, FlusherTypeOK, subVars
<1>5. HandsInv'
  BY DEF HandsInv, subVars
<1>6. OriginInv'
  BY <1>2 DEF OriginInv, subVars
<1>7. ReasonInv'
  BY DEF ReasonInv, NoTransientDeadLetter, subVars
<1>8. Conserved'
  <2>1. \A w \in Workers : HeldBy(w)' = HeldBy(w)
    BY DEF HeldBy
  <2>2. InMemory' = InMemory
    BY <2>1 DEF InMemory
  <2>3. InFlight \subseteq InFlight' \cup Settled'
    BY <1>2, <2>2 DEF InFlight
  <2> QED BY <1>2, <2>3, ConservedStep
<1> QED BY <1>4, <1>5, <1>6, <1>7, <1>8

\* Every step of the pipeline keeps the invariant.
LEMMA NextPreserves ==
  ASSUME PipelineInv, [Next]_vars
  PROVE  PipelineInv'
<1>1. CASE SubscriberStep /\ UNCHANGED flushVars
  BY <1>1, SubscriberPreserves
<1>2. CASE (\E w \in Workers : WorkerStep(w)) /\ UNCHANGED subVars
  BY <1>2, WorkerPreserves
<1>3. CASE Sigterm
  <2>1. BuffersTypeOK' /\ SubscriberTypeOK'
    BY <1>3 DEF Sigterm, PipelineInv, TypeOK, BuffersTypeOK, SubscriberTypeOK,
                Phases, subVars
  <2> QED BY <1>3, <2>1, QuietStepPreserves DEF Sigterm, PipelineInv, OriginInv, subVars
<1>4. CASE Exit \/ Crash
  BY <1>4, MemoryLostPreserves DEF Exit, Crash, Causes
<1>5. CASE Restart
  BY <1>5, RestartPreserves
<1>6. CASE \E m \in Msgs : Expire(m)
  BY <1>6, ExpirePreserves
<1>7. CASE UNCHANGED vars
  <2>1. BuffersTypeOK' /\ SubscriberTypeOK'
    BY <1>7 DEF PipelineInv, TypeOK, BuffersTypeOK, SubscriberTypeOK, vars,
                bufVars, subVars
  <2> QED BY <1>7, <2>1, QuietStepPreserves
             DEF vars, bufVars, subVars, PipelineInv, OriginInv
<1> QED BY <1>1, <1>2, <1>3, <1>4, <1>5, <1>6, <1>7 DEF Next

\* A fresh process on an empty WAL satisfies the invariant.
LEMMA InitEstablishes ==
  ASSUME Init
  PROVE  PipelineInv
<1> USE BuffersAssumption, SubscriberAssumption, FlusherAssumption
    DEF Init, BuffersInit, SubscriberInit, FlusherInit
<1>1. TypeOK
  <2>1. BuffersTypeOK
    <3>1. ring \in Seq(Msgs) /\ Len(ring) <= RingCapacity
      OBVIOUS
    <3>2. calm \in BOOLEAN
      OBVIOUS
    <3> QED BY <3>1, <3>2 DEF BuffersTypeOK, Phases
  <2>2. SubscriberTypeOK
    BY DEF SubscriberTypeOK
  <2>3. FlusherTypeOK
    <3>1. /\ pc \in [Workers -> {"wait", "drain", "delete", "copy", "backoff",
                                 "requeue", "deadletter", "stopped"}]
          /\ batch \in [Workers -> SUBSET Msgs]
          /\ room \in [Workers -> Nat]
      OBVIOUS
    <3>2. /\ read \in [Workers -> SUBSET Msgs]
          /\ todo \in [Workers -> SUBSET Msgs]
          /\ attempt \in [Workers -> 0..MaxRetries]
      OBVIOUS
    <3>3. walFailed \in BOOLEAN /\ lost \subseteq Msgs \X Causes
      OBVIOUS
    <3> QED BY <3>1, <3>2, <3>3 DEF FlusherTypeOK
  <2> QED BY <2>1, <2>2, <2>3 DEF TypeOK
<1>2. HandsInv
  BY DEF HandsInv
<1>3. Range(ring) = {} /\ Settled = {}
  BY DEF Range, Settled, Lost
<1>4. OriginInv
  BY <1>3 DEF OriginInv
<1>5. ReasonInv
  BY DEF ReasonInv, NoTransientDeadLetter
<1>6. Conserved
  BY DEF Conserved
<1> QED BY <1>1, <1>2, <1>4, <1>5, <1>6 DEF PipelineInv

-----------------------------------------------------------------------------
(* The theorems. *)

\* The inductive invariant holds in every reachable state of the pipeline.
THEOREM PipelineInvariant == Spec => []PipelineInv
<1>1. Init => PipelineInv
  BY InitEstablishes
<1>2. PipelineInv /\ [Next]_vars => PipelineInv'
  BY NextPreserves
<1> QED BY <1>1, <1>2, PTL DEF Spec

\* The ring never exceeds its capacity, a retry counter never its limit, and
\* every other variable stays in its range.
THEOREM PipelineTypes == Spec => []TypeOK
BY PipelineInvariant, PTL DEF PipelineInv

\* No accepted message is lost outside the five places where the code gives
\* one up, whatever the interleaving and whatever fails.
THEOREM NoSilentLoss == Spec => []Conserved
BY PipelineInvariant, PTL DEF PipelineInv

\* Without poison messages and with a working WAL no PostgreSQL error, however
\* long it lasts, leads to a dead letter.
THEOREM TransientNeverDeadLetters == Spec => []NoTransientDeadLetter
BY PipelineInvariant, PTL DEF PipelineInv, ReasonInv

\* What is in flight and has no outcome is what was accepted and has none.
LEMMA PendingIsUnsettled ==
  ASSUME PipelineInv
  PROVE  InFlight \ Settled = accepted \ Settled
<1>1. \A w \in Workers : HeldBy(w) \subseteq accepted
  BY DEF PipelineInv, HeldBy, HandsInv
<1>2. InFlight \subseteq accepted
  BY <1>1 DEF InFlight, InMemory, PipelineInv, OriginInv
<1> QED BY <1>2 DEF PipelineInv, Conserved

\* A step either accepts the routed message or only adds outcomes.
LEMMA StepOutcome ==
  ASSUME PipelineInv, [Next]_vars
  PROVE  \/ /\ accepted' = accepted
            /\ rows \subseteq rows' /\ dlq \subseteq dlq' /\ lost \subseteq lost'
         \/ /\ subMsg \in Msgs /\ subMsg \notin accepted
            /\ accepted' = accepted \cup {subMsg}
            /\ UNCHANGED <<rows, dlq, lost>>
<1>1. CASE SubscriberStep /\ UNCHANGED flushVars
  <2>1. CASE EnqueueRing \/ SpillToWAL
    BY <1>1, <2>1 DEF EnqueueRing, SpillToWAL, flushVars, PipelineInv, OriginInv
  <2>2. CASE ~(EnqueueRing \/ SpillToWAL)
    <3>1. accepted' = accepted
      BY <1>1, <2>2 DEF SubscriberStep, Handle, Receive, ReceiveBadTopic,
                        InsertUnparseable, handleParseFailure, RingFull, SpillFails, Puback, PubackLost
    <3> QED BY <1>1, <3>1 DEF flushVars
  <2> QED BY <2>1, <2>2
<1>2. ASSUME NEW w \in Workers, WorkerStep(w), UNCHANGED subVars
      PROVE  /\ accepted' = accepted
             /\ rows \subseteq rows' /\ dlq \subseteq dlq' /\ lost \subseteq lost'
  <2>1. accepted' = accepted
    BY <1>2 DEF subVars
  <2>2. rows \subseteq rows' /\ dlq \subseteq dlq' /\ lost \subseteq lost'
    BY <1>2 DEF WorkerStep, PullRing, DrainRead, DrainDelete, DrainError, CopyOK,
                CopyTransient, CopyPoison, Retry, CancelBackoff, Stop, Requeue,
                RequeueFails, DeadLetter, DeadLetterFails, Drop
  <2> QED BY <2>1, <2>2
<1>3. CASE Sigterm \/ Exit \/ Crash \/ Restart \/ \E m \in Msgs : Expire(m)
  BY <1>3 DEF Sigterm, Exit, Crash, Restart, Expire, MemoryLost, Drop, subVars, flushVars
<1>4. CASE UNCHANGED vars
  BY <1>4 DEF vars, subVars, flushVars
<1> QED BY <1>1, <1>2, <1>3, <1>4 DEF Next

\* Every step of the pipeline is a step of the contract.
LEMMA StepKeepsContract ==
  ASSUME PipelineInv, PipelineInv', [Next]_vars
  PROVE  [Contract!Next]_(Contract!contractVars)
<1>1. InFlight \ Settled = accepted \ Settled
  BY PendingIsUnsettled
<1>2. (InFlight \ Settled)' = accepted' \ Settled'
  <2>1. \A w \in Workers : HeldBy(w)' \subseteq accepted'
    BY DEF PipelineInv, HeldBy, HandsInv
  <2>2. InFlight' \subseteq accepted'
    BY <2>1 DEF InFlight, InMemory, PipelineInv, OriginInv
  <2> QED BY <2>2 DEF PipelineInv, Conserved
<1>3. Settled = rows \cup dlq \cup Lost /\ Settled' = rows' \cup dlq' \cup Lost'
  BY DEF Settled
<1>4. Settled \subseteq accepted /\ Settled' \subseteq accepted'
  BY DEF PipelineInv, OriginInv
<1>5. lost \subseteq lost' => Lost \subseteq Lost'
  BY DEF Lost
<1>6. CASE /\ accepted' = accepted
           /\ rows \subseteq rows' /\ dlq \subseteq dlq' /\ lost \subseteq lost'
  <2>1. Contract!Settle
    BY <1>1, <1>2, <1>3, <1>4, <1>5, <1>6 DEF Contract!Settle
  <2> QED BY <2>1 DEF Contract!Next
<1>7. CASE /\ subMsg \in Msgs /\ subMsg \notin accepted
           /\ accepted' = accepted \cup {subMsg}
           /\ UNCHANGED <<rows, dlq, lost>>
  <2>1. Lost' = Lost /\ Settled' = Settled
    BY <1>3, <1>7 DEF Lost
  <2>2. accepted' \ Settled' = (accepted \ Settled) \cup {subMsg}
    BY <1>4, <1>7, <2>1
  <2>3. Contract!Accept(subMsg)
    BY <1>1, <1>2, <1>7, <2>1, <2>2 DEF Contract!Accept
  <2> QED BY <1>7, <2>3 DEF Contract!Next
<1> QED BY <1>6, <1>7, StepOutcome

\* The pipeline implements the delivery contract.
THEOREM PipelineKeepsContract == Spec => KeepsContract
<1>1. Init => Contract!Init
  <2> SUFFICES ASSUME Init
               PROVE  Contract!Init
    OBVIOUS
  <2>1. InFlight \ Settled = accepted \ Settled
    BY InitEstablishes, PendingIsUnsettled
  <2> QED BY <2>1 DEF Init, SubscriberInit, FlusherInit, Lost, Contract!Init
<1>2. PipelineInv /\ PipelineInv' /\ [Next]_vars => [Contract!Next]_(Contract!contractVars)
  BY StepKeepsContract
<1> QED BY <1>1, <1>2, PipelineInvariant, PTL DEF Spec, KeepsContract, Contract!Spec
-----------------------------------------------------------------------------
(* Flushes end. *)

\* Whatever the constants, only finitely many messages are ever in the WAL or
\* in the hands of a worker, so that they can be counted.
FiniteInv ==
  /\ IsFiniteSet(wal)
  /\ \A w \in Workers :
       IsFiniteSet(batch[w]) /\ IsFiniteSet(read[w]) /\ IsFiniteSet(todo[w])

\* The first k elements of a sequence are at most k.
LEMMA RangeFinite ==
  ASSUME NEW S, NEW s \in Seq(S)
  PROVE  IsFiniteSet(Range(s)) /\ Cardinality(Range(s)) <= Len(s)
<1>1. s \in Surjection(1..Len(s), Range(s))
  BY DEF Surjection, Range
<1>2. IsFiniteSet(1..Len(s)) /\ Cardinality(1..Len(s)) = Len(s)
  <2>1. Len(s) \in Int /\ Len(s) >= 0 /\ 1 \in Int
    OBVIOUS
  <2>2. /\ IsFiniteSet(1..Len(s))
        /\ Cardinality(1..Len(s)) = IF 1 > Len(s) THEN 0 ELSE Len(s) - 1 + 1
    BY <2>1, FS_Interval
  <2> QED BY <2>1, <2>2
<1>3. IsFiniteSet(Range(s)) /\ Cardinality(Range(s)) <= Cardinality(1..Len(s))
  BY <1>1, <1>2, FS_Surjection
<1> QED BY <1>2, <1>3

\* Dequeue(n) returns a finite number of messages, no more than it counts.
LEMMA FrontFinite ==
  ASSUME PipelineInv, NEW n \in BatchSizes
  PROVE  /\ n \in Nat /\ Taken(n) \in Nat /\ Taken(n) <= n
         /\ IsFiniteSet(Front(n)) /\ Cardinality(Front(n)) <= Taken(n)
<1>1. n \in Nat /\ ring \in Seq(Msgs)
  BY FlusherAssumption DEF PipelineInv, TypeOK, BuffersTypeOK
<1>2. Taken(n) \in 0..Len(ring) /\ Taken(n) <= n
  BY <1>1 DEF Taken
<1>3. SubSeq(ring, 1, Taken(n)) \in Seq(Msgs) /\ Len(SubSeq(ring, 1, Taken(n))) = Taken(n)
  BY <1>1, <1>2
<1>4. IsFiniteSet(Front(n)) /\ Cardinality(Front(n)) <= Len(SubSeq(ring, 1, Taken(n)))
  BY <1>3, RangeFinite DEF Front
<1> QED BY <1>1, <1>2, <1>3, <1>4

\* Every step keeps the WAL and the workers' hands finite.
LEMMA FiniteStep ==
  ASSUME PipelineInv, FiniteInv, [Next]_vars
  PROVE  FiniteInv'
<1> USE DEF FiniteInv
<1>0. FlusherTypeOK
  BY DEF PipelineInv, TypeOK
<1>1. CASE SubscriberStep /\ UNCHANGED flushVars
  <2>1. wal' = wal \/ wal' = wal \cup {subMsg}
    BY <1>1 DEF SubscriberStep, Handle, Receive, ReceiveBadTopic, handleParseFailure,
                InsertUnparseable, EnqueueRing, SpillToWAL, RingFull, SpillFails,
                Puback, PubackLost, bufVars
  <2>2. IsFiniteSet(wal')
    BY <2>1, FS_AddElement
  <2> QED BY <1>1, <2>2 DEF flushVars
<1>2. ASSUME NEW w \in Workers, WorkerStep(w), UNCHANGED subVars
      PROVE  FiniteInv'
  <2>1. ASSUME NEW n \in BatchSizes, PullRing(w, n)
        PROVE  FiniteInv'
    BY <1>0, <2>1, FrontFinite DEF PullRing, SetBatch, FlusherTypeOK
  <2>2. ASSUME NEW S \in SUBSET wal, DrainRead(w, S)
        PROVE  FiniteInv'
    <3>1. IsFiniteSet(S)
      BY FS_Subset
    <3> QED BY <1>0, <2>2, <3>1 DEF DrainRead, FlusherTypeOK, bufVars
  <2>3. CASE DrainDelete(w)
    <3>1. IsFiniteSet(batch[w] \cup read[w]) /\ IsFiniteSet(wal \ read[w])
      BY FS_Union, FS_Difference
    <3> QED BY <1>0, <2>3, <3>1, FS_EmptySet
            DEF DrainDelete, Undrained, SetBatch, FlusherTypeOK
  <2>4. CASE DrainError(w)
    BY <1>0, <2>4, FS_EmptySet DEF DrainError, FlusherTypeOK, bufVars
  <2>5. CASE CopyOK(w) \/ CancelBackoff(w)
    BY <1>0, <2>5, FS_EmptySet DEF CopyOK, CancelBackoff, SetBatch, FlusherTypeOK, bufVars
  <2>6. CASE CopyTransient(w) \/ CopyPoison(w)
    BY <1>0, <2>6 DEF CopyTransient, CopyPoison, AfterError, SetTodo, FlusherTypeOK, bufVars
  <2>7. CASE Retry(w) \/ Stop(w)
    BY <2>7 DEF Retry, Stop, bufVars
  <2>8. ASSUME NEW m \in Msgs, Requeue(w, m) \/ RequeueFails(w, m)
                                 \/ DeadLetter(w, m) \/ DeadLetterFails(w, m)
        PROVE  FiniteInv'
    <3>1. /\ IsFiniteSet(wal \cup {m}) /\ IsFiniteSet(todo[w] \ {m})
          /\ IsFiniteSet({}) /\ IsFiniteSet(batch[w])
      BY FS_AddElement, FS_RemoveElement, FS_EmptySet
    <3>2. wal' \in {wal, wal \cup {m}} /\ read' = read
      BY <2>8 DEF Requeue, RequeueFails, DeadLetter, DeadLetterFails, bufVars
    <3>3. \A v \in Workers : batch'[v] \in {batch[v], {}}
      BY <1>0, <2>8 DEF Requeue, RequeueFails, DeadLetter, DeadLetterFails,
                        FinishOne, SetBatch, FlusherTypeOK
    <3>4. /\ todo'[w] \in {todo[w] \ {m}, batch[w]}
          /\ \A v \in Workers \ {w} : todo'[v] = todo[v]
      BY <1>0, <2>8 DEF Requeue, RequeueFails, DeadLetter, DeadLetterFails,
                        FinishOne, FallThrough, SetTodo, FlusherTypeOK
    <3> QED BY <3>1, <3>2, <3>3, <3>4
  <2> QED BY <1>2, <2>1, <2>2, <2>3, <2>4, <2>5, <2>6, <2>7, <2>8 DEF WorkerStep
<1>3. CASE Sigterm \/ UNCHANGED vars
  BY <1>3 DEF Sigterm, vars, bufVars, flushVars
<1>4. CASE Exit \/ Crash
  BY <1>4, FS_EmptySet DEF Exit, Crash, MemoryLost
<1>5. CASE Restart
  BY <1>5 DEF Restart
<1>6. ASSUME NEW m \in Msgs, Expire(m)
      PROVE  FiniteInv'
  BY <1>6, FS_RemoveElement DEF Expire
<1> QED BY <1>1, <1>2, <1>3, <1>4, <1>5, <1>6 DEF Next

\* The sizes that StepsLeft counts with, before a step and after it.
Countable(w) ==
  /\ Cardinality(batch[w]) \in Nat /\ Cardinality(read[w]) \in Nat
  /\ Cardinality(todo[w]) \in Nat /\ room[w] \in Nat
  /\ MaxRetries \in Nat /\ attempt[w] \in 0..MaxRetries

LEMMA Counts ==
  ASSUME PipelineInv, FiniteInv, PipelineInv', FiniteInv', NEW w \in Workers
  PROVE  Countable(w) /\ Countable(w)'
BY FlusherAssumption, FS_CardinalityType
   DEF Countable, PipelineInv, FiniteInv, TypeOK, FlusherTypeOK

\* StepsLeft, label by label.
LEMMA StepsLeftIs ==
  ASSUME NEW w
  PROVE
    LET retries == 2 * (MaxRetries - attempt[w])
        held == Cardinality(batch[w])
    IN  /\ pc[w] = "drain" => StepsLeft(w) = retries + 3 + 2 * (held + room[w])
        /\ pc[w] = "delete" =>
             StepsLeft(w) = retries + 2 + 2 * (held + Cardinality(read[w]))
        /\ pc[w] = "copy" => StepsLeft(w) = retries + 1 + 2 * held
        /\ pc[w] = "backoff" => StepsLeft(w) = retries + 2 * held
        /\ pc[w] = "requeue" => StepsLeft(w) = held + Cardinality(todo[w])
        /\ pc[w] = "deadletter" => StepsLeft(w) = Cardinality(todo[w])
BY Zenon DEF StepsLeft

LEMMA StepsLeftWillBe ==
  ASSUME NEW w
  PROVE
    LET retries == 2 * (MaxRetries - attempt'[w])
        held == Cardinality(batch'[w])
    IN  /\ pc'[w] = "drain" => StepsLeft(w)' = retries + 3 + 2 * (held + room'[w])
        /\ pc'[w] = "delete" =>
             StepsLeft(w)' = retries + 2 + 2 * (held + Cardinality(read'[w]))
        /\ pc'[w] = "copy" => StepsLeft(w)' = retries + 1 + 2 * held
        /\ pc'[w] = "backoff" => StepsLeft(w)' = retries + 2 * held
        /\ pc'[w] = "requeue" => StepsLeft(w)' = held + Cardinality(todo'[w])
        /\ pc'[w] = "deadletter" => StepsLeft(w)' = Cardinality(todo'[w])
BY Zenon DEF StepsLeft

\* A flush begins with a bounded number of steps before it.
LEMMA PullAdvances ==
  ASSUME PipelineInv, FiniteInv, PipelineInv', FiniteInv',
         NEW w \in Workers, NEW n \in BatchSizes, PullRing(w, n)
  PROVE  Advances(w)
<1>1. /\ n \in Nat /\ Taken(n) \in Nat /\ Taken(n) <= n
      /\ Cardinality(Front(n)) <= Taken(n)
  BY FrontFinite
<1>2. Countable(w) /\ Countable(w)'
  BY Counts
<1>3. /\ pc[w] = "wait" /\ pc'[w] \in {"drain", "copy"}
      /\ batch'[w] = Front(n) /\ room'[w] = n - Taken(n) /\ attempt'[w] = 0
  BY DEF PullRing, Goto, SetBatch, PipelineInv, TypeOK, FlusherTypeOK
<1>4. StepsLeft(w)' >= 0 /\ StepsLeft(w)' <= 2 * MaxRetries + 3 + 2 * n
  BY <1>1, <1>2, <1>3, StepsLeftWillBe DEF Countable
<1> QED BY <1>3, <1>4 DEF Advances

\* A Drain ends, and so does a call that fails or a backoff.
LEMMA DrainAdvances ==
  ASSUME PipelineInv, FiniteInv, PipelineInv', FiniteInv', NEW w \in Workers,
         \/ \E S \in SUBSET wal : DrainRead(w, S)
         \/ DrainDelete(w) \/ DrainError(w)
  PROVE  Advances(w)
<1> DEFINE held == Cardinality(batch[w])
<1>0. FlusherTypeOK /\ IsFiniteSet(batch[w]) /\ IsFiniteSet(read[w]) /\ IsFiniteSet(wal)
  BY DEF PipelineInv, TypeOK, FiniteInv
<1>1. Countable(w) /\ Countable(w)'
  BY Counts
<1>2. ASSUME NEW S \in SUBSET wal, DrainRead(w, S)
      PROVE  Advances(w)
  <2>1. Cardinality(S) \in Nat /\ Cardinality(wal) \in Nat
    BY <1>0, FS_CardinalityType, FS_Subset
  <2>2. Cardinality(S) <= room[w]
    BY <1>1, <1>2, <2>1 DEF DrainRead, Countable
  <2>3. /\ pc[w] = "drain" /\ pc'[w] \in {"delete", "copy", "wait"}
        /\ pc'[w] = "delete" => read'[w] = S
        /\ batch'[w] = batch[w] /\ attempt'[w] = attempt[w]
    BY <1>0, <1>2 DEF DrainRead, AfterPull, Goto, FlusherTypeOK
  <2>4. pc'[w] # "wait" => StepsLeft(w)' >= 0 /\ StepsLeft(w)' < StepsLeft(w)
    BY <1>1, <2>1, <2>2, <2>3, StepsLeftIs, StepsLeftWillBe DEF Countable
  <2> QED BY <2>3, <2>4 DEF Advances
<1>3. CASE DrainDelete(w)
  <2>1. Cardinality(batch[w] \cup read[w]) <= held + Cardinality(read[w])
    <3>1. IsFiniteSet(batch[w] \cap read[w])
      BY <1>0, FS_Intersection
    <3>2. Cardinality(batch[w] \cap read[w]) \in Nat
      BY <3>1, FS_CardinalityType
    <3>3. Cardinality(batch[w] \cup read[w])
            = held + Cardinality(read[w]) - Cardinality(batch[w] \cap read[w])
      BY <1>0, FS_Union
    <3> QED BY <1>1, <3>2, <3>3 DEF Countable
  <2>2. /\ pc[w] = "delete" /\ pc'[w] = "copy"
        /\ batch'[w] = batch[w] \cup read[w] /\ attempt'[w] = attempt[w]
    BY <1>0, <1>3 DEF DrainDelete, SetBatch, Goto, FlusherTypeOK
  <2>3. /\ StepsLeft(w)' = 2 * (MaxRetries - attempt'[w]) + 1 + 2 * Cardinality(batch'[w])
        /\ StepsLeft(w) = 2 * (MaxRetries - attempt[w]) + 2 + 2 * (held + Cardinality(read[w]))
    BY <2>2, StepsLeftIs, StepsLeftWillBe
  <2>4. StepsLeft(w)' >= 0 /\ StepsLeft(w)' < StepsLeft(w)
    BY <1>1, <2>1, <2>2, <2>3 DEF Countable
  <2> QED BY <2>2, <2>4 DEF Advances
<1>4. CASE DrainError(w)
  <2>1. /\ pc[w] \in {"drain", "delete"} /\ pc'[w] \in {"copy", "wait"}
        /\ batch'[w] = batch[w] /\ attempt'[w] = attempt[w]
    BY <1>0, <1>4 DEF DrainError, AfterPull, Goto, FlusherTypeOK
  <2>2. pc'[w] = "copy" => StepsLeft(w)' >= 0 /\ StepsLeft(w)' < StepsLeft(w)
    BY <1>1, <2>1, StepsLeftIs, StepsLeftWillBe DEF Countable
  <2> QED BY <2>1, <2>2 DEF Advances
<1> QED BY <1>2, <1>3, <1>4

\* Each call and each backoff uses up a step, and the last retry leads out of
\* the retry loop.
LEMMA RetryAdvances ==
  ASSUME PipelineInv, FiniteInv, PipelineInv', FiniteInv', NEW w \in Workers,
         \/ CopyOK(w) \/ CopyTransient(w) \/ CopyPoison(w)
         \/ Retry(w) \/ CancelBackoff(w) \/ Stop(w)
  PROVE  Advances(w)
<1>0. FlusherTypeOK
  BY DEF PipelineInv, TypeOK
<1>1. Countable(w) /\ Countable(w)'
  BY Counts
<1>2. CASE CopyOK(w) \/ CancelBackoff(w) \/ Stop(w)
  <2>1. pc'[w] \in {"wait", "stopped"}
    BY <1>0, <1>2 DEF CopyOK, CancelBackoff, Stop, Goto, FlusherTypeOK
  <2> QED BY <2>1 DEF Advances
<1>3. CASE CopyTransient(w) \/ CopyPoison(w)
  <2>1. /\ pc[w] = "copy" /\ pc'[w] \in {"backoff", "requeue", "deadletter"}
        /\ pc'[w] # "backoff" => todo'[w] = batch[w]
        /\ batch'[w] = batch[w] /\ attempt'[w] = attempt[w]
    BY <1>0, <1>3 DEF CopyTransient, CopyPoison, AfterError, SetTodo, Goto, FlusherTypeOK
  <2>2. StepsLeft(w)' >= 0 /\ StepsLeft(w)' < StepsLeft(w)
    BY <1>1, <2>1, StepsLeftIs, StepsLeftWillBe DEF Countable
  <2> QED BY <2>1, <2>2 DEF Advances
<1>4. CASE Retry(w)
  <2>1. /\ pc[w] = "backoff" /\ pc'[w] = "copy"
        /\ batch'[w] = batch[w] /\ attempt'[w] = attempt[w] + 1
    BY <1>0, <1>4 DEF Retry, Goto, FlusherTypeOK
  <2>2. StepsLeft(w)' >= 0 /\ StepsLeft(w)' < StepsLeft(w)
    BY <1>1, <2>1, StepsLeftIs, StepsLeftWillBe DEF Countable
  <2> QED BY <2>1, <2>2 DEF Advances
<1> QED BY <1>2, <1>3, <1>4

\* The loops handle one message a step, and the requeue loop falls through to
\* the dead-letter loop at most once.
LEMMA LoopAdvances ==
  ASSUME PipelineInv, FiniteInv, PipelineInv', FiniteInv',
         NEW w \in Workers, NEW m \in Msgs,
         \/ Requeue(w, m) \/ RequeueFails(w, m)
         \/ DeadLetter(w, m) \/ DeadLetterFails(w, m)
  PROVE  Advances(w)
<1>0. FlusherTypeOK /\ IsFiniteSet(todo[w])
  BY DEF PipelineInv, TypeOK, FiniteInv
<1>1. Countable(w) /\ Countable(w)'
  BY Counts
<1>2. /\ m \in todo[w] => Cardinality(todo[w] \ {m}) = Cardinality(todo[w]) - 1
      /\ m \in todo[w] => Cardinality(todo[w]) >= 1
  <2>1. m \in todo[w] => Cardinality(todo[w] \ {m}) = Cardinality(todo[w]) - 1
    BY <1>0, FS_RemoveElement
  <2>2. m \in todo[w] => Cardinality(todo[w]) # 0
    BY <1>0, FS_EmptySet
  <2> QED BY <1>1, <2>1, <2>2 DEF Countable
<1>3. CASE Requeue(w, m) \/ DeadLetter(w, m) \/ DeadLetterFails(w, m)
  <2>1. /\ pc[w] \in {"requeue", "deadletter"} /\ m \in todo[w]
        /\ todo'[w] = todo[w] \ {m}
        /\ \/ pc'[w] = "wait"
           \/ pc'[w] = pc[w] /\ batch'[w] = batch[w]
    BY <1>0, <1>3 DEF Requeue, DeadLetter, DeadLetterFails, FinishOne, SetTodo,
                      Goto, FlusherTypeOK
  <2>2. Cardinality(todo'[w]) = Cardinality(todo[w]) - 1
    BY <1>2, <2>1
  <2>3. CASE pc[w] = "requeue" /\ pc'[w] = "requeue"
    <3>1. /\ StepsLeft(w)' = Cardinality(batch[w]) + Cardinality(todo'[w])
          /\ StepsLeft(w) = Cardinality(batch[w]) + Cardinality(todo[w])
      BY <2>1, <2>3, StepsLeftIs, StepsLeftWillBe
    <3>2. StepsLeft(w)' >= 0 /\ StepsLeft(w)' < StepsLeft(w)
      BY <1>1, <2>2, <3>1 DEF Countable
    <3> QED BY <2>3, <3>2 DEF Advances
  <2>4. CASE pc[w] = "deadletter" /\ pc'[w] = "deadletter"
    <3>1. StepsLeft(w)' = Cardinality(todo'[w]) /\ StepsLeft(w) = Cardinality(todo[w])
      BY <2>4, StepsLeftIs, StepsLeftWillBe
    <3>2. StepsLeft(w)' >= 0 /\ StepsLeft(w)' < StepsLeft(w)
      BY <1>1, <2>2, <3>1 DEF Countable
    <3> QED BY <2>4, <3>2 DEF Advances
  <2> QED BY <2>1, <2>3, <2>4 DEF Advances
<1>4. CASE RequeueFails(w, m)
  <2>1. /\ pc[w] = "requeue" /\ m \in todo[w] /\ pc'[w] = "deadletter"
        /\ todo'[w] = batch[w]
    BY <1>0, <1>4 DEF RequeueFails, FallThrough, SetTodo, Goto, FlusherTypeOK
  <2>2. StepsLeft(w)' >= 0 /\ StepsLeft(w)' < StepsLeft(w)
    BY <1>1, <1>2, <2>1, StepsLeftIs, StepsLeftWillBe DEF Countable
  <2> QED BY <2>1, <2>2 DEF Advances
<1> QED BY <1>3, <1>4

\* A worker advances with its own steps; the others' leave it where it is.
LEMMA StepAdvances ==
  ASSUME PipelineInv, FiniteInv, PipelineInv', FiniteInv', [Next]_vars,
         NEW w \in Workers
  PROVE  Advances(w)
<1>1. ASSUME WorkerStep(w)
      PROVE  Advances(w)
  BY <1>1, PullAdvances, DrainAdvances, RetryAdvances, LoopAdvances DEF WorkerStep
<1>2. ASSUME NEW v \in Workers, v # w, WorkerStep(v)
      PROVE  Advances(w)
  <2>1. pc'[w] = pc[w] /\ todo'[w] = todo[w]
    BY <1>2 DEF WorkerStep, PullRing, DrainRead, DrainDelete, DrainError, AfterPull,
                CopyOK, CopyTransient, CopyPoison, AfterError, Retry, CancelBackoff,
                Stop, Requeue, RequeueFails, DeadLetter, DeadLetterFails, FinishOne,
                FallThrough, Goto, SetTodo, PipelineInv, TypeOK, FlusherTypeOK
  <2> QED BY <2>1 DEF Advances
<1>3. CASE \/ UNCHANGED flushVars
           \/ Sigterm \/ UNCHANGED vars \/ \E m \in Msgs : Expire(m)
  <2>1. pc' = pc /\ todo' = todo
    BY <1>3 DEF Sigterm, Expire, vars, flushVars
  <2> QED BY <2>1 DEF Advances
<1>4. CASE Exit \/ Crash \/ Restart
  <2>1. pc'[w] \in {"wait", "stopped"}
    BY <1>4 DEF Exit, Crash, Restart, MemoryLost
  <2> QED BY <2>1 DEF Advances
<1> QED BY <1>1, <1>2, <1>3, <1>4 DEF Next

\* A flush ends: after it has pulled n messages or fewer a worker makes at most
\* 2 * MaxRetries + 3 + 2 * n steps before it is back at its timer, whatever
\* fails and whatever the others do.
THEOREM FlushAlwaysEnds == Spec => FlushEnds
<1>1. Init => FiniteInv
  BY FS_EmptySet DEF Init, BuffersInit, FlusherInit, FiniteInv
<1>2. PipelineInv /\ FiniteInv /\ [Next]_vars => FiniteInv'
  BY FiniteStep
<1>3. /\ PipelineInv /\ FiniteInv /\ PipelineInv' /\ FiniteInv' /\ [Next]_vars
      => [\A w \in Workers : Advances(w)]_vars
  BY StepAdvances
<1> QED BY <1>1, <1>2, <1>3, PipelineInvariant, PTL DEF Spec, FlushEnds
-----------------------------------------------------------------------------
(* A statement of the documents, and when it holds. *)

\* What the handler is about to acknowledge was accepted, as long as the WAL
\* takes what the ring refuses.
AckInv ==
  /\ subPc \in {"route", "spill"} => subPub \in Publishes /\ of[subMsg] = subPub
  /\ subPc = "return" /\ subPub \notin BadTopics =>
       \E m \in accepted : of[m] = subPub
  /\ RefusedNotAcked

\* Without failures of the WAL the handler's steps keep AckInv.
LEMMA AckStep ==
  ASSUME "wal" \notin Faults, PipelineInv, AckInv, [Next]_vars
  PROVE  AckInv'
<1> USE DEF AckInv, RefusedNotAcked
<1>0. /\ SubscriberTypeOK /\ OriginInv /\ ~SpillFails
  BY DEF PipelineInv, TypeOK, SpillFails, May
<1>1. CASE SubscriberStep
  <2>1. ASSUME NEW p \in Publishes, NEW m \in Msgs, Receive(p, m)
        PROVE  AckInv'
    <3>1. \A n \in accepted : of'[n] = of[n]
      BY <1>0, <2>1 DEF Receive, OriginInv, SubscriberTypeOK
    <3>2. \A q \in Publishes : broker'[q] = "acked" => broker[q] = "acked"
      BY <1>0, <2>1 DEF Receive, SubscriberTypeOK
    <3>3. subPc' = "route" /\ subPub' = p /\ of'[subMsg'] = p /\ accepted' = accepted
      BY <1>0, <2>1 DEF Receive, SubscriberTypeOK
    <3> QED BY <3>1, <3>2, <3>3
  <2>2. ASSUME NEW p \in Publishes, ReceiveBadTopic(p)
        PROVE  AckInv'
    BY <1>0, <2>2 DEF ReceiveBadTopic, SubscriberTypeOK
  <2>3. CASE handleParseFailure
    BY <1>0, <2>3 DEF handleParseFailure, OriginInv
  <2>4. CASE EnqueueRing \/ SpillToWAL
    <3>1. /\ accepted' = accepted \cup {subMsg} /\ of[subMsg] = subPub
          /\ subPc' = "return" /\ UNCHANGED <<of, subPub, broker>>
      BY <2>4 DEF EnqueueRing, SpillToWAL
    <3> QED BY <3>1
  <2>5. CASE RingFull
    BY <2>5 DEF RingFull
  <2>6. CASE Puback \/ PubackLost
    <3>1. \A q \in Publishes : broker'[q] = "acked" => broker[q] = "acked" \/ q = subPub
      BY <1>0, <2>6 DEF Puback, PubackLost, SubscriberTypeOK
    <3>2. subPc = "return" /\ subPc' = "idle" /\ UNCHANGED <<of, accepted>>
      BY <2>6 DEF Puback, PubackLost
    <3> QED BY <3>1, <3>2
  <2> QED BY <1>0, <1>1, <2>1, <2>2, <2>3, <2>4, <2>5, <2>6 DEF SubscriberStep, Handle
<1>2. CASE UNCHANGED subVars
  BY <1>2 DEF subVars
<1>3. CASE Exit \/ Crash
  <2>1. \A q \in Publishes : broker'[q] = "acked" => broker[q] = "acked"
    BY <1>0, <1>3 DEF Exit, Crash, MemoryLost, SubscriberTypeOK
  <2> QED BY <1>3, <2>1 DEF Exit, Crash, MemoryLost
<1> QED BY <1>1, <1>2, <1>3 DEF Next, Sigterm, Restart, Expire, vars, subVars

\* While the WAL works, what the subscriber's comment says is true: a message
\* that could not be enqueued is not acknowledged, crashes, shutdowns in the
\* middle of a handler and lost PUBACKs included.  It is the failing WAL alone that breaks it.
THEOREM AckedWhileWALWorks ==
  ASSUME "wal" \notin Faults
  PROVE  Spec => []RefusedNotAcked
<1>1. Init => AckInv
  BY DEF Init, SubscriberInit, AckInv, RefusedNotAcked
<1>2. PipelineInv /\ AckInv /\ [Next]_vars => AckInv'
  BY AckStep
<1> QED BY <1>1, <1>2, PipelineInvariant, PTL DEF Spec, AckInv
=============================================================================
