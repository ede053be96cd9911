--------------------------- MODULE OwnershipProofs ---------------------------
(***************************************************************************)
(* Who owns a message of the pipeline, for every set of messages and       *)
(* workers: it is in the ring, or in the WAL, or in the hands of one       *)
(* worker that may still flush or requeue it, and in no two of these.      *)
(*                                                                         *)
(* A batch in the dead-letter loop is owned no more: when a requeue failed *)
(* half way, its first messages are in the WAL as well.                    *)
(***************************************************************************)
EXTENDS PipelineProofs

\* What worker w may still flush or put back.
Owned(w) ==
  IF pc[w] = "requeue" THEN todo[w]
  ELSE IF pc[w] \in {"drain", "delete", "copy", "backoff"} THEN batch[w] ELSE {}

Exclusive ==
  /\ \A v, w \in Workers : v # w => Owned(v) \cap Owned(w) = {}
  /\ \A w \in Workers : Owned(w) \cap wal = {} /\ Owned(w) \cap Range(ring) = {}
  /\ Range(ring) \cap wal = {}

\* No message is twice in the ring.
Once(s) == \A i, j \in 1..Len(s) : s[i] = s[j] => i = j

\* Between Drain's two transactions a worker holds walMu, and what it has read
\* is still there.
DrainInv ==
  \A w \in Workers :
    /\ pc[w] = "delete" => walMu = w /\ read[w] \subseteq wal
    /\ pc[w] # "delete" => read[w] = {}

OwnershipInv == PipelineInv /\ Exclusive /\ Once(ring) /\ DrainInv

-----------------------------------------------------------------------------
(* The ring *)

\* A dequeue takes what the rest of the ring does not hold.
LEMMA SplitExclusive ==
  ASSUME NEW S, NEW s \in Seq(S), Once(s), NEW k \in 0..Len(s)
  PROVE  /\ Range(SubSeq(s, 1, k)) \cap Range(SubSeq(s, k + 1, Len(s))) = {}
         /\ Once(SubSeq(s, k + 1, Len(s)))
<1>1. /\ DOMAIN SubSeq(s, 1, k) = 1..k
      /\ \A i \in 1..k : SubSeq(s, 1, k)[i] = s[i]
  OBVIOUS
<1>2. /\ Len(SubSeq(s, k + 1, Len(s))) = Len(s) - k
      /\ DOMAIN SubSeq(s, k + 1, Len(s)) = 1..(Len(s) - k)
      /\ \A i \in 1..(Len(s) - k) : SubSeq(s, k + 1, Len(s))[i] = s[k + i]
  OBVIOUS
<1>3. \A i \in 1..(Len(s) - k) : k + i \in 1..Len(s)
  OBVIOUS
<1>4. ASSUME NEW i \in 1..k, NEW j \in 1..(Len(s) - k)
      PROVE  s[i] # s[k + j]
  <2>1. i \in 1..Len(s) /\ k + j \in 1..Len(s) /\ i # k + j
    BY <1>3
  <2> QED BY <2>1 DEF Once
<1>5. Range(SubSeq(s, 1, k)) \cap Range(SubSeq(s, k + 1, Len(s))) = {}
  <2>1. Range(SubSeq(s, 1, k)) = {s[i] : i \in 1..k}
    BY <1>1 DEF Range
  <2>2. Range(SubSeq(s, k + 1, Len(s))) = {s[k + j] : j \in 1..(Len(s) - k)}
    BY <1>2 DEF Range
  <2> HIDE DEF Range
  <2> QED BY <1>4, <2>1, <2>2
<1>6. ASSUME NEW i \in 1..(Len(s) - k), NEW j \in 1..(Len(s) - k), s[k + i] = s[k + j]
      PROVE  i = j
  <2>1. k + i = k + j
    BY <1>3, <1>6 DEF Once
  <2> QED BY <2>1
<1>7. Once(SubSeq(s, k + 1, Len(s)))
  BY <1>2, <1>6 DEF Once
<1> QED BY <1>5, <1>7

\* A message that the ring does not hold may be appended.
LEMMA AppendOnce ==
  ASSUME NEW S, NEW s \in Seq(S), Once(s), NEW x \in S, x \notin Range(s)
  PROVE  Once(Append(s, x))
<1>1. /\ Len(Append(s, x)) = Len(s) + 1
      /\ \A i \in 1..Len(s) : Append(s, x)[i] = s[i]
      /\ Append(s, x)[Len(s) + 1] = x
  OBVIOUS
<1>2. \A i \in 1..Len(s) : s[i] # x
  BY DEF Range
<1>3. \A i \in 1..(Len(s) + 1) : i = Len(s) + 1 \/ i \in 1..Len(s)
  OBVIOUS
<1> QED BY <1>1, <1>2, <1>3 DEF Once

-----------------------------------------------------------------------------
(* Moves *)

\* A step of one worker that only moves messages among the ring, the WAL and
\* its own hands has to keep these three apart.
LEMMA MoveKeeps ==
  ASSUME Exclusive, NEW w \in Workers,
         \A v \in Workers \ {w} : Owned(v)' = Owned(v),
         Owned(w)' \cup wal' \cup Range(ring') \subseteq Owned(w) \cup wal \cup Range(ring),
         Owned(w)' \cap wal' = {}, Owned(w)' \cap Range(ring') = {},
         Range(ring') \cap wal' = {}
  PROVE  Exclusive'
<1>1. \A v \in Workers \ {w} : Owned(v) \cap (Owned(w) \cup wal \cup Range(ring)) = {}
  BY DEF Exclusive
<1>2. ASSUME NEW u \in Workers, NEW v \in Workers, u # v
      PROVE  Owned(u)' \cap Owned(v)' = {}
  <2>1. CASE u = w
    BY <1>1, <1>2, <2>1
  <2>2. CASE v = w
    BY <1>1, <1>2, <2>2
  <2>3. CASE u # w /\ v # w
    BY <1>2, <2>3 DEF Exclusive
  <2> QED BY <2>1, <2>2, <2>3
<1>3. ASSUME NEW v \in Workers
      PROVE  Owned(v)' \cap wal' = {} /\ Owned(v)' \cap Range(ring') = {}
  BY <1>1
<1> QED BY <1>2, <1>3 DEF Exclusive

\* The other workers' hands are as they were.
LEMMA OthersKeep ==
  ASSUME TypeOK, NEW w \in Workers, NEW x, NEW y, NEW z,
         pc' \in {pc, [pc EXCEPT ![w] = x]},
         batch' \in {batch, [batch EXCEPT ![w] = y]},
         todo' \in {todo, [todo EXCEPT ![w] = z]}
  PROVE  \A v \in Workers \ {w} : Owned(v)' = Owned(v) /\ pc'[v] = pc[v]
<1>1. \A v \in Workers \ {w} : pc'[v] = pc[v] /\ batch'[v] = batch[v] /\ todo'[v] = todo[v]
  BY DEF TypeOK, FlusherTypeOK
<1> QED BY <1>1 DEF Owned

-----------------------------------------------------------------------------
(* The workers *)

\* The dequeue moves the front of the ring into empty hands.
LEMMA PullKeeps ==
  ASSUME OwnershipInv, NEW w \in Workers, NEW n \in BatchSizes, PullRing(w, n)
  PROVE  Exclusive' /\ Once(ring)' /\ DrainInv'
<1> USE DEF OwnershipInv, PipelineInv
<1>1. ring \in Seq(Msgs) /\ Taken(n) \in 0..Len(ring)
  BY FlusherAssumption DEF TypeOK, BuffersTypeOK, Taken
<1>2. /\ Front(n) \cup Range(Rest(n)) = Range(ring)
      /\ Front(n) \cap Range(Rest(n)) = {} /\ Once(Rest(n))
  BY <1>1, RangeSplit, SplitExclusive DEF Front, Rest
<1>3. ring' = Rest(n) /\ wal' = wal /\ read' = read /\ walMu' = walMu
  BY DEF PullRing
<1>4. Owned(w) = {} /\ Owned(w)' = Front(n)
  BY DEF PullRing, Goto, SetBatch, Owned, TypeOK, FlusherTypeOK
<1>5. \A v \in Workers \ {w} : Owned(v)' = Owned(v) /\ pc'[v] = pc[v]
  BY OthersKeep DEF PullRing, Goto, SetBatch
<1>6. Exclusive'
  BY <1>2, <1>3, <1>4, <1>5, MoveKeeps DEF Exclusive
<1>7. DrainInv'
  BY <1>3, <1>5 DEF DrainInv, PullRing, Goto, TypeOK, FlusherTypeOK
<1> QED BY <1>2, <1>3, <1>6, <1>7

\* Drain moves what it has read from the WAL into the batch, or nothing.
LEMMA DrainKeeps ==
  ASSUME OwnershipInv, NEW w \in Workers,
         (\E S \in SUBSET wal : DrainRead(w, S)) \/ DrainDelete(w) \/ DrainError(w)
  PROVE  Exclusive' /\ Once(ring)' /\ DrainInv'
<1> USE DEF OwnershipInv, PipelineInv
<1>1. ASSUME NEW S \in SUBSET wal, DrainRead(w, S)
      PROVE  Exclusive' /\ Once(ring)' /\ DrainInv'
  <2>1. UNCHANGED <<ring, wal, batch, todo>>
    BY <1>1 DEF DrainRead, bufVars
  <2>2. pc' \in {[pc EXCEPT ![w] = "delete"], [pc EXCEPT ![w] = "wait"],
                 [pc EXCEPT ![w] = "copy"]}
    BY <1>1 DEF DrainRead, AfterPull, Goto
  <2>3. \A v \in Workers \ {w} : Owned(v)' = Owned(v) /\ pc'[v] = pc[v]
    BY <2>1, <2>2, OthersKeep
  <2>4. Owned(w)' \subseteq Owned(w)
    BY <1>1, <2>1, <2>2 DEF Owned, DrainRead, TypeOK, FlusherTypeOK
  <2>5. Exclusive'
    BY <2>1, <2>3, <2>4, MoveKeeps DEF Exclusive
  <2>6. DrainInv'
    BY <1>1, <2>1, <2>3, FlusherAssumption
       DEF DrainInv, DrainRead, WALFree, AfterPull, Goto, TypeOK, FlusherTypeOK
  <2> QED BY <2>1, <2>5, <2>6
<1>2. CASE DrainDelete(w)
  <2>1. /\ ring' = ring /\ todo' = todo /\ wal' = wal \ read[w]
        /\ pc' = [pc EXCEPT ![w] = "copy"] /\ batch' = [batch EXCEPT ![w] = batch[w] \cup read[w]]
    BY <1>2 DEF DrainDelete, Undrained, SetBatch, Goto
  <2>2. \A v \in Workers \ {w} : Owned(v)' = Owned(v) /\ pc'[v] = pc[v]
    BY <2>1, OthersKeep
  <2>3. Owned(w) = batch[w] /\ Owned(w)' = batch[w] \cup read[w] /\ read[w] \subseteq wal
    BY <1>2, <2>1 DEF DrainDelete, Owned, DrainInv, TypeOK, FlusherTypeOK
  <2>4. Exclusive'
    BY <2>1, <2>2, <2>3, MoveKeeps DEF Exclusive
  <2>5. \A v \in Workers \ {w} : pc[v] # "delete"
    BY <1>2 DEF DrainDelete, DrainInv
  <2>6. DrainInv'
    BY <1>2, <2>1, <2>2, <2>5 DEF DrainInv, DrainDelete, TypeOK, FlusherTypeOK
  <2> QED BY <2>1, <2>4, <2>6
<1>3. CASE DrainError(w)
  <2>1. /\ UNCHANGED <<ring, wal, batch, todo>> /\ walMu' = NoWorker
        /\ read' = [read EXCEPT ![w] = {}]
        /\ pc' \in {[pc EXCEPT ![w] = "wait"], [pc EXCEPT ![w] = "copy"]}
    BY <1>3 DEF DrainError, AfterPull, Goto, bufVars
  <2>2. \A v \in Workers \ {w} : Owned(v)' = Owned(v) /\ pc'[v] = pc[v]
    BY <2>1, OthersKeep
  <2>3. Owned(w)' \subseteq Owned(w)
    BY <1>3, <2>1 DEF Owned, DrainError, TypeOK, FlusherTypeOK
  <2>4. Exclusive'
    BY <2>1, <2>2, <2>3, MoveKeeps DEF Exclusive
  <2>5. \A v \in Workers \ {w} : pc[v] # "delete"
    BY <1>3, FlusherAssumption DEF DrainError, WALFree, DrainInv
  <2>6. DrainInv'
    BY <2>1, <2>2, <2>5 DEF DrainInv, TypeOK, FlusherTypeOK
  <2> QED BY <2>1, <2>4, <2>6
<1> QED BY <1>1, <1>2, <1>3

\* flushWithRetry gives messages up or puts them back, one by one.
LEMMA FlushKeeps ==
  ASSUME OwnershipInv, NEW w \in Workers,
         \/ CopyOK(w) \/ CopyTransient(w) \/ CopyPoison(w)
         \/ Retry(w) \/ CancelBackoff(w) \/ Stop(w)
         \/ \E m \in Msgs : RequeueFails(w, m) \/ DeadLetter(w, m) \/ DeadLetterFails(w, m)
  PROVE  Exclusive' /\ Once(ring)' /\ DrainInv'
<1> USE DEF OwnershipInv, PipelineInv
<1>1. UNCHANGED <<ring, wal, read, walMu>>
  BY DEF CopyOK, CopyTransient, CopyPoison, Retry, CancelBackoff, Stop, RequeueFails,
         DeadLetter, DeadLetterFails, bufVars
<1>2. \A v \in Workers \ {w} : pc'[v] = pc[v] /\ batch'[v] = batch[v] /\ todo'[v] = todo[v]
  BY DEF CopyOK, CopyTransient, CopyPoison, AfterError, Retry, CancelBackoff, Stop,
         RequeueFails, FallThrough, DeadLetter, DeadLetterFails, FinishOne, Goto, SetBatch,
         SetTodo, TypeOK, FlusherTypeOK
<1>3. pc[w] # "delete" /\ pc'[w] # "delete"
  BY DEF CopyOK, CopyTransient, CopyPoison, AfterError, Retry, CancelBackoff, Stop,
         RequeueFails, DeadLetter, DeadLetterFails, FinishOne, Goto, TypeOK, FlusherTypeOK
<1>4. Owned(w)' \subseteq Owned(w)
  BY DEF CopyOK, CopyTransient, CopyPoison, AfterError, Retry, CancelBackoff, Stop,
         RequeueFails, FallThrough, DeadLetter, DeadLetterFails, FinishOne, Goto, SetBatch,
         SetTodo, Owned, TypeOK, FlusherTypeOK
<1>5. \A v \in Workers \ {w} : Owned(v)' = Owned(v)
  BY <1>2 DEF Owned
<1>6. Exclusive'
  BY <1>1, <1>4, <1>5, MoveKeeps DEF Exclusive
<1>7. DrainInv'
  BY <1>1, <1>2, <1>3 DEF DrainInv
<1> QED BY <1>1, <1>6, <1>7

\* A requeue moves one message from the worker's hands into the WAL.
LEMMA RequeueKeeps ==
  ASSUME OwnershipInv, NEW w \in Workers, NEW m \in Msgs, Requeue(w, m)
  PROVE  Exclusive' /\ Once(ring)' /\ DrainInv'
<1> USE DEF OwnershipInv, PipelineInv
<1>1. UNCHANGED <<ring, read, walMu>> /\ wal' = wal \cup {m}
  BY DEF Requeue
<1>2. \A v \in Workers \ {w} : pc'[v] = pc[v] /\ batch'[v] = batch[v] /\ todo'[v] = todo[v]
  BY DEF Requeue, FinishOne, Goto, SetBatch, SetTodo, TypeOK, FlusherTypeOK
<1>3. Owned(w) = todo[w] /\ m \in todo[w] /\ Owned(w)' \subseteq todo[w] \ {m}
  BY DEF Requeue, FinishOne, Goto, SetBatch, SetTodo, Owned, TypeOK, FlusherTypeOK
<1>4. \A v \in Workers \ {w} : Owned(v)' = Owned(v)
  BY <1>2 DEF Owned
<1>5. Exclusive'
  BY <1>1, <1>3, <1>4, MoveKeeps DEF Exclusive
<1>6. pc[w] # "delete" /\ pc'[w] # "delete"
  BY DEF Requeue, FinishOne, Goto, TypeOK, FlusherTypeOK
<1>7. DrainInv'
  BY <1>1, <1>2, <1>6 DEF DrainInv
<1> QED BY <1>1, <1>5, <1>7

-----------------------------------------------------------------------------
(* The subscriber and the process *)

\* The subscriber adds only messages that nobody has seen.
LEMMA SubscriberKeeps ==
  ASSUME OwnershipInv, SubscriberStep, UNCHANGED flushVars
  PROVE  Exclusive' /\ Once(ring)' /\ DrainInv'
<1> USE DEF OwnershipInv, PipelineInv
<1>1. \A w \in Workers : Owned(w)' = Owned(w)
  BY DEF flushVars, Owned
<1>2. \A w \in Workers : Owned(w) \subseteq accepted
  BY DEF HandsInv, Owned
<1>3. Range(ring) \subseteq accepted /\ wal \subseteq accepted /\ ring \in Seq(Msgs)
  BY DEF OriginInv, TypeOK, BuffersTypeOK
<1>4. wal \subseteq wal'
  BY DEF SubscriberStep, Receive, ReceiveBadTopic, Handle, handleParseFailure, EnqueueRing,
         RingFull, SpillToWAL, SpillFails, Puback, PubackLost, bufVars
<1>5. DrainInv'
  BY <1>4 DEF DrainInv, flushVars
<1>6. CASE EnqueueRing
  <2>1. subMsg \in Msgs /\ subMsg \notin accepted /\ ring' = Append(ring, subMsg) /\ wal' = wal
    BY <1>6 DEF EnqueueRing, OriginInv
  <2>2. Range(ring') = Range(ring) \cup {subMsg}
    BY <1>3, <2>1, RangeAppend
  <2>3. Once(ring')
    BY <1>3, <2>1, AppendOnce
  <2>4. Exclusive'
    BY <1>1, <1>2, <1>3, <2>1, <2>2 DEF Exclusive
  <2> QED BY <1>5, <2>3, <2>4
<1>7. CASE SpillToWAL
  <2>1. subMsg \notin accepted /\ ring' = ring /\ wal' = wal \cup {subMsg}
    BY <1>7 DEF SpillToWAL, OriginInv
  <2>2. Exclusive'
    BY <1>1, <1>2, <1>3, <2>1 DEF Exclusive
  <2> QED BY <1>5, <2>1, <2>2
<1>8. CASE ~EnqueueRing /\ ~SpillToWAL
  <2>1. ring' = ring /\ wal' = wal
    BY <1>8 DEF SubscriberStep, Receive, ReceiveBadTopic, Handle, handleParseFailure,
                RingFull, SpillFails, Puback, PubackLost, bufVars
  <2> QED BY <1>1, <1>5, <2>1 DEF Exclusive
<1> QED BY <1>6, <1>7, <1>8

\* A process that ends forgets its hands and the ring; one that starts has
\* empty ones; an entry that expires is in nobody's.
LEMMA ProcessKeeps ==
  ASSUME OwnershipInv, Sigterm \/ Exit \/ Crash \/ Restart \/ \E m \in Msgs : Expire(m)
  PROVE  Exclusive' /\ Once(ring)' /\ DrainInv'
<1> USE DEF OwnershipInv, PipelineInv
<1>1. CASE Sigterm
  BY <1>1 DEF Sigterm, flushVars, Exclusive, Owned, DrainInv
<1>2. CASE Exit \/ Crash
  <2>1. /\ ring' = << >> /\ wal' = wal
        /\ \A w \in Workers : pc'[w] = "stopped" /\ read'[w] = {}
    BY <1>2 DEF Exit, Crash, MemoryLost
  <2>2. \A w \in Workers : Owned(w)' = {}
    BY <2>1 DEF Owned
  <2>3. Range(ring') = {} /\ Once(ring')
    BY <2>1 DEF Range, Once
  <2> QED BY <2>1, <2>2, <2>3 DEF Exclusive, DrainInv
<1>3. CASE Restart
  <2>1. UNCHANGED <<ring, wal, read>> /\ \A w \in Workers : pc'[w] = "wait"
    BY <1>3 DEF Restart
  <2>2. \A w \in Workers : read[w] = {}
    BY <1>3 DEF Restart, HandsInv, DrainInv
  <2>3. \A w \in Workers : Owned(w)' = {}
    BY <2>1 DEF Owned
  <2> QED BY <2>1, <2>2, <2>3 DEF Exclusive, DrainInv
<1>4. ASSUME NEW m \in Msgs, Expire(m)
      PROVE  Exclusive' /\ Once(ring)' /\ DrainInv'
  <2>1. /\ UNCHANGED <<ring, pc, batch, todo, read, walMu>> /\ wal' = wal \ {m}
        /\ \A w \in Workers : m \notin read[w]
    BY <1>4 DEF Expire
  <2>2. \A w \in Workers : Owned(w)' = Owned(w)
    BY <2>1 DEF Owned
  <2> QED BY <2>1, <2>2 DEF Exclusive, DrainInv
<1> QED BY <1>1, <1>2, <1>3, <1>4

-----------------------------------------------------------------------------
(* The theorems *)

\* Every step of the pipeline keeps ownership exclusive.
LEMMA OwnershipStep ==
  ASSUME OwnershipInv, [Next]_vars
  PROVE  OwnershipInv'
<1>1. PipelineInv'
  BY NextPreserves DEF OwnershipInv
<1>2. SUFFICES Exclusive' /\ Once(ring)' /\ DrainInv'
  BY <1>1 DEF OwnershipInv
<1>3. ASSUME NEW w \in Workers, WorkerStep(w)
      PROVE  Exclusive' /\ Once(ring)' /\ DrainInv'
  BY <1>3, PullKeeps, DrainKeeps, FlushKeeps, RequeueKeeps DEF WorkerStep
<1>4. CASE UNCHANGED vars
  <2>1. UNCHANGED <<ring, wal, pc, batch, todo, read, walMu>>
    BY <1>4 DEF vars, bufVars, flushVars
  <2>2. \A w \in Workers : Owned(w)' = Owned(w)
    BY <2>1 DEF Owned
  <2>3. Exclusive'
    BY <2>1, <2>2 DEF OwnershipInv, Exclusive
  <2>4. DrainInv' /\ Once(ring)'
    BY <2>1 DEF OwnershipInv, DrainInv
  <2> QED BY <2>3, <2>4
<1>5. CASE SubscriberStep /\ UNCHANGED flushVars
  BY <1>5, SubscriberKeeps
<1>6. CASE Sigterm \/ Exit \/ Crash \/ Restart \/ \E m \in Msgs : Expire(m)
  BY <1>6, ProcessKeeps
<1> QED BY <1>3, <1>4, <1>5, <1>6 DEF Next

\* Ownership is exclusive in every behaviour of the pipeline.
THEOREM OwnershipInvariant == Spec => []OwnershipInv
<1>1. ASSUME Init PROVE OwnershipInv
  <2>1. PipelineInv
    BY <1>1, InitEstablishes
  <2>2. \A w \in Workers : Owned(w) = {} /\ read[w] = {} /\ pc[w] = "wait"
    BY <1>1 DEF Init, FlusherInit, Owned
  <2>3. ring = << >> /\ wal = {}
    BY <1>1 DEF Init, BuffersInit
  <2>4. Range(ring) = {} /\ Once(ring)
    BY <2>3 DEF Range, Once
  <2> QED BY <2>1, <2>2, <2>3, <2>4 DEF OwnershipInv, Exclusive, DrainInv
<1>2. OwnershipInv /\ [Next]_vars => OwnershipInv'
  BY OwnershipStep
<1> QED BY <1>1, <1>2, PTL DEF Spec

\* For any number of workers, no two of them ever flush the same message at
\* the same time: walMu and the ring's lock are enough.
THEOREM NeverFlushedTwiceAtOnce == Spec => []NoDoubleFlush
<1>1. ASSUME OwnershipInv PROVE NoDoubleFlush
  <2>1. \A w \in Workers : Flushing(w) \subseteq Owned(w)
    BY DEF Flushing, Owned
  <2> QED BY <1>1, <2>1 DEF OwnershipInv, Exclusive, NoDoubleFlush
<1> QED BY <1>1, OwnershipInvariant, PTL

\* A message that is about to be appended to the WAL never has an entry yet.
THEOREM NeverTwiceInWAL == Spec => []OneLiveEntry
<1>1. ASSUME OwnershipInv PROVE OneLiveEntry
  <2>1. subPc = "spill" => subMsg \notin wal
    BY <1>1 DEF OwnershipInv, PipelineInv, OriginInv
  <2>2. \A w \in Workers : pc[w] = "requeue" => todo[w] \cap wal = {}
    BY <1>1 DEF OwnershipInv, Exclusive, Owned
  <2> QED BY <2>1, <2>2 DEF OneLiveEntry
<1> QED BY <1>1, OwnershipInvariant, PTL
=============================================================================
