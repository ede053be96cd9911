-------------------------------- MODULE Ring --------------------------------
(***************************************************************************)
(* internal/buffer: the bounded ring between the MQTT subscriber and the   *)
(* flusher workers.  State changes happen under Ring.mu, one action each;  *)
(* the Prometheus counters and gauges are written after the unlock from    *)
(* values captured inside, so each of those writes is an action of its own *)
(* and the writes of several threads interleave.                           *)
(***************************************************************************)
EXTENDS Integers, Sequences, Functions

CONSTANTS Messages,      \* postgres.Message values
          messageSize,   \* [Messages -> Nat], the bytes charged for each
          NoMessage,     \* the zero Message of a free slot
          Producers,     \* threads that call Enqueue
          Consumers,     \* threads that call Dequeue
          MaxMessages, MaxBytes,
          SpillPercent, PausePercent, \* the thresholds, in percent
          MaxBatch,      \* largest n a consumer passes to Dequeue
          MaxCalls       \* bound: Enqueue calls that have counted themselves

Threads == Producers \cup Consumers

ASSUME RingAssumption ==
  /\ MaxMessages \in Nat \ {0}
  /\ MaxBytes \in Nat \ {0}
  /\ MaxBatch \in Nat
  /\ SpillPercent \in 1..99 /\ PausePercent \in 1..99
  /\ SpillPercent < PausePercent
  /\ messageSize \in [Messages -> Nat]
  /\ NoMessage \notin Messages
  /\ Producers \cap Consumers = {}

VARIABLES slots,    \* Ring.slots
          head,     \* Ring.head
          size,     \* Ring.size
          bytes,    \* Ring.bytes
          pc,       \* per thread: which write after the unlock comes next
          captured, \* per thread: the values captured under the lock
          ret,      \* per producer: the State that Enqueue returned
          out,      \* per consumer: the slice that Dequeue returned
          metrics   \* the exported counters and gauges

ringVars == <<slots, head, size, bytes>>
vars == <<slots, head, size, bytes, pc, captured, ret, out, metrics>>

-----------------------------------------------------------------------------
States == {"normal", "spill", "pause"}

\* New precomputes the thresholds, truncating.
spillCount == (MaxMessages * SpillPercent) \div 100
pauseCount == (MaxMessages * PausePercent) \div 100
spillBytes == (MaxBytes * SpillPercent) \div 100
pauseBytes == (MaxBytes * PausePercent) \div 100

\* stateLocked for a given fill level.
stateLocked(sz, b) ==
  IF sz >= pauseCount \/ b >= pauseBytes THEN "pause"
  ELSE IF sz >= spillCount \/ b >= spillBytes THEN "spill"
  ELSE "normal"

\* Mutant of SlotAt: positions counted from slot 0 instead of from head.
SlotAtFromZero(i) == i % MaxMessages

\* The slot that holds the i-th oldest message, counting from 0.
SlotAt(i) == (head + i) % MaxMessages

\* The held messages, oldest first.
Contents == [i \in 1..size |-> slots[SlotAt(i - 1)]]

SumSizes(S) == SumFunction([j \in S |-> messageSize[slots[j]]])

\* Mutant of Freed: the loop stops one message early.
FreedButLast(k) == {SlotAt(i) : i \in 0..(k - 2)}

\* The slots that a Dequeue of k messages visits.
Freed(k) == {SlotAt(i) : i \in 0..(k - 1)}

\* Mutants of HasRoom: an off-by-one on the slots, and no byte cap.
HasRoomOffByOne(m) == size <= MaxMessages /\ bytes + messageSize[m] <= MaxBytes
HasRoomCountOnly(m) == size < MaxMessages

\* Enqueue's test of both caps.
HasRoom(m) == size < MaxMessages /\ bytes + messageSize[m] <= MaxBytes

Zero == [enqueued |-> 0, dequeued |-> 0, depth |-> 0, bytes |-> 0]

Init ==
  /\ slots = [j \in 0..(MaxMessages - 1) |-> NoMessage]
  /\ head = 0 /\ size = 0 /\ bytes = 0
  /\ pc = [t \in Threads |-> "idle"]
  /\ captured = [t \in Threads |-> Zero]
  /\ ret = [t \in Producers |-> "normal"]
  /\ out = [t \in Consumers |-> << >>]
  /\ metrics = [enqueued |-> 0, dequeued |-> 0, rejected |-> 0,
                depth |-> 0, bytes |-> 0]

-----------------------------------------------------------------------------
\* The critical section of Enqueue, message accepted.
Enqueue(t, m) ==
  /\ pc[t] = "idle"
  /\ metrics.enqueued + metrics.rejected < MaxCalls
  /\ HasRoom(m)
  /\ slots' = [slots EXCEPT ![SlotAt(size)] = m]
  /\ size' = size + 1
  /\ bytes' = bytes + messageSize[m]
  /\ ret' = [ret EXCEPT ![t] = stateLocked(size', bytes')]
  /\ captured' = [captured EXCEPT ![t] = [enqueued |-> 1, dequeued |-> 0,
                                          depth |-> size', bytes |-> bytes']]
  /\ pc' = [pc EXCEPT ![t] = "count"]
  /\ UNCHANGED <<head, out, metrics>>

\* Enqueue refuses: no slot, or the message would exceed the byte cap.
Refuse(t, m) ==
  /\ pc[t] = "idle"
  /\ metrics.enqueued + metrics.rejected < MaxCalls
  /\ ~HasRoom(m)
  /\ ret' = [ret EXCEPT ![t] = "pause"]
  /\ pc' = [pc EXCEPT ![t] = "reject"]
  /\ UNCHANGED <<ringVars, captured, out, metrics>>

\* Rejected.Inc, after the unlock.
CountRejected(t) ==
  /\ pc[t] = "reject"
  /\ metrics' = [metrics EXCEPT !.rejected = @ + 1]
  /\ pc' = [pc EXCEPT ![t] = "idle"]
  /\ UNCHANGED <<ringVars, captured, ret, out>>

\* Dequeue with nothing asked for, or on an empty ring, returns nil.
DequeueNil(t, n) ==
  /\ pc[t] = "idle"
  /\ n <= 0 \/ size = 0
  /\ out' = [out EXCEPT ![t] = << >>]
  /\ UNCHANGED <<ringVars, pc, captured, ret, metrics>>

\* The critical section of Dequeue: copy, free and zero the k oldest slots.
Dequeue(t, n) ==
  LET k == IF n > size THEN size ELSE n
  IN  /\ pc[t] = "idle"
      /\ n > 0 /\ size # 0
      /\ out' = [out EXCEPT ![t] = [i \in 1..k |-> slots[SlotAt(i - 1)]]]
      /\ slots' = [j \in 0..(MaxMessages - 1) |->
                     IF j \in Freed(k) THEN NoMessage ELSE slots[j]]
      /\ head' = SlotAt(k)
      /\ size' = size - k
      /\ bytes' = bytes - SumSizes(Freed(k))
      /\ captured' = [captured EXCEPT ![t] = [enqueued |-> 0, dequeued |-> k,
                                              depth |-> size', bytes |-> bytes']]
      /\ pc' = [pc EXCEPT ![t] = "count"]
      /\ UNCHANGED <<ret, metrics>>

\* Mutant of Count: the dequeued counter counts calls, not messages.
CountCalls(t) ==
  /\ pc[t] = "count"
  /\ metrics' = [metrics EXCEPT !.enqueued = @ + captured[t].enqueued,
                                !.dequeued = @ + (1 - captured[t].enqueued)]
  /\ pc' = [pc EXCEPT ![t] = "depth"]
  /\ UNCHANGED <<ringVars, captured, ret, out>>

\* Enqueued.Inc or Dequeued.Add, then Depth.Set, then Bytes.Set.
Count(t) ==
  /\ pc[t] = "count"
  /\ metrics' = [metrics EXCEPT !.enqueued = @ + captured[t].enqueued,
                                !.dequeued = @ + captured[t].dequeued]
  /\ pc' = [pc EXCEPT ![t] = "depth"]
  /\ UNCHANGED <<ringVars, captured, ret, out>>

SetDepth(t) ==
  /\ pc[t] = "depth"
  /\ metrics' = [metrics EXCEPT !.depth = captured[t].depth]
  /\ pc' = [pc EXCEPT ![t] = "bytes"]
  /\ UNCHANGED <<ringVars, captured, ret, out>>

SetBytes(t) ==
  /\ pc[t] = "bytes"
  /\ metrics' = [metrics EXCEPT !.bytes = captured[t].bytes]
  /\ pc' = [pc EXCEPT ![t] = "idle"]
  /\ captured' = [captured EXCEPT ![t] = Zero]
  /\ UNCHANGED <<ringVars, ret, out>>

Next ==
  \/ \E t \in Producers :
       \/ \E m \in Messages : Enqueue(t, m) \/ Refuse(t, m)
       \/ CountRejected(t)
  \/ \E t \in Consumers, n \in 0..MaxBatch : DequeueNil(t, n) \/ Dequeue(t, n)
  \/ \E t \in Threads : Count(t) \/ SetDepth(t) \/ SetBytes(t)

Spec == Init /\ [][Next]_vars

-----------------------------------------------------------------------------
\* The ring itself: indices stay inside it whatever the batch sizes, and what
\* Dequeue hands out are messages, never zeroed slots.
RingTypeOK ==
  /\ slots \in [0..(MaxMessages - 1) -> Messages \cup {NoMessage}]
  /\ head \in 0..(MaxMessages - 1)
  /\ size \in 0..MaxMessages
  /\ out \in [Consumers -> Seq(Messages)]

\* Every variable has its type.
TypeOK ==
  /\ RingTypeOK
  /\ bytes \in Int
  /\ pc \in [Threads -> {"idle", "count", "reject", "depth", "bytes"}]
  /\ captured \in [Threads -> [enqueued : 0..1, dequeued : 0..MaxMessages,
                               depth : 0..MaxMessages, bytes : Nat]]
  /\ ret \in [Producers -> States]
  /\ metrics \in [enqueued : Nat, dequeued : Nat, rejected : Nat,
                  depth : 0..MaxMessages, bytes : Nat]

\* The slots between head and tail hold messages and every other slot is
\* zeroed: Dequeue leaves no payload pinned by the ring and Enqueue never
\* overwrites a message that was not delivered yet.
FreeSlotsZeroed ==
  \A j \in 0..(MaxMessages - 1) :
    slots[j] # NoMessage <=> \E i \in 0..(size - 1) : j = SlotAt(i)

\* The incremental byte total is exactly the size of what is held, whatever
\* the order of enqueues and wrapped dequeues, and it never exceeds MaxBytes.
BytesExact ==
  /\ bytes = SumSizes({SlotAt(i) : i \in 0..(size - 1)})
  /\ bytes <= MaxBytes

\* What the threads between the unlock and the counters still owe these.
Owing == {t \in Threads : pc[t] = "count"}
Owed == SumFunction([t \in Owing |-> captured[t].enqueued - captured[t].dequeued])

\* The counters, once the increments threads still owe are added, account for
\* every message: enqueued - dequeued is what the ring holds.
CountersBalance ==
  (metrics.enqueued - metrics.dequeued) + Owed = size

FIFO == INSTANCE BoundedFIFO WITH queue <- Contents, Capacity <- MaxMessages

\* The ring implements the bounded FIFO: wrap-around, partial dequeues and the
\* interleaving of threads never lose, duplicate or reorder a message.
RefinesFIFO == FIFO!Spec
=============================================================================
