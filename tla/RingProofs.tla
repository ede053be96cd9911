----------------------------- MODULE RingProofs -----------------------------
(***************************************************************************)
(* Proofs about the ring for every capacity, message set and number of     *)
(* threads: the index arithmetic keeps exactly the undelivered messages in *)
(* the ring, and the ring implements BoundedFIFO.                          *)
(***************************************************************************)
EXTENDS Ring, SequenceTheorems, FoldProofs

-----------------------------------------------------------------------------
(* Arithmetic of wrapped indices. *)

\* An index below the capacity is not changed by the modulus of buffer.go.
LEMMA ModBelow ==
  ASSUME NEW M \in Nat \ {0}, NEW x \in 0..(M - 1)
  PROVE  x % M = x
OBVIOUS

\* An index less than one turn past the end wraps by exactly one capacity.
LEMMA ModWrap ==
  ASSUME NEW M \in Nat \ {0}, NEW x \in M..(2 * M - 1)
  PROVE  x % M = x - M
OBVIOUS

\* The modulus resolved for an offset of at most one turn.
LEMMA WrapValue ==
  ASSUME NEW M \in Nat \ {0}, NEW h \in 0..(M - 1), NEW i \in 0..M
  PROVE  (h + i) % M = IF h + i < M THEN h + i ELSE h + i - M
<1>1. CASE h + i < M
  <2>1. h + i \in 0..(M - 1)
    BY <1>1
  <2> QED BY <1>1, <2>1, ModBelow
<1>2. CASE ~(h + i < M)
  <2>1. h + i \in M..(2 * M - 1)
    BY <1>2
  <2> QED BY <1>2, <2>1, ModWrap
<1> QED BY <1>1, <1>2

\* The position of the i-th oldest message.
LEMMA SlotAtValue ==
  ASSUME head \in 0..(MaxMessages - 1), NEW i \in 0..MaxMessages
  PROVE  SlotAt(i) = IF head + i < MaxMessages THEN head + i
                                               ELSE head + i - MaxMessages
BY WrapValue, RingAssumption DEF SlotAt

-----------------------------------------------------------------------------
(* The inductive invariant. *)

RingInv == RingTypeOK /\ FreeSlotsZeroed

\* Held positions carry messages, and no two of them share a slot.
LEMMA HeldSlots ==
  ASSUME RingInv
  PROVE  /\ \A i \in 0..(size - 1) :
              SlotAt(i) \in 0..(MaxMessages - 1) /\ slots[SlotAt(i)] \in Messages
         /\ \A i, j \in 0..(MaxMessages - 1) : SlotAt(i) = SlotAt(j) => i = j
<1> USE RingAssumption DEF RingInv, RingTypeOK
<1>1. \A i \in 0..MaxMessages : SlotAt(i) \in 0..(MaxMessages - 1)
  BY SlotAtValue
<1>2. ASSUME NEW i \in 0..(size - 1)
      PROVE  slots[SlotAt(i)] \in Messages
  <2>1. SlotAt(i) \in 0..(MaxMessages - 1)
    BY <1>1
  <2>2. slots[SlotAt(i)] # NoMessage
    BY <2>1 DEF FreeSlotsZeroed
  <2> QED BY <2>1, <2>2
<1>3. ASSUME NEW i \in 0..(MaxMessages - 1), NEW j \in 0..(MaxMessages - 1),
             SlotAt(i) = SlotAt(j)
      PROVE  i = j
  BY <1>3, SlotAtValue
<1> QED BY <1>1, <1>2, <1>3

\* An accepted Enqueue writes the first free slot: what was held stays held.
LEMMA EnqueuePreserves ==
  ASSUME RingInv, NEW t \in Producers, NEW m \in Messages, Enqueue(t, m)
  PROVE  RingInv'
<1> USE RingAssumption DEF RingInv
<1>1. /\ SlotAt(size) \in 0..(MaxMessages - 1)
      /\ \A i \in 0..size : SlotAt(i)' = SlotAt(i)
  BY SlotAtValue DEF Enqueue, HasRoom, RingTypeOK, SlotAt
<1>2. RingTypeOK'
  BY <1>1 DEF Enqueue, HasRoom, RingTypeOK
<1>3. ASSUME NEW j \in 0..(MaxMessages - 1)
      PROVE  (slots[j] # NoMessage <=> \E i \in 0..(size - 1) : j = SlotAt(i))'
  <2>1. size' = size + 1 /\ slots'[j] = IF j = SlotAt(size) THEN m ELSE slots[j]
    BY DEF Enqueue, RingTypeOK
  <2>2. CASE j = SlotAt(size)
    <3>1. size \in 0..(size' - 1) /\ j = (head' + size) % MaxMessages
      BY <2>1, <2>2 DEF RingTypeOK, SlotAt, Enqueue
    <3>2. slots'[j] # NoMessage
      BY <2>1, <2>2
    <3> QED BY <3>1, <3>2 DEF SlotAt
  <2>3. CASE j # SlotAt(size)
    <3>1. slots'[j] = slots[j]
      BY <2>1, <2>3
    <3>2. (\E i \in 0..(size' - 1) : j = SlotAt(i)') <=> \E i \in 0..(size - 1) : j = SlotAt(i)
      BY <1>1, <2>1, <2>3 DEF RingTypeOK
    <3> QED BY <3>1, <3>2 DEF FreeSlotsZeroed
  <2> QED BY <2>2, <2>3
<1> QED BY <1>2, <1>3 DEF FreeSlotsZeroed

\* After head moved past k messages, offsets from the new head are offsets
\* from the old one shifted by k.
LEMMA DequeueShift ==
  ASSUME head \in 0..(MaxMessages - 1), size \in 0..MaxMessages,
         NEW k \in 1..size, head' = SlotAt(k), NEW i \in 0..(size - k)
  PROVE  (head' + i) % MaxMessages = SlotAt(k + i)
<1> USE RingAssumption
<1>1. head' \in 0..(MaxMessages - 1)
  BY SlotAtValue
<1>2. i \in 0..MaxMessages /\ k + i \in 0..MaxMessages /\ k \in 0..MaxMessages
  OBVIOUS
<1>3. (head' + i) % MaxMessages =
         IF head' + i < MaxMessages THEN head' + i ELSE head' + i - MaxMessages
  BY <1>1, <1>2, WrapValue
<1> QED BY <1>1, <1>2, <1>3, SlotAtValue

\* Dequeue zeroes exactly the slots it copied and moves head past them.
LEMMA DequeuePreserves ==
  ASSUME RingInv, NEW t \in Consumers, NEW n \in Nat, Dequeue(t, n)
  PROVE  RingInv'
<1> DEFINE k == IF n > size THEN size ELSE n
           freed == {SlotAt(i) : i \in 0..(k - 1)}
<1> USE RingAssumption
<1>0. k \in 1..size /\ head \in 0..(MaxMessages - 1) /\ size \in 0..MaxMessages
  BY DEF Dequeue, RingInv, RingTypeOK
<1>1. /\ head' = SlotAt(k) /\ size' = size - k
      /\ slots' = [j \in 0..(MaxMessages - 1) |->
                     IF j \in freed THEN NoMessage ELSE slots[j]]
      /\ out' = [out EXCEPT ![t] = [i \in 1..k |-> slots[SlotAt(i - 1)]]]
  BY DEF Dequeue, Freed
<1> HIDE DEF k, freed
<1>2. head' \in 0..(MaxMessages - 1)
  BY <1>0, <1>1, SlotAtValue
<1>3. \A i \in 0..(size - k) : (head' + i) % MaxMessages = SlotAt(k + i)
  BY <1>0, <1>1, DequeueShift
<1>4. RingTypeOK'
  <2>1. [i \in 1..k |-> slots[SlotAt(i - 1)]] \in Seq(Messages)
    BY <1>0, HeldSlots
  <2> QED BY <1>0, <1>1, <1>2, <2>1 DEF RingInv, RingTypeOK
<1>5. ASSUME NEW j \in 0..(MaxMessages - 1)
      PROVE  (slots[j] # NoMessage <=> \E i \in 0..(size - 1) : j = SlotAt(i))'
  <2> DEFINE held(i) == j = (head' + i) % MaxMessages
  <2>1. (\E i \in 0..(size' - 1) : held(i)) <=> \E i \in k..(size - 1) : j = SlotAt(i)
    <3>1. ASSUME NEW i \in 0..(size' - 1), held(i)
          PROVE  \E l \in k..(size - 1) : j = SlotAt(l)
      <4>1. k + i \in k..(size - 1) /\ i \in 0..(size - k)
        BY <1>0, <1>1
      <4> QED BY <1>3, <3>1, <4>1
    <3>2. ASSUME NEW l \in k..(size - 1), j = SlotAt(l)
          PROVE  \E i \in 0..(size' - 1) : held(i)
      <4>1. l - k \in 0..(size' - 1) /\ k + (l - k) = l /\ l - k \in 0..(size - k)
        BY <1>0, <1>1
      <4>2. held(l - k)
        BY <1>3, <3>2, <4>1
      <4> QED BY <4>1, <4>2
    <3> QED BY <3>1, <3>2
  <2>2. j \in freed <=> \E i \in 0..(k - 1) : j = SlotAt(i)
    BY DEF freed
  <2>3. (\E i \in k..(size - 1) : j = SlotAt(i)) <=>
          (\E i \in 0..(size - 1) : j = SlotAt(i)) /\ j \notin freed
    BY <1>0, <2>2, HeldSlots
  <2>4. slots[j] # NoMessage <=> \E i \in 0..(size - 1) : j = SlotAt(i)
    BY DEF RingInv, FreeSlotsZeroed
  <2>5. slots'[j] = IF j \in freed THEN NoMessage ELSE slots[j]
    BY <1>1
  <2>6. slots'[j] # NoMessage <=> \E i \in 0..(size' - 1) : held(i)
    BY <2>1, <2>3, <2>4, <2>5
  <2> QED BY <2>6 DEF SlotAt
<1> QED BY <1>4, <1>5 DEF RingInv, FreeSlotsZeroed

-----------------------------------------------------------------------------
(* Safety. *)

\* The writes after the unlock, and calls that change nothing, keep the ring.
LEMMA StutterPreserves ==
  ASSUME RingInv, UNCHANGED <<slots, head, size, out>>
  PROVE  RingInv'
BY DEF RingInv, RingTypeOK, FreeSlotsZeroed, SlotAt

\* Every step of the ring keeps the invariant.
LEMMA RingInvInductive ==
  ASSUME RingInv, [Next]_vars
  PROVE  RingInv'
<1>1. CASE UNCHANGED vars
  BY <1>1, StutterPreserves DEF vars
<1>2. ASSUME NEW t \in Producers, NEW m \in Messages, Enqueue(t, m)
      PROVE  RingInv'
  BY <1>2, EnqueuePreserves
<1>3. ASSUME NEW t \in Producers, NEW m \in Messages, Refuse(t, m)
      PROVE  RingInv'
  BY <1>3, StutterPreserves DEF Refuse, ringVars
<1>4. ASSUME NEW t \in Producers, CountRejected(t)
      PROVE  RingInv'
  BY <1>4, StutterPreserves DEF CountRejected, ringVars
<1>5. ASSUME NEW t \in Consumers, NEW n \in 0..MaxBatch, DequeueNil(t, n)
      PROVE  RingInv'
  <2>1. out' \in [Consumers -> Seq(Messages)]
    BY <1>5 DEF DequeueNil, RingInv, RingTypeOK
  <2> QED BY <1>5, <2>1 DEF DequeueNil, ringVars, RingInv, RingTypeOK,
                            FreeSlotsZeroed, SlotAt
<1>6. ASSUME NEW t \in Consumers, NEW n \in 0..MaxBatch, Dequeue(t, n)
      PROVE  RingInv'
  BY <1>6, DequeuePreserves, RingAssumption
<1>7. ASSUME NEW t \in Threads, Count(t) \/ SetDepth(t) \/ SetBytes(t)
      PROVE  RingInv'
  BY <1>7, StutterPreserves DEF Count, SetDepth, SetBytes, ringVars
<1> QED BY <1>1, <1>2, <1>3, <1>4, <1>5, <1>6, <1>7 DEF Next

\* A new ring, all slots zeroed, satisfies the invariant.
LEMMA RingInvInit == Init => RingInv
BY RingAssumption DEF Init, RingInv, RingTypeOK, FreeSlotsZeroed

\* The invariant holds in every reachable state of the ring.
THEOREM RingInvariant == Spec => []RingInv
<1>1. RingInv /\ [Next]_vars => RingInv'
  BY RingInvInductive
<1> QED BY <1>1, RingInvInit, PTL DEF Spec

\* Dequeue pins no payload and Enqueue overwrites none, for every capacity.
THEOREM SlotsExact == Spec => []FreeSlotsZeroed
BY RingInvariant, PTL DEF RingInv

-----------------------------------------------------------------------------
(* The byte total. *)

Held == {SlotAt(i) : i \in 0..(size - 1)}

BytesInv == RingInv /\ BytesExact /\ bytes \in Nat

\* The sum of the sizes over a set of slots is a sum of the function that is
\* defined on a larger one.
LEMMA SumSizesWithin ==
  ASSUME NEW S, IsFiniteSet(S), NEW T \in SUBSET S,
         \A j \in S : messageSize[slots[j]] \in Nat
  PROVE  /\ IsFiniteSet(T)
         /\ SumSizes(T) = SumFunctionOnSet([j \in S |-> messageSize[slots[j]]], T)
         /\ SumSizes(T) \in Nat
<1>1. IsFiniteSet(T)
  BY FS_Subset
<1> DEFINE f == [j \in S |-> messageSize[slots[j]]]
           g == [j \in T |-> messageSize[slots[j]]]
<1>2. \A j \in T : f[j] \in Int /\ g[j] = f[j] /\ g[j] \in Nat /\ g[j] \in Int
  OBVIOUS
<1>3. SumSizes(T) = SumFunctionOnSet(g, T)
  BY DEF SumSizes, SumFunction
<1> HIDE DEF f, g
<1>4. SumFunctionOnSet(g, T) = SumFunctionOnSet(f, T)
  BY <1>1, <1>2, SumEqual
<1>5. SumFunctionOnSet(g, T) \in Nat
  BY <1>1, <1>2, SumType
<1> QED BY <1>1, <1>3, <1>4, <1>5 DEF f

\* The slots held are finitely many, and each holds a message.
LEMMA HeldFinite ==
  ASSUME RingInv
  PROVE  /\ IsFiniteSet(Held) /\ Held \subseteq 0..(MaxMessages - 1)
         /\ \A j \in Held : slots[j] \in Messages /\ messageSize[slots[j]] \in Nat
<1>1. Held \subseteq 0..(MaxMessages - 1) /\ \A j \in Held : slots[j] \in Messages
  BY HeldSlots DEF Held
<1>2. IsFiniteSet(0..(MaxMessages - 1))
  BY FS_Interval, RingAssumption
<1>3. IsFiniteSet(Held)
  BY <1>1, <1>2, FS_Subset
<1> QED BY <1>1, <1>3, RingAssumption

\* An accepted Enqueue adds its message's size to the sum over the held slots.
LEMMA EnqueueBytes ==
  ASSUME BytesInv, NEW t \in Producers, NEW m \in Messages, Enqueue(t, m)
  PROVE  BytesExact' /\ bytes' \in Nat
<1> USE RingAssumption
<1> DEFINE tail == SlotAt(size)
           f == [j \in Held' |-> messageSize[slots'[j]]]
<1>1. /\ head' = head /\ size' = size + 1 /\ size \in 0..(MaxMessages - 1)
      /\ bytes' = bytes + messageSize[m] /\ bytes' <= MaxBytes
      /\ slots' = [slots EXCEPT ![tail] = m]
  BY DEF Enqueue, HasRoom, BytesInv, RingInv, RingTypeOK
<1>2. tail \in 0..(MaxMessages - 1) /\ tail \notin Held
  <2>1. tail \in 0..(MaxMessages - 1)
    <3>1. head \in 0..(MaxMessages - 1) /\ size \in 0..(MaxMessages - 1)
      BY <1>1 DEF BytesInv, RingInv, RingTypeOK
    <3> QED BY <3>1, SlotAtValue
  <2>2. ASSUME NEW i \in 0..(size - 1), SlotAt(i) = SlotAt(size)
        PROVE  FALSE
    <3>1. i \in 0..(MaxMessages - 1) /\ size \in 0..(MaxMessages - 1) /\ i # size
      BY <1>1
    <3> QED BY <2>2, <3>1, HeldSlots DEF BytesInv
  <2> QED BY <2>1, <2>2 DEF Held
<1>3. Held' = Held \cup {tail}
  BY <1>1 DEF Held, SlotAt
<1>4. /\ slots'[tail] = m
      /\ \A j \in Held : slots'[j] = slots[j]
  BY <1>1, <1>2 DEF BytesInv, RingInv, RingTypeOK
<1>5. IsFiniteSet(Held) /\ \A j \in Held : messageSize[slots[j]] \in Nat
  BY HeldFinite DEF BytesInv
<1> HIDE DEF tail
<1>6. \A j \in Held : f[j] = messageSize[slots[j]] /\ f[j] \in Int
  BY <1>3, <1>4, <1>5
<1>7. f[tail] = messageSize[m] /\ f[tail] \in Int
  BY <1>3, <1>4
<1>8. SumSizes(Held)' = SumFunctionOnSet(f, Held')
  BY DEF SumSizes, SumFunction
<1>9. SumFunctionOnSet(f, Held) = SumSizes(Held)
  <2> DEFINE g == [j \in Held |-> messageSize[slots[j]]]
  <2>1. \A j \in Held : g[j] \in Int /\ f[j] = g[j]
    BY <1>5, <1>6
  <2>2. SumSizes(Held) = SumFunctionOnSet(g, Held)
    BY DEF SumSizes, SumFunction
  <2> HIDE DEF f, g
  <2> QED BY <1>5, <2>1, <2>2, SumEqual
<1> HIDE DEF f
<1>10. SumFunctionOnSet(f, Held \cup {tail}) = SumFunctionOnSet(f, Held) + f[tail]
  BY <1>2, <1>5, <1>6, <1>7, SumAdd
<1>11. SumSizes(Held)' = bytes'
  BY <1>1, <1>3, <1>7, <1>8, <1>9, <1>10 DEF BytesInv, BytesExact, Held
<1>12. bytes' \in Nat
  BY <1>1 DEF BytesInv
<1> QED BY <1>1, <1>11, <1>12 DEF BytesExact, Held

\* Dequeue takes the sizes of the slots it frees off the sum.
LEMMA DequeueBytes ==
  ASSUME BytesInv, NEW t \in Consumers, NEW n \in Nat, Dequeue(t, n)
  PROVE  BytesExact' /\ bytes' \in Nat
<1> USE RingAssumption
<1> DEFINE k == IF n > size THEN size ELSE n
           f == [j \in Held |-> messageSize[slots[j]]]
<1>0. /\ k \in 1..size /\ head \in 0..(MaxMessages - 1) /\ size \in 0..MaxMessages
      /\ RingInv /\ bytes = SumSizes(Held) /\ bytes <= MaxBytes
  BY DEF Dequeue, BytesInv, RingInv, RingTypeOK, BytesExact, Held
<1>1. /\ head' = SlotAt(k) /\ size' = size - k
      /\ bytes' = bytes - SumSizes(Freed(k))
      /\ slots' = [j \in 0..(MaxMessages - 1) |->
                     IF j \in Freed(k) THEN NoMessage ELSE slots[j]]
  BY DEF Dequeue
<1> HIDE DEF k
<1>2. Held' = {SlotAt(i) : i \in k..(size - 1)}
  <2>0. Held' = {(head' + i) % MaxMessages : i \in 0..(size' - 1)}
    BY DEF Held, SlotAt
  <2>1. \A i \in 0..(size' - 1) : (head' + i) % MaxMessages = SlotAt(k + i) /\ k + i \in k..(size - 1)
    BY <1>0, <1>1, DequeueShift
  <2>2. \A l \in k..(size - 1) : l - k \in 0..(size' - 1) /\ k + (l - k) = l
    BY <1>0, <1>1
  <2>3. \A l \in k..(size - 1) : (head' + (l - k)) % MaxMessages = SlotAt(l)
    BY <2>1, <2>2
  <2> QED BY <2>0, <2>1, <2>2, <2>3
<1>3. Held = Freed(k) \cup Held' /\ Freed(k) \cap Held' = {}
  <2>1. \A i \in 0..(size - 1) : i \in 0..(k - 1) \/ i \in k..(size - 1)
    BY <1>0
  <2>2. \A i \in (0..(k - 1)) \cup (k..(size - 1)) : i \in 0..(size - 1)
    BY <1>0
  <2>3. Held = Freed(k) \cup Held'
    BY <1>2, <2>1, <2>2 DEF Held, Freed
  <2>4. \A i \in 0..(k - 1), l \in k..(size - 1) : SlotAt(i) # SlotAt(l)
    <3>1. \A i \in 0..(k - 1), l \in k..(size - 1) :
            i \in 0..(MaxMessages - 1) /\ l \in 0..(MaxMessages - 1) /\ i # l
      BY <1>0
    <3> QED BY <1>0, <3>1, HeldSlots
  <2> QED BY <1>2, <2>3, <2>4 DEF Freed
<1>4. IsFiniteSet(Held) /\ \A j \in Held : messageSize[slots[j]] \in Nat
  BY <1>0, HeldFinite
<1>5. /\ IsFiniteSet(Freed(k)) /\ SumSizes(Freed(k)) = SumFunctionOnSet(f, Freed(k))
      /\ SumSizes(Freed(k)) \in Nat
  BY <1>3, <1>4, SumSizesWithin
<1>6. SumSizes(Held) = SumFunctionOnSet(f, Held) /\ SumSizes(Held) \in Nat
  BY <1>4, SumSizesWithin
<1>7. IsFiniteSet(Held') /\ \A j \in Held' : f[j] \in Int
  BY <1>3, <1>4, FS_Subset
<1>8. SumFunctionOnSet(f, Held) = SumFunctionOnSet(f, Freed(k)) + SumFunctionOnSet(f, Held')
  <2>1. \A j \in Freed(k) \cup Held' : f[j] \in Int
    BY <1>3, <1>4
  <2> HIDE DEF f
  <2> QED BY <1>3, <1>5, <1>7, <2>1, SumUnion
<1>9. SumSizes(Held)' = SumFunctionOnSet(f, Held')
  <2> DEFINE g == [j \in Held' |-> messageSize[slots'[j]]]
  <2>1. SumSizes(Held)' = SumFunctionOnSet(g, Held')
    BY DEF SumSizes, SumFunction
  <2>2. \A j \in Held' : slots'[j] = slots[j]
    <3>1. Held' \subseteq 0..(MaxMessages - 1)
      BY <1>0, <1>3, HeldFinite
    <3> QED BY <1>1, <1>3, <3>1
  <2>3. \A j \in Held' : g[j] = f[j]
    BY <1>3, <2>2
  <2> HIDE DEF f, g
  <2> QED BY <1>7, <2>1, <2>3, SumEqual
<1>10. SumFunctionOnSet(f, Held') \in Nat
  BY <1>3, <1>4, <1>7, SumType
<1> HIDE DEF f
<1>11. bytes' = SumSizes(Held)' /\ bytes' <= MaxBytes /\ bytes' \in Nat
  BY <1>0, <1>1, <1>5, <1>6, <1>8, <1>9, <1>10
<1> QED BY <1>11 DEF BytesExact, Held

\* No other step touches the ring.
LEMMA BytesInvInductive ==
  ASSUME BytesInv, [Next]_vars
  PROVE  BytesInv'
<1>1. RingInv'
  BY RingInvInductive DEF BytesInv
<1>2. ASSUME UNCHANGED ringVars
      PROVE  BytesExact' /\ bytes' \in Nat
  BY <1>2 DEF BytesInv, BytesExact, SumSizes, SlotAt, ringVars
<1>3. CASE UNCHANGED vars
  BY <1>1, <1>2, <1>3 DEF vars, ringVars, BytesInv
<1>4. ASSUME NEW t \in Producers, NEW m \in Messages, Enqueue(t, m)
      PROVE  BytesInv'
  BY <1>1, <1>4, EnqueueBytes DEF BytesInv
<1>5. ASSUME NEW t \in Consumers, NEW n \in 0..MaxBatch, Dequeue(t, n)
      PROVE  BytesInv'
  BY <1>1, <1>5, DequeueBytes, RingAssumption DEF BytesInv
<1>6. CASE \/ \E t \in Producers : (\E m \in Messages : Refuse(t, m)) \/ CountRejected(t)
           \/ \E t \in Consumers, n \in 0..MaxBatch : DequeueNil(t, n)
           \/ \E t \in Threads : Count(t) \/ SetDepth(t) \/ SetBytes(t)
  BY <1>1, <1>2, <1>6 DEF BytesInv, Refuse, CountRejected, DequeueNil, Count, SetDepth, SetBytes
<1> QED BY <1>3, <1>4, <1>5, <1>6 DEF Next

\* A new ring holds no bytes.
LEMMA BytesInvInit == Init => BytesInv
<1> SUFFICES ASSUME Init PROVE BytesInv
  OBVIOUS
<1>1. Held = {} /\ bytes = 0
  BY DEF Init, Held
<1>2. SumSizes({}) = 0
  <2>1. DOMAIN [j \in {} |-> messageSize[slots[j]]] = {}
    OBVIOUS
  <2> QED BY <2>1, SumEmpty DEF SumSizes, SumFunction
<1> QED BY <1>1, <1>2, RingInvInit, RingAssumption DEF BytesInv, BytesExact, Held

\* The incremental byte total is the size of what is held and within the cap,
\* for every message size and order of calls.
THEOREM BytesAlwaysExact == Spec => []BytesExact
<1>1. BytesInv /\ [Next]_vars => BytesInv'
  BY BytesInvInductive
<1>2. BytesInv => BytesExact
  BY DEF BytesInv
<1> QED BY <1>1, <1>2, BytesInvInit, PTL DEF Spec

-----------------------------------------------------------------------------
(* The counters, and the types. *)

Writing == {"idle", "count", "reject", "depth", "bytes"}
Captured == [enqueued : 0..1, dequeued : 0..MaxMessages, depth : 0..MaxMessages, bytes : Nat]

\* What thread t owes once it has left the critical section.
Owes(t) == captured[t].enqueued - captured[t].dequeued

CountersInv ==
  /\ BytesInv /\ TypeOK
  /\ IsFiniteSet(Owing) /\ CountersBalance

\* Thread t starts to owe d.
LEMMA OwedGrows ==
  ASSUME captured \in [Threads -> Captured], IsFiniteSet(Owing),
         NEW t \in Threads, t \notin Owing, Owing' = Owing \cup {t},
         captured' \in [Threads -> Captured],
         \A u \in Owing : captured'[u] = captured[u]
  PROVE  IsFiniteSet(Owing') /\ Owed \in Int /\ Owed' = Owed + Owes(t)'
<1> DEFINE f == [u \in Owing |-> captured[u].enqueued - captured[u].dequeued]
           g == [u \in Owing' |-> captured'[u].enqueued - captured'[u].dequeued]
<1>1. Owed = SumFunctionOnSet(f, Owing) /\ Owed' = SumFunctionOnSet(g, Owing')
  BY DEF Owed, SumFunction
<1>2. Owing \subseteq Threads /\ Owing' \subseteq Threads
  BY DEF Owing
<1>3. \A u \in Owing : f[u] \in Int /\ g[u] = f[u]
  <2> SUFFICES ASSUME NEW u \in Owing PROVE f[u] \in Int /\ g[u] = f[u]
    OBVIOUS
  <2>1. captured[u] \in Captured /\ u \in Owing'
    BY <1>2
  <2> QED BY <2>1 DEF Captured
<1>4. g[t] = Owes(t)' /\ g[t] \in Int
  <2>1. captured'[t] \in Captured /\ t \in Owing'
    OBVIOUS
  <2> QED BY <2>1 DEF Captured, Owes
<1> HIDE DEF f, g
<1>5. SumFunctionOnSet(g, Owing \cup {t}) = SumFunctionOnSet(g, Owing) + g[t]
  BY <1>3, <1>4, SumAdd
<1>6. SumFunctionOnSet(g, Owing) = SumFunctionOnSet(f, Owing)
  BY <1>3, SumEqual
<1>7. SumFunctionOnSet(f, Owing) \in Int
  BY <1>3, SumType
<1>8. IsFiniteSet(Owing')
  BY FS_AddElement
<1> QED BY <1>1, <1>4, <1>5, <1>6, <1>7, <1>8

\* Thread t has paid what it owed.
LEMMA OwedShrinks ==
  ASSUME captured \in [Threads -> Captured], IsFiniteSet(Owing),
         NEW t \in Owing, Owing' = Owing \ {t}, UNCHANGED captured
  PROVE  IsFiniteSet(Owing') /\ Owed' \in Int /\ Owed = Owed' + Owes(t)
<1> DEFINE f == [u \in Owing |-> captured[u].enqueued - captured[u].dequeued]
           g == [u \in Owing' |-> captured'[u].enqueued - captured'[u].dequeued]
<1>1. Owed = SumFunctionOnSet(f, Owing) /\ Owed' = SumFunctionOnSet(g, Owing')
  BY DEF Owed, SumFunction
<1>2. \A u \in Owing : f[u] \in Int /\ f[u] = Owes(u)
  <2> SUFFICES ASSUME NEW u \in Owing PROVE f[u] \in Int /\ f[u] = Owes(u)
    OBVIOUS
  <2>1. captured[u] \in Captured
    BY DEF Owing
  <2> QED BY <2>1 DEF Captured, Owes
<1>3. \A u \in Owing' : u \in Owing /\ g[u] = f[u]
  OBVIOUS
<1> HIDE DEF f, g
<1>4. IsFiniteSet(Owing') /\ t \notin Owing' /\ Owing = Owing' \cup {t}
  BY FS_RemoveElement
<1>5. SumFunctionOnSet(f, Owing' \cup {t}) = SumFunctionOnSet(f, Owing') + f[t]
  <2>1. f[t] \in Int /\ \A u \in Owing' : f[u] \in Int
    BY <1>2, <1>3
  <2> QED BY <1>4, <2>1, SumAdd
<1>6. SumFunctionOnSet(g, Owing') = SumFunctionOnSet(f, Owing')
  BY <1>2, <1>3, <1>4, SumEqual
<1>7. SumFunctionOnSet(f, Owing') \in Int
  BY <1>2, <1>3, <1>4, SumType
<1> QED BY <1>1, <1>2, <1>4, <1>5, <1>6, <1>7

\* A step that changes no increment owed.
LEMMA OwedKept ==
  ASSUME captured \in [Threads -> Captured], IsFiniteSet(Owing), UNCHANGED Owing,
         \A u \in Owing : captured'[u] = captured[u]
  PROVE  UNCHANGED Owed
<1>1. [u \in Owing' |-> captured'[u].enqueued - captured'[u].dequeued]
        = [u \in Owing |-> captured[u].enqueued - captured[u].dequeued]
  OBVIOUS
<1> QED BY <1>1 DEF Owed

\* Enqueue owes one increment for the message it added.
LEMMA EnqueueBalances ==
  ASSUME CountersInv, BytesInv', NEW t \in Producers, NEW m \in Messages, Enqueue(t, m)
  PROVE  CountersInv'
<1> USE RingAssumption
<1>1. bytes' \in Nat /\ RingTypeOK' /\ RingTypeOK /\ t \in Threads
  BY DEF BytesInv, RingInv, Threads, CountersInv
<1>2. size' = size + 1 /\ size \in Nat /\ size' \in 0..MaxMessages
  BY <1>1 DEF Enqueue, RingTypeOK
<1>3. TypeOK'
  <2>1. captured' \in [Threads -> Captured] /\ pc' \in [Threads -> Writing]
    BY <1>1, <1>2 DEF Enqueue, CountersInv, TypeOK, Captured, Writing
  <2>2. ret' \in [Producers -> States]
    BY DEF Enqueue, CountersInv, TypeOK, stateLocked, States
  <2>3. metrics' = metrics
    BY DEF Enqueue
  <2> QED BY <1>1, <2>1, <2>2, <2>3 DEF CountersInv, TypeOK, Captured, Writing
<1>4. IsFiniteSet(Owing') /\ Owed \in Int /\ Owed' = Owed + Owes(t)'
  <2>1. t \notin Owing /\ Owing' = Owing \cup {t}
    BY <1>1 DEF Owing, Enqueue, CountersInv, TypeOK
  <2>2. \A u \in Owing : captured'[u] = captured[u]
    BY <2>1 DEF Owing, Enqueue, CountersInv, TypeOK
  <2>3. captured \in [Threads -> Captured] /\ captured' \in [Threads -> Captured]
    BY <1>3 DEF CountersInv, TypeOK, Captured
  <2> QED BY <1>1, <2>1, <2>2, <2>3, OwedGrows DEF CountersInv
<1>5. Owes(t)' = 1
  BY <1>1 DEF Enqueue, CountersInv, TypeOK, Owes
<1>6. CountersBalance'
  BY <1>2, <1>4, <1>5 DEF CountersInv, CountersBalance, TypeOK, Enqueue
<1> QED BY <1>3, <1>4, <1>6 DEF CountersInv

\* Dequeue owes as many as it took out.
LEMMA DequeueBalances ==
  ASSUME CountersInv, BytesInv', NEW t \in Consumers, NEW n \in Nat, Dequeue(t, n)
  PROVE  CountersInv'
<1> USE RingAssumption
<1> DEFINE k == IF n > size THEN size ELSE n
<1>1. bytes' \in Nat /\ RingTypeOK' /\ RingTypeOK /\ t \in Threads
  BY DEF BytesInv, RingInv, Threads, CountersInv
<1>2. k \in 0..MaxMessages /\ size' = size - k /\ size \in Nat /\ size' \in 0..MaxMessages
  BY <1>1 DEF Dequeue, RingTypeOK
<1>3. captured' = [captured EXCEPT ![t] = [enqueued |-> 0, dequeued |-> k,
                                           depth |-> size', bytes |-> bytes']]
  BY DEF Dequeue
<1> HIDE DEF k
<1>4. TypeOK'
  <2>1. captured' \in [Threads -> Captured]
    BY <1>1, <1>2, <1>3 DEF CountersInv, TypeOK, Captured
  <2>2. pc' \in [Threads -> Writing] /\ ret' = ret /\ metrics' = metrics
    BY <1>1 DEF Dequeue, CountersInv, TypeOK, Writing
  <2> QED BY <1>1, <2>1, <2>2 DEF CountersInv, TypeOK, Captured, Writing
<1>5. IsFiniteSet(Owing') /\ Owed \in Int /\ Owed' = Owed + Owes(t)'
  <2>1. t \notin Owing /\ Owing' = Owing \cup {t}
    BY <1>1 DEF Owing, Dequeue, CountersInv, TypeOK
  <2>2. \A u \in Owing : captured'[u] = captured[u]
    BY <1>3, <2>1 DEF Owing, CountersInv, TypeOK
  <2>3. captured \in [Threads -> Captured] /\ captured' \in [Threads -> Captured]
    BY <1>4 DEF CountersInv, TypeOK, Captured
  <2> QED BY <1>1, <2>1, <2>2, <2>3, OwedGrows DEF CountersInv
<1>6. Owes(t)' = 0 - k
  BY <1>1, <1>3 DEF CountersInv, TypeOK, Owes
<1>7. metrics' = metrics
  BY DEF Dequeue
<1>8. CountersBalance'
  BY <1>2, <1>5, <1>6, <1>7 DEF CountersInv, CountersBalance, TypeOK
<1> QED BY <1>4, <1>5, <1>8 DEF CountersInv

\* Count pays what its thread owes.
LEMMA CountBalances ==
  ASSUME CountersInv, BytesInv', NEW t \in Threads, Count(t)
  PROVE  CountersInv'
<1> USE RingAssumption
<1>1. t \in Owing /\ Owing' = Owing \ {t} /\ UNCHANGED captured
  BY DEF Owing, Count, CountersInv, TypeOK
<1>2. captured \in [Threads -> Captured] /\ captured[t] \in Captured
  BY DEF CountersInv, TypeOK, Captured
<1>3. IsFiniteSet(Owing') /\ Owed' \in Int /\ Owed = Owed' + Owes(t)
  BY <1>1, <1>2, OwedShrinks DEF CountersInv
<1>4. /\ metrics' = [metrics EXCEPT !.enqueued = @ + captured[t].enqueued,
                                    !.dequeued = @ + captured[t].dequeued]
      /\ pc' \in [Threads -> Writing] /\ UNCHANGED <<ret, slots, head, size, bytes, out>>
  BY DEF Count, CountersInv, TypeOK, Writing, ringVars
<1>5. TypeOK'
  <2>1. metrics' \in [enqueued : Nat, dequeued : Nat, rejected : Nat,
                      depth : 0..MaxMessages, bytes : Nat]
    <3>1. metrics \in [enqueued : Nat, dequeued : Nat, rejected : Nat,
                       depth : 0..MaxMessages, bytes : Nat]
      BY DEF CountersInv, TypeOK
    <3>2. captured[t].enqueued \in Nat /\ captured[t].dequeued \in Nat
      BY <1>2 DEF Captured
    <3>3. metrics' = [enqueued |-> metrics.enqueued + captured[t].enqueued,
                      dequeued |-> metrics.dequeued + captured[t].dequeued,
                      rejected |-> metrics.rejected, depth |-> metrics.depth,
                      bytes |-> metrics.bytes]
      BY <1>4, <3>1
    <3> QED BY <3>1, <3>2, <3>3
  <2> QED BY <1>1, <1>4, <2>1 DEF CountersInv, TypeOK, Writing, RingTypeOK
<1>6. /\ metrics'.enqueued = metrics.enqueued + captured[t].enqueued
      /\ metrics'.dequeued = metrics.dequeued + captured[t].dequeued
      /\ metrics.enqueued \in Nat /\ metrics.dequeued \in Nat
      /\ captured[t].enqueued \in Int /\ captured[t].dequeued \in Int /\ size' = size
  BY <1>2, <1>4 DEF CountersInv, TypeOK, Captured
<1>7. CountersBalance'
  BY <1>3, <1>6 DEF CountersInv, CountersBalance, Owes
<1> QED BY <1>3, <1>5, <1>7 DEF CountersInv

\* The other steps leave the ring, what is owed and the two counters alone.
LEMMA OtherBalances ==
  ASSUME CountersInv, BytesInv', TypeOK', UNCHANGED Owing, UNCHANGED size,
         \A u \in Owing : captured'[u] = captured[u],
         metrics'.enqueued = metrics.enqueued, metrics'.dequeued = metrics.dequeued
  PROVE  CountersInv'
<1>1. captured \in [Threads -> Captured]
  BY DEF CountersInv, TypeOK, Captured
<1>2. UNCHANGED Owed
  BY <1>1, OwedKept DEF CountersInv
<1> QED BY <1>2 DEF CountersInv, CountersBalance

\* Every step keeps types and balance.
LEMMA CountersInvInductive ==
  ASSUME CountersInv, [Next]_vars
  PROVE  CountersInv'
<1> USE RingAssumption
<1>1. BytesInv'
  BY BytesInvInductive DEF CountersInv
<1>2. RingTypeOK'
  BY <1>1 DEF BytesInv, RingInv
<1>3. CASE UNCHANGED vars
  BY <1>1, <1>2, <1>3, OtherBalances DEF vars, CountersInv, TypeOK, Owing
<1>4. ASSUME NEW t \in Producers, NEW m \in Messages, Enqueue(t, m)
      PROVE  CountersInv'
  BY <1>1, <1>4, EnqueueBalances
<1>5. ASSUME NEW t \in Consumers, NEW n \in 0..MaxBatch, Dequeue(t, n)
      PROVE  CountersInv'
  BY <1>1, <1>5, DequeueBalances
<1>6. ASSUME NEW t \in Threads, Count(t)
      PROVE  CountersInv'
  BY <1>1, <1>6, CountBalances
<1>7. ASSUME NEW t \in Producers, NEW m \in Messages, Refuse(t, m)
      PROVE  CountersInv'
  <2>1. TypeOK'
    BY <1>2, <1>7 DEF Refuse, ringVars, CountersInv, TypeOK, Threads, States
  <2>2. UNCHANGED Owing
    BY <1>7 DEF Refuse, Owing, CountersInv, TypeOK
  <2> QED BY <1>1, <1>7, <2>1, <2>2, OtherBalances DEF Refuse, ringVars
<1>8. ASSUME NEW t \in Producers, CountRejected(t)
      PROVE  CountersInv'
  <2>1. TypeOK'
    BY <1>2, <1>8 DEF CountRejected, ringVars, CountersInv, TypeOK, Threads
  <2>2. UNCHANGED Owing
    BY <1>8 DEF CountRejected, Owing, CountersInv, TypeOK
  <2>3. metrics'.enqueued = metrics.enqueued /\ metrics'.dequeued = metrics.dequeued
    BY <1>8 DEF CountRejected, CountersInv, TypeOK
  <2> QED BY <1>1, <1>8, <2>1, <2>2, <2>3, OtherBalances DEF CountRejected, ringVars
<1>9. ASSUME NEW t \in Consumers, NEW n \in 0..MaxBatch, DequeueNil(t, n)
      PROVE  CountersInv'
  <2>1. TypeOK' /\ UNCHANGED Owing
    BY <1>2, <1>9 DEF DequeueNil, ringVars, CountersInv, TypeOK, Owing
  <2> QED BY <1>1, <1>9, <2>1, OtherBalances DEF DequeueNil, ringVars
<1>10. ASSUME NEW t \in Threads, SetDepth(t)
       PROVE  CountersInv'
  <2>1. captured[t].depth \in 0..MaxMessages
    BY DEF CountersInv, TypeOK
  <2>2. TypeOK' /\ UNCHANGED Owing
    BY <1>2, <1>10, <2>1 DEF SetDepth, ringVars, CountersInv, TypeOK, Owing
  <2>3. metrics'.enqueued = metrics.enqueued /\ metrics'.dequeued = metrics.dequeued
    BY <1>10 DEF SetDepth, CountersInv, TypeOK
  <2> QED BY <1>1, <1>10, <2>2, <2>3, OtherBalances DEF SetDepth, ringVars
<1>11. ASSUME NEW t \in Threads, SetBytes(t)
       PROVE  CountersInv'
  <2>1. captured[t].bytes \in Nat
    BY DEF CountersInv, TypeOK
  <2>2. TypeOK'
    BY <1>2, <1>11, <2>1 DEF SetBytes, ringVars, CountersInv, TypeOK, Zero
  <2>3. UNCHANGED Owing /\ \A u \in Owing : captured'[u] = captured[u]
    BY <1>11 DEF SetBytes, Owing, CountersInv, TypeOK
  <2>4. metrics'.enqueued = metrics.enqueued /\ metrics'.dequeued = metrics.dequeued
    BY <1>11 DEF SetBytes, CountersInv, TypeOK
  <2> QED BY <1>1, <1>11, <2>2, <2>3, <2>4, OtherBalances DEF SetBytes, ringVars
<1> QED BY <1>3, <1>4, <1>5, <1>6, <1>7, <1>8, <1>9, <1>10, <1>11 DEF Next

\* Nothing is owed at first.
LEMMA CountersInvInit == Init => CountersInv
<1> SUFFICES ASSUME Init PROVE CountersInv
  OBVIOUS
<1>1. BytesInv
  BY BytesInvInit
<1>2. TypeOK
  BY <1>1, RingAssumption DEF Init, TypeOK, Zero, States, BytesInv, RingInv, Threads
<1>3. Owing = {}
  BY DEF Init, Owing
<1>4. Owed = 0
  <2>1. DOMAIN [t \in {} |-> captured[t].enqueued - captured[t].dequeued] = {}
    OBVIOUS
  <2> QED BY <1>3, <2>1, SumEmpty DEF Owed, SumFunction
<1>5. CountersBalance
  BY <1>4 DEF Init, CountersBalance
<1> QED BY <1>1, <1>2, <1>3, <1>5, FS_EmptySet DEF CountersInv

\* The counters account for every message although they are written after the
\* unlock, for any number of threads.
THEOREM CountersAlwaysBalance == Spec => []CountersBalance
<1>1. CountersInv /\ [Next]_vars => CountersInv'
  BY CountersInvInductive
<1>2. CountersInv => CountersBalance
  BY DEF CountersInv
<1> QED BY <1>1, <1>2, CountersInvInit, PTL DEF Spec

\* The types, the indices into the ring and the exported metrics included.
THEOREM RingTypes == Spec => []TypeOK
<1>1. CountersInv /\ [Next]_vars => CountersInv'
  BY CountersInvInductive
<1>2. CountersInv => TypeOK
  BY DEF CountersInv
<1> QED BY <1>1, <1>2, CountersInvInit, PTL DEF Spec

-----------------------------------------------------------------------------
(* Refinement: the ring implements the bounded FIFO. *)

\* What Append does, as a function.
LEMMA AppendAsFunction ==
  ASSUME NEW S, NEW s \in Seq(S), NEW x \in S
  PROVE  Append(s, x) = [i \in 1..(Len(s) + 1) |-> IF i = Len(s) + 1 THEN x ELSE s[i]]
<1>1. /\ Append(s, x) \in Seq(S) /\ Len(Append(s, x)) = Len(s) + 1
      /\ \A i \in 1..Len(s) : Append(s, x)[i] = s[i]
      /\ Append(s, x)[Len(s) + 1] = x
  OBVIOUS
<1>2. Append(s, x) = [i \in 1..(Len(s) + 1) |-> Append(s, x)[i]]
  <2>1. Append(s, x) \in [1..(Len(s) + 1) -> S]
    BY <1>1, LenProperties
  <2> QED BY <2>1, Zenon
<1>3. \A i \in 1..(Len(s) + 1) : i = Len(s) + 1 \/ i \in 1..Len(s)
  OBVIOUS
<1>4. \A i \in 1..(Len(s) + 1) : Append(s, x)[i] = IF i = Len(s) + 1 THEN x ELSE s[i]
  BY <1>1, <1>3
<1> QED BY <1>2, <1>4, Zenon

\* The abstract queue is a sequence of messages of the ring's length.
LEMMA ContentsType ==
  ASSUME RingInv
  PROVE  /\ Contents \in Seq(Messages)
         /\ Len(Contents) = size
         /\ \A i \in 1..size : Contents[i] = slots[SlotAt(i - 1)]
<1>1. \A i \in 1..size : slots[SlotAt(i - 1)] \in Messages
  <2> SUFFICES ASSUME NEW i \in 1..size
               PROVE  slots[SlotAt(i - 1)] \in Messages
    OBVIOUS
  <2>1. i - 1 \in 0..(size - 1)
    BY DEF RingInv, RingTypeOK
  <2> QED BY <2>1, HeldSlots
<1>2. size \in Nat
  BY RingAssumption DEF RingInv, RingTypeOK
<1> QED BY <1>1, <1>2 DEF Contents

\* An accepted Enqueue is a Put at the end of the abstract queue.
LEMMA EnqueueIsPut ==
  ASSUME RingInv, NEW t \in Producers, NEW m \in Messages, Enqueue(t, m)
  PROVE  FIFO!Put(m)
<1> USE RingAssumption
<1>1. size' = size + 1 /\ head' = head /\ size \in 0..(MaxMessages - 1)
  BY RingAssumption DEF Enqueue, HasRoom, RingInv, RingTypeOK
<1>2. \A i \in 1..size : slots'[SlotAt(i - 1)] = slots[SlotAt(i - 1)]
  <2> SUFFICES ASSUME NEW i \in 1..size
               PROVE  slots'[SlotAt(i - 1)] = slots[SlotAt(i - 1)]
    OBVIOUS
  <2>1. i - 1 \in 0..(MaxMessages - 1) /\ i - 1 # size /\ i - 1 \in 0..(size - 1)
    BY <1>1
  <2>2. SlotAt(i - 1) # SlotAt(size) /\ SlotAt(i - 1) \in 0..(MaxMessages - 1)
    BY <1>1, <2>1, HeldSlots
  <2> QED BY <2>2 DEF Enqueue, RingInv, RingTypeOK
<1>3. slots'[SlotAt(size)] = m
  <2>1. SlotAt(size) \in 0..(MaxMessages - 1)
    BY <1>1, SlotAtValue DEF RingInv, RingTypeOK
  <2> QED BY <2>1 DEF Enqueue, RingInv, RingTypeOK
<1>4. Contents' = [i \in 1..(size + 1) |-> slots'[SlotAt(i - 1)]]
  BY <1>1 DEF Contents, SlotAt
<1>5. Contents' = Append(Contents, m)
  <2>1. \A i \in 1..(size + 1) :
           slots'[SlotAt(i - 1)] = IF i = size + 1 THEN m ELSE slots[SlotAt(i - 1)]
    <3> SUFFICES ASSUME NEW i \in 1..(size + 1)
                 PROVE  slots'[SlotAt(i - 1)] =
                          IF i = size + 1 THEN m ELSE slots[SlotAt(i - 1)]
      OBVIOUS
    <3>1. CASE i = size + 1
      <4>1. i - 1 = size
        BY <1>1, <3>1
      <4> QED BY <1>3, <3>1, <4>1
    <3>2. CASE i # size + 1
      <4>1. i \in 1..size
        BY <1>1, <3>2
      <4> QED BY <1>2, <3>2, <4>1
    <3> QED BY <3>1, <3>2
  <2>2. Append(Contents, m) =
          [i \in 1..(size + 1) |-> IF i = size + 1 THEN m ELSE Contents[i]]
    BY ContentsType, AppendAsFunction
  <2>3. \A i \in 1..(size + 1) : i # size + 1 => Contents[i] = slots[SlotAt(i - 1)]
    BY <1>1, ContentsType
  <2> QED BY <1>4, <2>1, <2>2, <2>3
<1> QED BY <1>1, <1>5, ContentsType DEF FIFO!Put, Enqueue

\* Dequeue is a Take of as many messages from the front of the queue.
LEMMA DequeueIsTake ==
  ASSUME RingInv, NEW t \in Consumers, NEW n \in Nat, Dequeue(t, n)
  PROVE  \E k \in 0..MaxMessages : FIFO!Take(t, k)
<1> USE RingAssumption
<1> DEFINE k == IF n > size THEN size ELSE n
<1>0. k \in 1..size /\ head \in 0..(MaxMessages - 1) /\ size \in 0..MaxMessages
  BY RingAssumption DEF Dequeue, RingInv, RingTypeOK
<1>1. /\ head' = SlotAt(k) /\ size' = size - k
      /\ slots' = [j \in 0..(MaxMessages - 1) |->
                     IF j \in {SlotAt(i) : i \in 0..(k - 1)}
                     THEN NoMessage ELSE slots[j]]
      /\ out' = [out EXCEPT ![t] = [i \in 1..k |-> slots[SlotAt(i - 1)]]]
  BY DEF Dequeue, Freed
<1> HIDE DEF k
<1>2. out' = [out EXCEPT ![t] = SubSeq(Contents, 1, k)]
  <2>1. SubSeq(Contents, 1, k) = [i \in 1..k |-> slots[SlotAt(i - 1)]]
    BY <1>0, ContentsType
  <2> QED BY <1>1, <2>1
<1>3. \A i \in 1..(size - k) : slots'[(head' + (i - 1)) % MaxMessages] = Contents[k + i]
  <2> SUFFICES ASSUME NEW i \in 1..(size - k)
               PROVE  slots'[(head' + (i - 1)) % MaxMessages] = Contents[k + i]
    OBVIOUS
  <2>1. (head' + (i - 1)) % MaxMessages = SlotAt(k + (i - 1))
    BY <1>0, <1>1, DequeueShift
  <2>2. /\ k + (i - 1) \in 0..(size - 1) /\ k + (i - 1) = (k + i) - 1
        /\ k + (i - 1) \in 0..(MaxMessages - 1) /\ k + i \in 1..size
    BY <1>0
  <2>3. /\ SlotAt(k + (i - 1)) \in 0..(MaxMessages - 1)
        /\ SlotAt(k + (i - 1)) \notin {SlotAt(l) : l \in 0..(k - 1)}
    BY <1>0, <2>2, HeldSlots
  <2>4. slots'[SlotAt(k + (i - 1))] = slots[SlotAt((k + i) - 1)]
    BY <1>1, <2>2, <2>3
  <2> QED BY <2>1, <2>2, <2>4, ContentsType
<1>4. Contents' = SubSeq(Contents, k + 1, Len(Contents))
  <2>1. Contents' = [i \in 1..(size - k) |-> slots'[(head' + (i - 1)) % MaxMessages]]
    BY <1>1 DEF Contents, SlotAt
  <2>2. SubSeq(Contents, k + 1, Len(Contents)) = [i \in 1..(size - k) |-> Contents[k + i]]
    <3>1. Contents \in Seq(Messages) /\ Len(Contents) = size
      BY ContentsType
    <3> QED BY <1>0, <3>1
  <2> QED BY <1>3, <2>1, <2>2
<1>5. FIFO!Take(t, k)
  <2>1. Len(Contents) = size
    BY ContentsType
  <2>2. (IF k > Len(Contents) THEN Len(Contents) ELSE k) = k
    BY <1>0, <2>1
  <2> QED BY <1>2, <1>4, <2>2 DEF FIFO!Take
<1> QED BY <1>0, <1>5

\* A Dequeue that returns nil is a Take of nothing.
LEMMA DequeueNilIsTake ==
  ASSUME RingInv, NEW t \in Consumers, NEW n \in Nat, DequeueNil(t, n)
  PROVE  FIFO!Take(t, 0)
<1>1. Contents' = Contents /\ out' = [out EXCEPT ![t] = << >>]
  BY DEF DequeueNil, ringVars, Contents, SlotAt
<1>2. Contents \in Seq(Messages) /\ Len(Contents) = size /\ size \in Nat
  BY ContentsType, RingAssumption DEF RingInv, RingTypeOK
<1>3. /\ SubSeq(Contents, 1, 0) = << >>
      /\ SubSeq(Contents, 0 + 1, Len(Contents)) = Contents
      /\ (IF 0 > Len(Contents) THEN Len(Contents) ELSE 0) = 0
  BY <1>2
<1> QED BY <1>1, <1>3 DEF FIFO!Take

\* Every step of the ring is a step of the FIFO or leaves it unchanged.
LEMMA RingStepSimulation ==
  ASSUME RingInv, [Next]_vars
  PROVE  [FIFO!Next]_(FIFO!fifoVars)
<1> USE RingAssumption
<1>0. ASSUME UNCHANGED <<slots, head, size, out>>
      PROVE  UNCHANGED FIFO!fifoVars
  BY <1>0 DEF FIFO!fifoVars, Contents, SlotAt
<1>1. CASE UNCHANGED vars
  BY <1>0, <1>1 DEF vars
<1>2. ASSUME NEW t \in Producers, NEW m \in Messages, Enqueue(t, m)
      PROVE  FIFO!Next
  BY <1>2, EnqueueIsPut DEF FIFO!Next
<1>3. ASSUME NEW t \in Producers, NEW m \in Messages, Refuse(t, m)
      PROVE  UNCHANGED FIFO!fifoVars
  BY <1>0, <1>3 DEF Refuse, ringVars
<1>4. ASSUME NEW t \in Producers, CountRejected(t)
      PROVE  UNCHANGED FIFO!fifoVars
  BY <1>0, <1>4 DEF CountRejected, ringVars
<1>5. ASSUME NEW t \in Consumers, NEW n \in 0..MaxBatch, DequeueNil(t, n)
      PROVE  FIFO!Next
  BY <1>5, DequeueNilIsTake DEF FIFO!Next
<1>6. ASSUME NEW t \in Consumers, NEW n \in 0..MaxBatch, Dequeue(t, n)
      PROVE  FIFO!Next
  BY <1>6, DequeueIsTake DEF FIFO!Next
<1>7. ASSUME NEW t \in Threads, Count(t) \/ SetDepth(t) \/ SetBytes(t)
      PROVE  UNCHANGED FIFO!fifoVars
  BY <1>0, <1>7 DEF Count, SetDepth, SetBytes, ringVars
<1> QED BY <1>1, <1>2, <1>3, <1>4, <1>5, <1>6, <1>7 DEF Next

\* The ring of buffer.go implements the bounded FIFO for every capacity, byte
\* cap, batch size and number of producers and consumers.
THEOREM RingImplementsFIFO == Spec => RefinesFIFO
<1>1. Init => FIFO!Init
  <2> SUFFICES ASSUME Init PROVE FIFO!Init
    OBVIOUS
  <2>1. Contents = << >>
    BY DEF Init, Contents
  <2> QED BY <2>1 DEF Init, FIFO!Init
<1>2. RingInv /\ [Next]_vars => [FIFO!Next]_(FIFO!fifoVars)
  BY RingStepSimulation
<1> QED BY <1>1, <1>2, RingInvariant, PTL DEF Spec, RefinesFIFO, FIFO!Spec
=============================================================================
