----------------------------- MODULE WALProofs -----------------------------
(***************************************************************************)
(* Proofs about module WAL, for any number of callers and appends and any  *)
(* clock, TTL, limits, base and width.  That padded numbers compare like   *)
(* numbers, and are read back as what they were written for, is an         *)
(* induction over their digits; the rest follows from an inductive         *)
(* invariant in which the order of the keys is a consequence of the types. *)
(***************************************************************************)
EXTENDS WAL, FoldProofs, FiniteSetTheorems, TLAPS

Stamps_ == 0..MaxNanos
Numbers_ == 0..MaxAppends
Keys_ == {makeKey(a, s) : a \in Stamps_, s \in Numbers_}
Entries == [key : Keys_, at : Stamps_,
            seq : Numbers_, exp : 0..(MaxNanos + TTL), ok : BOOLEAN,
            after : SUBSET (Stamps_ \X Numbers_)]

\* i was stamped before j, or in the same nanosecond with a smaller number.
Earlier(i, j) == i[1] < j[1] \/ (i[1] = j[1] /\ i[2] < j[2])

Numbering == {c \in Callers : call[c].pc = "key"}

Types ==
  /\ now \in Stamps_ /\ up \in BOOLEAN /\ seq \in Numbers_
  /\ begun \in Numbers_ /\ seq + Cardinality(Numbering) <= begun
  /\ call \in [Callers -> [pc : {"idle", "key", "commit"}, at : Stamps_,
                           seq : Numbers_, after : SUBSET (Stamps_ \X Numbers_)]]
  /\ written \subseteq Stamps_ \X Numbers_
  /\ store \subseteq Entries /\ out \subseteq Entries
  /\ IsFiniteSet(store)

\* An entry has the key of its identity, which is its own, expires only with a
\* TTL, and follows in key order what was committed before its Append.
EntriesInv ==
  /\ \A e \in store : /\ e.key = makeKey(e.at, e.seq)
                      /\ e.exp # 0 => TTL > 0
                      /\ e.after \subseteq written
                      /\ \A i \in e.after : Earlier(i, Id(e))
  /\ \A e, f \in store : Id(e) = Id(f) => e = f

\* The appends in progress: nothing of this process is committed under their
\* numbers, and nothing committed before them is stamped later.
CallsInv ==
  /\ \A c \in Callers : call[c].pc # "idle" =>
       /\ up /\ call[c].at <= now
       /\ call[c].after \subseteq written
       /\ \A i \in call[c].after : i[1] <= call[c].at
  /\ \A c \in Callers : call[c].pc = "commit" =>
       /\ call[c].seq <= seq
       /\ Id(call[c]) \notin written
       /\ \A i \in call[c].after : Earlier(i, Id(call[c]))
  /\ \A c, d \in Callers :
       call[c].pc = "commit" /\ call[d].pc = "commit" /\ call[c].seq = call[d].seq => c = d

\* An identity that this process has not numbered is older than anything it
\* may still append.
StampsInv ==
  \A i \in written :
    /\ i[1] <= now
    /\ up /\ i[2] > seq =>
         i[1] < now /\ \A c \in Callers : call[c].pc # "idle" => i[1] < call[c].at

\* What Drain has read is still in the store, under the same key.
OutInv == \A e \in out : \E f \in store : Id(f) = Id(e) /\ f.key = e.key /\ f.after = e.after

\* Drain holds no more than some limit.
OutBound == \E n \in Limits : Cardinality(out) <= n

WALInv == /\ Types /\ EntriesInv /\ CallsInv /\ StampsInv /\ OutInv /\ OutBound
          /\ ExactlyOnce /\ InsertionOrder

-----------------------------------------------------------------------------
(* Digits *)

\* The numbers that keys are made of.
Padded == Stamps_ \cup Numbers_

\* Division by the base keeps the order.
LEMMA DivKeepsOrder ==
  ASSUME NEW m \in Nat, NEW n \in Nat, m <= n
  PROVE  m \div Base \in Nat /\ m \div Base <= n \div Base
<1> USE WALAssumption
<1> DEFINE x == m \div Base  d == m % Base  y == n \div Base  e == n % Base
<1>1. /\ x \in Nat /\ d \in 0..(Base - 1) /\ m = (Base * x) + d
      /\ y \in Nat /\ e \in 0..(Base - 1) /\ n = (Base * y) + e
  OBVIOUS
<1> HIDE DEF x, d, y, e
<1>2. y < x => (Base * y) + e < (Base * x) + d
  BY <1>1
<1>3. x <= y
  BY <1>1, <1>2
<1> QED BY <1>1, <1>3 DEF x, y

\* The number whose digits are those of x and d.
Shifted(x, d) == (x * Base) + d

\* A digit more: the numbers before it decide, unless they are equal.
LEMMA DigitMore ==
  ASSUME NEW x \in Nat, NEW y \in Nat, NEW d \in 0..(Base - 1), NEW e \in 0..(Base - 1)
  PROVE  /\ Shifted(x, d) < Shifted(y, e) <=> x < y \/ (x = y /\ d < e)
         /\ Shifted(x, d) = Shifted(y, e) <=> x = y /\ d = e
<1> DEFINE m == (x * Base) + d  n == (y * Base) + e
<1>0. Base \in Nat
  BY WALAssumption
<1>1. x < y => m < n
  BY <1>0
<1>2. y < x => n < m
  BY <1>0
<1>3. x = y => (m < n <=> d < e) /\ (m = n <=> d = e)
  BY <1>0
<1>4. m \in Int /\ n \in Int
  BY <1>0
<1> HIDE DEF m, n
<1>5. m < n <=> x < y \/ (x = y /\ d < e)
  BY <1>1, <1>2, <1>3, <1>4
<1>6. m = n <=> x = y /\ d = e
  BY <1>1, <1>2, <1>3, <1>4
<1> QED BY <1>5, <1>6 DEF m, n, Shifted

\* The loop of writePadded20 leaves natural numbers, each a Base-th of the last.
LEMMA RestIs ==
  ASSUME NEW n \in Nat
  PROVE  /\ Rest(n) \in [0..Width -> Nat] /\ Rest(n)[0] = n
         /\ \A i \in 1..Width : Rest(n)[i] = Rest(n)[i - 1] \div Base
<1> USE WALAssumption
<1> DEFINE step == [i \in 1..Width |-> [x \in Nat |-> x \div Base]]
<1>1. \A i \in 1..Width : \A x \in Nat : step[i][x] = x \div Base /\ step[i][x] \in Nat
  BY DivKeepsOrder
<1>2. Width \in Nat /\ IsStep(step, Nat, Width)
  BY <1>1 DEF IsStep
<1> HIDE DEF step
<1>a. PICK g : IsLoop(g, Nat, n, Width, step)
  BY <1>2, LoopExists
<1>3. /\ g \in [0..Width -> Nat] /\ g[0] = n
      /\ \A i \in 1..Width : g[i] = step[i][g[i - 1]]
  BY <1>a DEF IsLoop
<1>4. ASSUME NEW i \in 0..Width
      PROVE  g[i] = IF i = 0 THEN n ELSE g[i - 1] \div Base
  <2>1. CASE i = 0
    BY <1>3, <2>1
  <2>2. CASE i # 0
    <3>1. i - 1 \in 0..Width /\ i \in 1..Width
      BY <2>2
    <3> QED BY <1>1, <1>3, <2>2, <3>1
  <2> QED BY <2>1, <2>2
<1> DEFINE Loop(f) == f = [i \in 0..Width |-> IF i = 0 THEN n ELSE f[i - 1] \div Base]
<1>5. Loop(g)
  <2>1. g = [i \in 0..Width |-> g[i]]
    BY <1>3
  <2> QED BY <1>4, <2>1
<1>6. Rest(n) = CHOOSE f : Loop(f)
  BY DEF Rest
<1>7. Loop(Rest(n))
  <2> HIDE DEF Loop
  <2> QED BY <1>5, <1>6
<1>8. ASSUME NEW f, Loop(f), NEW i \in 0..Width
      PROVE  f[i] = IF i = 0 THEN n ELSE f[i - 1] \div Base
  BY <1>8
<1>9. Rest(n) = [i \in 0..Width |-> Rest(n)[i]]
  BY <1>7
<1>10. \A i \in 0..Width : Rest(n)[i] = g[i]
  <2> DEFINE r == Rest(n)
             P == {i \in Nat : i <= Width => r[i] = g[i]}
  <2>1. \A i \in 0..Width : r[i] = IF i = 0 THEN n ELSE r[i - 1] \div Base
    BY <1>7, <1>8
  <2> HIDE DEF r
  <2>2. 0 \in P
    BY <1>4, <2>1
  <2>3. \A i \in Nat : i \in P => i + 1 \in P
    BY <1>4, <2>1
  <2> HIDE DEF P
  <2>4. Nat \subseteq P
    BY <2>2, <2>3, NatSetInduction
  <2> QED BY <2>4 DEF P, r
<1> DEFINE r == Rest(n)
<1>11. r = g
  BY <1>3, <1>9, <1>10
<1> HIDE DEF r
<1>12. \A i \in 1..Width : r[i] = r[i - 1] \div Base
  BY <1>4, <1>11
<1> QED BY <1>3, <1>11, <1>12 DEF r

\* A smaller number leaves less, so Width turns suffice for every number in use.
LEMMA NothingLeft ==
  ASSUME NEW n \in Padded
  PROVE  Rest(n)[Width] = 0
<1> USE WALAssumption
<1>1. ASSUME NEW x \in Nat, NEW y \in Nat, x <= y, Rest(y)[Width] = 0
      PROVE  Rest(x)[Width] = 0
  <2> DEFINE r == Rest(x)  s == Rest(y)
             P == {i \in Nat : i <= Width => r[i] <= s[i]}
  <2>1. /\ r \in [0..Width -> Nat] /\ r[0] = x
        /\ \A i \in 1..Width : r[i] = r[i - 1] \div Base
        /\ s \in [0..Width -> Nat] /\ s[0] = y
        /\ \A i \in 1..Width : s[i] = s[i - 1] \div Base
    BY RestIs
  <2>0. s[Width] = 0
    BY <1>1
  <2> HIDE DEF r, s
  <2>2. 0 \in P
    BY <1>1, <2>1
  <2>3. ASSUME NEW i \in Nat, i \in P
        PROVE  i + 1 \in P
    <3> SUFFICES ASSUME i + 1 <= Width PROVE r[i + 1] <= s[i + 1]
      OBVIOUS
    <3>1. i \in 0..Width /\ i + 1 \in 1..Width /\ (i + 1) - 1 = i
      OBVIOUS
    <3>2. r[i] \in Nat /\ s[i] \in Nat /\ r[i] <= s[i]
      BY <2>1, <2>3, <3>1
    <3>3. r[i + 1] = r[i] \div Base /\ s[i + 1] = s[i] \div Base
      BY <2>1, <3>1
    <3> QED BY <3>2, <3>3, DivKeepsOrder
  <2> HIDE DEF P
  <2>4. Width \in P
    BY <2>2, <2>3, NatSetInduction
  <2>5. r[Width] \in Nat /\ r[Width] <= s[Width]
    BY <2>1, <2>4 DEF P
  <2>6. r[Width] = 0
    BY <2>0, <2>5
  <2> QED BY <2>6 DEF r
<1>2. n \in Nat /\ (n <= MaxNanos \/ n <= MaxAppends)
  BY DEF Padded, Stamps_, Numbers_
<1> QED BY <1>1, <1>2, WidthAssumption

\* p[j] is the number that the first j digits of w stand for.
Prefixes(p, w) ==
  /\ p \in [0..Width -> Nat] /\ p[0] = 0
  /\ \A j \in 1..Width : p[j] = Shifted(p[j - 1], w[j])

\* All digits together stand for the number they were written for.
LEMMA DigitsOf ==
  ASSUME NEW n \in Padded
  PROVE  /\ writePadded20(n) \in [1..Width -> 0..(Base - 1)]
         /\ \E p : Prefixes(p, writePadded20(n)) /\ p[Width] = n
<1> USE WALAssumption
<1> DEFINE r == Rest(n)
           w == writePadded20(n)
           p == [j \in 0..Width |-> r[Width - j]]
<1>0. n \in Nat
  BY DEF Padded, Stamps_, Numbers_
<1>1. /\ r \in [0..Width -> Nat] /\ r[0] = n /\ r[Width] = 0
      /\ \A i \in 1..Width : r[i] = r[i - 1] \div Base
  BY <1>0, RestIs, NothingLeft
<1>2. w = [j \in 1..Width |-> r[Width - j] % Base]
  BY DEF writePadded20
<1> HIDE DEF r, w
<1>3. ASSUME NEW x \in Nat
      PROVE  x % Base \in 0..(Base - 1) /\ x = ((x \div Base) * Base) + (x % Base)
  OBVIOUS
<1>4. ASSUME NEW j \in 1..Width
      PROVE  /\ w[j] \in 0..(Base - 1)
             /\ p[j] = (p[j - 1] * Base) + w[j]
  <2>1. /\ Width - j \in 0..Width /\ Width - (j - 1) \in 1..Width
        /\ (Width - (j - 1)) - 1 = Width - j /\ j \in 0..Width /\ j - 1 \in 0..Width
    OBVIOUS
  <2>2. r[Width - (j - 1)] = r[Width - j] \div Base /\ r[Width - j] \in Nat
    BY <1>1, <2>1
  <2>3. w[j] = r[Width - j] % Base
    BY <1>2
  <2>4. p[j] = r[Width - j] /\ p[j - 1] = r[Width - (j - 1)]
    BY <2>1
  <2> QED BY <1>3, <2>2, <2>3, <2>4
<1>5. w \in [1..Width -> 0..(Base - 1)]
  BY <1>2, <1>4
<1>6. p \in [0..Width -> Nat]
  <2>1. \A j \in 0..Width : Width - j \in 0..Width
    OBVIOUS
  <2> QED BY <1>1, <2>1
<1>7. p[0] = 0 /\ p[Width] = n
  BY <1>1
<1> HIDE DEF p
<1>8. Prefixes(p, w)
  BY <1>4, <1>6, <1>7 DEF Prefixes, Shifted
<1> QED BY <1>5, <1>7, <1>8 DEF w

\* The numbers of the first j digits compare like the digits.
LEMMA PrefixOrder ==
  ASSUME NEW v \in [1..Width -> 0..(Base - 1)], NEW w \in [1..Width -> 0..(Base - 1)],
         NEW p, NEW q, Prefixes(p, v), Prefixes(q, w)
  PROVE  /\ p[Width] < q[Width] <=> Before(v, w)
         /\ v = w => p[Width] = q[Width]
         /\ p[Width] = q[Width] => v = w
<1> USE WALAssumption
<1> DEFINE Less(j) == \E i \in 1..j : (\A h \in 1..(i - 1) : v[h] = w[h]) /\ v[i] < w[i]
           Same(j) == \A i \in 1..j : v[i] = w[i]
           P == {j \in Nat : j <= Width => /\ p[j] < q[j] <=> Less(j)
                                           /\ p[j] = q[j] <=> Same(j)}
<1>1. 0 \in P
  <2>1. ~Less(0) /\ Same(0)
    OBVIOUS
  <2>2. p[0] = 0 /\ q[0] = 0
    BY DEF Prefixes
  <2> HIDE DEF Less, Same
  <2> QED BY <2>1, <2>2
<1>2. ASSUME NEW j \in Nat, j \in P
      PROVE  j + 1 \in P
  <2> SUFFICES ASSUME j + 1 <= Width
               PROVE  /\ p[j + 1] < q[j + 1] <=> Less(j + 1)
                      /\ p[j + 1] = q[j + 1] <=> Same(j + 1)
    OBVIOUS
  <2>1. j \in 0..Width /\ j + 1 \in 1..Width /\ (j + 1) - 1 = j
    OBVIOUS
  <2> DEFINE x == p[j]  y == q[j]  d == v[j + 1]  e == w[j + 1]
  <2>2. /\ x \in Nat /\ y \in Nat /\ d \in 0..(Base - 1) /\ e \in 0..(Base - 1)
        /\ p[j + 1] = Shifted(x, d) /\ q[j + 1] = Shifted(y, e)
    BY <2>1 DEF Prefixes
  <2>3. (x < y <=> Less(j)) /\ (x = y <=> Same(j))
    BY <1>2, <2>1
  <2>4. Less(j + 1) <=> Less(j) \/ (Same(j) /\ d < e)
    <3>1. ASSUME Less(j + 1)
          PROVE  Less(j) \/ (Same(j) /\ d < e)
      <4>1. PICK i \in 1..(j + 1) : (\A h \in 1..(i - 1) : v[h] = w[h]) /\ v[i] < w[i]
        BY <3>1
      <4>2. CASE i = j + 1
        BY <4>1, <4>2
      <4>3. CASE i # j + 1
        <5>1. i \in 1..j
          BY <4>3
        <5> QED BY <4>1, <5>1
      <4> QED BY <4>2, <4>3
    <3>2. ASSUME Less(j)
          PROVE  Less(j + 1)
      <4>1. PICK i \in 1..j : (\A h \in 1..(i - 1) : v[h] = w[h]) /\ v[i] < w[i]
        BY <3>2
      <4>2. i \in 1..(j + 1)
        OBVIOUS
      <4> QED BY <4>1, <4>2
    <3>3. ASSUME Same(j), d < e
          PROVE  Less(j + 1)
      <4>1. j + 1 \in 1..(j + 1)
        OBVIOUS
      <4> QED BY <2>1, <3>3, <4>1
    <3> QED BY <3>1, <3>2, <3>3
  <2>5. Same(j + 1) <=> Same(j) /\ d = e
    <3>1. \A i \in 1..(j + 1) : i \in 1..j \/ i = j + 1
      OBVIOUS
    <3>2. 1..j \subseteq 1..(j + 1) /\ j + 1 \in 1..(j + 1)
      OBVIOUS
    <3> QED BY <3>1, <3>2
  <2> HIDE DEF x, y, d, e, Less, Same
  <2>6. /\ Shifted(x, d) < Shifted(y, e) <=> x < y \/ (x = y /\ d < e)
        /\ Shifted(x, d) = Shifted(y, e) <=> x = y /\ d = e
    BY <2>2, DigitMore
  <2> QED BY <2>2, <2>3, <2>4, <2>5, <2>6
<1> HIDE DEF P
<1>3. Width \in P
  BY <1>1, <1>2, NatSetInduction
<1>4. (p[Width] < q[Width] <=> Less(Width)) /\ (p[Width] = q[Width] <=> Same(Width))
  BY <1>3 DEF P
<1>5. Before(v, w) <=> Less(Width)
  <2>1. Len(v) = Width /\ Len(w) = Width
    OBVIOUS
  <2>2. \A i \in 1..Width : ~(i > Width) /\ \A h \in 1..(i - 1) : h <= Width
    OBVIOUS
  <2>3. Before(v, w) <=> \E i \in 1..Width :
          (\A h \in 1..(i - 1) : h <= Width /\ v[h] = w[h]) /\ (i > Width \/ v[i] < w[i])
    BY <2>1 DEF Before
  <2> QED BY <2>2, <2>3
<1>6. v = w <=> Same(Width)
  OBVIOUS
<1> QED BY <1>4, <1>5, <1>6

\* writePadded20 writes Width digits, different ones for different numbers, and
\* their order is the numbers'.
THEOREM PaddedOrder ==
  \A m, n \in Padded :
    /\ writePadded20(m) \in [1..Width -> 0..(Base - 1)]
    /\ Before(writePadded20(m), writePadded20(n)) <=> m < n
    /\ writePadded20(m) = writePadded20(n) => m = n
<1> SUFFICES ASSUME NEW m \in Padded, NEW n \in Padded
             PROVE  /\ writePadded20(m) \in [1..Width -> 0..(Base - 1)]
                    /\ Before(writePadded20(m), writePadded20(n)) <=> m < n
                    /\ writePadded20(m) = writePadded20(n) => m = n
  OBVIOUS
<1> DEFINE v == writePadded20(m)  w == writePadded20(n)
<1>1. PICK p : Prefixes(p, v) /\ p[Width] = m
  BY DigitsOf
<1>2. PICK q : Prefixes(q, w) /\ q[Width] = n
  BY DigitsOf
<1>3. v \in [1..Width -> 0..(Base - 1)] /\ w \in [1..Width -> 0..(Base - 1)]
  BY DigitsOf
<1> HIDE DEF v, w
<1>4. (m < n <=> Before(v, w)) /\ (v = w => m = n)
  BY <1>1, <1>2, <1>3, PrefixOrder
<1> QED BY <1>3, <1>4 DEF v, w

-----------------------------------------------------------------------------
(* Keys *)

\* The characters of two sequences, one after the other.
LEMMA ConcatAt ==
  ASSUME NEW S, NEW s \in Seq(S), NEW u \in Seq(S)
  PROVE  /\ s \o u \in Seq(S) /\ Len(s \o u) = Len(s) + Len(u)
         /\ \A i \in 1..Len(s) : (s \o u)[i] = s[i]
         /\ \A i \in 1..Len(u) : (s \o u)[Len(s) + i] = u[i]
<1>1. s \o u \in Seq(S) /\ Len(s \o u) = Len(s) + Len(u)
  OBVIOUS
<1>2. ASSUME NEW i \in 1..Len(s) PROVE (s \o u)[i] = s[i]
  OBVIOUS
<1>3. ASSUME NEW i \in 1..Len(u) PROVE (s \o u)[Len(s) + i] = u[i]
  <2>1. /\ Len(s) + i \in 1..(Len(s) + Len(u)) /\ ~(Len(s) + i <= Len(s))
        /\ Len(s) + i - Len(s) = i
    OBVIOUS
  <2> QED BY <2>1
<1> QED BY <1>1, <1>2, <1>3

\* The characters of two parts with a colon between them.
LEMMA Joined ==
  ASSUME NEW p \in [1..Width -> 0..(Base - 1)], NEW q \in [1..Width -> 0..(Base - 1)]
  PROVE  LET k == p \o <<Colon>> \o q
         IN  /\ Len(k) = 2 * Width + 1 /\ k[Width + 1] = Colon
             /\ \A i \in 1..Width : k[i] = p[i] /\ k[Width + 1 + i] = q[i]
<1> USE WALAssumption
<1> DEFINE c == <<Colon>>
           h == p \o c
           k == h \o q
<1>1. /\ p \in Seq(Nat) /\ Len(p) = Width /\ q \in Seq(Nat) /\ Len(q) = Width
      /\ c \in Seq(Nat) /\ Len(c) = 1 /\ c[1] = Colon
  BY DEF Colon
<1> HIDE DEF c
<1>2. /\ h \in Seq(Nat) /\ Len(h) = Width + 1 /\ h[Width + 1] = Colon
      /\ \A i \in 1..Width : h[i] = p[i]
  <2>0. p \in Seq(Nat) /\ c \in Seq(Nat)
    BY <1>1
  <2>1. /\ h \in Seq(Nat) /\ Len(h) = Len(p) + Len(c)
        /\ \A i \in 1..Len(p) : h[i] = p[i]
        /\ \A i \in 1..Len(c) : h[Len(p) + i] = c[i]
    BY <2>0, ConcatAt
  <2> HIDE DEF h
  <2>2. h[Width + 1] = Colon
    BY <1>1, <2>1
  <2> QED BY <1>1, <2>1, <2>2
<1> HIDE DEF h
<1>3. /\ Len(k) = Len(h) + Len(q)
      /\ \A i \in 1..Len(h) : k[i] = h[i]
      /\ \A i \in 1..Len(q) : k[Len(h) + i] = q[i]
  <2>0. h \in Seq(Nat) /\ q \in Seq(Nat)
    BY <1>1, <1>2
  <2> QED BY <2>0, ConcatAt
<1> HIDE DEF k
<1>4. Len(k) = 2 * Width + 1 /\ k[Width + 1] = Colon
  BY <1>1, <1>2, <1>3
<1>5. \A i \in 1..Width : k[i] = p[i] /\ k[Width + 1 + i] = q[i]
  BY <1>1, <1>2, <1>3
<1> QED BY <1>4, <1>5 DEF k, h, c

\* parseKeyTime reads back the stamp that makeKey wrote.
THEOREM ParseInverts ==
  \A a \in Stamps_, n \in Numbers_ : parseKeyTime(makeKey(a, n)) = a
<1> SUFFICES ASSUME NEW a \in Stamps_, NEW n \in Numbers_
             PROVE  parseKeyTime(makeKey(a, n)) = a
  OBVIOUS
<1> USE WALAssumption
<1> DEFINE w == writePadded20(a)
           u == writePadded20(n)
           key == makeKey(a, n)
<1>1. /\ w \in [1..Width -> 0..(Base - 1)] /\ u \in [1..Width -> 0..(Base - 1)]
      /\ \E p : Prefixes(p, w) /\ p[Width] = a
  BY DigitsOf DEF Padded
<1>2. PICK p : Prefixes(p, w) /\ p[Width] = a
  BY <1>1
<1>3. key = w \o <<Colon>> \o u
  BY DEF makeKey
<1> HIDE DEF w, u, key
<1>4. \A i \in 1..Width : key[i] = w[i]
  BY <1>1, <1>3, Joined
<1> DEFINE Loop(f) == f = [i \in 0..Width |-> IF i = 0 THEN 0 ELSE f[i - 1] * Base + key[i]]
<1>5. Loop(p)
  <2>1. ASSUME NEW i \in 0..Width
        PROVE  p[i] = IF i = 0 THEN 0 ELSE p[i - 1] * Base + key[i]
    <3>1. CASE i = 0
      BY <1>2, <3>1 DEF Prefixes
    <3>2. CASE i # 0
      <4>1. i \in 1..Width
        BY <3>2
      <4>2. p[i] = Shifted(p[i - 1], w[i]) /\ key[i] = w[i]
        BY <1>2, <1>4, <4>1 DEF Prefixes
      <4> QED BY <3>2, <4>2 DEF Shifted
    <3> QED BY <3>1, <3>2
  <2>2. p = [i \in 0..Width |-> p[i]]
    BY <1>2 DEF Prefixes
  <2> QED BY <2>1, <2>2
<1> DEFINE nanos == CHOOSE f : Loop(f)
<1>6. parseKeyTime(key) = nanos[Width]
  BY DEF parseKeyTime
<1>7. Loop(nanos)
  <2> HIDE DEF Loop
  <2> QED BY <1>5
<1> HIDE DEF nanos
<1>8. /\ \A i \in 0..Width : nanos[i] = IF i = 0 THEN 0 ELSE nanos[i - 1] * Base + key[i]
      /\ \A i \in 0..Width : p[i] = IF i = 0 THEN 0 ELSE p[i - 1] * Base + key[i]
  BY <1>5, <1>7
<1> DEFINE P == {i \in Nat : i <= Width => nanos[i] = p[i]}
<1>9. 0 \in P
  BY <1>8
<1>10. ASSUME NEW i \in Nat, i \in P
       PROVE  i + 1 \in P
  <2> SUFFICES ASSUME i + 1 <= Width PROVE nanos[i + 1] = p[i + 1]
    OBVIOUS
  <2>1. i + 1 \in 0..Width /\ i + 1 # 0 /\ (i + 1) - 1 = i /\ nanos[i] = p[i]
    BY <1>10
  <2> QED BY <1>8, <2>1
<1> HIDE DEF P
<1>11. Width \in P
  BY <1>9, <1>10, NatSetInduction
<1>12. nanos[Width] = p[Width]
  BY <1>11 DEF P
<1> QED BY <1>2, <1>6, <1>12 DEF key

\* Two parts with a colon between them compare by the first part, then by the
\* second.
LEMMA JoinedOrder ==
  ASSUME NEW p \in [1..Width -> 0..(Base - 1)], NEW q \in [1..Width -> 0..(Base - 1)],
         NEW r \in [1..Width -> 0..(Base - 1)], NEW t \in [1..Width -> 0..(Base - 1)]
  PROVE  LET k == p \o <<Colon>> \o q  l == r \o <<Colon>> \o t
         IN  /\ Before(k, l) <=> Before(p, r) \/ (p = r /\ Before(q, t))
             /\ k = l => p = r /\ q = t
<1> USE WALAssumption
<1> DEFINE k == p \o <<Colon>> \o q
           l == r \o <<Colon>> \o t
<1>1. /\ Colon \in Nat /\ \A f \in [1..Width -> 0..(Base - 1)] : f \in Seq(Nat) /\ Len(f) = Width
  BY DEF Colon
<1>2. /\ Len(k) = 2 * Width + 1 /\ k[Width + 1] = Colon
      /\ \A i \in 1..Width : k[i] = p[i] /\ k[Width + 1 + i] = q[i]
  BY Joined
<1>3. /\ Len(l) = 2 * Width + 1 /\ l[Width + 1] = Colon
      /\ \A i \in 1..Width : l[i] = r[i] /\ l[Width + 1 + i] = t[i]
  BY Joined
<1> HIDE DEF k, l
<1>4. ASSUME NEW i \in 1..(2 * Width + 1)
      PROVE  i \in 1..Width \/ i = Width + 1 \/ i - (Width + 1) \in 1..Width
  OBVIOUS
<1>5. ASSUME Before(k, l)
      PROVE  Before(p, r) \/ (p = r /\ Before(q, t))
  <2>0. PICK i \in 1..Len(l) :
          (\A j \in 1..(i - 1) : j <= Len(k) /\ k[j] = l[j]) /\ (i > Len(k) \/ k[i] < l[i])
    BY <1>5 DEF Before
  <2>1. i \in 1..(2 * Width + 1) /\ (\A j \in 1..(i - 1) : k[j] = l[j]) /\ k[i] < l[i]
    BY <2>0, <1>2, <1>3
  <2>2. CASE i \in 1..Width
    <3>1. p[i] < r[i]
      BY <2>1, <2>2, <1>2, <1>3
    <3>2. \A j \in 1..(i - 1) : p[j] = r[j] /\ j <= Width
      BY <2>1, <2>2, <1>2, <1>3
    <3> QED BY <1>1, <2>2, <3>1, <3>2 DEF Before
  <2>3. CASE i = Width + 1
    BY <2>1, <2>3, <1>1, <1>2, <1>3
  <2>4. CASE i - (Width + 1) \in 1..Width
    <3> DEFINE d == i - (Width + 1)
    <3>1. d \in 1..Width /\ i = Width + 1 + d
      BY <2>4
    <3> HIDE DEF d
    <3>2. ASSUME NEW j \in 1..Width
          PROVE  p[j] = r[j]
      <4>1. j \in 1..(i - 1)
        BY <3>1
      <4> QED BY <2>1, <4>1, <1>2, <1>3
    <3>3. q[d] < t[d]
      BY <2>1, <3>1, <1>2, <1>3
    <3>4. \A j \in 1..(d - 1) : q[j] = t[j] /\ j <= Width
      <4> SUFFICES ASSUME NEW j \in 1..(d - 1) PROVE q[j] = t[j] /\ j <= Width
        OBVIOUS
      <4>1. j \in 1..Width /\ Width + 1 + j \in 1..(i - 1)
        BY <3>1
      <4> QED BY <2>1, <4>1, <1>2, <1>3
    <3>5. p = r
      BY <3>2
    <3>6. Before(q, t)
      BY <1>1, <3>1, <3>3, <3>4 DEF Before
    <3> QED BY <3>5, <3>6
  <2> QED BY <2>1, <2>2, <2>3, <2>4, <1>4
<1>6. ASSUME Before(p, r)
      PROVE  Before(k, l)
  <2>1. PICK i \in 1..Width : (\A j \in 1..(i - 1) : p[j] = r[j]) /\ p[i] < r[i]
    BY <1>1, <1>6 DEF Before
  <2>2. i \in 1..(2 * Width + 1) /\ k[i] < l[i]
    BY <2>1, <1>2, <1>3
  <2>3. ASSUME NEW j \in 1..(i - 1)
        PROVE  j <= 2 * Width + 1 /\ k[j] = l[j]
    <3>1. j \in 1..Width /\ j <= 2 * Width + 1
      OBVIOUS
    <3> QED BY <2>1, <3>1, <1>2, <1>3
  <2> QED BY <1>2, <1>3, <2>2, <2>3 DEF Before
<1>7. ASSUME p = r, Before(q, t)
      PROVE  Before(k, l)
  <2>1. PICK i \in 1..Width : (\A j \in 1..(i - 1) : q[j] = t[j]) /\ q[i] < t[i]
    BY <1>1, <1>7 DEF Before
  <2>2. Width + 1 + i \in 1..(2 * Width + 1) /\ k[Width + 1 + i] < l[Width + 1 + i]
    BY <2>1, <1>2, <1>3
  <2>3. ASSUME NEW j \in 1..(Width + 1 + i - 1)
        PROVE  j <= 2 * Width + 1 /\ k[j] = l[j]
    <3>1. CASE j \in 1..Width
      <4>1. j <= 2 * Width + 1
        BY <3>1
      <4> QED BY <3>1, <4>1, <1>2, <1>3, <1>7
    <3>2. CASE j = Width + 1
      BY <3>2, <1>2, <1>3
    <3>3. CASE ~(j \in 1..Width \/ j = Width + 1)
      <4> DEFINE h == j - (Width + 1)
      <4>1. h \in 1..(i - 1) /\ h \in 1..Width /\ j = Width + 1 + h
        BY <3>3
      <4> HIDE DEF h
      <4>2. k[j] = q[h] /\ l[j] = t[h] /\ q[h] = t[h]
        BY <4>1, <2>1, <1>2, <1>3
      <4> QED BY <4>1, <4>2
    <3> QED BY <3>1, <3>2, <3>3
  <2> DEFINE n == Width + 1 + i
  <2>4. n \in 1..Len(l) /\ k[n] < l[n] /\ \A j \in 1..(n - 1) : j <= Len(k) /\ k[j] = l[j]
    BY <1>2, <1>3, <2>2, <2>3
  <2> HIDE DEF n
  <2> QED BY <2>4 DEF Before
<1>8. ASSUME k = l
      PROVE  p = r /\ q = t
  <2>1. \A i \in 1..Width : p[i] = r[i] /\ q[i] = t[i]
    BY <1>2, <1>3, <1>8
  <2> QED BY <2>1
<1> QED BY <1>5, <1>6, <1>7, <1>8 DEF k, l

\* Hence the keys in use are ordered like stamps and numbers.
LEMMA KeysOrdered ==
  ASSUME Types
  PROVE  KeyOrder
<1>1. InUse \subseteq Stamps_ \X Numbers_
  BY DEF Types, Entries, InUse, Ids, Id
<1>2. ASSUME NEW i \in InUse, NEW j \in InUse
      PROVE  LET k == makeKey(i[1], i[2])  l == makeKey(j[1], j[2])
             IN  /\ Before(k, l) <=> i[1] < j[1] \/ (i[1] = j[1] /\ i[2] < j[2])
                 /\ k = l => i = j
  <2>1. \A n \in {i[1], i[2], j[1], j[2]} : n \in Padded
    BY <1>1 DEF Padded
  <2>2. i = <<i[1], i[2]>> /\ j = <<j[1], j[2]>>
    BY <1>1
  <2> DEFINE p == writePadded20(i[1])  q == writePadded20(i[2])
             r == writePadded20(j[1])  t == writePadded20(j[2])
  <2>3. /\ p \in [1..Width -> 0..(Base - 1)] /\ q \in [1..Width -> 0..(Base - 1)]
        /\ r \in [1..Width -> 0..(Base - 1)] /\ t \in [1..Width -> 0..(Base - 1)]
        /\ Before(p, r) <=> i[1] < j[1]
        /\ Before(q, t) <=> i[2] < j[2]
        /\ p = r => i[1] = j[1]
        /\ q = t => i[2] = j[2]
    BY <2>1, PaddedOrder
  <2>4. i[1] = j[1] => p = r
    OBVIOUS
  <2>5. makeKey(i[1], i[2]) = p \o <<Colon>> \o q /\ makeKey(j[1], j[2]) = r \o <<Colon>> \o t
    BY DEF makeKey
  <2> HIDE DEF p, q, r, t
  <2>6. LET k == p \o <<Colon>> \o q  l == r \o <<Colon>> \o t
        IN  /\ Before(k, l) <=> Before(p, r) \/ (p = r /\ Before(q, t))
            /\ k = l => p = r /\ q = t
    BY <2>3, JoinedOrder
  <2> QED BY <2>2, <2>3, <2>4, <2>5, <2>6
<1> QED BY <1>2 DEF KeyOrder

-----------------------------------------------------------------------------
(* Steps *)

\* Initially nothing is stored and nobody is at work.
LEMMA WALInit == Init => WALInv
<1> SUFFICES ASSUME Init PROVE WALInv
  OBVIOUS
<1> USE WALAssumption DEF Init, Opened
<1>1. Numbering = {}
  BY DEF Numbering, Idle
<1>2. Types
  BY <1>1, FS_EmptySet DEF Types, Idle, Stamps_, Numbers_
<1>3. OutBound
  <2>1. PICK n \in Limits : n \in Nat
    OBVIOUS
  <2>2. Cardinality(out) = 0
    BY FS_EmptySet
  <2> QED BY <2>1, <2>2 DEF OutBound
<1>4. EntriesInv /\ CallsInv /\ StampsInv /\ OutInv
  BY DEF EntriesInv, CallsInv, StampsInv, OutInv, Idle
<1>5. ExactlyOnce /\ InsertionOrder
  BY DEF ExactlyOnce, InsertionOrder, Ids
<1> QED BY <1>2, <1>3, <1>4, <1>5 DEF WALInv

\* An identity is the pair of stamp and number.
LEMMA Identity ==
  ASSUME NEW e, NEW f
  PROVE  /\ Id(e)[1] = e.at /\ Id(e)[2] = e.seq
         /\ Id(e) = Id(f) <=> e.at = f.at /\ e.seq = f.seq
BY DEF Id

\* Stamps and numbers order identities strictly and totally.
LEMMA EarlierOrder ==
  ASSUME NEW e, NEW f, e.at \in Nat, e.seq \in Nat, f.at \in Nat, f.seq \in Nat
  PROVE  /\ ~Earlier(Id(e), Id(e))
         /\ Id(e) = Id(f) \/ Earlier(Id(e), Id(f)) \/ Earlier(Id(f), Id(e))
         /\ \A g : /\ g.at \in Nat /\ g.seq \in Nat
                   /\ Earlier(Id(e), Id(f)) /\ Earlier(Id(f), Id(g))
                   => Earlier(Id(e), Id(g))
BY Identity DEF Earlier

\* An identity that is not later than stamp a, and not in it beyond number s, is
\* earlier than the next number.
LEMMA EarlierNext ==
  ASSUME NEW i, i[1] \in Nat, i[2] \in Nat, NEW a \in Nat, NEW s \in Nat,
         i[1] <= a, i[2] > s => i[1] < a
  PROVE  Earlier(i, <<a, s + 1>>)
<1>1. i[1] < a \/ (i[1] = a /\ i[2] < s + 1)
  OBVIOUS
<1> QED BY <1>1 DEF Earlier

\* The clock, the counter and the entry of a new Append.
LEMMA StampInv ==
  ASSUME WALInv, NEW c \in Callers, Stamp(c)
  PROVE  WALInv'
<1> USE WALAssumption DEF WALInv, Stamp, Types
<1>1. Types'
  <2>1. Numbering' = Numbering \cup {c} /\ c \notin Numbering
    BY DEF Numbering
  <2>2. IsFiniteSet(Numbering)
    BY FS_Subset DEF Numbering
  <2>3. Cardinality(Numbering') = Cardinality(Numbering) + 1 /\ Cardinality(Numbering) \in Nat
    BY <2>1, <2>2, FS_AddElement, FS_CardinalityType
  <2>4. begun' \in Numbers_ /\ seq' + Cardinality(Numbering') <= begun'
    BY <2>3 DEF Numbers_
  <2>5. call' \in [Callers -> [pc : {"idle", "key", "commit"}, at : Stamps_,
                     seq : Numbers_, after : SUBSET (Stamps_ \X Numbers_)]]
    <3>1. [pc |-> "key", at |-> now, seq |-> 0, after |-> written]
            \in [pc : {"idle", "key", "commit"}, at : Stamps_,
                 seq : Numbers_, after : SUBSET (Stamps_ \X Numbers_)]
      BY DEF Numbers_
    <3> QED BY <3>1
  <2> QED BY <2>4, <2>5
<1>2. EntriesInv'
  BY DEF EntriesInv
<1>3. CallsInv'
  BY DEF CallsInv, StampsInv, Stamps_
<1>4. StampsInv'
  BY DEF StampsInv, Stamps_, Numbers_
<1>5. OutInv' /\ OutBound' /\ ExactlyOnce' /\ InsertionOrder'
  BY DEF OutInv, OutBound, ExactlyOnce, InsertionOrder, Live, Expired
<1> QED BY <1>1, <1>2, <1>3, <1>4, <1>5

\* A number is one more than any that this process has given out.
LEMMA NumberInv ==
  ASSUME WALInv, NEW c \in Callers, Number(c)
  PROVE  WALInv'
<1> USE WALAssumption DEF WALInv, Number, Types
<1>1. Types'
  <2>1. Numbering' = Numbering \ {c} /\ c \in Numbering
    BY DEF Numbering
  <2>2. IsFiniteSet(Numbering)
    BY FS_Subset DEF Numbering
  <2>3. /\ Cardinality(Numbering') = Cardinality(Numbering) - 1
        /\ Cardinality(Numbering) \in Nat /\ Cardinality(Numbering') \in Nat
    BY <2>1, <2>2, FS_RemoveElement, FS_CardinalityType
  <2>4. seq' \in Numbers_ /\ seq' + Cardinality(Numbering') <= begun'
    BY <2>3 DEF Numbers_
  <2>5. call' \in [Callers -> [pc : {"idle", "key", "commit"}, at : Stamps_,
                     seq : Numbers_, after : SUBSET (Stamps_ \X Numbers_)]]
    <3>1. call[c] \in [pc : {"idle", "key", "commit"}, at : Stamps_,
                       seq : Numbers_, after : SUBSET (Stamps_ \X Numbers_)]
      OBVIOUS
    <3>2. [call[c] EXCEPT !.pc = "commit", !.seq = seq'] \in
            [pc : {"idle", "key", "commit"}, at : Stamps_,
             seq : Numbers_, after : SUBSET (Stamps_ \X Numbers_)]
      BY <2>4, <3>1
    <3>3. call' = [call EXCEPT ![c] = [call[c] EXCEPT !.pc = "commit", !.seq = seq']]
      OBVIOUS
    <3> QED BY <3>2, <3>3
  <2> QED BY <2>4, <2>5
<1>2. EntriesInv'
  BY DEF EntriesInv
<1>3. Id(call'[c]) = <<call[c].at, seq + 1>> /\ call'[c].after = call[c].after
  BY DEF Id
<1>4. \A i \in written : i[1] \in Stamps_ /\ i[2] \in Numbers_
  OBVIOUS
<1>5. Id(call'[c]) \notin written
  BY <1>3, <1>4 DEF StampsInv, CallsInv, Stamps_, Numbers_
<1>6. \A i \in call'[c].after : Earlier(i, Id(call'[c]))
  <2> SUFFICES ASSUME NEW i \in call[c].after
               PROVE  Earlier(i, <<call[c].at, seq + 1>>)
    BY <1>3
  <2>1. i \in written /\ i[1] <= call[c].at
    BY DEF CallsInv
  <2>2. i[2] > seq => i[1] < call[c].at
    BY <2>1 DEF StampsInv
  <2>3. i[1] \in Nat /\ i[2] \in Nat /\ call[c].at \in Nat /\ seq \in Nat
    BY <2>1, <1>4 DEF Stamps_, Numbers_
  <2> QED BY <2>1, <2>2, <2>3, EarlierNext
<1>7. CallsInv'
  <2>1. \A d \in Callers : d # c => call'[d] = call[d]
    OBVIOUS
  <2>2. call'[c].pc = "commit" /\ call'[c].seq = seq + 1 /\ call'[c].at = call[c].at
    OBVIOUS
  <2>3. \A d \in Callers : call'[d].pc = "commit" /\ d # c => call'[d].seq # seq + 1
    BY <2>1 DEF CallsInv, Numbers_
  <2>4. \A d \in Callers : call'[d].pc # "idle" =>
           /\ up' /\ call'[d].at <= now' /\ call'[d].after \subseteq written'
           /\ \A i \in call'[d].after : i[1] <= call'[d].at
    BY <2>1, <2>2, <1>3 DEF CallsInv
  <2>5. \A d \in Callers : call'[d].pc = "commit" =>
           /\ call'[d].seq <= seq' /\ Id(call'[d]) \notin written'
           /\ \A i \in call'[d].after : Earlier(i, Id(call'[d]))
    BY <2>1, <2>2, <1>5, <1>6 DEF CallsInv, Numbers_
  <2>6. \A d, e \in Callers :
          call'[d].pc = "commit" /\ call'[e].pc = "commit" /\ call'[d].seq = call'[e].seq => d = e
    BY <2>1, <2>2, <2>3 DEF CallsInv
  <2> QED BY <2>4, <2>5, <2>6 DEF CallsInv
<1>8. StampsInv'
  <2>1. \A d \in Callers : call'[d].at = call[d].at /\ (call'[d].pc # "idle" => call[d].pc # "idle")
    OBVIOUS
  <2> QED BY <2>1, <1>4 DEF StampsInv, Numbers_
<1>9. OutInv' /\ OutBound' /\ ExactlyOnce' /\ InsertionOrder'
  BY DEF OutInv, OutBound, ExactlyOnce, InsertionOrder, Live, Expired
<1> QED BY <1>1, <1>2, <1>7, <1>8, <1>9

\* An append that is about to commit overwrites nothing.
LEMMA CommitAdds ==
  ASSUME WALInv, KeyOrder, NEW c \in Callers, Commit(c)
  PROVE  /\ Entry(c) \in Entries /\ Id(Entry(c)) = Id(call[c])
         /\ store' = store \cup {Entry(c)} /\ Id(Entry(c)) \notin written
         /\ Entry(c).exp # 0 => TTL > 0 /\ Entry(c).exp > now
<1> USE WALAssumption DEF WALInv, Types
<1>1. Entry(c) \in Entries /\ Id(Entry(c)) = Id(call[c])
  BY DEF Entry, Entries, Keys_, ExpiresAt, Stamps_, Numbers_, Id, Commit
<1>2. Id(call[c]) \in InUse /\ \A e \in store : Id(e) \in InUse
  BY DEF InUse, Ids, Commit
<1>3. ASSUME NEW e \in store PROVE e.key # Entry(c).key
  <2>1. e.key = makeKey(Id(e)[1], Id(e)[2]) /\ Id(e) \in written
    BY DEF EntriesInv, Id, ExactlyOnce, Ids
  <2>2. Entry(c).key = makeKey(Id(call[c])[1], Id(call[c])[2])
    BY DEF Entry, Id
  <2>3. Id(e) # Id(call[c])
    BY <2>1 DEF CallsInv, Commit
  <2> QED BY <2>1, <2>2, <2>3, <1>2 DEF KeyOrder
<1>4. store' = store \cup {Entry(c)}
  BY <1>3 DEF Commit
<1>5. Id(Entry(c)) \notin written
  BY <1>1 DEF CallsInv, Commit
<1>6. Entry(c).exp # 0 => TTL > 0 /\ Entry(c).exp > now
  BY DEF Entry, ExpiresAt, Stamps_
<1> QED BY <1>1, <1>4, <1>5, <1>6

\* A commit adds an entry under a key of its own.
LEMMA CommitInv ==
  ASSUME WALInv, KeyOrder, NEW c \in Callers, Commit(c)
  PROVE  WALInv'
<1> USE WALAssumption DEF WALInv, Types
<1> DEFINE n == Entry(c)
<1>0. /\ n \in Entries /\ Id(n) = Id(call[c]) /\ store' = store \cup {n}
      /\ Id(n) \notin written /\ (n.exp # 0 => TTL > 0)
      /\ written' = written \cup {Id(n)}
      /\ n.key = makeKey(n.at, n.seq) /\ n.after = call[c].after
  BY CommitAdds DEF Commit, Entry
<1>a. Id(n) \in Stamps_ \X Numbers_ /\ Id(n)[1] = call[c].at /\ Id(n)[2] = call[c].seq
  BY <1>0 DEF Id, Entries, Entry
<1>b. /\ call[c].pc = "commit" /\ UNCHANGED <<now, up, seq, out, begun, returned>>
      /\ call'[c] = Idle /\ \A d \in Callers : d # c => call'[d] = call[d]
  BY DEF Commit
<1> HIDE DEF n
<1>1. Types'
  <2>1. Numbering' = Numbering
    BY DEF Numbering, Commit, Idle
  <2>2. IsFiniteSet(store')
    BY <1>0, FS_AddElement
  <2>3. call' \in [Callers -> [pc : {"idle", "key", "commit"}, at : Stamps_,
                     seq : Numbers_, after : SUBSET (Stamps_ \X Numbers_)]]
    BY DEF Commit, Idle, Stamps_, Numbers_
  <2> QED BY <2>1, <2>2, <2>3, <1>0, <1>a, <1>b
<1>2. EntriesInv'
  <2>1. \A e \in store : Id(e) \in written
    BY DEF ExactlyOnce, Ids
  <2>2. n.after \subseteq written /\ \A i \in n.after : Earlier(i, Id(n))
    BY <1>0, <1>b DEF CallsInv
  <2> QED BY <2>1, <2>2, <1>0 DEF EntriesInv
<1>3. CallsInv'
  <2>1. \A d \in Callers : d # c /\ call[d].pc = "commit" => Id(call[d]) # Id(n)
    BY <1>0, <1>b, Identity DEF CallsInv
  <2>2. \A d \in Callers : call'[d].pc # "idle" => d # c /\ call'[d] = call[d]
    BY <1>b DEF Idle
  <2>3. \A d \in Callers : call'[d].pc = "commit" => Id(call'[d]) \notin written'
    BY <2>1, <2>2, <1>0 DEF CallsInv
  <2>4. written \subseteq written'
    BY <1>0
  <2>5. \A d \in Callers : call'[d].pc # "idle" =>
           /\ up' /\ call'[d].at <= now' /\ call'[d].after \subseteq written'
           /\ \A i \in call'[d].after : i[1] <= call'[d].at
    BY <2>2, <2>4, <1>b DEF CallsInv
  <2>6. \A d \in Callers : call'[d].pc = "commit" =>
           /\ call'[d].seq <= seq'
           /\ \A i \in call'[d].after : Earlier(i, Id(call'[d]))
    BY <2>2, <1>b DEF CallsInv
  <2>7. \A d, e \in Callers :
          call'[d].pc = "commit" /\ call'[e].pc = "commit" /\ call'[d].seq = call'[e].seq => d = e
    BY <2>2 DEF CallsInv
  <2> QED BY <2>3, <2>5, <2>6, <2>7 DEF CallsInv
<1>4. StampsInv'
  <2>1. \A d \in Callers : call'[d].pc # "idle" => call'[d] = call[d] /\ call[d].pc # "idle"
    BY <1>b DEF Idle
  <2>2. Id(n)[1] <= now /\ Id(n)[2] <= seq /\ Id(n)[2] \in Nat /\ seq \in Nat
    BY <1>a, <1>b DEF CallsInv, Numbers_
  <2>3. ~(Id(n)[2] > seq)
    BY <2>2
  <2> QED BY <2>1, <2>2, <2>3, <1>0, <1>b DEF StampsInv
<1>5. OutInv' /\ OutBound'
  BY <1>0, <1>b DEF OutInv, OutBound
<1>6. ExactlyOnce'
  BY <1>0, <1>b DEF ExactlyOnce, Ids
<1>7. InsertionOrder'
  <2>1. \A e \in out : Id(n) \notin e.after
    BY <1>0 DEF OutInv, EntriesInv
  <2>2. Live' \subseteq Live \cup {n}
    BY <1>0, <1>b DEF Live, Expired
  <2> QED BY <2>1, <2>2, <1>b DEF InsertionOrder
<1> QED BY <1>1, <1>2, <1>3, <1>4, <1>5, <1>6, <1>7

\* A failed transaction leaves nothing but a gap in the numbers.
LEMMA AppendFailsInv ==
  ASSUME WALInv, NEW c \in Callers, AppendFails(c)
  PROVE  WALInv'
<1> USE WALAssumption DEF WALInv, Types, AppendFails
<1>1. Types'
  <2>1. Numbering' = Numbering
    BY DEF Numbering, Idle
  <2>2. call' \in [Callers -> [pc : {"idle", "key", "commit"}, at : Stamps_,
                     seq : Numbers_, after : SUBSET (Stamps_ \X Numbers_)]]
    BY DEF Idle, Stamps_, Numbers_
  <2> QED BY <2>1, <2>2
<1>2. CallsInv' /\ StampsInv'
  BY DEF CallsInv, StampsInv, Idle
<1>3. EntriesInv' /\ OutInv' /\ OutBound' /\ ExactlyOnce' /\ InsertionOrder'
  BY DEF EntriesInv, OutInv, OutBound, ExactlyOnce, InsertionOrder, Live, Expired
<1> QED BY <1>1, <1>2, <1>3

\* Drain reads: what has fewer than n entries before it is read with all of
\* those, and is at most n entries.
LEMMA OldestFirst ==
  ASSUME WALInv, KeyOrder, NEW n \in Limits
  PROVE  /\ \A e \in Oldest(n), f \in Live : Before(f.key, e.key) => f \in Oldest(n)
         /\ Cardinality(Oldest(n)) <= n
<1> USE WALAssumption DEF WALInv, Types
<1> DEFINE pred(e) == {f \in Live : Before(f.key, e.key)}
<1> DEFINE rank == [e \in Live |-> Cardinality(pred(e))]
<1>0. IsFiniteSet(Live) /\ Live \subseteq store /\ n \in Nat
  BY FS_Subset DEF Live
<1>1. \A e, f \in store : Before(f.key, e.key) <=> Earlier(Id(f), Id(e))
  <2> TAKE e, f \in store
  <2>1. Id(e) \in InUse /\ Id(f) \in InUse
    BY DEF InUse, Ids
  <2>2. /\ e.key = makeKey(Id(e)[1], Id(e)[2])
        /\ f.key = makeKey(Id(f)[1], Id(f)[2])
    BY DEF EntriesInv, Id
  <2> QED BY <2>1, <2>2 DEF KeyOrder, Earlier
<1>2. \A e \in store : e.at \in Nat /\ e.seq \in Nat
  BY DEF Entries, Stamps_, Numbers_
<1>3. \A e, f, g \in store :
        Before(f.key, e.key) /\ Before(g.key, f.key) => Before(g.key, e.key)
  <2> TAKE e, f, g \in store
  <2>1. Earlier(Id(f), Id(e)) /\ Earlier(Id(g), Id(f)) => Earlier(Id(g), Id(e))
    BY <1>2, EarlierOrder
  <2> QED BY <2>1, <1>1
<1>4. \A e \in Live : IsFiniteSet(pred(e)) /\ Cardinality(pred(e)) \in Nat
  BY <1>0, FS_Subset, FS_CardinalityType
<1>a. rank \in [Live -> Nat]
  BY <1>4
<1>7. \A e : e \in Oldest(n) <=> e \in Live /\ rank[e] < n
  BY DEF Oldest
<1>5. \A e, f \in Live : Before(f.key, e.key) => rank[f] < rank[e]
  <2> SUFFICES ASSUME NEW e \in Live, NEW f \in Live, Before(f.key, e.key)
               PROVE  rank[f] < rank[e]
    OBVIOUS
  <2>1. pred(f) \subseteq pred(e)
    BY <1>0, <1>3
  <2>2. f \in pred(e) /\ f \notin pred(f)
    BY <1>0, <1>1, <1>2, Identity DEF Earlier
  <2>3. rank[f] <= rank[e] /\ rank[f] # rank[e]
    BY <2>1, <2>2, <1>4, FS_Subset
  <2> HIDE DEF rank
  <2> QED BY <2>3, <1>a
<1> HIDE DEF rank
<1>6. \A e \in Oldest(n), f \in Live : Before(f.key, e.key) => f \in Oldest(n)
  BY <1>0, <1>a, <1>5, <1>7
<1>8. Cardinality(Oldest(n)) <= n
  <2> DEFINE g == [e \in Oldest(n) |-> rank[e]]
  <2>1. g \in [Oldest(n) -> 0..(n - 1)]
    BY <1>7, <1>a, <1>0
  <2>2. \A e, f \in Oldest(n) : g[e] = g[f] => e = f
    <3> SUFFICES ASSUME NEW e \in Oldest(n), NEW f \in Oldest(n), e # f
                 PROVE  rank[e] # rank[f]
      OBVIOUS
    <3>0. e \in Live /\ f \in Live /\ e \in store /\ f \in store
      BY <1>0, <1>7
    <3>1. Id(e) # Id(f)
      BY <3>0 DEF EntriesInv
    <3>2. Earlier(Id(f), Id(e)) \/ Earlier(Id(e), Id(f))
      BY <3>0, <3>1, <1>2, EarlierOrder
    <3>3. Before(f.key, e.key) \/ Before(e.key, f.key)
      BY <3>0, <3>2, <1>1
    <3> QED BY <3>3, <3>0, <1>a, <1>5
  <2>3. g \in Injection(Oldest(n), 0..(n - 1))
    BY <2>1, <2>2 DEF Injection, IsInjective
  <2>4. IsFiniteSet(0..(n - 1)) /\ Cardinality(0..(n - 1)) = n
    <3>1. 0 \in Int /\ n - 1 \in Int /\ n > 0
      BY <1>0
    <3>2. Cardinality(0..(n - 1)) = IF 0 > n - 1 THEN 0 ELSE n - 1 - 0 + 1
      BY <3>1, FS_Interval
    <3>3. IsFiniteSet(0..(n - 1))
      BY <3>1, FS_Interval
    <3> QED BY <3>1, <3>2, <3>3
  <2>5. Cardinality(Oldest(n)) <= Cardinality(0..(n - 1))
    BY <2>3, <2>4, FS_Injection
  <2> QED BY <2>4, <2>5
<1> QED BY <1>6, <1>8

\* What Drain reads is the oldest part of the store, in order.
LEMMA DrainReadInv ==
  ASSUME WALInv, KeyOrder, NEW n \in Limits, DrainRead(n)
  PROVE  WALInv'
<1> USE WALAssumption DEF WALInv, Types
<1>0. UNCHANGED <<now, up, seq, store, call, oldestAge, begun, written, returned>>
      /\ out' = Oldest(n) /\ Oldest(n) \subseteq Live /\ Live' = Live /\ Live \subseteq store
  BY DEF DrainRead, Oldest, Live, Expired
<1>1. Types' /\ EntriesInv' /\ CallsInv' /\ StampsInv' /\ ExactlyOnce' /\ OutInv'
  BY <1>0 DEF Numbering, EntriesInv, CallsInv, StampsInv, ExactlyOnce, OutInv
<1>2. OutBound'
  BY <1>0, OldestFirst DEF OutBound
<1>3. InsertionOrder'
  <2> SUFFICES ASSUME NEW e \in Oldest(n), NEW f \in Live, Id(f) \in e.after
               PROVE  Id(f) \in Ids(Oldest(n)) /\ Before(f.key, e.key)
    BY <1>0 DEF InsertionOrder
  <2>1. Earlier(Id(f), Id(e))
    BY <1>0 DEF EntriesInv
  <2>2. Id(f) \in InUse /\ Id(e) \in InUse
    BY <1>0 DEF InUse, Ids
  <2>3. /\ e.key = makeKey(Id(e)[1], Id(e)[2])
        /\ f.key = makeKey(Id(f)[1], Id(f)[2])
    BY <1>0 DEF EntriesInv, Id
  <2>4. Before(f.key, e.key)
    BY <2>1, <2>2, <2>3 DEF KeyOrder, Earlier
  <2>5. f \in Oldest(n)
    BY <2>4, OldestFirst
  <2> QED BY <2>4, <2>5 DEF Ids
<1> QED BY <1>1, <1>2, <1>3

\* The delete transaction removes exactly the entries that were read.
LEMMA DeleteExact ==
  ASSUME WALInv, KeyOrder
  PROVE  Undeleted = {e \in store : Id(e) \notin Ids(out)}
<1> USE WALAssumption DEF WALInv, Types
<1>1. \A e \in store, f \in out : e.key = f.key <=> Id(e) = Id(f)
  <2> TAKE e \in store, f \in out
  <2>1. PICK g \in store : Id(g) = Id(f) /\ g.key = f.key
    BY DEF OutInv
  <2>2. Id(e) \in InUse /\ Id(g) \in InUse
    BY DEF InUse, Ids
  <2>3. /\ e.key = makeKey(Id(e)[1], Id(e)[2])
        /\ g.key = makeKey(Id(g)[1], Id(g)[2])
    BY DEF EntriesInv, Id
  <2> QED BY <2>1, <2>2, <2>3 DEF KeyOrder
<1> QED BY <1>1 DEF Undeleted, Ids

\* The deleted entries are exactly the ones returned.
LEMMA DrainDeleteInv ==
  ASSUME WALInv, KeyOrder, DrainDelete
  PROVE  WALInv'
<1> USE WALAssumption DEF WALInv, Types
<1>0. /\ UNCHANGED <<now, up, seq, call, begun, written>>
      /\ store' = {e \in store : Id(e) \notin Ids(out)} /\ store' \subseteq store
      /\ returned' = returned \cup Ids(out) /\ out' = {}
  BY DeleteExact DEF DrainDelete
<1>1. Types'
  <2>1. IsFiniteSet(store')
    BY <1>0, FS_Subset
  <2> QED BY <1>0, <2>1 DEF Numbering
<1>2. EntriesInv' /\ CallsInv' /\ StampsInv' /\ OutInv' /\ InsertionOrder'
  BY <1>0 DEF EntriesInv, CallsInv, StampsInv, OutInv, InsertionOrder
<1>3. ExactlyOnce'
  <2>1. Ids(out) \subseteq Ids(store)
    BY DEF OutInv, Ids
  <2>2. Ids(store') = Ids(store) \ Ids(out)
    BY <1>0 DEF Ids
  <2> QED BY <1>0, <2>1, <2>2 DEF ExactlyOnce
<1>4. OutBound'
  <2>1. PICK n \in Limits : n \in Nat
    OBVIOUS
  <2>2. Cardinality(out') = 0
    BY <1>0, FS_EmptySet
  <2> QED BY <2>1, <2>2 DEF OutBound
<1> QED BY <1>1, <1>2, <1>3, <1>4

\* A crash or a failing delete forgets what was read; a reopened store starts
\* numbering again, later than anything on disk.
LEMMA ForgetInv ==
  ASSUME WALInv, DrainFails \/ Crash \/ Reopen
  PROVE  WALInv'
<1> USE WALAssumption DEF WALInv, Types
<1>0. /\ UNCHANGED <<store, begun, written, returned>> /\ now' \in Stamps_ /\ now <= now'
      /\ (out' = {} \/ out' = out) /\ up' \in BOOLEAN /\ seq' \in Numbers_
  <2>1. CASE DrainFails
    BY <2>1 DEF DrainFails, Stamps_
  <2>2. CASE Crash
    <3>1. /\ now' = now /\ seq' = 0 /\ out' = {} /\ up' = FALSE
          /\ UNCHANGED <<store, begun, written, returned>>
      BY <2>2 DEF Crash
    <3>2. 0 \in Numbers_ /\ now <= now
      BY DEF Numbers_, Stamps_
    <3> QED BY <3>1, <3>2
  <2>3. CASE Reopen
    BY <2>3 DEF Reopen, Stamps_
  <2> QED BY <2>1, <2>2, <2>3
<1>1. Types'
  <2>1. CASE DrainFails \/ Reopen
    BY <2>1, <1>0 DEF DrainFails, Reopen, Numbering
  <2>2. CASE Crash
    <3>1. Numbering' = {}
      BY <2>2 DEF Crash, Numbering, Idle
    <3>2. seq' + Cardinality(Numbering') <= begun'
      BY <2>2, <3>1, FS_EmptySet DEF Crash, Numbers_
    <3>3. call' \in [Callers -> [pc : {"idle", "key", "commit"}, at : Stamps_,
                        seq : Numbers_, after : SUBSET (Stamps_ \X Numbers_)]]
      BY <2>2 DEF Crash, Idle, Stamps_, Numbers_
    <3> QED BY <2>2, <3>2, <3>3, <1>0 DEF Crash
  <2> QED BY <2>1, <2>2
<1>2. EntriesInv' /\ ExactlyOnce'
  BY <1>0 DEF EntriesInv, ExactlyOnce
<1>3. CallsInv'
  BY DEF CallsInv, DrainFails, Crash, Reopen, Idle, Stamps_
<1>4. StampsInv'
  <2>1. CASE DrainFails
    BY <2>1 DEF DrainFails, StampsInv
  <2>2. CASE Crash
    BY <2>2 DEF Crash, StampsInv
  <2>3. CASE Reopen
    <3>1. \A i \in written : i[1] \in Nat /\ i[1] <= now
      BY DEF StampsInv, Stamps_
    <3>2. now \in Nat /\ now' = now + 1
      BY <2>3 DEF Reopen, Stamps_
    <3>3. \A i \in written : i[1] <= now' /\ i[1] < now'
      BY <3>1, <3>2
    <3>4. \A c \in Callers : call'[c].pc = "idle"
      BY <2>3 DEF Reopen, CallsInv
    <3> QED BY <3>3, <3>4, <1>0 DEF StampsInv
  <2> QED BY <2>1, <2>2, <2>3
<1>5. OutInv'
  BY <1>0 DEF OutInv
<1>6. OutBound'
  <2>1. CASE out' = {}
    <3>1. PICK n \in Limits : n \in Nat
      OBVIOUS
    <3>2. Cardinality(out') = 0
      BY <2>1, FS_EmptySet
    <3> QED BY <3>1, <3>2 DEF OutBound
  <2>2. CASE out' = out
    BY <2>2 DEF OutBound
  <2> QED BY <2>1, <2>2, <1>0
<1>7. InsertionOrder'
  <2>1. Live' \subseteq Live
    BY <1>0 DEF Live, Expired, Stamps_, Entries
  <2> QED BY <1>0, <2>1 DEF InsertionOrder
<1> QED BY <1>1, <1>2, <1>3, <1>4, <1>5, <1>6, <1>7

\* Time passes, a value is damaged, the gauge is refreshed.
LEMMA TickInv ==
  ASSUME WALInv, Tick
  PROVE  WALInv'
<1> USE WALAssumption DEF WALInv, Types
<1>0. UNCHANGED <<memVars, store, begun, written, returned>> /\ now' = now + 1
      /\ now' \in Stamps_ /\ now \in Nat
  BY DEF Tick, Stamps_
<1>1. Types' /\ EntriesInv' /\ OutInv' /\ OutBound' /\ ExactlyOnce'
  BY <1>0 DEF memVars, EntriesInv, OutInv, OutBound, ExactlyOnce, Numbering
<1>2. CallsInv' /\ StampsInv'
  BY <1>0 DEF memVars, CallsInv, StampsInv, Stamps_
<1>3. InsertionOrder'
  <2>1. Live' \subseteq Live
    BY <1>0 DEF memVars, Live, Expired, Stamps_, Entries
  <2> QED BY <1>0, <2>1 DEF memVars, InsertionOrder
<1> QED BY <1>1, <1>2, <1>3

\* A damaged value changes neither key nor identity.
LEMMA CorruptInv ==
  ASSUME WALInv, NEW e \in store, Corrupt(e)
  PROVE  WALInv'
<1> USE WALAssumption DEF WALInv, Types
<1> DEFINE d == [e EXCEPT !.ok = FALSE]
<1>0. /\ UNCHANGED <<now, memVars, begun, written, returned>>
      /\ store' = (store \ {e}) \cup {d}
  BY DEF Corrupt
<1>1. /\ d \in Entries /\ d.key = e.key /\ d.at = e.at /\ d.seq = e.seq
      /\ d.exp = e.exp /\ d.after = e.after /\ Id(d) = Id(e)
  BY DEF Entries, Id
<1> HIDE DEF d
<1>2. Types'
  <2>1. IsFiniteSet(store')
    BY <1>0, FS_AddElement, FS_RemoveElement
  <2> QED BY <1>0, <1>1, <2>1 DEF memVars, Numbering
<1>3. EntriesInv'
  BY <1>0, <1>1 DEF EntriesInv
<1>4. CallsInv' /\ StampsInv' /\ OutBound'
  BY <1>0 DEF memVars, CallsInv, StampsInv, OutBound
<1>5. OutInv'
  BY <1>0, <1>1 DEF memVars, OutInv
<1>6. Ids(store') = Ids(store)
  BY <1>0, <1>1 DEF Ids
<1>7. ExactlyOnce'
  BY <1>0, <1>6 DEF ExactlyOnce
<1>8. InsertionOrder'
  <2>1. \A f \in Live' : \E g \in Live : Id(g) = Id(f) /\ g.key = f.key
    BY <1>0, <1>1 DEF Live, Expired
  <2> QED BY <2>1, <1>0 DEF memVars, InsertionOrder
<1> QED BY <1>2, <1>3, <1>4, <1>5, <1>7, <1>8

\* The gauge and stuttering steps touch nothing the invariant speaks of.
LEMMA UnchangedInv ==
  ASSUME WALInv, RefreshMetrics \/ UNCHANGED vars
  PROVE  WALInv'
<1> USE DEF WALInv
<1>1. UNCHANGED <<now, up, seq, call, out, store, begun, written, returned>>
  BY DEF RefreshMetrics, vars, memVars
<1>2. Types' /\ EntriesInv' /\ CallsInv' /\ StampsInv'
  BY <1>1 DEF Types, EntriesInv, CallsInv, StampsInv, Numbering
<1>3. OutInv' /\ OutBound' /\ ExactlyOnce' /\ InsertionOrder'
  BY <1>1 DEF OutInv, OutBound, ExactlyOnce, InsertionOrder, Live, Expired
<1> QED BY <1>2, <1>3

\* Every step keeps the invariant.
LEMMA WALStep ==
  ASSUME WALInv, [Next]_vars
  PROVE  WALInv'
<1>1. KeyOrder
  BY KeysOrdered DEF WALInv
<1> QED BY <1>1, StampInv, NumberInv, CommitInv, AppendFailsInv, DrainReadInv, DrainDeleteInv, ForgetInv,
   TickInv, CorruptInv, UnchangedInv
   DEF Next, Append_, Drain, Environment

\* As long as padded digits compare like numbers, stamps, numbers, keys and
\* what Drain holds stay consistent, for any number of callers.
THEOREM WALInvariant == Spec => []WALInv
<1>1. WALInv /\ [Next]_vars => WALInv'
  BY WALStep
<1> QED BY WALInit, <1>1, PTL DEF Spec

\* Keys stay distinct and ordered by stamp and number.
THEOREM KeysStayOrdered == Spec => []KeyOrder
<1>1. WALInv => KeyOrder
  BY KeysOrdered DEF WALInv
<1>2. Spec => []WALInv
  BY WALInvariant
<1> QED BY <1>1, <1>2, PTL

\* Every variable keeps its type, and Drain its limit.
THEOREM WALTypes == Spec => []TypeOK
<1>0. Spec => []WALInv
  BY WALInvariant
<1>1. WALInv => TypeOK
  <2> SUFFICES ASSUME WALInv PROVE TypeOK
    OBVIOUS
  <2>1. \A e \in store : Id(e) \in written
    BY DEF WALInv, ExactlyOnce, Ids
  <2> QED BY <2>1 DEF WALInv, Types, OutBound, ExactlyOnce, TypeOK, Entries, Stamps_, Numbers_
<1> QED BY <1>1, <1>0, PTL

\* No append is overwritten, and no entry is lost or returned twice, whatever
\* fails and restarts.
THEOREM AppendsExactlyOnce == Spec => []ExactlyOnce
<1>0. Spec => []WALInv
  BY WALInvariant
<1>1. WALInv => ExactlyOnce
  BY DEF WALInv
<1> QED BY <1>1, <1>0, PTL

\* Entries leave in insertion order.
THEOREM DrainInOrder == Spec => []InsertionOrder
<1>0. Spec => []WALInv
  BY WALInvariant
<1>1. WALInv => InsertionOrder
  BY DEF WALInv
<1> QED BY <1>1, <1>0, PTL

\* Nothing behind an unreadable entry is read, and the entry stays.
LEMMA BlocksStep ==
  ASSUME WALInv, KeyOrder, [Next]_vars
  PROVE  /\ out' # out => \A e \in out' : \A f \in Live : ~f.ok => Before(e.key, f.key)
         /\ \A f \in Live : ~f.ok /\ Id(f) \notin Ids(out) => Id(f) \in Ids(store')
<1> USE WALAssumption
<1>1. ASSUME NEW n \in Limits, DrainRead(n)
      PROVE  \A e \in out' : \A f \in Live : ~f.ok => Before(e.key, f.key)
  <2> SUFFICES ASSUME NEW e \in Oldest(n), NEW f \in Live, ~f.ok
               PROVE  Before(e.key, f.key)
    BY <1>1 DEF DrainRead
  <2>1. f \notin Oldest(n)
    BY <1>1 DEF DrainRead, Readable
  <2>2. ~Before(f.key, e.key)
    BY <2>1, OldestFirst
  <2>3. e \in store /\ f \in store /\ e # f
    BY <2>1 DEF Oldest, Live
  <2>4. Id(e) # Id(f) /\ Id(e) \in InUse /\ Id(f) \in InUse
    BY <2>3 DEF WALInv, EntriesInv, InUse, Ids
  <2>5. /\ e.key = makeKey(Id(e)[1], Id(e)[2])
        /\ f.key = makeKey(Id(f)[1], Id(f)[2])
    BY <2>3 DEF WALInv, EntriesInv, Id
  <2>6. e.at \in Nat /\ e.seq \in Nat /\ f.at \in Nat /\ f.seq \in Nat
    BY <2>3 DEF WALInv, Types, Entries, Stamps_, Numbers_
  <2>7. Earlier(Id(e), Id(f)) \/ Earlier(Id(f), Id(e))
    BY <2>4, <2>6, Identity DEF Earlier
  <2> QED BY <2>2, <2>4, <2>5, <2>7 DEF KeyOrder, Earlier
<1>2. out' # out => \A e \in out' : \A f \in Live : ~f.ok => Before(e.key, f.key)
  <2>1. out' = out \/ out' = {} \/ \E n \in Limits : DrainRead(n)
    BY DEF Next, Append_, Drain, Environment, Stamp, Number, Commit, AppendFails, DrainDelete,
           DrainFails, RefreshMetrics, Tick, Corrupt, Crash, Reopen, vars, memVars
  <2> QED BY <2>1, <1>1
<1>3. ASSUME NEW f \in Live, ~f.ok, Id(f) \notin Ids(out)
      PROVE  Id(f) \in Ids(store')
  <2>1. f \in store
    BY DEF Live
  <2>2. CASE store' = store
    BY <2>1, <2>2 DEF Ids
  <2>3. ASSUME NEW c \in Callers, Commit(c)
        PROVE  Id(f) \in Ids(store')
    BY <2>1, <2>3, CommitAdds DEF Ids
  <2>4. CASE DrainDelete
    BY <2>1, <2>4, <1>3, DeleteExact DEF DrainDelete, Ids
  <2>5. ASSUME NEW e \in store, Corrupt(e)
        PROVE  Id(f) \in Ids(store')
    <3>1. Id([e EXCEPT !.ok = FALSE]) = Id(e)
      BY <2>5 DEF WALInv, Types, Entries, Id
    <3> QED BY <2>1, <2>5, <3>1 DEF Corrupt, Ids
  <2>6. \/ store' = store \/ DrainDelete \/ (\E c \in Callers : Commit(c))
        \/ \E e \in store : Corrupt(e)
    BY DEF Next, Append_, Drain, Environment, Stamp, Number, AppendFails, DrainRead,
           DrainFails, RefreshMetrics, Tick, Crash, Reopen, vars, memVars
  <2> QED BY <2>2, <2>3, <2>4, <2>5, <2>6
<1> QED BY <1>2, <1>3

\* No entry overtakes an unreadable one, and Drain never deletes it.
THEOREM UnreadableNeverPassed == Spec => UnreadableBlocks
<1>0. Spec => []WALInv
  BY WALInvariant
<1>1. WALInv /\ [Next]_vars =>
        [/\ out' # out => \A e \in out' : \A f \in Live : ~f.ok => Before(e.key, f.key)
         /\ \A f \in Live : ~f.ok /\ Id(f) \notin Ids(out) => Id(f) \in Ids(store')]_vars
  BY BlocksStep, KeysOrdered DEF WALInv
<1> QED BY <1>1, <1>0, PTL DEF Spec, UnreadableBlocks

-----------------------------------------------------------------------------
(* The oldest entry *)

\* The first key belongs to an entry with the smallest stamp.
LEMMA FirstIsOldest ==
  ASSUME WALInv, KeyOrder, Live # {}
  PROVE  First \in Live /\ \A f \in Live : First.at <= f.at
<1> USE WALAssumption
<1>1. \A e \in Live : e \in store /\ e.at \in Nat /\ e.seq \in Nat
  BY DEF Live, WALInv, Types, Entries, Stamps_, Numbers_
<1>2. \A e, f \in Live : Before(f.key, e.key) <=> Earlier(Id(f), Id(e))
  <2> TAKE e, f \in Live
  <2>1. Id(e) \in InUse /\ Id(f) \in InUse
    BY <1>1 DEF InUse, Ids
  <2>2. /\ e.key = makeKey(Id(e)[1], Id(e)[2])
        /\ f.key = makeKey(Id(f)[1], Id(f)[2])
    BY <1>1 DEF WALInv, EntriesInv, Id
  <2> QED BY <2>1, <2>2 DEF KeyOrder, Earlier
<1> DEFINE stamps == {e.at : e \in Live}
<1>3. PICK a \in stamps : \A b \in stamps : a <= b
  <2>1. stamps \in SUBSET Nat /\ stamps # {}
    BY <1>1
  <2> HIDE DEF stamps
  <2> QED BY <2>1, NatSetLeast
<1> DEFINE numbers == {e.seq : e \in {f \in Live : f.at = a}}
<1>4. PICK n \in numbers : \A m \in numbers : n <= m
  <2>1. numbers \in SUBSET Nat /\ numbers # {}
    BY <1>1, <1>3
  <2> HIDE DEF numbers
  <2> QED BY <2>1, NatSetLeast
<1>5. PICK e \in Live : e.at = a /\ e.seq = n
  BY <1>4
<1>6. ASSUME NEW f \in Live
      PROVE  ~Earlier(Id(f), Id(e))
  <2>1. a <= f.at /\ (f.at = a => n <= f.seq)
    BY <1>3, <1>4
  <2>2. e.at <= f.at /\ (f.at = e.at => e.seq <= f.seq)
    BY <1>5, <2>1
  <2>3. e.at \in Nat /\ e.seq \in Nat /\ f.at \in Nat /\ f.seq \in Nat
    BY <1>1
  <2> HIDE DEF stamps, numbers
  <2>4. ~(f.at < e.at \/ (f.at = e.at /\ f.seq < e.seq))
    BY <2>2, <2>3
  <2> QED BY <2>4, Identity DEF Earlier
<1>7. First \in Live /\ \A f \in Live : ~Before(f.key, First.key)
  <2>1. \A f \in Live : ~Before(f.key, e.key)
    BY <1>2, <1>6
  <2> QED BY <2>1 DEF First
<1>8. ASSUME NEW f \in Live
      PROVE  First.at <= f.at
  <2>1. ~Earlier(Id(f), Id(First))
    BY <1>2, <1>7
  <2>2. ~(f.at < First.at)
    BY <2>1, Identity DEF Earlier
  <2>3. f.at \in Nat /\ First.at \in Nat
    BY <1>1, <1>7
  <2> QED BY <2>2, <2>3
<1> QED BY <1>7, <1>8

\* What RefreshMetrics computes.
LEMMA AgeStep ==
  ASSUME WALInv, KeyOrder, [Next]_vars, oldestAge' # oldestAge, up'
  PROVE  oldestAge' = IF Live = {} THEN 0 ELSE now - Min({e.at : e \in Live})
<1>1. RefreshMetrics
  BY DEF Next, Append_, Drain, Environment, Stamp, Number, Commit, AppendFails, DrainRead,
         DrainDelete, DrainFails, Tick, Corrupt, Crash, Reopen, vars, memVars
<1>2. CASE Live = {}
  BY <1>1, <1>2 DEF RefreshMetrics
<1>3. CASE Live # {}
  <2>1. First \in Live /\ \A f \in Live : First.at <= f.at
    BY <1>3, FirstIsOldest
  <2>2. First \in store /\ First.at \in Stamps_ /\ First.seq \in Numbers_
    BY <2>1 DEF Live, WALInv, Types, Entries
  <2>3. parseKeyTime(First.key) = First.at
    BY <2>2, ParseInverts DEF WALInv, EntriesInv
  <2> DEFINE S == {e.at : e \in Live}
  <2>4. First.at \in S /\ \A a \in S : First.at <= a
    BY <2>1
  <2>5. \A a \in S : a \in Nat
    BY DEF Live, WALInv, Types, Entries, Stamps_
  <2>6. Min(S) = First.at
    <3> HIDE DEF S
    <3>1. \A a \in S : (\A b \in S : a <= b) => a = First.at
      BY <2>4, <2>5
    <3> QED BY <2>4, <3>1 DEF Min
  <2> QED BY <1>1, <1>3, <2>3, <2>6 DEF RefreshMetrics
<1> QED BY <1>2, <1>3

\* The oldest-age gauge is the age of the entry stamped first.
THEOREM GaugeIsOldest == Spec => AgeOfOldest
<1>0. Spec => []WALInv
  BY WALInvariant
<1>1. WALInv /\ [Next]_vars =>
        [oldestAge' # oldestAge /\ up' =>
           oldestAge' = IF Live = {} THEN 0 ELSE now - Min({e.at : e \in Live})]_vars
  BY AgeStep, KeysOrdered DEF WALInv
<1> QED BY <1>1, <1>0, PTL DEF Spec, AgeOfOldest

-----------------------------------------------------------------------------
(* The store implements the contract. *)

Kept == Ids(Live) \cup Ids(out)

\* A step that adds and returns nothing and keeps no more than before is an
\* expiry or no step of the contract.
LEMMA ExpiryStep ==
  ASSUME UNCHANGED <<written, returned>>, Kept' \subseteq Kept, TTL > 0 \/ Kept' = Kept
  PROVE  [Contract!Next]_(Contract!vars)
<1>1. CASE Kept' = Kept
  BY <1>1 DEF Kept, Contract!vars
<1>2. CASE TTL > 0
  <2> DEFINE S == Kept \ Kept'
  <2>1. S \in SUBSET Kept /\ Contract!Expire(S)
    BY <1>2 DEF Kept, Contract!Expire
  <2> QED BY <2>1 DEF Kept, Contract!Next
<1> QED BY <1>1, <1>2

\* Every step of the store is a step of the contract or none.
LEMMA ContractStep ==
  ASSUME WALInv, KeyOrder, [Next]_vars
  PROVE  [Contract!Next]_(Contract!vars)
<1> USE WALAssumption
<1>0. TTL > 0 \/ Live = store
  BY DEF Live, Expired, WALInv, EntriesInv
<1>1. ASSUME NEW c \in Callers, Commit(c)
      PROVE  [Contract!Next]_(Contract!vars)
  <2> DEFINE n == Entry(c)
  <2>1. /\ n \in Entries /\ store' = store \cup {n} /\ Id(n) \notin written
        /\ (n.exp # 0 => n.exp > now) /\ UNCHANGED <<now, out, returned>>
        /\ written' = written \cup {Id(n)}
    BY <1>1, CommitAdds DEF Commit
  <2>2. n.exp \in Nat /\ now \in Nat
    BY <2>1 DEF Entries, WALInv, Types, Stamps_
  <2>3. Live' = Live \cup {n}
    BY <2>1, <2>2 DEF Live, Expired
  <2>4. Id(n) \in (0..MaxNanos) \X (0..MaxAppends)
    BY <2>1 DEF Entries, Id, Stamps_, Numbers_
  <2> HIDE DEF n
  <2>5. Kept' = Kept \cup {Id(n)}
    BY <2>1, <2>3 DEF Kept, Ids
  <2>6. Contract!Append(Id(n))
    BY <2>1, <2>5 DEF Kept, Contract!Append
  <2> QED BY <2>4, <2>6 DEF Contract!Next
<1>2. ASSUME NEW n \in Limits, DrainRead(n)
      PROVE  [Contract!Next]_(Contract!vars)
  <2>1. Kept' = Kept /\ UNCHANGED <<written, returned>>
    BY <1>2 DEF DrainRead, Oldest, Kept, Ids, Live, Expired
  <2> QED BY <2>1, ExpiryStep
<1>3. ASSUME DrainDelete
      PROVE  [Contract!Next]_(Contract!vars)
  <2>1. store' = {e \in store : Id(e) \notin Ids(out)} /\ out' = {} /\ UNCHANGED <<now, written>>
        /\ returned' = returned \cup Ids(out)
    BY <1>3, DeleteExact DEF DrainDelete
  <2>2. Kept' = Kept \ Ids(out) /\ Ids(out) \in SUBSET Kept
    BY <2>1 DEF Kept, Ids, Live, Expired
  <2>3. Contract!Take(Ids(out))
    BY <2>1, <2>2 DEF Kept, Contract!Take
  <2> QED BY <2>2, <2>3 DEF Kept, Contract!Next
<1>4. ASSUME NEW e \in store, Corrupt(e)
      PROVE  [Contract!Next]_(Contract!vars)
  <2> DEFINE d == [e EXCEPT !.ok = FALSE]
  <2>1. Id(d) = Id(e) /\ d.exp = e.exp /\ store' = (store \ {e}) \cup {d}
        /\ UNCHANGED <<now, out, written, returned>>
    BY <1>4 DEF WALInv, Types, Entries, Id, Corrupt, memVars
  <2> HIDE DEF d
  <2>2. Ids(Live') = Ids(Live)
    BY <2>1 DEF Ids, Live, Expired
  <2>3. Kept' = Kept
    BY <2>1, <2>2 DEF Kept, Ids
  <2> QED BY <2>1, <2>3, ExpiryStep
<1>5. ASSUME UNCHANGED <<store, written, returned>>, out' = out \/ out' = {},
             now' \in Nat, now <= now'
      PROVE  [Contract!Next]_(Contract!vars)
  <2>1. Live' \subseteq Live
    BY <1>5 DEF Live, Expired, WALInv, Types, Entries, Stamps_
  <2>2. Kept' \subseteq Kept
    BY <1>5, <2>1 DEF Kept, Ids
  <2>3. CASE TTL > 0
    BY <2>2, <2>3, <1>5, ExpiryStep
  <2>4. CASE ~(TTL > 0)
    <3>1. Live = store /\ Live' = store
      BY <1>0, <2>4, <1>5 DEF Live, Expired, WALInv, EntriesInv
    <3>2. Ids(out) \subseteq Ids(store)
      BY DEF WALInv, OutInv, Ids
    <3>3. Kept' = Kept
      BY <1>5, <3>1, <3>2 DEF Kept, Ids
    <3> QED BY <3>3, <1>5, ExpiryStep
  <2> QED BY <2>3, <2>4
<1>6. \/ \E c \in Callers : Commit(c)
      \/ \E n \in Limits : DrainRead(n)
      \/ DrainDelete
      \/ \E e \in store : Corrupt(e)
      \/ /\ UNCHANGED <<store, written, returned>> /\ (out' = out \/ out' = {})
         /\ now' \in Nat /\ now <= now'
  <2>1. now \in Nat /\ now <= now /\ now + 1 \in Nat /\ now <= now + 1
    BY DEF WALInv, Types, Stamps_
  <2> QED
    BY <2>1 DEF Next, Append_, Drain, Environment, Stamp, Number, AppendFails, DrainFails,
           RefreshMetrics, Tick, Crash, Reopen, vars, memVars
<1> QED BY <1>1, <1>2, <1>3, <1>4, <1>5, <1>6

\* The keyed, expiring store that reads and deletes in two transactions is the
\* set of messages that the pipeline takes it for.
THEOREM WALImplementsContract == Spec => RefinesContract
<1>0. Spec => []WALInv
  BY WALInvariant
<1>1. Init => Contract!Init
  BY DEF Init, Opened, Contract!Init, Live, Ids
<1>2. WALInv /\ [Next]_vars => [Contract!Next]_(Contract!vars)
  BY ContractStep, KeysOrdered DEF WALInv
<1> QED BY <1>1, <1>2, <1>0, PTL DEF Spec, RefinesContract, Contract!Spec
=============================================================================
