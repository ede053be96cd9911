---------------------------- MODULE FoldProofs ----------------------------
(***************************************************************************)
(* Facts about recursive definitions for the proofs of the other modules:  *)
(* induction over sets of numbers and over finite sets, in a form without  *)
(* operator parameters, the sum of a function over a finite set, and loops *)
(* that fold a step over an index.                                         *)
(***************************************************************************)
EXTENDS FiniteSetTheorems, TLAPS

-----------------------------------------------------------------------------
(* Induction: the least element outside a set. *)

\* A set of numbers with zero and every successor is all of them.
LEMMA NatSetInduction ==
  ASSUME NEW P, 0 \in P, \A n \in Nat : n \in P => n + 1 \in P
  PROVE  Nat \subseteq P
<1> SUFFICES ASSUME Nat \ P # {} PROVE FALSE
  OBVIOUS
<1> DEFINE R == OpToRel(<, Nat)
<1>1. IsWellFoundedOn(R, Nat) /\ Nat \ P \subseteq Nat
  BY NatLessThanWellFounded
<1> HIDE DEF R
<1>2. PICK n \in Nat \ P : \A m \in Nat \ P : ~(<<m, n>> \in R)
  BY <1>1, WFMin
<1>3. \A m \in Nat : m < n => m \in P
  BY <1>2 DEF R, OpToRel
<1>4. n # 0 => n - 1 \in Nat /\ n - 1 < n /\ (n - 1) + 1 = n
  BY <1>2
<1> QED BY <1>2, <1>3, <1>4

\* A set of numbers that is not empty has a least element.
LEMMA NatSetLeast ==
  ASSUME NEW P \in SUBSET Nat, P # {}
  PROVE  \E n \in P : \A m \in P : n <= m
<1> DEFINE R == OpToRel(<, Nat)
<1>1. IsWellFoundedOn(R, Nat)
  BY NatLessThanWellFounded
<1> HIDE DEF R
<1>2. PICK n \in P : \A m \in P : ~(<<m, n>> \in R)
  BY <1>1, WFMin
<1>3. \A m \in P : ~(m < n)
  BY <1>2 DEF R, OpToRel
<1> QED BY <1>2, <1>3

\* A family of subsets of a finite set has a member that is outside it with any
\* element taken away.
LEMMA FiniteSetMinimal ==
  ASSUME NEW S, IsFiniteSet(S), NEW F \in SUBSET SUBSET S, F # {}
  PROVE  \E T \in F : \A x \in T : T \ {x} \notin F
<1> DEFINE R == StrictSubsetOrdering(S)
<1>1. IsWellFoundedOn(R, SUBSET S)
  BY FS_StrictSubsetOrderingWellFounded, FS_FiniteSubsetsOfFinite
<1> HIDE DEF R
<1>2. PICK T \in F : \A U \in F : ~(<<U, T>> \in R)
  BY <1>1, WFMin
<1>3. \A x \in T : <<T \ {x}, T>> \in R
  BY <1>2 DEF R, StrictSubsetOrdering
<1> QED BY <1>2, <1>3

\* A family with the empty set that can be grown element by element within a
\* finite set contains that set.
LEMMA FiniteSetInduction ==
  ASSUME NEW S, IsFiniteSet(S), NEW F, {} \in F,
         \A T \in SUBSET S : \A x \in S \ T : T \in F => T \cup {x} \in F
  PROVE  S \in F
<1> SUFFICES ASSUME S \notin F PROVE FALSE
  OBVIOUS
<1> DEFINE Bad == (SUBSET S) \ F
<1>1. PICK T \in Bad : \A x \in T : T \ {x} \notin Bad
  BY FiniteSetMinimal
<1>2. PICK x \in T : TRUE
  OBVIOUS
<1>3. T \ {x} \in F /\ (T \ {x}) \cup {x} = T /\ x \in S \ (T \ {x})
  BY <1>1
<1> QED BY <1>3

-----------------------------------------------------------------------------
(* Sums over finite sets *)

\* h gives every subset of S the sum of f over it.
IsSum(h, f, S) ==
  /\ h \in [SUBSET S -> Int]
  /\ h[{}] = 0
  /\ \A T \in SUBSET S : \A x \in S \ T : h[T \cup {x}] = h[T] + f[x]

\* There is such an h.
LEMMA SumExists ==
  ASSUME NEW S, IsFiniteSet(S), NEW f, \A x \in S : f[x] \in Int
  PROVE  \E h : IsSum(h, f, S)
<1> DEFINE F == {T \in SUBSET S : \E h : IsSum(h, f, T)}
<1>1. {} \in F
  <2> DEFINE h == [T \in SUBSET {} |-> 0]
  <2>1. IsSum(h, f, {})
    BY DEF IsSum
  <2> QED BY <2>1
<1>2. ASSUME NEW T \in SUBSET S, NEW x \in S \ T, T \in F
      PROVE  T \cup {x} \in F
  <2>1. PICK h : IsSum(h, f, T)
    BY <1>2
  <2> DEFINE U == T \cup {x}
             g == [V \in SUBSET U |-> IF x \in V THEN h[V \ {x}] + f[x] ELSE h[V]]
  <2>2. \A V \in SUBSET U : /\ V \ {x} \in SUBSET T
                            /\ x \notin V => V \in SUBSET T
    OBVIOUS
  <2>3. g \in [SUBSET U -> Int]
    <3>1. ASSUME NEW V \in SUBSET U
          PROVE  (IF x \in V THEN h[V \ {x}] + f[x] ELSE h[V]) \in Int
      BY <2>1, <2>2 DEF IsSum
    <3> QED BY <3>1
  <2>4. g[{}] = 0
    BY <2>1 DEF IsSum
  <2>5. ASSUME NEW V \in SUBSET U, NEW y \in U \ V
        PROVE  g[V \cup {y}] = g[V] + f[y]
    <3>0. V \cup {y} \in SUBSET U
      OBVIOUS
    <3>1. CASE y = x
      <4>1. (V \cup {y}) \ {x} = V /\ x \notin V
        BY <3>1
      <4> QED BY <3>0, <3>1, <4>1
    <3>2. CASE y # x /\ x \in V
      <4>1. (V \cup {y}) \ {x} = (V \ {x}) \cup {y} /\ y \in T \ (V \ {x})
        BY <3>2
      <4>2. h[(V \ {x}) \cup {y}] = h[V \ {x}] + f[y]
        BY <2>1, <2>2, <4>1 DEF IsSum
      <4>3. g[V \cup {y}] = h[(V \ {x}) \cup {y}] + f[x]
        BY <3>0, <3>2, <4>1
      <4>4. g[V] = h[V \ {x}] + f[x]
        BY <3>2
      <4>5. h[V \ {x}] \in Int /\ f[x] \in Int /\ f[y] \in Int
        BY <2>1, <2>2 DEF IsSum
      <4> HIDE DEF g
      <4> QED BY <4>2, <4>3, <4>4, <4>5
    <3>3. CASE y # x /\ x \notin V
      <4>1. V \in SUBSET T /\ y \in T \ V /\ x \notin V \cup {y}
        BY <3>3
      <4>2. h[V \cup {y}] = h[V] + f[y]
        BY <2>1, <4>1 DEF IsSum
      <4> QED BY <3>0, <3>3, <4>1, <4>2
    <3> QED BY <3>1, <3>2, <3>3
  <2> HIDE DEF g
  <2>6. IsSum(g, f, U)
    BY <2>3, <2>4, <2>5 DEF IsSum
  <2> QED BY <2>6
<1> HIDE DEF F
<1>3. S \in F
  BY <1>1, <1>2, FiniteSetInduction
<1> QED BY <1>3 DEF F

\* The fold of the community modules computes it.
LEMMA SumIs ==
  ASSUME NEW S, IsFiniteSet(S), NEW f, \A x \in S : f[x] \in Int, NEW h, IsSum(h, f, S)
  PROVE  SumFunctionOnSet(f, S) = h[S]
<1> DEFINE pick(T) == CHOOSE x \in T : TRUE
           Eqn(g) == g = [T \in SUBSET S |-> IF T = {} THEN 0
                                              ELSE f[pick(T)] + g[T \ {pick(T)}]]
           iter == CHOOSE g : Eqn(g)
<1>1. SumFunctionOnSet(f, S) = iter[S]
  BY Zenon DEF SumFunctionOnSet, FoldFunctionOnSet, MapThenFoldSet
<1>2. \A T \in SUBSET S : T # {} => /\ pick(T) \in T /\ pick(T) \in S
                                   /\ T \ {pick(T)} \in SUBSET S
  OBVIOUS
<1> HIDE DEF pick
<1>3. Eqn(h)
  <2>1. ASSUME NEW T \in SUBSET S
        PROVE  h[T] = IF T = {} THEN 0 ELSE f[pick(T)] + h[T \ {pick(T)}]
    <3>1. CASE T = {}
      BY <3>1 DEF IsSum
    <3>2. CASE T # {}
      <4> DEFINE x == pick(T)
      <4>1. (T \ {x}) \cup {x} = T /\ x \in S \ (T \ {x}) /\ T \ {x} \in SUBSET S
        BY <1>2, <3>2
      <4>2. h[T] = h[T \ {x}] + f[x] /\ h[T \ {x}] \in Int /\ f[x] \in Int
        BY <4>1 DEF IsSum
      <4> QED BY <3>2, <4>2
    <3> QED BY <3>1, <3>2
  <2>2. h = [T \in SUBSET S |-> h[T]]
    BY DEF IsSum
  <2> QED BY <2>1, <2>2
<1>4. Eqn(iter)
  <2> HIDE DEF Eqn
  <2> QED BY <1>3
<1> HIDE DEF iter
<1>5. iter[S] = h[S]
  <2> SUFFICES ASSUME iter[S] # h[S] PROVE FALSE
    OBVIOUS
  <2> DEFINE Bad == {T \in SUBSET S : iter[T] # h[T]}
  <2>1. PICK T \in Bad : \A x \in T : T \ {x} \notin Bad
    <3>1. Bad \in SUBSET SUBSET S /\ Bad # {}
      OBVIOUS
    <3> HIDE DEF Bad
    <3> QED BY <3>1, FiniteSetMinimal
  <2>2. T # {} => iter[T \ {pick(T)}] = h[T \ {pick(T)}]
    BY <1>2, <2>1
  <2>3. \A U \in SUBSET S : /\ iter[U] = IF U = {} THEN 0 ELSE f[pick(U)] + iter[U \ {pick(U)}]
                            /\ h[U] = IF U = {} THEN 0 ELSE f[pick(U)] + h[U \ {pick(U)}]
    BY <1>3, <1>4
  <2> QED BY <2>1, <2>2, <2>3
<1> QED BY <1>1, <1>5

\* The sum of nothing.
LEMMA SumEmpty ==
  ASSUME NEW f
  PROVE  SumFunctionOnSet(f, {}) = 0
<1>1. IsFiniteSet({}) /\ \A x \in {} : f[x] \in Int
  BY FS_EmptySet
<1>2. PICK h : IsSum(h, f, {})
  BY <1>1, SumExists
<1> QED BY <1>1, <1>2, SumIs DEF IsSum

\* One more element.
LEMMA SumAdd ==
  ASSUME NEW S, IsFiniteSet(S), NEW f, \A x \in S : f[x] \in Int,
         NEW y, y \notin S, f[y] \in Int
  PROVE  SumFunctionOnSet(f, S \cup {y}) = SumFunctionOnSet(f, S) + f[y]
<1> DEFINE U == S \cup {y}
<1>1. IsFiniteSet(U) /\ \A x \in U : f[x] \in Int
  BY FS_AddElement
<1>2. PICK h : IsSum(h, f, U)
  BY <1>1, SumExists
<1> DEFINE g == [T \in SUBSET S |-> h[T]]
<1>3. IsSum(g, f, S)
  <2>1. SUBSET S \subseteq SUBSET U
    OBVIOUS
  <2>2. g \in [SUBSET S -> Int]
    BY <1>2, <2>1 DEF IsSum
  <2>3. \A T \in SUBSET S : \A x \in S \ T : g[T \cup {x}] = g[T] + f[x]
    BY <1>2, <2>1 DEF IsSum
  <2>4. g[{}] = 0
    BY <1>2 DEF IsSum
  <2> QED BY <2>2, <2>3, <2>4 DEF IsSum
<1>4. SumFunctionOnSet(f, S) = h[S]
  BY <1>3, SumIs
<1>5. SumFunctionOnSet(f, U) = h[U]
  BY <1>1, <1>2, SumIs
<1>6. h[U] = h[S] + f[y]
  BY <1>2 DEF IsSum
<1> QED BY <1>4, <1>5, <1>6

\* A sum depends only on the values at the elements.
LEMMA SumEqual ==
  ASSUME NEW S, IsFiniteSet(S), NEW f, NEW g,
         \A x \in S : f[x] \in Int /\ g[x] = f[x]
  PROVE  SumFunctionOnSet(g, S) = SumFunctionOnSet(f, S)
<1>1. PICK h : IsSum(h, f, S)
  BY SumExists
<1>2. IsSum(h, g, S)
  BY <1>1 DEF IsSum
<1> QED BY <1>1, <1>2, SumIs

\* The type of a sum, of integers and of natural numbers.
LEMMA SumType ==
  ASSUME NEW S, IsFiniteSet(S), NEW f, \A x \in S : f[x] \in Int
  PROVE  /\ SumFunctionOnSet(f, S) \in Int
         /\ (\A x \in S : f[x] \in Nat) => SumFunctionOnSet(f, S) \in Nat
<1>1. PICK h : IsSum(h, f, S)
  BY SumExists
<1>2. SumFunctionOnSet(f, S) = h[S]
  BY <1>1, SumIs
<1>3. h[S] \in Int
  BY <1>1 DEF IsSum
<1>4. ASSUME \A x \in S : f[x] \in Nat
      PROVE  h[S] \in Nat
  <2> DEFINE F == {T \in SUBSET S : h[T] \in Nat}
  <2>1. {} \in F
    BY <1>1 DEF IsSum
  <2>2. ASSUME NEW T \in SUBSET S, NEW x \in S \ T, T \in F
        PROVE  T \cup {x} \in F
    <3>1. h[T \cup {x}] = h[T] + f[x]
      BY <1>1 DEF IsSum
    <3> QED BY <1>4, <2>2, <3>1
  <2> HIDE DEF F
  <2>3. S \in F
    BY <2>1, <2>2, FiniteSetInduction
  <2> QED BY <2>3 DEF F
<1> QED BY <1>2, <1>3, <1>4

\* Two disjoint parts.
LEMMA SumUnion ==
  ASSUME NEW S, IsFiniteSet(S), NEW U, IsFiniteSet(U), S \cap U = {},
         NEW f, \A x \in S \cup U : f[x] \in Int
  PROVE  SumFunctionOnSet(f, S \cup U) = SumFunctionOnSet(f, S) + SumFunctionOnSet(f, U)
<1> DEFINE F == {T \in SUBSET U :
                   SumFunctionOnSet(f, S \cup T) = SumFunctionOnSet(f, S) + SumFunctionOnSet(f, T)}
<1>1. {} \in F
  <2>1. S \cup {} = S /\ SumFunctionOnSet(f, S) \in Int
    BY SumType
  <2> QED BY <2>1, SumEmpty
<1>2. ASSUME NEW T \in SUBSET U, NEW x \in U \ T, T \in F
      PROVE  T \cup {x} \in F
  <2>1. IsFiniteSet(T) /\ IsFiniteSet(S \cup T)
    BY FS_Subset, FS_Union
  <2>2. x \notin S \cup T /\ (S \cup T) \cup {x} = S \cup (T \cup {x})
    OBVIOUS
  <2>3. SumFunctionOnSet(f, T \cup {x}) = SumFunctionOnSet(f, T) + f[x]
    BY <2>1, SumAdd
  <2>4. SumFunctionOnSet(f, (S \cup T) \cup {x}) = SumFunctionOnSet(f, S \cup T) + f[x]
    BY <2>1, <2>2, SumAdd
  <2>5. SumFunctionOnSet(f, S) \in Int /\ SumFunctionOnSet(f, T) \in Int
    BY <2>1, SumType
  <2>6. SumFunctionOnSet(f, S \cup T) = SumFunctionOnSet(f, S) + SumFunctionOnSet(f, T)
    BY <1>2
  <2>7. f[x] \in Int /\ T \cup {x} \in SUBSET U
    OBVIOUS
  <2>8. SumFunctionOnSet(f, S \cup (T \cup {x}))
          = SumFunctionOnSet(f, S) + SumFunctionOnSet(f, T \cup {x})
    <3>1. SumFunctionOnSet(f, S \cup (T \cup {x})) = SumFunctionOnSet(f, S \cup T) + f[x]
      BY <2>2, <2>4, Zenon
    <3> QED BY <2>3, <2>5, <2>6, <2>7, <3>1
  <2> QED BY <2>7, <2>8
<1> HIDE DEF F
<1>3. U \in F
  BY <1>1, <1>2, FiniteSetInduction
<1> QED BY <1>3 DEF F

-----------------------------------------------------------------------------
(* Loops *)

\* step[i][v] is what the i-th of n turns makes of v.
IsStep(step, V, n) == \A i \in 1..n : \A v \in V : step[i][v] \in V

\* g has the values between the turns of a loop that starts with c.
IsLoop(g, V, c, n, step) ==
  /\ g \in [0..n -> V] /\ g[0] = c
  /\ \A i \in 1..n : g[i] = step[i][g[i - 1]]

\* There is such a g.
LEMMA LoopExists ==
  ASSUME NEW V, NEW c \in V, NEW n \in Nat, NEW step, IsStep(step, V, n)
  PROVE  \E g : IsLoop(g, V, c, n, step)
<1> DEFINE Upto(g, k) == g[0] = c /\ \A i \in 1..k : i <= n => g[i] = step[i][g[i - 1]]
           P == {k \in Nat : \E g \in [0..n -> V] : Upto(g, k)}
<1>1. 0 \in P
  <2>1. [i \in 0..n |-> c] \in [0..n -> V] /\ Upto([i \in 0..n |-> c], 0)
    OBVIOUS
  <2> QED BY <2>1
<1>2. ASSUME NEW k \in Nat, k \in P
      PROVE  k + 1 \in P
  <2>1. PICK g \in [0..n -> V] : Upto(g, k)
    BY <1>2
  <2>2. CASE k + 1 > n
    <3>1. Upto(g, k + 1)
      BY <2>1, <2>2
    <3> QED BY <3>1
  <2>3. CASE k + 1 <= n
    <3> DEFINE h == [g EXCEPT ![k + 1] = step[k + 1][g[k]]]
    <3>1. k \in 0..n /\ k + 1 \in 1..n /\ g[k] \in V
      BY <2>3
    <3>2. step[k + 1][g[k]] \in V
      BY <3>1 DEF IsStep
    <3>3. h \in [0..n -> V]
      BY <3>1, <3>2
    <3>4. \A i \in 0..k : h[i] = g[i]
      BY <2>3
    <3>5. h[k + 1] = step[k + 1][g[k]]
      BY <3>1
    <3> HIDE DEF h
    <3>6. Upto(h, k + 1)
      <4>1. h[0] = c
        BY <2>1, <3>4
      <4>2. ASSUME NEW i \in 1..(k + 1) PROVE h[i] = step[i][h[i - 1]]
        <5>1. CASE i = k + 1
          <6>1. i - 1 = k
            BY <5>1
          <6> QED BY <3>4, <3>5, <5>1, <6>1
        <5>2. CASE i # k + 1
          <6>1. i \in 1..k /\ i - 1 \in 0..k /\ i \in 0..k /\ i <= n
            BY <2>3, <5>2
          <6> QED BY <2>1, <3>4, <6>1
        <5> QED BY <5>1, <5>2
      <4> QED BY <4>1, <4>2
    <3> QED BY <3>3, <3>6
  <2> QED BY <2>2, <2>3
<1> HIDE DEF P
<1>3. n \in P
  BY <1>1, <1>2, NatSetInduction
<1>4. PICK g \in [0..n -> V] : Upto(g, n)
  BY <1>3 DEF P
<1>5. IsLoop(g, V, c, n, step)
  BY <1>4 DEF IsLoop
<1> QED BY <1>5
=============================================================================
