--------------------------- MODULE InductionLemmas ---------------------------
(***************************************************************************)
(* Induction and recursion over the natural numbers in a form the provers  *)
(* can use: the predicate is a set, the step of a recursion a function, so *)
(* that no operator has to be instantiated.                                *)
(***************************************************************************)
EXTENDS Integers, FiniteSets, FiniteSetTheorems, TLAPS

\* A set with 0 that is closed under successor has every natural number.
\* Otherwise the numbers up to a missing n that are missing too form a finite
\* set which m |-> m - 1 maps into itself injectively, hence onto itself; but
\* then n + 1 <= n.
LEMMA SetInduction ==
    ASSUME NEW S, 0 \in S, \A n \in Nat : n \in S => n + 1 \in S
    PROVE  \A n \in Nat : n \in S
<1> SUFFICES ASSUME NEW n \in Nat, n \notin S PROVE FALSE
  OBVIOUS
<1> DEFINE T == {m \in 0..n : m \notin S}
           f == [m \in T |-> m - 1]
<1>1. IsFiniteSet(T)
  <2>1. IsFiniteSet(0..n)
    BY FS_Interval
  <2>2. T \in SUBSET (0..n)
    OBVIOUS
  <2>3. QED
    BY <2>1, <2>2, FS_Subset
<1>2. f \in [T -> T]
  <2>1. ASSUME NEW m \in T PROVE m - 1 \in T
    <3>1. m # 0 /\ m - 1 \in Nat /\ m - 1 \in 0..n
      OBVIOUS
    <3>2. m - 1 \notin S
      BY <3>1
    <3>3. QED
      BY <3>1, <3>2
  <2>2. QED
    BY <2>1
<1>3. f \in Injection(T, T)
  <2>1. \A a, b \in T : f[a] = f[b] => a = b
    OBVIOUS
  <2>2. QED
    BY <1>2, <2>1 DEF Injection, IsInjective
<1>4. f \in Surjection(T, T)
  <2> HIDE DEF T, f
  <2>1. QED
    BY <1>1, <1>3, FS_Injection
<1>5. \E m \in T : f[m] = n
  <2>1. n \in T
    OBVIOUS
  <2> HIDE DEF T, f
  <2>2. QED
    BY <1>4, <2>1 DEF Surjection
<1>6. QED
  BY <1>5

\* A nonempty set of integers between two bounds has a greatest element:
\* otherwise there are elements arbitrarily far above any of them.
LEMMA Maximum ==
    ASSUME NEW lo \in Int, NEW hi \in Int, NEW S \in SUBSET (lo..hi), S # {}
    PROVE  \E m \in S : \A q \in S : q <= m
<1> SUFFICES ASSUME \A m \in S : \E q \in S : q > m PROVE FALSE
  OBVIOUS
<1>1. PICK m \in S : TRUE
  OBVIOUS
<1> DEFINE T == {d \in Nat : \E q \in S : q >= m + d}
<1>2. 0 \in T
  OBVIOUS
<1>3. ASSUME NEW d \in Nat, d \in T PROVE d + 1 \in T
  <2>1. PICK q \in S : q >= m + d
    BY <1>3
  <2>2. PICK r \in S : r > q
    OBVIOUS
  <2>3. r >= m + (d + 1)
    BY <2>1, <2>2
  <2>4. QED
    BY <2>3
<1>4. \A d \in Nat : d \in T
  <2> HIDE DEF T
  <2>1. QED
    BY <1>2, <1>3, SetInduction
<1>5. hi - lo + 1 \in Nat
  OBVIOUS
<1>6. PICK q \in S : q >= m + (hi - lo + 1)
  BY <1>4, <1>5
<1>7. QED
  BY <1>6

\* And a least one.
LEMMA Minimum ==
    ASSUME NEW lo \in Int, NEW hi \in Int, NEW S \in SUBSET (lo..hi), S # {}
    PROVE  \E m \in S : \A q \in S : m <= q
<1> DEFINE T == {d \in (-hi)..(-lo) : -d \in S}
<1>1. -hi \in Int /\ -lo \in Int /\ T \in SUBSET ((-hi)..(-lo))
  OBVIOUS
<1>2. \A q \in S : -q \in T
  OBVIOUS
<1>3. T # {}
  BY <1>2
<1>4. PICK m \in T : \A q \in T : q <= m
  <2> HIDE DEF T
  <2>1. QED
    BY <1>1, <1>3, Maximum
<1>5. -m \in S
  OBVIOUS
<1>6. ASSUME NEW q \in S PROVE -m <= q
  <2>1. q \in Int /\ m \in Int /\ -q <= m
    BY <1>2, <1>4
  <2>2. QED
    BY <2>1
<1>7. QED
  BY <1>5, <1>6

\* The step functions of a recursion of length N over the values V, and what
\* iterating one from a gives.
Step(N, V) == [1..N -> [V -> V]]

Iterated(N, V, a, step, g) ==
    /\ g \in [0..N -> V]
    /\ g[0] = a
    /\ \A n \in 1..N : g[n] = step[n][g[n - 1]]

\* Such a function exists: what a definition f[n \in 0..N] by recursion on n
\* defines.
LEMMA PrimitiveRecursion ==
    ASSUME NEW V, NEW a \in V, NEW N \in Nat, NEW step \in Step(N, V)
    PROVE  \E g : Iterated(N, V, a, step, g)
<1> USE DEF Step
<1> DEFINE Rec(g, n) == /\ g \in [0..n -> V] /\ g[0] = a
                        /\ \A i \in 1..n : g[i] = step[i][g[i - 1]]
           S == {n \in Nat : n <= N => \E g : Rec(g, n)}
<1>1. 0 \in S
  <2>1. Rec([i \in 0..0 |-> a], 0)
    OBVIOUS
  <2>2. QED
    BY <2>1
<1>2. ASSUME NEW n \in Nat, n \in S PROVE n + 1 \in S
  <2> SUFFICES ASSUME n + 1 <= N PROVE \E g : Rec(g, n + 1)
    OBVIOUS
  <2>1. PICK g : Rec(g, n)
    BY <1>2
  <2>2. g[n] \in V /\ n + 1 \in 1..N
    BY <2>1
  <2>3. step[n + 1][g[n]] \in V
    BY <2>2
  <2> DEFINE h == [i \in 0..(n + 1) |-> IF i = n + 1 THEN step[n + 1][g[n]] ELSE g[i]]
  <2>4. h \in [0..(n + 1) -> V]
    BY <2>1, <2>3
  <2>5. \A i \in 0..n : h[i] = g[i]
    OBVIOUS
  <2>6. h[n + 1] = step[n + 1][h[n]]
    BY <2>5
  <2>7. ASSUME NEW i \in 1..(n + 1) PROVE h[i] = step[i][h[i - 1]]
    <3>1. CASE i = n + 1
      BY <3>1, <2>6
    <3>2. CASE i # n + 1
      <4>1. i \in 1..n /\ i - 1 \in 0..n /\ i \in 0..n
        BY <3>2
      <4>2. QED
        BY <4>1, <2>1, <2>5
    <3>3. QED
      BY <3>1, <3>2
  <2>8. h[0] = a
    BY <2>5, <2>1
  <2>9. Rec(h, n + 1)
    BY <2>4, <2>7, <2>8
  <2>10. QED
    BY <2>9
<1>3. \A n \in Nat : n \in S
  <2> HIDE DEF S
  <2>1. QED
    BY <1>1, <1>2, SetInduction
<1>4. QED
  BY <1>3 DEF Iterated

\* The same when every step is the same function F: a, F[a], F[F[a]], ...
Orbit(N, V, a, F, g) ==
    /\ g \in [0..N -> V]
    /\ g[0] = a
    /\ \A n \in 1..N : g[n] = F[g[n - 1]]

\* There is such a sequence.
LEMMA OrbitExists ==
    ASSUME NEW V, NEW a \in V, NEW N \in Nat, NEW F \in [V -> V]
    PROVE  \E g : Orbit(N, V, a, F, g)
<1> DEFINE step == [n \in 1..N |-> F]
<1>1. step \in Step(N, V)
  BY DEF Step
<1>2. \A n \in 1..N : step[n] = F
  OBVIOUS
<1> HIDE DEF step
<1>3. PICK g : Iterated(N, V, a, step, g)
  BY <1>1, PrimitiveRecursion
<1>4. Orbit(N, V, a, F, g)
  BY <1>2, <1>3 DEF Iterated, Orbit
<1>5. QED
  BY <1>4

\* Two of them agree as far as both go.
LEMMA OrbitAgree ==
    ASSUME NEW V, NEW a, NEW F, NEW N \in Nat, NEW M \in Nat, NEW g, NEW h,
           Orbit(N, V, a, F, g), Orbit(M, V, a, F, h)
    PROVE  \A k \in Nat : k <= N /\ k <= M => g[k] = h[k]
<1> DEFINE S == {k \in Nat : k <= N /\ k <= M => g[k] = h[k]}
<1>1. 0 \in S
  BY DEF Orbit
<1>2. ASSUME NEW k \in Nat, k \in S PROVE k + 1 \in S
  <2> SUFFICES ASSUME k + 1 <= N, k + 1 <= M PROVE g[k + 1] = h[k + 1]
    OBVIOUS
  <2>1. k + 1 \in 1..N /\ k + 1 \in 1..M /\ (k + 1) - 1 = k /\ g[k] = h[k]
    BY <1>2
  <2>2. g[k + 1] = F[g[k]] /\ h[k + 1] = F[h[k]]
    BY <2>1 DEF Orbit
  <2>3. QED
    BY <2>1, <2>2
<1>3. \A k \in Nat : k \in S
  <2> HIDE DEF S
  <2>1. QED
    BY <1>1, <1>2, SetInduction
<1>4. QED
  BY <1>3

\* From a fixed point of F on, the sequence does not change.
LEMMA OrbitFixed ==
    ASSUME NEW V, NEW a, NEW F, NEW N \in Nat, NEW g, Orbit(N, V, a, F, g),
           NEW k \in 0..N, F[g[k]] = g[k]
    PROVE  \A n \in k..N : g[n] = g[k]
<1> DEFINE S == {d \in Nat : k + d <= N => g[k + d] = g[k]}
<1>1. 0 \in S
  OBVIOUS
<1>2. ASSUME NEW d \in Nat, d \in S PROVE d + 1 \in S
  <2> SUFFICES ASSUME k + (d + 1) <= N PROVE g[k + (d + 1)] = g[k]
    OBVIOUS
  <2>1. k + (d + 1) \in 1..N /\ (k + (d + 1)) - 1 = k + d /\ g[k + d] = g[k]
    BY <1>2
  <2>2. g[k + (d + 1)] = F[g[k + d]]
    BY <2>1 DEF Orbit
  <2>3. QED
    BY <2>1, <2>2
<1>3. \A d \in Nat : d \in S
  <2> HIDE DEF S
  <2>1. QED
    BY <1>1, <1>2, SetInduction
<1>4. ASSUME NEW n \in k..N PROVE g[n] = g[k]
  <2>1. n - k \in Nat /\ k + (n - k) = n /\ n <= N
    OBVIOUS
  <2>2. n - k \in S
    BY <1>3, <2>1
  <2>3. QED
    BY <2>1, <2>2
<1>5. QED
  BY <1>4
=============================================================================
