-------------------------- MODULE AlgorithmsProofs ---------------------------
(***************************************************************************)
(* Proofs about the stateless computations of MCAlgorithms, for inputs of  *)
(* every length and size: sums and permutations, the fusion, the order of  *)
(* what the engines are given, satellites and ephemerides, the week        *)
(* crossover of GPS time, the geofence, and the method selection behind    *)
(* its conversions.  Induction is by the least counterexample.             *)
(***************************************************************************)
EXTENDS MCAlgorithms, MethodSelectorProofs, FiniteSetTheorems, WellFoundedInduction, TLAPS

-----------------------------------------------------------------------------
(* Sums.                                                                   *)

\* A set of natural numbers that is not empty has a least one.
LEMMA Least ==
    ASSUME NEW T \in SUBSET Nat, T # {}
    PROVE  \E x \in T : \A y \in T : x <= y
<1> DEFINE R == {ss \in Nat \X Nat : ss[1] < ss[2]}
<1>1. IsWellFoundedOn(R, Nat)
  BY NatLessThanWellFounded DEF OpToRel
<1>2. \A x, y \in Nat : <<y, x>> \notin R => x <= y
  OBVIOUS
<1> HIDE DEF R
<1>3. \E x \in T : \A y \in T : <<y, x>> \notin R
  BY <1>1, WFMin
<1>4. QED BY <1>2, <1>3

\* Induction: what holds of 0, and of n + 1 when it holds of n, holds of every number.
LEMMA Induction ==
    ASSUME NEW S \in SUBSET Nat, 0 \in S, \A n \in S : n + 1 \in S
    PROVE  S = Nat
<1> SUFFICES ASSUME S # Nat PROVE FALSE
  OBVIOUS
<1> DEFINE T == Nat \ S
<1>1. PICK x \in T : \A y \in T : x <= y
  BY Least
<1>2. x \in Nat /\ x # 0 /\ x - 1 \in Nat /\ x - 1 \notin T
  BY <1>1
<1>3. QED BY <1>1, <1>2

\* t[k] is the sum of the first k of g's values, for every k up to n.
Adds(t, g, n) ==
    /\ DOMAIN t = 0 .. n
    /\ t[0] = 0
    /\ \A k \in 0 .. n : t[k] \in Int
    /\ \A k \in 1 .. n : t[k] = t[k - 1] + g[k]

Whole(g, n) == \A k \in 1 .. n : g[k] \in Int

LEMMA AddsExists ==
    ASSUME NEW n \in Nat, NEW g, Whole(g, n)
    PROVE  \E t : Adds(t, g, n)
<1> DEFINE S == {m \in Nat : m <= n => \E t : Adds(t, g, m)}
<1>0. S \in SUBSET Nat
  OBVIOUS
<1>1. 0 \in S
  <2>1. Adds([k \in 0 .. 0 |-> 0], g, 0)
    BY DEF Adds
  <2>2. QED BY <2>1
<1>2. ASSUME NEW m \in S PROVE m + 1 \in S
  <2> SUFFICES ASSUME m + 1 <= n PROVE \E t : Adds(t, g, m + 1)
    OBVIOUS
  <2>1. PICK t : Adds(t, g, m)
    OBVIOUS
  <2> DEFINE u == [k \in 0 .. m + 1 |-> IF k = m + 1 THEN t[m] + g[m + 1] ELSE t[k]]
  <2>2. g[m + 1] \in Int
    BY DEF Whole
  <2>3. Adds(u, g, m + 1)
    BY <2>1, <2>2 DEF Adds
  <2>4. QED BY <2>3
<1> HIDE DEF S
<1>3. S = Nat
  BY <1>0, <1>1, <1>2, Induction
<1>4. QED BY <1>3 DEF S

LEMMA AddsUnique ==
    ASSUME NEW n \in Nat, NEW g, NEW t, NEW u, Adds(t, g, n), Adds(u, g, n)
    PROVE  t[n] = u[n]
<1> DEFINE S == {k \in Nat : k <= n => t[k] = u[k]}
<1>0. S \in SUBSET Nat
  OBVIOUS
<1>1. 0 \in S
  BY DEF Adds
<1>2. ASSUME NEW k \in S PROVE k + 1 \in S
  BY DEF Adds
<1> HIDE DEF S
<1>3. S = Nat
  BY <1>0, <1>1, <1>2, Induction
<1>4. QED BY <1>3 DEF S

LEMMA TotalAdds ==
    ASSUME NEW n \in Nat, NEW g, Whole(g, n)
    PROVE  /\ \E t : Adds(t, g, n)
           /\ \A t : Adds(t, g, n) => Total(g, n) = t[n]
<1> DEFINE Loops(f) == f = [k \in 0 .. n |-> IF k = 0 THEN 0 ELSE f[k - 1] + g[k]]
           upTo == CHOOSE f : Loops(f)
<1>1. PICK t : Adds(t, g, n)
  BY AddsExists
<1>2. \A k \in 0 .. n : t[k] = IF k = 0 THEN 0 ELSE t[k - 1] + g[k]
  BY <1>1 DEF Adds
<1>3. \E f : Loops(f)
  <2> DEFINE u == [k \in 0 .. n |-> t[k]]
  <2>1. \A k \in 0 .. n : t[k] = IF k = 0 THEN 0 ELSE u[k - 1] + g[k]
    BY <1>2
  <2>2. u = [k \in 0 .. n |-> IF k = 0 THEN 0 ELSE u[k - 1] + g[k]]
    BY <2>1, Zenon
  <2>3. QED BY <2>2, Zenon
<1>4. Loops(upTo)
  BY <1>3
<1>5. Total(g, n) = upTo[n]
  BY DEF Total
<1> HIDE DEF upTo
<1>6. Adds(upTo, g, n)
  <2>1. DOMAIN upTo = 0 .. n /\ upTo[0] = 0 /\ \A k \in 1 .. n : upTo[k] = upTo[k - 1] + g[k]
    BY <1>4
  <2> DEFINE S == {k \in Nat : k <= n => upTo[k] \in Int}
  <2>0. S \in SUBSET Nat
    OBVIOUS
  <2>2. 0 \in S
    BY <2>1
  <2>3. ASSUME NEW k \in S PROVE k + 1 \in S
    BY <2>1 DEF Whole
  <2> HIDE DEF S
  <2>4. S = Nat
    BY <2>0, <2>2, <2>3, Induction
  <2>5. QED BY <2>1, <2>4 DEF Adds, S
<1>7. QED BY <1>1, <1>5, <1>6, AddsUnique

LEMMA TotalStep ==
    ASSUME NEW n \in Nat, NEW g, Whole(g, n + 1)
    PROVE  /\ Total(g, 0) = 0
           /\ Total(g, n) \in Int
           /\ Total(g, n + 1) = Total(g, n) + g[n + 1]
<1>1. PICK t : Adds(t, g, n + 1)
  BY TotalAdds
<1>2. Total(g, n + 1) = t[n + 1] /\ n + 1 \in Nat
  BY <1>1, TotalAdds
<1>3. Whole(g, n) /\ Whole(g, 0)
  BY DEF Whole
<1> DEFINE u == [k \in 0 .. n |-> t[k]]
           z == [k \in 0 .. 0 |-> 0]
<1>4. Adds(u, g, n)
  BY <1>1 DEF Adds
<1>5. Adds(z, g, 0)
  BY DEF Adds
<1> HIDE DEF u, z
<1>6. Total(g, n) = u[n] /\ Total(g, 0) = z[0]
  BY <1>3, <1>4, <1>5, TotalAdds
<1>7. u[n] = t[n] /\ z[0] = 0
  BY DEF u, z
<1>8. QED BY <1>1, <1>2, <1>6, <1>7 DEF Adds

\* A sum depends on nothing but its terms.
LEMMA TotalSame ==
    ASSUME NEW n \in Nat, NEW g, Whole(g, n), NEW h, \A k \in 1 .. n : h[k] = g[k]
    PROVE  Total(h, n) = Total(g, n) /\ Total(g, n) \in Int
<1>1. PICK t : Adds(t, g, n)
  BY TotalAdds
<1>2. Whole(h, n)
  BY DEF Whole
<1>3. Adds(t, h, n)
  BY <1>1 DEF Adds
<1>4. QED BY <1>1, <1>2, <1>3, TotalAdds DEF Adds

\* A sum of natural numbers is at least each of them.
LEMMA TotalAtLeast ==
    ASSUME NEW n \in Nat, NEW g, NEW i \in 1 .. n, \A k \in 1 .. n : g[k] \in Nat
    PROVE  Total(g, n) \in Nat /\ g[i] <= Total(g, n)
<1>0. Whole(g, n)
  BY DEF Whole
<1>1. PICK t : Adds(t, g, n)
  BY <1>0, TotalAdds
<1> DEFINE S == {k \in Nat : k <= n => t[k] \in Nat /\ (i <= k => g[i] <= t[k])}
<1>2. S \in SUBSET Nat
  OBVIOUS
<1>3. 0 \in S
  BY <1>1 DEF Adds
<1>4. ASSUME NEW k \in S PROVE k + 1 \in S
  <2> SUFFICES ASSUME k + 1 <= n
               PROVE  t[k + 1] \in Nat /\ (i <= k + 1 => g[i] <= t[k + 1])
    OBVIOUS
  <2>1. t[k + 1] = t[k] + g[k + 1] /\ t[k] \in Nat /\ g[k + 1] \in Nat
    <3>1. k + 1 \in 1 .. n /\ (k + 1) - 1 = k
      OBVIOUS
    <3>2. QED BY <1>1, <3>1 DEF Adds
  <2>2. i <= k + 1 => i <= k \/ i = k + 1
    OBVIOUS
  <2>3. QED BY <2>1, <2>2
<1> HIDE DEF S
<1>5. S = Nat
  BY <1>2, <1>3, <1>4, Induction
<1>6. QED BY <1>0, <1>1, <1>5, TotalAdds DEF S

\* What a sum becomes when one of its terms changes.
LEMMA TotalChanged ==
    ASSUME NEW n \in Nat, NEW g, Whole(g, n), NEW h, Whole(h, n), NEW j \in 1 .. n,
           \A k \in 1 .. n : k # j => h[k] = g[k]
    PROVE  Total(h, n) = Total(g, n) - g[j] + h[j]
<1>1. PICK t : Adds(t, g, n)
  BY TotalAdds
<1>2. PICK u : Adds(u, h, n)
  BY TotalAdds
<1> DEFINE S == {k \in Nat : k <= n => u[k] = t[k] + (IF j <= k THEN h[j] - g[j] ELSE 0)}
<1>3. S \in SUBSET Nat
  OBVIOUS
<1>4. 0 \in S
  BY <1>1, <1>2 DEF Adds
<1>5. ASSUME NEW k \in S PROVE k + 1 \in S
  <2> SUFFICES ASSUME k + 1 <= n
               PROVE  u[k + 1] = t[k + 1] + (IF j <= k + 1 THEN h[j] - g[j] ELSE 0)
    OBVIOUS
  <2>1. k + 1 \in 1 .. n /\ (k + 1) - 1 = k /\ k \in 0 .. n
    OBVIOUS
  <2>2. /\ t[k + 1] = t[k] + g[k + 1] /\ t[k] \in Int /\ g[k + 1] \in Int
        /\ u[k + 1] = u[k] + h[k + 1] /\ u[k] \in Int /\ h[k + 1] \in Int
        /\ g[j] \in Int /\ h[j] \in Int
    BY <1>1, <1>2, <2>1 DEF Adds, Whole
  <2>3. u[k] = t[k] + (IF j <= k THEN h[j] - g[j] ELSE 0)
    OBVIOUS
  <2>4. CASE j = k + 1
    BY <2>2, <2>3, <2>4
  <2>5. CASE j # k + 1
    BY <2>1, <2>2, <2>3, <2>5
  <2>6. QED BY <2>4, <2>5
<1> HIDE DEF S
<1>6. S = Nat
  BY <1>3, <1>4, <1>5, Induction
<1>7. u[n] = t[n] + (h[j] - g[j])
  BY <1>6 DEF S
<1>8. t[n] \in Int /\ g[j] \in Int /\ h[j] \in Int
  BY <1>1 DEF Adds, Whole
<1>9. Total(h, n) = u[n] /\ Total(g, n) = t[n]
  BY <1>1, <1>2, TotalAdds
<1>10. QED BY <1>7, <1>8, <1>9

LEMMA BijectionIs ==
    ASSUME NEW S, NEW T, NEW f
    PROVE  f \in Bijection(S, T) <=> /\ f \in [S -> T]
                                     /\ \A a, b \in S : f[a] = f[b] => a = b
                                     /\ \A t \in T : \E s \in S : f[s] = t
<1>1. ASSUME f \in [S -> T] PROVE IsInjective(f) <=> \A a, b \in S : f[a] = f[b] => a = b
  BY <1>1 DEF IsInjective
<1>2. QED BY <1>1 DEF Bijection, Injection, Surjection

\* A sum does not depend on the order of its terms.
LEMMA TotalPermuted ==
    ASSUME NEW n \in Nat, NEW g, Whole(g, n), NEW f \in Bijection(1 .. n, 1 .. n)
    PROVE  Total([i \in 1 .. n |-> g[f[i]]], n) = Total(g, n)
<1> DEFINE Moved(p, m) == [i \in 1 .. m |-> g[p[i]]]
           S == {m \in Nat : m <= n => \A p \in Bijection(1 .. m, 1 .. m) :
                                           Total(Moved(p, m), m) = Total(g, m)}
<1>1. S \in SUBSET Nat
  OBVIOUS
<1>2. 0 \in S
  <2> SUFFICES ASSUME NEW p PROVE Total(Moved(p, 0), 0) = Total(g, 0)
    OBVIOUS
  <2>1. Whole(g, 0) /\ \A k \in 1 .. 0 : Moved(p, 0)[k] = g[k]
    BY DEF Whole
  <2> HIDE DEF Moved
  <2>2. QED BY <2>1, TotalSame
<1>3. ASSUME NEW m \in S PROVE m + 1 \in S
  <2> SUFFICES ASSUME m + 1 <= n, NEW p \in Bijection(1 .. m + 1, 1 .. m + 1)
               PROVE  Total(Moved(p, m + 1), m + 1) = Total(g, m + 1)
    OBVIOUS
  <2> DEFINE to == m + 1
             x == Moved(p, m + 1)
  <2>1. /\ p \in [1 .. to -> 1 .. to]
        /\ \A a, b \in 1 .. to : p[a] = p[b] => a = b
        /\ \A t \in 1 .. to : \E s \in 1 .. to : p[s] = t
    <3> DEFINE D == 1 .. to
    <3>1. p \in Bijection(D, D)
      OBVIOUS
    <3> HIDE DEF D
    <3>2. /\ p \in [D -> D]
          /\ \A a, b \in D : p[a] = p[b] => a = b
          /\ \A t \in D : \E s \in D : p[s] = t
      BY <3>1, BijectionIs
    <3>3. QED BY <3>2 DEF D
  <2>0. m \in Nat /\ to \in 1 .. to /\ to \in Int
    OBVIOUS
  <2>2. PICK j \in 1 .. to : p[j] = to
    BY <2>0, <2>1, Zenon
  <2> DEFINE q == [i \in 1 .. m |-> IF i = j THEN p[to] ELSE p[i]]
             y == Moved(q, m)
  <2>3. q \in Bijection(1 .. m, 1 .. m)
    <3>1. \A i \in 1 .. m : q[i] \in 1 .. m
      <4>1. \A i \in 1 .. m : i # j => p[i] # to
        BY <2>1, <2>2
      <4>2. \A i \in 1 .. m : i = j => p[to] # to
        BY <2>1, <2>2
      <4>3. \A i \in 1 .. to : p[i] \in 1 .. to
        BY <2>1
      <4>4. \A v \in 1 .. to : v # to => v \in 1 .. m
        BY <2>0
      <4>5. 1 .. m \subseteq 1 .. to
        BY <2>0
      <4>6. QED BY <2>0, <4>1, <4>2, <4>3, <4>4, <4>5, Zenon
    <3>2. q \in [1 .. m -> 1 .. m]
      BY <3>1
    <3>3. \A a, b \in 1 .. m : q[a] = q[b] => a = b
      <4>1. \A a \in 1 .. m : a \in 1 .. to /\ a # to
        BY <2>0
      <4>2. QED BY <2>0, <2>1, <4>1, Zenon
    <3>4. ASSUME NEW t \in 1 .. m PROVE \E s \in 1 .. m : q[s] = t
      <4>1. PICK s \in 1 .. to : p[s] = t
        BY <2>1
      <4>2. s # j
        BY <2>2, <4>1
      <4>3. CASE s = to
        <5>1. j \in 1 .. m /\ q[j] = t
          BY <4>1, <4>2, <4>3
        <5>2. QED BY <5>1
      <4>4. CASE s # to
        <5>1. s \in 1 .. m /\ q[s] = t
          BY <4>1, <4>2, <4>4
        <5>2. QED BY <5>1
      <4>5. QED BY <4>3, <4>4
    <3> HIDE DEF q
    <3> DEFINE D == 1 .. m
    <3>5. q \in [D -> D] /\ (\A a, b \in D : q[a] = q[b] => a = b) /\ \A t \in D : \E s \in D : q[s] = t
      BY <3>2, <3>3, <3>4
    <3> HIDE DEF D
    <3>6. q \in Bijection(D, D)
      BY <3>5, BijectionIs
    <3>7. QED BY <3>6 DEF D
  <2>4. Total(y, m) = Total(g, m)
    BY <2>3
  <2>5. /\ \A i \in 1 .. to : x[i] = g[p[i]] /\ x[i] \in Int
        /\ \A i \in 1 .. m : y[i] = g[q[i]] /\ y[i] \in Int
    <3>0. 1 .. to \subseteq 1 .. n
      BY <2>0
    <3>1. \A i \in 1 .. to : p[i] \in 1 .. n
      BY <2>1, <3>0
    <3>2. \A i \in 1 .. m : q[i] \in 1 .. n
      BY <3>1
    <3>3. QED BY <3>1, <3>2 DEF Whole
  <2> HIDE DEF x, y
  <2>6. /\ Whole(x, m + 1) /\ Whole(x, m) /\ Whole(y, m) /\ Whole(g, m + 1)
        /\ Total(x, m + 1) = Total(x, m) + g[p[to]]
        /\ Total(g, m + 1) = Total(g, m) + g[to]
        /\ Total(x, m) \in Int /\ Total(g, m) \in Int /\ g[to] \in Int /\ g[p[to]] \in Int
    <3>1. Whole(x, m + 1) /\ Whole(x, m) /\ Whole(y, m) /\ Whole(g, m + 1)
      BY <2>5 DEF Whole
    <3>2. g[to] \in Int /\ p[to] \in 1 .. n /\ g[p[to]] \in Int
      <4>1. 1 .. to \subseteq 1 .. n
        BY <2>0
      <4>2. to \in 1 .. n /\ p[to] \in 1 .. n
        BY <2>0, <2>1, <4>1
      <4>3. QED BY <4>2 DEF Whole
    <3>3. x[to] = g[p[to]]
      BY <2>5
    <3>4. QED BY <3>1, <3>2, <3>3, TotalStep
  <2>7. CASE j = to
    <3>1. \A k \in 1 .. m : x[k] = y[k]
      BY <2>5, <2>7
    <3>2. Total(x, m) = Total(y, m)
      BY <2>6, <3>1, TotalSame
    <3>3. QED BY <2>2, <2>4, <2>6, <2>7, <3>2 DEF x
  <2>8. CASE j # to
    <3>1. j \in 1 .. m
      BY <2>8
    <3>2. \A k \in 1 .. m : k # j => x[k] = y[k]
      BY <2>5
    <3>3. Total(x, m) = Total(y, m) - y[j] + x[j]
      BY <2>6, <3>1, <3>2, TotalChanged
    <3>4. y[j] = g[p[to]] /\ x[j] = g[to]
      BY <2>2, <2>5, <3>1
    <3>5. QED BY <2>4, <2>6, <3>3, <3>4 DEF x
  <2>9. QED BY <2>7, <2>8
<1>4. S = Nat
  <2> HIDE DEF S
  <2>1. QED BY <1>1, <1>2, <1>3, Induction
<1>5. Total(Moved(f, n), n) = Total(g, n)
  BY <1>4
<1>6. QED BY <1>5

\* Nor does the number of indices at which something holds.
LEMMA CountPermuted ==
    ASSUME NEW n \in Nat, NEW S \in SUBSET (1 .. n), NEW f \in Bijection(1 .. n, 1 .. n)
    PROVE  /\ Cardinality({i \in 1 .. n : f[i] \in S}) = Cardinality(S)
           /\ {i \in 1 .. n : f[i] \in S} = {} <=> S = {}
<1> DEFINE T == {i \in 1 .. n : f[i] \in S}
           h == [i \in T |-> f[i]]
<1>1. /\ f \in [1 .. n -> 1 .. n]
      /\ \A a, b \in 1 .. n : f[a] = f[b] => a = b
      /\ \A t \in 1 .. n : \E s \in 1 .. n : f[s] = t
  BY BijectionIs
<1>2. h \in Bijection(T, S)
  <2>1. h \in [T -> S]
    OBVIOUS
  <2>2. \A a, b \in T : h[a] = h[b] => a = b
    BY <1>1
  <2>3. ASSUME NEW t \in S PROVE \E s \in T : h[s] = t
    <3>1. PICK s \in 1 .. n : f[s] = t
      BY <1>1
    <3>2. s \in T /\ h[s] = t
      BY <3>1
    <3>3. QED BY <3>2
  <2> HIDE DEF h, T
  <2>4. QED BY <2>1, <2>2, <2>3, BijectionIs
<1>3. IsFiniteSet(T)
  <2>1. IsFiniteSet(1 .. n)
    BY FS_Interval
  <2>2. QED BY <2>1, FS_Subset
<1>4. ExistsBijection(T, S)
  BY <1>2 DEF ExistsBijection
<1>5. Cardinality(T) = Cardinality(S)
  <2> HIDE DEF T
  <2>1. QED BY <1>3, <1>4, FS_Bijection
<1>6. T = {} <=> S = {}
  <2>1. ASSUME NEW t \in S PROVE \E i \in 1 .. n : f[i] \in S
    BY <1>1
  <2>2. QED BY <2>1
<1>7. QED BY <1>5, <1>6

-----------------------------------------------------------------------------
(* GPS time.                                                               *)

\* What the two loops end in: the moment itself when it is within half a week, and else
\* the one that is, a whole number of weeks away.
Wrapped(t) ==
    IF t > HalfWeek THEN ((t + 251) % Week) - 251
    ELSE IF t < -HalfWeek THEN ((t + 252) % Week) - 252 ELSE t

\* One round of a loop of ComputeSatellitePosition, and the end of both.
LEMMA CrossoverStep ==
    \A t \in Int : CrossoverOf[t] = IF t > HalfWeek THEN CrossoverOf[t - Week]
                                    ELSE IF t < -HalfWeek THEN CrossoverOf[t + Week] ELSE t
<1> DEFINE Loops(f) == f = [t \in Int |-> IF t > HalfWeek THEN f[t - Week]
                                          ELSE IF t < -HalfWeek THEN f[t + Week] ELSE t]
           closed == [t \in Int |-> Wrapped(t)]
<1>1. \A t \in Int : Wrapped(t) = IF t > HalfWeek THEN Wrapped(t - Week)
                                  ELSE IF t < -HalfWeek THEN Wrapped(t + Week) ELSE t
  <2>1. \A t \in Int : t > 252 =>
            ((t + 251) % 504) - 251 =
                IF t - 504 > 252 THEN ((t - 504 + 251) % 504) - 251 ELSE t - 504
    OBVIOUS
  <2>2. \A t \in Int : t < -252 =>
            ((t + 252) % 504) - 252 =
                IF t + 504 < -252 THEN ((t + 504 + 252) % 504) - 252 ELSE t + 504
    OBVIOUS
  <2>3. QED BY <2>1, <2>2 DEF Wrapped, HalfWeek, Week
<1>2. \A t \in Int : t - Week \in Int /\ t + Week \in Int
  BY DEF Week
<1>3. Loops(closed)
  BY <1>1, <1>2
<1>4. CrossoverOf = CHOOSE f : Loops(f)
  BY DEF CrossoverOf
<1> HIDE DEF closed
<1>5. Loops(CrossoverOf)
  BY <1>3, <1>4
<1>6. QED BY <1>5

\* A time within half a week is kept, also when a week was taken off it.
LEMMA CrossoverRestores ==
    ASSUME NEW v \in -10 .. 11
    PROVE  Crossover(v) = v /\ Crossover(v - Week) = v
<1>1. v \in Int /\ v - Week \in Int /\ (v - Week) + Week = v
  BY DEF Week
<1>2. ~(v > HalfWeek) /\ ~(v < -HalfWeek) /\ ~(v - Week > HalfWeek) /\ v - Week < -HalfWeek
  BY DEF Week, HalfWeek
<1>3. CrossoverOf[v] = v
  BY <1>1, <1>2, CrossoverStep
<1>4. CrossoverOf[v - Week] = v
  BY <1>1, <1>2, <1>3, CrossoverStep
<1>5. QED BY <1>3, <1>4 DEF Crossover

\* The hours of reference times divide a week.
LEMMA ReferenceOf ==
    ASSUME NEW c \in Generated, NEW m \in Nat
    PROVE  Reference(c, m) = (m % Week) - (m % IF c = ConstellationGPS THEN 6 ELSE 3)
<1>1. \A k \in Nat : (k % 504) % 6 = k % 6 /\ (k % 504) % 3 = k % 3
  OBVIOUS
<1>2. QED BY <1>1 DEF Reference, currentGPSTime, Week

\* Whenever the ephemerides were generated, and within two hours of it, the solver gets the
\* time since their reference, in the same week or across its end.
THEOREM WeekWrap ==
    ASSUME NEW c \in Generated, NEW made \in Nat, NEW age \in 0 .. 6, NEW travel \in {0, 1}
    PROVE  SinceReference(Reference(c, made), made + age, travel)
             = (age - travel) + (made % IF c = ConstellationGPS THEN 6 ELSE 3)
<1> DEFINE r == made % IF c = ConstellationGPS THEN 6 ELSE 3
           v == (age - travel) + r
           now == made + age
<1>1. r \in 0 .. 5 /\ v \in -10 .. 11
  OBVIOUS
<1>2. now \in Nat /\ currentGPSTime(now).tow = now % Week
  BY DEF currentGPSTime
<1>3. now % Week \in {(made % Week) + age, ((made % Week) + age) - Week}
  <2>1. \A m \in Nat, a \in 0 .. 6 : (m + a) % 504 \in {(m % 504) + a, ((m % 504) + a) - 504}
    OBVIOUS
  <2>2. QED BY <2>1 DEF Week
<1>4. made % Week \in Int /\ Week \in Int
  BY DEF Week
<1>5. Reference(c, made) = (made % Week) - r
  BY ReferenceOf
<1> HIDE DEF r
<1>6. ((now % Week) - travel) - Reference(c, made) \in {v, v - Week}
  <2>1. \A w, x, y, z, k \in Int :
            /\ ((w + x) - y) - (w - z) = (x - y) + z
            /\ (((w + x) - k) - y) - (w - z) = ((x - y) + z) - k
    OBVIOUS
  <2>2. r \in Int /\ age \in Int /\ travel \in Int
    BY <1>1
  <2>3. QED BY <1>3, <1>4, <1>5, <2>1, <2>2
<1> HIDE DEF v, now
<1>7. QED BY <1>1, <1>2, <1>6, CrossoverRestores DEF SinceReference, v, r, now

-----------------------------------------------------------------------------
(* The geofence.                                                           *)

Location == [lat : Int, lon : Int]

\* How far q is above the ray of p.
Above(p, q) == q.lat - p.lat

\* An edge is crossed upwards with p on its left, or downwards with p on its right: on its
\* western side in both.
LEMMA CrossesBySide ==
    ASSUME NEW p \in Location, NEW a \in Location, NEW b \in Location
    PROVE  /\ Side(a, b, p) \in Int
           /\ Crosses(p, a, b) <=>
                 \/ Above(p, a) <= 0 /\ Above(p, b) > 0 /\ Side(a, b, p) > 0
                 \/ Above(p, a) > 0 /\ Above(p, b) <= 0 /\ Side(a, b, p) < 0
<1> DEFINE lhs == (p.lon - b.lon) * (a.lat - b.lat)
           rhs == (a.lon - b.lon) * (p.lat - b.lat)
<1>1. /\ p.lat \in Int /\ p.lon \in Int /\ a.lat \in Int /\ a.lon \in Int
      /\ b.lat \in Int /\ b.lon \in Int
  BY DEF Location
<1>2. lhs \in Int /\ rhs \in Int /\ Side(a, b, p) \in Int /\ Side(a, b, p) = lhs - rhs
  <2>1. \A px, py, ax, ay, bx, by \in Int :
            /\ (px - bx) * (ay - by) \in Int /\ (ax - bx) * (py - by) \in Int
            /\ (bx - ax) * (py - ay) - (by - ay) * (px - ax) \in Int
            /\ (bx - ax) * (py - ay) - (by - ay) * (px - ax)
                  = (px - bx) * (ay - by) - (ax - bx) * (py - by)
    OBVIOUS
  <2>2. QED BY <1>1, <2>1 DEF Side
<1>3. Crosses(p, a, b) <=> /\ (b.lat > p.lat) # (a.lat > p.lat)
                           /\ IF a.lat > b.lat THEN lhs < rhs ELSE lhs > rhs
  BY DEF Crosses
<1> HIDE DEF lhs, rhs
<1>4. QED BY <1>1, <1>2, <1>3 DEF Above

\* An edge is crossed in both directions or in none.
LEMMA CrossesBothWays ==
    ASSUME NEW p \in Location, NEW a \in Location, NEW b \in Location
    PROVE  Crosses(p, a, b) <=> Crosses(p, b, a)
<1>1. \A px, py, ax, ay, bx, by \in Int :
          (bx - ax) * (py - ay) - (by - ay) * (px - ax)
            = -((ax - bx) * (py - by) - (ay - by) * (px - bx))
  OBVIOUS
<1>2. Side(a, b, p) = -Side(b, a, p)
  BY <1>1 DEF Side, Location
<1>3. QED BY <1>2, CrossesBySide

\* Taking a number out of a set changes the parity of its size.
LEMMA ParityWithout ==
    ASSUME NEW S, IsFiniteSet(S), NEW n
    PROVE  /\ IsFiniteSet(S \ {n})
           /\ Cardinality(S) % 2 = 1 <=> ((n \in S) # (Cardinality(S \ {n}) % 2 = 1))
<1>1. IsFiniteSet(S \ {n}) /\ Cardinality(S) \in Nat /\ Cardinality(S \ {n}) \in Nat
  BY FS_CardinalityType, FS_RemoveElement
<1>2. Cardinality(S \ {n}) = IF n \in S THEN Cardinality(S) - 1 ELSE Cardinality(S)
  BY FS_RemoveElement
<1>3. \A k \in Nat : k - 1 \in Nat => (k % 2 = 1 <=> ~((k - 1) % 2 = 1))
  OBVIOUS
<1>4. QED BY <1>1, <1>2, <1>3

\* Whether an odd number of the first three, or four, numbers is in a set.
LEMMA ParityOf ==
    ASSUME NEW S \in SUBSET (1 .. 4)
    PROVE  Cardinality(S) % 2 = 1 <=> ((1 \in S) # ((2 \in S) # ((3 \in S) # (4 \in S))))
<1> DEFINE S1 == S \ {1}
           S2 == S1 \ {2}
           S3 == S2 \ {3}
           S4 == S3 \ {4}
<1>1. IsFiniteSet(S)
  BY FirstNumbers, FS_Subset
<1>2. IsFiniteSet(S1) /\ (Cardinality(S) % 2 = 1 <=> ((1 \in S) # (Cardinality(S1) % 2 = 1)))
  BY <1>1, ParityWithout
<1>3. IsFiniteSet(S2) /\ (Cardinality(S1) % 2 = 1 <=> ((2 \in S1) # (Cardinality(S2) % 2 = 1)))
  BY <1>2, ParityWithout
<1>4. IsFiniteSet(S3) /\ (Cardinality(S2) % 2 = 1 <=> ((3 \in S2) # (Cardinality(S3) % 2 = 1)))
  BY <1>3, ParityWithout
<1>5. Cardinality(S3) % 2 = 1 <=> ((4 \in S3) # (Cardinality(S4) % 2 = 1))
  BY <1>4, ParityWithout
<1>6. S4 = {} /\ Cardinality(S4) = 0
  <2>1. S4 = {}
    OBVIOUS
  <2>2. QED BY <2>1, FS_EmptySet
<1>7. (2 \in S1 <=> 2 \in S) /\ (3 \in S2 <=> 3 \in S) /\ (4 \in S3 <=> 4 \in S)
  OBVIOUS
<1> HIDE DEF S1, S2, S3, S4
<1>8. 0 % 2 # 1
  OBVIOUS
<1>9. QED BY <1>2, <1>3, <1>4, <1>5, <1>6, <1>7, <1>8

\* Ray casting for a triangle and for a quadrilateral, edge by edge.
LEMMA TriangleEdges ==
    ASSUME NEW p, NEW a, NEW b, NEW c
    PROVE  IsPointInPolygon(p, <<a, b, c>>) <=>
             (Crosses(p, c, a) # (Crosses(p, a, b) # Crosses(p, b, c)))
<1> DEFINE t == <<a, b, c>>
           S == {i \in DOMAIN t : Crosses(p, EdgeStart(t, i), t[i])}
<1>1. Len(t) = 3 /\ DOMAIN t = 1 .. 3 /\ t[1] = a /\ t[2] = b /\ t[3] = c
  OBVIOUS
<1>2. EdgeStart(t, 1) = c /\ EdgeStart(t, 2) = a /\ EdgeStart(t, 3) = b
  BY <1>1 DEF EdgeStart
<1>3. IsPointInPolygon(p, t) <=> Cardinality(S) % 2 = 1
  BY <1>1 DEF IsPointInPolygon
<1> HIDE DEF t
<1>4. /\ S \in SUBSET (1 .. 4) /\ 4 \notin S
      /\ 1 \in S <=> Crosses(p, c, a)
      /\ 2 \in S <=> Crosses(p, a, b)
      /\ 3 \in S <=> Crosses(p, b, c)
  BY <1>1, <1>2
<1> HIDE DEF S
<1>5. Cardinality(S) % 2 = 1 <=> ((1 \in S) # ((2 \in S) # ((3 \in S) # (4 \in S))))
  BY <1>4, ParityOf
<1>6. \A u, v : Crosses(p, u, v) \in BOOLEAN
  BY DEF Crosses
<1>7. QED BY <1>3, <1>4, <1>5, <1>6 DEF t

LEMMA QuadEdges ==
    ASSUME NEW p, NEW Q, NEW q \in [1 .. 4 -> Q]
    PROVE  IsPointInPolygon(p, q) <=>
             (Crosses(p, q[4], q[1]) #
                 (Crosses(p, q[1], q[2]) # (Crosses(p, q[2], q[3]) # Crosses(p, q[3], q[4]))))
<1> DEFINE S == {i \in DOMAIN q : Crosses(p, EdgeStart(q, i), q[i])}
<1>1. Len(q) = 4 /\ DOMAIN q = 1 .. 4
  OBVIOUS
<1>2. /\ EdgeStart(q, 1) = q[4] /\ EdgeStart(q, 2) = q[1]
      /\ EdgeStart(q, 3) = q[2] /\ EdgeStart(q, 4) = q[3]
  BY <1>1 DEF EdgeStart
<1>3. IsPointInPolygon(p, q) <=> Cardinality(S) % 2 = 1
  BY <1>1 DEF IsPointInPolygon
<1>4. /\ S \in SUBSET (1 .. 4)
      /\ 1 \in S <=> Crosses(p, q[4], q[1])
      /\ 2 \in S <=> Crosses(p, q[1], q[2])
      /\ 3 \in S <=> Crosses(p, q[2], q[3])
      /\ 4 \in S <=> Crosses(p, q[3], q[4])
  BY <1>1, <1>2
<1> HIDE DEF S
<1>5. Cardinality(S) % 2 = 1 <=> ((1 \in S) # ((2 \in S) # ((3 \in S) # (4 \in S))))
  BY <1>4, ParityOf
<1>6. \A u, v : Crosses(p, u, v) \in BOOLEAN
  BY DEF Crosses
<1>7. QED BY <1>3, <1>4, <1>5, <1>6

\* The sides of the edges, weighted by the height of the opposite corner, are in balance.
LEMMA SidesBalance ==
    ASSUME NEW p \in Location, NEW a \in Location, NEW b \in Location, NEW c \in Location
    PROVE  /\ Side(a, b, p) * Above(p, c) \in Int
           /\ Side(b, c, p) * Above(p, a) \in Int
           /\ Side(c, a, p) * Above(p, b) \in Int
           /\ (Side(a, b, p) * Above(p, c) + Side(b, c, p) * Above(p, a))
                + Side(c, a, p) * Above(p, b) = 0
<1> DEFINE S(ux, uy, vx, vy, px, py) == (vx - ux) * (py - uy) - (vy - uy) * (px - ux)
<1>1. \A px, py, ax, ay, bx, by, cx, cy \in Int :
          /\ S(ax, ay, bx, by, px, py) * (cy - py) \in Int
          /\ S(bx, by, cx, cy, px, py) * (ay - py) \in Int
          /\ S(cx, cy, ax, ay, px, py) * (by - py) \in Int
          /\ (S(ax, ay, bx, by, px, py) * (cy - py) + S(bx, by, cx, cy, px, py) * (ay - py))
                + S(cx, cy, ax, ay, px, py) * (by - py) = 0
  OBVIOUS
<1>2. /\ p.lat \in Int /\ p.lon \in Int /\ a.lat \in Int /\ a.lon \in Int
      /\ b.lat \in Int /\ b.lon \in Int /\ c.lat \in Int /\ c.lon \in Int
  BY DEF Location
<1>3. /\ S(a.lon, a.lat, b.lon, b.lat, p.lon, p.lat) = Side(a, b, p)
      /\ S(b.lon, b.lat, c.lon, c.lat, p.lon, p.lat) = Side(b, c, p)
      /\ S(c.lon, c.lat, a.lon, a.lat, p.lon, p.lat) = Side(c, a, p)
  BY DEF Side
<1> HIDE DEF S
<1>4. QED BY <1>1, <1>2, <1>3 DEF Above

\* The sign of a product.
LEMMA Signs ==
    ASSUME NEW k \in Int, NEW m \in Int
    PROVE  /\ k > 0 /\ m > 0 => k * m > 0
           /\ k < 0 /\ m > 0 => k * m < 0
           /\ k > 0 /\ m < 0 => k * m < 0
           /\ k < 0 /\ m < 0 => k * m > 0
           /\ k = 0 \/ m = 0 => k * m = 0
OBVIOUS

\* When p is on one side of all edges, the corners are not all above its ray, nor all below
\* or on it: r, s and t are the sides, and z, x and y the heights of the opposite corners.
LEMMA SidesStraddle ==
    ASSUME NEW r \in Int, NEW s \in Int, NEW t \in Int, NEW x \in Int, NEW y \in Int, NEW z \in Int,
           r * z \in Int, s * x \in Int, t * y \in Int, (r * z + s * x) + t * y = 0,
           \/ r > 0 /\ s > 0 /\ t > 0
           \/ r < 0 /\ s < 0 /\ t < 0
    PROVE  /\ ~(x > 0 /\ y > 0 /\ z > 0)
           /\ x <= 0 /\ y <= 0 /\ z <= 0 => x = 0 /\ y = 0 /\ z = 0
<1> DEFINE rz == r * z
           sx == s * x
           ty == t * y
<1>1. /\ r > 0 /\ z > 0 => rz > 0
      /\ r < 0 /\ z > 0 => rz < 0
      /\ r > 0 /\ z < 0 => rz < 0
      /\ r < 0 /\ z < 0 => rz > 0
      /\ z = 0 => rz = 0
  BY Signs
<1>2. /\ s > 0 /\ x > 0 => sx > 0
      /\ s < 0 /\ x > 0 => sx < 0
      /\ s > 0 /\ x < 0 => sx < 0
      /\ s < 0 /\ x < 0 => sx > 0
      /\ x = 0 => sx = 0
  BY Signs
<1>3. /\ t > 0 /\ y > 0 => ty > 0
      /\ t < 0 /\ y > 0 => ty < 0
      /\ t > 0 /\ y < 0 => ty < 0
      /\ t < 0 /\ y < 0 => ty > 0
      /\ y = 0 => ty = 0
  BY Signs
<1>4. rz \in Int /\ sx \in Int /\ ty \in Int /\ (rz + sx) + ty = 0
  OBVIOUS
<1> HIDE DEF rz, sx, ty
<1>5. QED BY <1>1, <1>2, <1>3, <1>4

\* One corner is above the ray of p and the others are not, or the other way round; r is the
\* side of the edge opposite to it.  When the ray crosses one of the two other edges only,
\* p is not strictly on different sides of two edges.
LEMMA SidesAgree ==
    ASSUME NEW r \in Int, NEW s \in Int, NEW t \in Int, NEW x \in Int, NEW y \in Int, NEW z \in Int,
           r * z \in Int, s * x \in Int, t * y \in Int, (r * z + s * x) + t * y = 0,
           \/ z > 0 /\ x <= 0 /\ y <= 0 /\ ((s > 0) # (t < 0))
           \/ z <= 0 /\ x > 0 /\ y > 0 /\ ((s < 0) # (t > 0))
    PROVE  \/ r >= 0 /\ s >= 0 /\ t >= 0
           \/ r <= 0 /\ s <= 0 /\ t <= 0
<1> DEFINE rz == r * z
           sx == s * x
           ty == t * y
<1>1. /\ r > 0 /\ z > 0 => rz > 0
      /\ r < 0 /\ z > 0 => rz < 0
      /\ r > 0 /\ z < 0 => rz < 0
      /\ r < 0 /\ z < 0 => rz > 0
      /\ r = 0 \/ z = 0 => rz = 0
  BY Signs
<1>2. /\ s > 0 /\ x > 0 => sx > 0
      /\ s < 0 /\ x > 0 => sx < 0
      /\ s > 0 /\ x < 0 => sx < 0
      /\ s < 0 /\ x < 0 => sx > 0
      /\ s = 0 \/ x = 0 => sx = 0
  BY Signs
<1>3. /\ t > 0 /\ y > 0 => ty > 0
      /\ t < 0 /\ y > 0 => ty < 0
      /\ t > 0 /\ y < 0 => ty < 0
      /\ t < 0 /\ y < 0 => ty > 0
      /\ t = 0 \/ y = 0 => ty = 0
  BY Signs
<1>4. rz \in Int /\ sx \in Int /\ ty \in Int /\ (rz + sx) + ty = 0
  OBVIOUS
<1> HIDE DEF rz, sx, ty
<1>5. QED BY <1>1, <1>2, <1>3, <1>4

\* Ray casting decides for every triangle and point of the plane what the half-planes of its
\* edges say, whichever way round the corners are given.
THEOREM RayCasting ==
    ASSUME NEW p \in Location, NEW a \in Location, NEW b \in Location, NEW c \in Location
    PROVE  LET sides == Sides(<<a, b, c>>, p)
               inside == IsPointInPolygon(p, <<a, b, c>>)
           IN  /\ (\A x \in sides : x > 0) \/ (\A x \in sides : x < 0) => inside
               /\ (\E x \in sides : x > 0) /\ (\E x \in sides : x < 0) => ~inside
<1> DEFINE inside == IsPointInPolygon(p, <<a, b, c>>)
           r == Side(a, b, p)
           s == Side(b, c, p)
           t == Side(c, a, p)
           x == Above(p, a)
           y == Above(p, b)
           z == Above(p, c)
           ab == Crosses(p, a, b)
           bc == Crosses(p, b, c)
           ca == Crosses(p, c, a)
<1>1. /\ r \in Int /\ s \in Int /\ t \in Int
      /\ ab <=> (x <= 0 /\ y > 0 /\ r > 0) \/ (x > 0 /\ y <= 0 /\ r < 0)
      /\ bc <=> (y <= 0 /\ z > 0 /\ s > 0) \/ (y > 0 /\ z <= 0 /\ s < 0)
      /\ ca <=> (z <= 0 /\ x > 0 /\ t > 0) \/ (z > 0 /\ x <= 0 /\ t < 0)
  BY CrossesBySide
<1>2. x \in Int /\ y \in Int /\ z \in Int
  BY DEF Above, Location
<1>3. ab \in BOOLEAN /\ bc \in BOOLEAN /\ ca \in BOOLEAN
  BY DEF Crosses
<1>4. inside <=> (ca # (ab # bc))
  BY TriangleEdges
<1>5. r * z \in Int /\ s * x \in Int /\ t * y \in Int /\ (r * z + s * x) + t * y = 0
  BY SidesBalance
<1>6. s * x \in Int /\ t * y \in Int /\ r * z \in Int /\ (s * x + t * y) + r * z = 0
      /\ (t * y + r * z) + s * x = 0
  <2>1. \A i, j, k \in Int : (i + j) + k = 0 => (j + k) + i = 0 /\ (k + i) + j = 0
    OBVIOUS
  <2> HIDE DEF r, s, t, x, y, z
  <2>2. QED BY <1>5, <2>1
\* p on the ray's height with all corners: every side is zero.
<1>7. x = 0 /\ y = 0 => r = 0
  <2>1. SUFFICES ASSUME a.lat - p.lat = 0, b.lat - p.lat = 0 PROVE r = 0
    BY DEF Above
  <2>2. /\ a.lat \in Int /\ b.lat \in Int /\ p.lat \in Int /\ b.lon - a.lon \in Int
        /\ p.lon - a.lon \in Int
    BY DEF Location
  <2>3. p.lat - a.lat = 0 /\ b.lat - a.lat = 0
    BY <2>1, <2>2
  <2>4. \A k, m \in Int : k * 0 - 0 * m = 0
    OBVIOUS
  <2>5. QED BY <2>2, <2>3, <2>4 DEF Side
<1>8. Sides(<<a, b, c>>, p) = {r, s, t}
  BY DEF Sides
<1> HIDE DEF inside, r, s, t, x, y, z, ab, bc, ca
\* Strictly on one side of all edges.
<1>9. ASSUME (r > 0 /\ s > 0 /\ t > 0) \/ (r < 0 /\ s < 0 /\ t < 0) PROVE inside
  <2>1. ~(x > 0 /\ y > 0 /\ z > 0) /\ (x <= 0 /\ y <= 0 /\ z <= 0 => x = 0 /\ y = 0 /\ z = 0)
    BY <1>1, <1>2, <1>5, <1>9, SidesStraddle
  <2>2. ~(x <= 0 /\ y <= 0 /\ z <= 0)
    BY <1>1, <1>7, <1>9, <2>1
  <2>3. QED BY <1>1, <1>2, <1>3, <1>4, <1>9, <2>1, <2>2
\* Strictly on different sides of two edges.
<1>10. ASSUME inside PROVE (r >= 0 /\ s >= 0 /\ t >= 0) \/ (r <= 0 /\ s <= 0 /\ t <= 0)
  <2>1. \/ z > 0 /\ x <= 0 /\ y <= 0 /\ ((s > 0) # (t < 0))
        \/ z <= 0 /\ x > 0 /\ y > 0 /\ ((s < 0) # (t > 0))
        \/ x > 0 /\ y <= 0 /\ z <= 0 /\ ((t > 0) # (r < 0))
        \/ x <= 0 /\ y > 0 /\ z > 0 /\ ((t < 0) # (r > 0))
        \/ y > 0 /\ z <= 0 /\ x <= 0 /\ ((r > 0) # (s < 0))
        \/ y <= 0 /\ z > 0 /\ x > 0 /\ ((r < 0) # (s > 0))
    BY <1>1, <1>2, <1>3, <1>4, <1>10
  <2>2. CASE \/ z > 0 /\ x <= 0 /\ y <= 0 /\ ((s > 0) # (t < 0))
             \/ z <= 0 /\ x > 0 /\ y > 0 /\ ((s < 0) # (t > 0))
    BY <1>1, <1>2, <1>5, <2>2, SidesAgree
  <2>3. CASE \/ x > 0 /\ y <= 0 /\ z <= 0 /\ ((t > 0) # (r < 0))
             \/ x <= 0 /\ y > 0 /\ z > 0 /\ ((t < 0) # (r > 0))
    <3>1. (s >= 0 /\ t >= 0 /\ r >= 0) \/ (s <= 0 /\ t <= 0 /\ r <= 0)
      BY <1>1, <1>2, <1>6, <2>3, SidesAgree
    <3>2. QED BY <3>1
  <2>4. CASE \/ y > 0 /\ z <= 0 /\ x <= 0 /\ ((r > 0) # (s < 0))
             \/ y <= 0 /\ z > 0 /\ x > 0 /\ ((r < 0) # (s > 0))
    <3>1. (t >= 0 /\ r >= 0 /\ s >= 0) \/ (t <= 0 /\ r <= 0 /\ s <= 0)
      BY <1>1, <1>2, <1>6, <2>4, SidesAgree
    <3>2. QED BY <3>1
  <2>5. QED BY <2>1, <2>2, <2>3, <2>4
<1>11. (\A e \in {r, s, t} : e > 0) \/ (\A e \in {r, s, t} : e < 0) => inside
  BY <1>9
<1>12. (\E e \in {r, s, t} : e > 0) /\ (\E e \in {r, s, t} : e < 0) => ~inside
  BY <1>1, <1>10
<1>13. QED BY <1>8, <1>11, <1>12 DEF inside

\* Cutting a quadrilateral along a diagonal neither loses nor doubles a point of the plane.
THEOREM CutExact ==
    ASSUME NEW p \in Location, NEW q \in [1 .. 4 -> Location]
    PROVE  IsPointInPolygon(p, q) <=> (IsPointInPolygon(p, <<q[1], q[2], q[3]>>)
                                          # IsPointInPolygon(p, <<q[1], q[3], q[4]>>))
<1> DEFINE In(polygon) == IsPointInPolygon(p, polygon)
           X(i, j) == Crosses(p, q[i], q[j])
<1>1. \A i, j \in 1 .. 4 : X(i, j) \in BOOLEAN /\ (X(i, j) <=> X(j, i))
  <2>1. \A i, j \in 1 .. 4 : X(i, j) \in BOOLEAN
    BY DEF Crosses
  <2>2. QED BY <2>1, CrossesBothWays
<1>2. In(q) <=> (X(4, 1) # (X(1, 2) # (X(2, 3) # X(3, 4))))
  BY QuadEdges
<1>3. In(<<q[1], q[2], q[3]>>) <=> (X(3, 1) # (X(1, 2) # X(2, 3)))
  BY TriangleEdges
<1>4. In(<<q[1], q[3], q[4]>>) <=> (X(4, 1) # (X(1, 3) # X(3, 4)))
  BY TriangleEdges
<1>5. \A polygon : In(polygon) \in BOOLEAN
  BY DEF IsPointInPolygon
<1> HIDE DEF X, In
<1>6. In(q) <=> (In(<<q[1], q[2], q[3]>>) # In(<<q[1], q[3], q[4]>>))
  BY <1>1, <1>2, <1>3, <1>4, <1>5
<1>7. QED BY <1>6 DEF In

-----------------------------------------------------------------------------
(* The fusion.                                                             *)

\* What is fused: at least one estimate.
Estimates(ests, n) ==
    /\ n \in Nat \ {0}
    /\ ests \in [1 .. n -> [lat : Int, sigma : Sigmas]]

LEMMA EstimatesAre ==
    ASSUME NEW ests, NEW n, Estimates(ests, n)
    PROVE  /\ DOMAIN ests = 1 .. n
           /\ Len(ests) = n
           /\ \A i \in 1 .. n : ests[i].sigma \in {0, 1, 2, 6, 7} /\ ests[i].lat \in Int
<1>1. ests \in Seq([lat : Int, sigma : Sigmas])
  <2> DEFINE E == [lat : Int, sigma : Sigmas]
  <2>1. n \in Nat /\ ests \in [1 .. n -> E]
    BY DEF Estimates
  <2> HIDE DEF E
  <2>2. ests \in Seq(E)
    BY <2>1
  <2>3. QED BY <2>2 DEF E
<1>2. Len(ests) = n /\ DOMAIN ests = 1 .. n
  BY <1>1 DEF Estimates
<1>3. QED BY <1>2 DEF Estimates, Sigmas

\* The median is defined: more than half of the precisions are no larger.
LEMMA MedianHalf ==
    ASSUME NEW ests, NEW n, Estimates(ests, n)
    PROVE  /\ MedianSigma(ests) \in {0, 1, 2, 6, 7}
           /\ 2 * Cardinality({i \in 1 .. n : ests[i].sigma <= MedianSigma(ests)}) > n
           /\ {i \in 1 .. n : ests[i].sigma <= MedianSigma(ests)} # {}
<1> DEFINE k == Len(ests) \div 2
           Below(m) == {i \in DOMAIN ests : ests[i].sigma < m}
           UpTo(m) == {i \in DOMAIN ests : ests[i].sigma <= m}
           Middle(m) == Cardinality(Below(m)) <= k /\ k < Cardinality(UpTo(m))
           Values == {ests[i].sigma : i \in DOMAIN ests}
           Reached == {m \in Nat : k < Cardinality(UpTo(m))}
<1>1. /\ DOMAIN ests = 1 .. n /\ Len(ests) = n /\ n \in Nat \ {0}
      /\ \A i \in 1 .. n : ests[i].sigma \in {0, 1, 2, 6, 7}
  BY EstimatesAre DEF Estimates
<1>2. /\ \A m : IsFiniteSet(UpTo(m)) /\ IsFiniteSet(Below(m))
      /\ \A m : Cardinality(UpTo(m)) \in Nat /\ Cardinality(Below(m)) \in Nat
  <2>1. IsFiniteSet(1 .. n)
    BY <1>1, FS_Interval
  <2>2. \A m : UpTo(m) \in SUBSET (1 .. n) /\ Below(m) \in SUBSET (1 .. n)
    BY <1>1
  <2> HIDE DEF UpTo, Below
  <2>3. QED BY <2>1, <2>2, FS_Subset, FS_CardinalityType
<1>3. k \in Nat /\ k < n /\ 2 * (k + 1) > n
  BY <1>1
<1>4. 7 \in Reached
  <2>1. UpTo(7) = 1 .. n
    BY <1>1
  <2>2. Cardinality(1 .. n) = n
    BY <1>1, FS_Interval
  <2> HIDE DEF UpTo, k
  <2>3. QED BY <1>3, <2>1, <2>2
<1>5. PICK m \in Reached : \A l \in Reached : m <= l
  <2>1. Reached \in SUBSET Nat
    OBVIOUS
  <2> HIDE DEF Reached
  <2>2. QED BY <1>4, <2>1, Least
<1>6. Cardinality(Below(m)) <= k
  <2>1. CASE m = 0
    <3>1. Below(m) = {}
      BY <1>1, <2>1
    <3>2. Cardinality({}) = 0
      BY FS_EmptySet
    <3> HIDE DEF k, Below
    <3>3. QED BY <1>3, <3>1, <3>2
  <2>2. CASE m # 0
    <3>1. m - 1 \in Nat /\ m - 1 \notin Reached
      BY <1>5, <2>2
    <3>2. Below(m) = UpTo(m - 1)
      <4>1. \A s \in {0, 1, 2, 6, 7} : s < m <=> s <= m - 1
        BY <3>1
      <4>2. QED BY <1>1, <4>1
    <3>3. ~(k < Cardinality(UpTo(m - 1)))
      BY <3>1
    <3> HIDE DEF k, Below, UpTo
    <3>4. QED BY <1>2, <1>3, <3>2, <3>3
  <2>3. QED BY <2>1, <2>2
<1>7. k < Cardinality(UpTo(m))
  BY <1>5
<1>8. m \in Values
  <2>1. ASSUME m \notin Values PROVE UpTo(m) = Below(m)
    <3>1. \A i \in 1 .. n : ests[i].sigma # m
      BY <1>1, <2>1
    <3>2. m \in Nat
      BY <1>5
    <3>3. \A s \in {0, 1, 2, 6, 7} : s # m => (s <= m <=> s < m)
      BY <3>2
    <3>4. QED BY <1>1, <3>1, <3>3
  <2> HIDE DEF k, Below, UpTo, Values
  <2>2. QED BY <1>2, <1>3, <1>6, <1>7, <2>1
<1>9. MedianSigma(ests) = CHOOSE v \in Values : Middle(v)
  BY DEF MedianSigma
<1> DEFINE md == MedianSigma(ests)
<1>10. md \in Values /\ Middle(md)
  <2> HIDE DEF Values, Middle
  <2>1. Middle(m)
    BY <1>6, <1>7 DEF Middle
  <2>2. QED BY <1>8, <1>9, <2>1
<1> HIDE DEF md
<1>11. md \in {0, 1, 2, 6, 7}
  BY <1>1, <1>10
<1>12. 2 * Cardinality(UpTo(md)) > n /\ UpTo(md) # {}
  <2>1. k < Cardinality(UpTo(md))
    BY <1>10
  <2>2. Cardinality({}) = 0
    BY FS_EmptySet
  <2>3. Cardinality(UpTo(md)) \in Nat
    BY <1>2
  <2> HIDE DEF k, UpTo
  <2>4. 2 * Cardinality(UpTo(md)) > n /\ Cardinality(UpTo(md)) # 0
    BY <1>1, <1>3, <2>1, <2>3
  <2>5. QED BY <2>2, <2>4
<1>13. QED BY <1>1, <1>11, <1>12 DEF md

\* Rejecting outliers keeps more than half of the estimates, and all that are no less
\* precise than the median; so it never rejects everything.
LEMMA KeptIs ==
    ASSUME NEW ests, NEW n, Estimates(ests, n)
    PROVE  /\ Kept(ests) = {i \in 1 .. n : n < 3 \/ ests[i].sigma <= 3 * MedianSigma(ests)}
           /\ 2 * Cardinality(Kept(ests)) > n
           /\ \E i \in Kept(ests) : \A j \in (1 .. n) \ Kept(ests) : ests[i].sigma < ests[j].sigma
           /\ \A i \in 1 .. n : (\A j \in 1 .. n : ests[i].sigma <= ests[j].sigma) => i \in Kept(ests)
<1> DEFINE md == MedianSigma(ests)
           half == {i \in 1 .. n : ests[i].sigma <= md}
           kept == {i \in 1 .. n : n < 3 \/ ests[i].sigma <= 3 * md}
<1>1. /\ DOMAIN ests = 1 .. n /\ Len(ests) = n /\ n \in Nat \ {0}
      /\ \A i \in 1 .. n : ests[i].sigma \in {0, 1, 2, 6, 7}
  BY EstimatesAre DEF Estimates
<1>2. md \in {0, 1, 2, 6, 7} /\ 2 * Cardinality(half) > n /\ half # {}
  BY MedianHalf
<1>3. kept = RejectOutliers(ests)
  BY <1>1 DEF RejectOutliers
<1> HIDE DEF md
<1>4. half \subseteq kept
  <2>1. \A s \in {0, 1, 2, 6, 7} : s <= md => s <= 3 * md
    BY <1>2
  <2>2. QED BY <1>1, <2>1
<1>5. PICK i \in half : TRUE
  BY <1>2
<1>6. i \in 1 .. n /\ i \in kept /\ ests[i].sigma <= md
  BY <1>4, <1>5
<1>7. Kept(ests) = kept
  <2> HIDE DEF kept
  <2>1. QED BY <1>3, <1>6 DEF Kept
<1>8. 2 * Cardinality(kept) > n
  <2>1. IsFiniteSet(1 .. n)
    BY <1>1, FS_Interval
  <2>2. IsFiniteSet(kept)
    <3>1. kept \in SUBSET (1 .. n)
      OBVIOUS
    <3> HIDE DEF kept
    <3>2. QED BY <2>1, <3>1, FS_Subset
  <2> HIDE DEF kept, half
  <2>3. Cardinality(half) <= Cardinality(kept) /\ IsFiniteSet(half)
    BY <1>4, <2>2, FS_Subset
  <2>4. Cardinality(half) \in Nat /\ Cardinality(kept) \in Nat
    BY <2>2, <2>3, FS_CardinalityType
  <2>5. QED BY <1>1, <1>2, <2>3, <2>4
<1>9. \A j \in (1 .. n) \ kept : ests[i].sigma < ests[j].sigma
  <2> TAKE j \in (1 .. n) \ kept
  <2>1. ests[j].sigma \in {0, 1, 2, 6, 7} /\ ests[i].sigma \in {0, 1, 2, 6, 7} /\ ~(ests[j].sigma <= 3 * md)
    BY <1>1, <1>6
  <2>2. QED BY <1>2, <1>6, <2>1
<1>10. \A j \in 1 .. n : (\A l \in 1 .. n : ests[j].sigma <= ests[l].sigma) => j \in kept
  <2> TAKE j \in 1 .. n
  <2> HAVE \A l \in 1 .. n : ests[j].sigma <= ests[l].sigma
  <2> SUFFICES ASSUME j \notin kept PROVE FALSE
    OBVIOUS
  <2> HIDE DEF kept
  <2>1. ests[i].sigma < ests[j].sigma /\ ests[j].sigma <= ests[i].sigma
    BY <1>6, <1>9
  <2>2. ests[j].sigma \in {0, 1, 2, 6, 7} /\ ests[i].sigma \in {0, 1, 2, 6, 7}
    BY <1>1, <1>6
  <2>3. QED BY <2>1, <2>2
<1>11. QED BY <1>6, <1>7, <1>8, <1>9, <1>10 DEF md

LEMMA WeightIs ==
    ASSUME NEW e, e.sigma \in {0, 1, 2, 6, 7}
    PROVE  /\ Weight(e) \in Nat \ {0}
           /\ \A s \in {1, 2, 6, 7} : e.sigma <= s => Unit <= s * s * Weight(e)
<1> DEFINE s == e.sigma
<1>1. Weight(e) = LET v == IF s = 0 THEN 1 ELSE s IN 1764 \div (v * v)
  BY DEF Weight, Unit
<1>2. s \in {0, 1, 2, 6, 7}
  OBVIOUS
<1> HIDE DEF s
<1>3. /\ s = 0 => Weight(e) = 1764
      /\ s = 1 => Weight(e) = 1764
      /\ s = 2 => Weight(e) = 441
      /\ s = 6 => Weight(e) = 49
      /\ s = 7 => Weight(e) = 36
  <2>1. /\ 1764 \div (1 * 1) = 1764 /\ 1764 \div (2 * 2) = 441
        /\ 1764 \div (6 * 6) = 49 /\ 1764 \div (7 * 7) = 36
    OBVIOUS
  <2>2. s = 0 => Weight(e) = 1764
    BY <1>1, <2>1
  <2>3. s = 1 => Weight(e) = 1764
    BY <1>1, <2>1
  <2>4. s = 2 => Weight(e) = 441
    BY <1>1, <2>1
  <2>5. s = 6 => Weight(e) = 49
    BY <1>1, <2>1
  <2>6. s = 7 => Weight(e) = 36
    BY <1>1, <2>1
  <2>7. QED BY <2>2, <2>3, <2>4, <2>5, <2>6
<1>4. Weight(e) \in {1764, 441, 49, 36}
  BY <1>2, <1>3
<1>5. \A v \in {1, 2, 6, 7} : s <= v => 1764 <= v * v * Weight(e)
  BY <1>2, <1>3
<1>6. QED BY <1>4, <1>5 DEF s, Unit

\* The weights that are added up, and their sum.
Weights(ests, n) == [i \in 1 .. n |-> IF i \in Kept(ests) THEN Weight(ests[i]) ELSE 0]

LEMMA FusedWeight ==
    ASSUME NEW ests, NEW n, Estimates(ests, n)
    PROVE  /\ SumOf(Weight, ests) = Total(Weights(ests, n), n)
           /\ SumOf(Weight, ests) \in Nat
           /\ \A i \in Kept(ests) : Weight(ests[i]) <= SumOf(Weight, ests)
<1> DEFINE g == Weights(ests, n)
<1>1. /\ DOMAIN ests = 1 .. n /\ Len(ests) = n /\ n \in Nat \ {0}
      /\ \A i \in 1 .. n : ests[i].sigma \in {0, 1, 2, 6, 7}
  BY EstimatesAre DEF Estimates
<1>2. SumOf(Weight, ests) = Total(g, n)
  BY <1>1 DEF SumOf, Weights
<1>3. \A i \in 1 .. n : g[i] \in Nat
  <2>1. \A i \in 1 .. n : Weight(ests[i]) \in Nat
    BY <1>1, WeightIs
  <2>2. QED BY <2>1 DEF Weights
<1>4. \A i \in Kept(ests) : i \in 1 .. n /\ g[i] = Weight(ests[i])
  BY KeptIs DEF Weights
<1>5. 1 \in 1 .. n
  BY <1>1
<1> HIDE DEF g
<1>6. Total(g, n) \in Nat /\ \A i \in 1 .. n : g[i] <= Total(g, n)
  BY <1>1, <1>3, <1>5, TotalAtLeast
<1>7. QED BY <1>2, <1>4, <1>6 DEF g

\* When one estimate with a known precision is as accurate as the client asked for, so is
\* the fused one.
THEOREM FusedAsAccurate ==
    ASSUME NEW ests, NEW n, Estimates(ests, n), NEW i \in 1 .. n, NEW a \in Nat,
           ests[i].sigma > 0,
           ~HorizontalFails(a, [num |-> ests[i].sigma * ests[i].sigma, den |-> 1])
    PROVE  ~HorizontalFails(a, Fuse(ests).variance)
<1> DEFINE s == ests[i].sigma
           den == SumOf(Weight, ests)
           v == Fuse(ests).variance
<1>1. /\ Len(ests) = n /\ n \in Nat \ {0}
      /\ \A k \in 1 .. n : ests[k].sigma \in {0, 1, 2, 6, 7}
  BY EstimatesAre DEF Estimates
<1>2. s \in {1, 2, 6, 7}
  <2>1. s \in {0, 1, 2, 6, 7} /\ s > 0
    BY <1>1
  <2>2. QED BY <2>1
<1> SUFFICES ASSUME a > 0 PROVE ~(2 * v.num > a * a * v.den)
  BY DEF HorizontalFails
<1>3. 2 * (s * s) <= a * a
  <2>1. ~(a > 0 /\ 2 * (s * s) > a * a * 1)
    BY DEF HorizontalFails
  <2>2. s \in Nat
    BY <1>2
  <2> HIDE DEF s
  <2>3. s * s \in Nat /\ a * a \in Nat
    BY <2>2
  <2>4. QED BY <2>1, <2>3
<1>4. CASE n = 1
  <2>1. v = [num |-> s * s, den |-> 1]
    <3>1. i = 1
      BY <1>4
    <3>2. QED BY <1>1, <1>4, <3>1 DEF Fuse
  <2>2. s * s \in Nat /\ a * a \in Nat
    BY <1>2
  <2> HIDE DEF s, v
  <2>3. v.num = s * s /\ v.den = 1
    BY <2>1
  <2>4. QED BY <1>3, <2>2, <2>3
<1>5. CASE n # 1
  <2>1. v.num = Unit /\ v.den = den
    BY <1>1, <1>5 DEF Fuse, Weighted
  <2>2. den \in Nat /\ \A k \in Kept(ests) : Weight(ests[k]) <= den
    BY FusedWeight
  <2>3. \E k \in Kept(ests) : k \in 1 .. n /\ ests[k].sigma <= s
    <3>1. Kept(ests) \subseteq 1 .. n
      BY KeptIs
    <3>2. CASE i \in Kept(ests)
      <4>1. s <= s
        BY <1>2
      <4>2. QED BY <3>2, <4>1
    <3>3. CASE i \notin Kept(ests)
      <4>1. PICK k \in Kept(ests) : \A j \in (1 .. n) \ Kept(ests) : ests[k].sigma < ests[j].sigma
        BY KeptIs
      <4>2. k \in 1 .. n /\ ests[k].sigma < s
        BY <3>1, <3>3, <4>1
      <4>3. ests[k].sigma \in {0, 1, 2, 6, 7}
        BY <1>1, <4>2
      <4>4. ests[k].sigma <= s
        BY <1>2, <4>2, <4>3
      <4>5. QED BY <4>2, <4>4
    <3>4. QED BY <3>2, <3>3
  <2>4. PICK k \in Kept(ests) : k \in 1 .. n /\ ests[k].sigma <= s
    BY <2>3
  <2> DEFINE w == Weight(ests[k])
  <2>5. w \in Nat /\ w <= den /\ Unit <= s * s * w
    <3>1. ests[k].sigma \in {0, 1, 2, 6, 7}
      BY <1>1, <2>4
    <3>2. w \in Nat /\ \A u \in {1, 2, 6, 7} : ests[k].sigma <= u => Unit <= u * u * w
      BY <3>1, WeightIs
    <3>3. w <= den
      BY <2>2, <2>4
    <3> HIDE DEF s, w, den
    <3>4. QED BY <1>2, <2>4, <3>2, <3>3
  <2> HIDE DEF s, den, w, v
  <2>6. s * s * w <= s * s * den
    BY <1>2, <2>2, <2>5
  <2>7. 2 * Unit <= (2 * (s * s)) * den
    BY <1>2, <2>2, <2>5, <2>6 DEF Unit
  <2>8. (2 * (s * s)) * den <= (a * a) * den
    <3>1. \A x, y, z \in Nat : x <= y => x * z <= y * z
      OBVIOUS
    <3>2. 2 * (s * s) \in Nat /\ a * a \in Nat
      BY <1>2
    <3>3. QED BY <1>3, <2>2, <3>1, <3>2
  <2>9. (2 * (s * s)) * den \in Nat /\ (a * a) * den \in Nat
    <3>1. 2 * (s * s) \in Nat /\ a * a \in Nat
      BY <1>2
    <3>2. QED BY <2>2, <3>1
  <2>10. QED BY <2>1, <2>7, <2>8, <2>9 DEF Unit
<1>6. QED BY <1>4, <1>5

-----------------------------------------------------------------------------
(* The order of estimates and measurements.                                *)

\* A report in another order.
Reordered(s, f) == [i \in DOMAIN s |-> s[f[i]]]

LEMMA Permutation ==
    ASSUME NEW n, NEW f \in Bijection(1 .. n, 1 .. n)
    PROVE  /\ f \in [1 .. n -> 1 .. n]
           /\ \A i \in 1 .. n : f[i] \in 1 .. n
           /\ \A j \in 1 .. n : \E i \in 1 .. n : f[i] = j
<1> DEFINE D == 1 .. n
<1>1. f \in Bijection(D, D)
  OBVIOUS
<1> HIDE DEF D
<1>2. f \in [D -> D] /\ \A j \in D : \E i \in D : f[i] = j
  BY <1>1, BijectionIs
<1>3. QED BY <1>2 DEF D

LEMMA EstimatesReordered ==
    ASSUME NEW ests, NEW n, Estimates(ests, n), NEW f \in Bijection(1 .. n, 1 .. n)
    PROVE  /\ Estimates(Reordered(ests, f), n)
           /\ \A i \in 1 .. n : Reordered(ests, f)[i] = ests[f[i]] /\ f[i] \in 1 .. n
           /\ \A j \in 1 .. n : \E i \in 1 .. n : f[i] = j
<1>1. /\ f \in [1 .. n -> 1 .. n]
      /\ \A j \in 1 .. n : \E i \in 1 .. n : f[i] = j
  BY Permutation
<1>2. DOMAIN ests = 1 .. n /\ ests \in [1 .. n -> [lat : Int, sigma : Sigmas]] /\ n \in Nat \ {0}
  BY DEF Estimates
<1> DEFINE E == [lat : Int, sigma : Sigmas]
<1>3. ests \in [1 .. n -> E]
  BY <1>2
<1> HIDE DEF E
<1>4. Reordered(ests, f) \in [1 .. n -> E] /\ \A i \in 1 .. n : Reordered(ests, f)[i] = ests[f[i]]
  BY <1>1, <1>2, <1>3 DEF Reordered
<1>5. QED BY <1>1, <1>2, <1>4 DEF Estimates, E

LEMMA MedianReordered ==
    ASSUME NEW ests, NEW n, Estimates(ests, n), NEW f \in Bijection(1 .. n, 1 .. n)
    PROVE  MedianSigma(Reordered(ests, f)) = MedianSigma(ests)
<1> DEFINE other == Reordered(ests, f)
<1>1. /\ Estimates(other, n)
      /\ \A i \in 1 .. n : other[i] = ests[f[i]] /\ f[i] \in 1 .. n
      /\ \A j \in 1 .. n : \E i \in 1 .. n : f[i] = j
  BY EstimatesReordered
<1> DEFINE Below(e, m) == {i \in 1 .. n : e[i].sigma < m}
           UpTo(e, m) == {i \in 1 .. n : e[i].sigma <= m}
           Middle(e, m) == Cardinality(Below(e, m)) <= n \div 2 /\ n \div 2 < Cardinality(UpTo(e, m))
           Values(e) == {e[i].sigma : i \in 1 .. n}
<1> HIDE DEF other
<1>2. ASSUME NEW e, Estimates(e, n)
      PROVE  MedianSigma(e) = CHOOSE m \in Values(e) : Middle(e, m)
  <2>1. DOMAIN e = 1 .. n /\ Len(e) = n
    BY <1>2, EstimatesAre
  <2>2. QED BY <2>1 DEF MedianSigma
<1>3. Values(other) = Values(ests)
  <2>1. ASSUME NEW i \in 1 .. n PROVE other[i].sigma \in Values(ests)
    <3>1. other[i].sigma = ests[f[i]].sigma /\ f[i] \in 1 .. n
      BY <1>1
    <3>2. QED BY <3>1
  <2>2. ASSUME NEW j \in 1 .. n PROVE ests[j].sigma \in Values(other)
    <3>1. PICK i \in 1 .. n : f[i] = j
      BY <1>1
    <3>2. other[i].sigma = ests[j].sigma
      BY <1>1, <3>1
    <3>3. QED BY <3>2
  <2>3. QED BY <2>1, <2>2
<1>4. ASSUME NEW m
      PROVE  /\ Cardinality(Below(other, m)) = Cardinality(Below(ests, m))
             /\ Cardinality(UpTo(other, m)) = Cardinality(UpTo(ests, m))
  <2> DEFINE B == Below(ests, m)
             U == UpTo(ests, m)
  <2>1. Below(other, m) = {i \in 1 .. n : f[i] \in B} /\ UpTo(other, m) = {i \in 1 .. n : f[i] \in U}
    BY <1>1
  <2>2. B \in SUBSET (1 .. n) /\ U \in SUBSET (1 .. n)
    OBVIOUS
  <2> HIDE DEF B, U
  <2>3. /\ Cardinality({i \in 1 .. n : f[i] \in B}) = Cardinality(B)
        /\ Cardinality({i \in 1 .. n : f[i] \in U}) = Cardinality(U)
    <3>1. n \in Nat
      BY DEF Estimates
    <3>2. QED BY <2>2, <3>1, CountPermuted
  <2>4. QED BY <2>1, <2>3 DEF B, U
<1>5. \A m : Middle(other, m) <=> Middle(ests, m)
  <2> HIDE DEF Below, UpTo
  <2>1. QED BY <1>4
<1>6. MedianSigma(other) = (CHOOSE m \in Values(other) : Middle(other, m))
      /\ MedianSigma(ests) = (CHOOSE m \in Values(ests) : Middle(ests, m))
  BY <1>1, <1>2
<1> HIDE DEF Middle, Values
<1>7. (CHOOSE m \in Values(other) : Middle(other, m)) = CHOOSE m \in Values(ests) : Middle(ests, m)
  BY <1>3, <1>5, Zenon
<1>8. QED BY <1>6, <1>7 DEF other

\* The fused position and its precision do not depend on the order of the estimates.
THEOREM FusionOrderFree ==
    ASSUME NEW ests, NEW n, Estimates(ests, n), NEW f \in Bijection(1 .. n, 1 .. n)
    PROVE  Fuse(Reordered(ests, f)) = Fuse(ests)
<1> DEFINE other == Reordered(ests, f)
           kept == Kept(ests)
           w == [i \in 1 .. n |-> Weight(ests[i])]
           p == [i \in 1 .. n |-> Weight(ests[i]) * ests[i].lat]
<1>1. /\ Estimates(other, n)
      /\ \A i \in 1 .. n : other[i] = ests[f[i]] /\ f[i] \in 1 .. n
      /\ n \in Nat \ {0}
  BY EstimatesReordered DEF Estimates
<1> HIDE DEF other
<1>2. /\ DOMAIN other = 1 .. n /\ Len(other) = n /\ DOMAIN ests = 1 .. n /\ Len(ests) = n
      /\ \A i \in 1 .. n : ests[i].sigma \in {0, 1, 2, 6, 7} /\ ests[i].lat \in Int
  BY <1>1, EstimatesAre
<1>3. Kept(other) = {i \in 1 .. n : f[i] \in kept}
  <2> DEFINE md == MedianSigma(ests)
  <2>1. MedianSigma(other) = md
    BY MedianReordered DEF other
  <2>2. /\ Kept(other) = {i \in 1 .. n : n < 3 \/ other[i].sigma <= 3 * MedianSigma(other)}
        /\ kept = {i \in 1 .. n : n < 3 \/ ests[i].sigma <= 3 * md}
    BY <1>1, KeptIs
  <2> HIDE DEF kept, md
  <2>3. QED BY <1>1, <2>1, <2>2
<1>4. kept \in SUBSET (1 .. n)
  BY KeptIs
<1>5. Whole(w, n) /\ Whole(p, n)
  <2>1. \A i \in 1 .. n : Weight(ests[i]) \in Int
    BY <1>2, WeightIs
  <2>2. QED BY <1>2, <2>1 DEF Whole
<1>6. SumOf(Weight, other) = SumOf(Weight, ests)
  <2> DEFINE m == [i \in 1 .. n |-> IF i \in kept THEN w[i] ELSE 0]
             y == [i \in 1 .. n |-> m[f[i]]]
             z == [i \in 1 .. n |-> IF i \in Kept(other) THEN Weight(other[i]) ELSE 0]
             v == [i \in 1 .. n |-> IF i \in kept THEN Weight(ests[i]) ELSE 0]
  <2>1. SumOf(Weight, other) = Total(z, n) /\ SumOf(Weight, ests) = Total(v, n)
    BY <1>2 DEF SumOf
  <2> HIDE DEF kept
  <2>2. z = y /\ v = m
    BY <1>1, <1>3
  <2>3. Whole(m, n)
    <3> HIDE DEF w
    <3>1. QED BY <1>5 DEF Whole
  <2>4. n \in Nat
    BY <1>1
  <2> HIDE DEF m, z, v
  <2>5. Total(y, n) = Total(m, n)
    BY <2>3, <2>4, TotalPermuted
  <2>6. QED BY <2>1, <2>2, <2>5
<1>7. SumOf(LAMBDA e : Weight(e) * e.lat, other) = SumOf(LAMBDA e : Weight(e) * e.lat, ests)
  <2> DEFINE m == [i \in 1 .. n |-> IF i \in kept THEN p[i] ELSE 0]
             y == [i \in 1 .. n |-> m[f[i]]]
             z == [i \in 1 .. n |-> IF i \in Kept(other) THEN Weight(other[i]) * other[i].lat ELSE 0]
             v == [i \in 1 .. n |-> IF i \in kept THEN Weight(ests[i]) * ests[i].lat ELSE 0]
  <2>1. SumOf(LAMBDA e : Weight(e) * e.lat, other) = Total(z, n) /\ SumOf(LAMBDA e : Weight(e) * e.lat, ests) = Total(v, n)
    BY <1>2 DEF SumOf
  <2> HIDE DEF kept
  <2>2. z = y /\ v = m
    BY <1>1, <1>3
  <2>3. Whole(m, n)
    <3> HIDE DEF p
    <3>1. QED BY <1>5 DEF Whole
  <2>4. n \in Nat
    BY <1>1
  <2> HIDE DEF m, z, v
  <2>5. Total(y, n) = Total(m, n)
    BY <2>3, <2>4, TotalPermuted
  <2>6. QED BY <2>1, <2>2, <2>5
<1>8. n = 1 => other[1] = ests[1]
  BY <1>1
<1>9. QED BY <1>2, <1>6, <1>7, <1>8 DEF Fuse, other

-----------------------------------------------------------------------------
(* The engines.                                                            *)

ReportOf(s, X, n) == n \in Nat /\ s \in [1 .. n -> X]

Report(s, n) == Len(s) = n /\ DOMAIN s = 1 .. n

LEMMA ReportIs ==
    ASSUME NEW X, NEW n, NEW s, ReportOf(s, X, n), NEW f \in Bijection(1 .. n, 1 .. n)
    PROVE  n \in Nat /\ Report(s, n) /\ Report(Reordered(s, f), n)
<1>0. n \in Nat /\ s \in [1 .. n -> X]
  BY DEF ReportOf
<1>1. f \in [1 .. n -> 1 .. n]
  BY Permutation
<1>2. Reordered(s, f) \in [1 .. n -> X]
  BY <1>0, <1>1 DEF Reordered
<1>3. s \in Seq(X) /\ Reordered(s, f) \in Seq(X)
  BY <1>0, <1>2
<1>4. QED BY <1>0, <1>2, <1>3 DEF Report

\* As many measurements of known cells, in every order.
Moved(s, t, f, n) == DOMAIN s = 1 .. n /\ DOMAIN t = 1 .. n /\ \A i \in 1 .. n : t[i] = s[f[i]]

LEMMA UsableReordered ==
    ASSUME NEW n \in Nat, NEW s, NEW t, NEW f \in Bijection(1 .. n, 1 .. n), NEW known,
           Moved(s, t, f, n)
    PROVE  /\ Usable(s, known) \in SUBSET (1 .. n)
           /\ Usable(t, known) = {i \in 1 .. n : f[i] \in Usable(s, known)}
           /\ Cardinality(Usable(t, known)) = Cardinality(Usable(s, known))
<1> DEFINE K == Usable(s, known)
<1>1. K \in SUBSET (1 .. n)
  BY DEF Usable, Moved
<1>2. Usable(t, known) = {i \in 1 .. n : f[i] \in K}
  <2>1. \A i \in 1 .. n : f[i] \in 1 .. n
    BY Permutation
  <2>2. QED BY <2>1 DEF Usable, Moved
<1> HIDE DEF K
<1>3. Cardinality({i \in 1 .. n : f[i] \in K}) = Cardinality(K)
  BY <1>1, CountPermuted
<1>4. QED BY <1>1, <1>2, <1>3 DEF K

\* Whether the DL-TDOA engine answers, and how, does not depend on the order of the
\* measurements, although the first ones are compared for their reference.
THEOREM TdoaOrderFree ==
    ASSUME NEW X, NEW n, NEW meas, ReportOf(meas, X, n), NEW f \in Bijection(1 .. n, 1 .. n),
           NEW known, NEW fetched, NEW configured
    PROVE  TdoaComputePosition(Reordered(meas, f), known, fetched, configured)
             = TdoaComputePosition(meas, known, fetched, configured)
<1> DEFINE other == Reordered(meas, f)
<1>1. /\ Len(meas) = n /\ DOMAIN meas = 1 .. n /\ Len(other) = n /\ DOMAIN other = 1 .. n
      /\ \A i \in 1 .. n : other[i] = meas[f[i]] /\ f[i] \in 1 .. n
      /\ \A j \in 1 .. n : \E i \in 1 .. n : f[i] = j
  <2>1. Report(meas, n) /\ Report(other, n)
    BY ReportIs
  <2>2. /\ \A i \in 1 .. n : f[i] \in 1 .. n
        /\ \A j \in 1 .. n : \E i \in 1 .. n : f[i] = j
    BY Permutation
  <2>3. QED BY <2>1, <2>2 DEF Report, Reordered
<1> DEFINE nbs == [k \in DOMAIN meas |-> meas[k].nb]
           others == [k \in DOMAIN other |-> other[k].nb]
<1>0. n \in Nat
  BY DEF ReportOf
<1> HIDE DEF other
<1>2. {other[k].ref : k \in DOMAIN other} = {meas[k].ref : k \in DOMAIN meas}
  <2>1. ASSUME NEW k \in 1 .. n PROVE \E i \in 1 .. n : other[i].ref = meas[k].ref
    <3>1. PICK i \in 1 .. n : f[i] = k
      BY <1>1
    <3>2. other[i].ref = meas[k].ref
      BY <1>1, <3>1
    <3>3. QED BY <3>2
  <2>2. ASSUME NEW i \in 1 .. n PROVE \E k \in 1 .. n : other[i].ref = meas[k].ref
    BY <1>1
  <2>3. /\ \A k \in DOMAIN meas : \E i \in DOMAIN other : other[i].ref = meas[k].ref
        /\ \A i \in DOMAIN other : \E k \in DOMAIN meas : other[i].ref = meas[k].ref
    BY <1>1, <2>1, <2>2
  <2>4. QED BY <2>3
<1>3. Cardinality(Usable(others, known)) = Cardinality(Usable(nbs, known))
  <2>1. Moved(nbs, others, f, n)
    BY <1>1 DEF Moved
  <2> HIDE DEF nbs, others
  <2>2. QED BY <1>0, <2>1, UsableReordered
<1>4. TdoaSolver(other, known) = TdoaSolver(meas, known)
  BY <1>3 DEF TdoaSolver
<1>5. QED BY <1>1, <1>2, <1>4 DEF TdoaComputePosition, other

\* The same for Multi-RTT.
THEOREM RttOrderFree ==
    ASSUME NEW X, NEW n, NEW cells, ReportOf(cells, X, n), NEW f \in Bijection(1 .. n, 1 .. n),
           NEW known
    PROVE  RttComputePosition(Reordered(cells, f), known) = RttComputePosition(cells, known)
<1> DEFINE other == Reordered(cells, f)
<1>1. /\ Len(cells) = n /\ DOMAIN cells = 1 .. n /\ Len(other) = n /\ DOMAIN other = 1 .. n
      /\ \A i \in 1 .. n : other[i] = cells[f[i]]
  <2>1. Report(cells, n) /\ Report(other, n)
    BY ReportIs
  <2>2. QED BY <2>1 DEF Report, Reordered
<1>0. n \in Nat
  BY DEF ReportOf
<1> HIDE DEF other
<1>2. Cardinality(Usable(other, known)) = Cardinality(Usable(cells, known))
  <2>1. Moved(cells, other, f, n)
    BY <1>1 DEF Moved
  <2>2. QED BY <1>0, <2>1, UsableReordered
<1>3. QED BY <1>1, <1>2 DEF RttComputePosition, other

\* What a report says of a cell; and cells that have a position.
Entry(X) == [cell : X, distance : Distances]
Placed(place, S) == \A c \in S : place[c] \in Int

\* The position and the precision of E-CID do not depend on the order in which the cells
\* were reported.
THEOREM EcidOrderFree ==
    ASSUME NEW X, NEW n, NEW f \in Bijection(1 .. n, 1 .. n),
           NEW entries, ReportOf(entries, Entry(X), n),
           NEW named, NEW serving, NEW advance, NEW known, NEW place,
           Placed(place, X \cap (known \cup {serving}))
    PROVE  EcidComputePosition(named, serving, advance, Reordered(entries, f), known, place)
             = EcidComputePosition(named, serving, advance, entries, known, place)
<1> DEFINE other == Reordered(entries, f)
           cells == [k \in DOMAIN entries |-> entries[k].cell]
           others == [k \in DOMAIN other |-> other[k].cell]
           near == known \cup {serving}
           K == Usable(cells, near)
           L == Usable(others, near)
           E == Entry(X)
<1>0. n \in Nat /\ entries \in [1 .. n -> E] /\ ReportOf(entries, E, n)
  BY DEF ReportOf
<1>1. /\ Len(entries) = n /\ DOMAIN entries = 1 .. n /\ Len(other) = n /\ DOMAIN other = 1 .. n
      /\ \A i \in 1 .. n : other[i] = entries[f[i]] /\ f[i] \in 1 .. n
  <2>1. ReportOf(entries, E, n)
    BY <1>0
  <2> HIDE DEF E
  <2>2. Report(entries, n) /\ Report(other, n)
    BY <2>1, ReportIs
  <2>3. \A i \in 1 .. n : f[i] \in 1 .. n
    BY Permutation
  <2>4. QED BY <2>2, <2>3 DEF Report, Reordered
<1>2. \A k \in 1 .. n : entries[k].cell \in X /\ entries[k].distance \in {1, 2}
  BY <1>0 DEF Entry, Distances
<1> HIDE DEF other
<1>3. K \in SUBSET (1 .. n) /\ L = {i \in 1 .. n : f[i] \in K} /\ Cardinality(L) = Cardinality(K)
  <2>1. Moved(cells, others, f, n)
    BY <1>1 DEF Moved
  <2> HIDE DEF cells, others, near
  <2>2. QED BY <1>0, <2>1, UsableReordered
<1>4. \A k \in K : place[entries[k].cell] \in Int
  <2>1. \A k \in K : k \in 1 .. n /\ entries[k].cell \in near
    BY <1>1 DEF Usable
  <2> HIDE DEF K
  <2>2. QED BY <1>2, <2>1 DEF Placed
<1>5. computeRsrpCentroid(other, L, place) = computeRsrpCentroid(entries, K, place)
  <2> DEFINE Unit1(e) == DistanceUnit \div (e.distance * e.distance)
             weight == [k \in 1 .. n |-> IF k \in K THEN 1 * Unit1(entries[k]) ELSE 0]
             distance == [k \in 1 .. n |-> IF k \in K THEN entries[k].distance * Unit1(entries[k]) ELSE 0]
             at == [k \in 1 .. n |-> IF k \in K THEN place[entries[k].cell] * Unit1(entries[k]) ELSE 0]
             weight2 == [k \in 1 .. n |-> IF k \in L THEN 1 * Unit1(other[k]) ELSE 0]
             distance2 == [k \in 1 .. n |-> IF k \in L THEN other[k].distance * Unit1(other[k]) ELSE 0]
             at2 == [k \in 1 .. n |-> IF k \in L THEN place[other[k].cell] * Unit1(other[k]) ELSE 0]
             Centroid(w, d, a, c) == Estimate1(Ratio(a, w), Ratio(d * d, w * w * c))
  <2>1. computeRsrpCentroid(entries, K, place)
          = Centroid(Total(weight, n), Total(distance, n), Total(at, n), Cardinality(K))
    <3> HIDE DEF K, L
    <3>1. QED BY <1>1 DEF computeRsrpCentroid
  <2>2. computeRsrpCentroid(other, L, place)
          = Centroid(Total(weight2, n), Total(distance2, n), Total(at2, n), Cardinality(L))
    <3> HIDE DEF K, L
    <3>1. QED BY <1>1 DEF computeRsrpCentroid
  <2>3. \A k \in 1 .. n : Unit1(entries[k]) \in Int /\ entries[k].distance \in Int
    <3>1. 4 \div (1 * 1) = 4 /\ 4 \div (2 * 2) = 1
      OBVIOUS
    <3>2. QED BY <1>2, <3>1 DEF DistanceUnit
  <2> HIDE DEF K, L, Unit1
  <2>4. Whole(weight, n) /\ Whole(distance, n) /\ Whole(at, n)
    <3>1. \A k \in K : k \in 1 .. n
      BY <1>3
    <3>2. \A k \in 1 .. n : weight[k] \in Int /\ distance[k] \in Int
      BY <2>3
    <3>3. \A k \in 1 .. n : at[k] \in Int
      BY <1>4, <2>3
    <3>4. QED BY <3>2, <3>3 DEF Whole
  <2>5. /\ weight2 = [i \in 1 .. n |-> weight[f[i]]]
        /\ distance2 = [i \in 1 .. n |-> distance[f[i]]]
        /\ at2 = [i \in 1 .. n |-> at[f[i]]]
    BY <1>1, <1>3
  <2> HIDE DEF weight, distance, at, weight2, distance2, at2
  <2>6. /\ Total([i \in 1 .. n |-> weight[f[i]]], n) = Total(weight, n)
        /\ Total([i \in 1 .. n |-> distance[f[i]]], n) = Total(distance, n)
        /\ Total([i \in 1 .. n |-> at[f[i]]], n) = Total(at, n)
    BY <1>0, <2>4, TotalPermuted
  <2> HIDE DEF Centroid
  <2>7. QED BY <1>3, <2>1, <2>2, <2>5, <2>6
<1> HIDE DEF K, L
<1>6. QED BY <1>1, <1>3, <1>5 DEF EcidComputePosition, other, K, L

-----------------------------------------------------------------------------
(* Satellites.                                                             *)

Ephemeris == [constellation : Generated, prn : Nat]

\* The satellites of a constellation, as LET of FetchEphemeris names them.
PrnsOf(c) == CASE c = ConstellationGPS -> generateGPSEphemerides
               [] c = ConstellationGalileo -> generateGalileoEphemerides
               [] OTHER -> <<>>
ListOf(c) == [j \in 1 .. Len(PrnsOf(c)) |-> [constellation |-> c, prn |-> PrnsOf(c)[j]]]

\* What a list of ephemerides is: empty, or at least the six satellites of one constellation.
Assisted(ephs) ==
    /\ ephs \in Seq(Ephemeris)
    /\ Len(ephs) = 0 \/ Len(ephs) >= 6
    /\ \A i, j \in 1 .. 6 : Len(ephs) >= 6 /\ ephs[i] = ephs[j] => i = j

LEMMA SixAssisted ==
    ASSUME NEW s, s \in [1 .. 6 -> Ephemeris], \A i, j \in 1 .. 6 : s[i] = s[j] => i = j
    PROVE  Assisted(s)
<1>1. s \in Seq(Ephemeris) /\ Len(s) = 6
  <2> DEFINE n == 6
  <2>1. n \in Nat /\ s \in [1 .. n -> Ephemeris]
    OBVIOUS
  <2> HIDE DEF n
  <2>2. s \in Seq(Ephemeris) /\ Len(s) = n
    BY <2>1
  <2>3. QED BY <2>2 DEF n
<1>2. QED BY <1>1 DEF Assisted

LEMMA NoneAssisted == Assisted(<<>>)
<1>1. <<>> \in Seq(Ephemeris) /\ Len(<<>>) = 0
  OBVIOUS
<1>2. QED BY <1>1 DEF Assisted

LEMMA ListAssisted ==
    ASSUME NEW c \in 0 .. 3
    PROVE  Assisted(ListOf(c))
<1>1. CASE c = 0
  <2>1. PrnsOf(c) = <<1, 7, 13, 15, 21, 27>> /\ c \in Generated
    BY <1>1 DEF PrnsOf, generateGPSEphemerides, ConstellationGPS, ConstellationGalileo, Generated
  <2>2. ListOf(c) = [j \in 1 .. 6 |-> [constellation |-> c, prn |-> <<1, 7, 13, 15, 21, 27>>[j]]]
    BY <2>1 DEF ListOf
  <2>3. /\ \A j \in 1 .. 6 : <<1, 7, 13, 15, 21, 27>>[j] \in Nat
        /\ \A i, j \in 1 .. 6 : <<1, 7, 13, 15, 21, 27>>[i] = <<1, 7, 13, 15, 21, 27>>[j] => i = j
    OBVIOUS
  <2> DEFINE p == <<1, 7, 13, 15, 21, 27>>
  <2> HIDE DEF p
  <2>4. ListOf(c) \in [1 .. 6 -> Ephemeris]
    BY <2>1, <2>2, <2>3 DEF Ephemeris, p
  <2>5. \A i, j \in 1 .. 6 : ListOf(c)[i] = ListOf(c)[j] => i = j
    <3>1. \A i \in 1 .. 6 : ListOf(c)[i].prn = p[i]
      BY <2>2 DEF p
    <3>2. QED BY <2>3, <3>1 DEF p
  <2>6. QED BY <2>4, <2>5, SixAssisted
<1>2. CASE c = 1
  <2>1. PrnsOf(c) = <<1, 3, 9, 18, 21, 31>> /\ c \in Generated
    BY <1>2 DEF PrnsOf, generateGalileoEphemerides, ConstellationGPS, ConstellationGalileo, Generated
  <2>2. ListOf(c) = [j \in 1 .. 6 |-> [constellation |-> c, prn |-> <<1, 3, 9, 18, 21, 31>>[j]]]
    BY <2>1 DEF ListOf
  <2>3. /\ \A j \in 1 .. 6 : <<1, 3, 9, 18, 21, 31>>[j] \in Nat
        /\ \A i, j \in 1 .. 6 : <<1, 3, 9, 18, 21, 31>>[i] = <<1, 3, 9, 18, 21, 31>>[j] => i = j
    OBVIOUS
  <2> DEFINE p == <<1, 3, 9, 18, 21, 31>>
  <2> HIDE DEF p
  <2>4. ListOf(c) \in [1 .. 6 -> Ephemeris]
    BY <2>1, <2>2, <2>3 DEF Ephemeris, p
  <2>5. \A i, j \in 1 .. 6 : ListOf(c)[i] = ListOf(c)[j] => i = j
    <3>1. \A i \in 1 .. 6 : ListOf(c)[i].prn = p[i]
      BY <2>2 DEF p
    <3>2. QED BY <2>3, <3>1 DEF p
  <2>6. QED BY <2>4, <2>5, SixAssisted
<1>3. CASE c \in {2, 3}
  <2>1. PrnsOf(c) = <<>>
    BY <1>3 DEF PrnsOf, ConstellationGPS, ConstellationGalileo
  <2>2. ListOf(c) = <<>>
    BY <2>1 DEF ListOf
  <2>3. QED BY <2>2, NoneAssisted
<1>4. QED BY <1>1, <1>2, <1>3

LEMMA AssistedAppended ==
    ASSUME NEW s, NEW t, Assisted(s), Assisted(t)
    PROVE  Assisted(s \o t)
<1>1. s \in Seq(Ephemeris) /\ t \in Seq(Ephemeris) /\ Len(s) \in Nat /\ Len(t) \in Nat
  BY DEF Assisted
<1>2. s \o t \in Seq(Ephemeris) /\ Len(s \o t) = Len(s) + Len(t)
  BY <1>1
<1>3. CASE Len(s) = 0
  <2>1. s = <<>>
    BY <1>1, <1>3
  <2>2. s \o t = t
    BY <1>1, <2>1
  <2>3. QED BY <2>2
<1>4. CASE Len(s) >= 6
  <2>1. \A i \in 1 .. 6 : (s \o t)[i] = s[i]
    BY <1>1, <1>4
  <2>2. \A i, j \in 1 .. 6 : s[i] = s[j] => i = j
    BY <1>4 DEF Assisted
  <2>3. QED BY <1>1, <1>2, <1>4, <2>1, <2>2 DEF Assisted
<1>5. QED BY <1>3, <1>4 DEF Assisted

\* The first k lists that FetchEphemeris appends.
Appends(t, asked, n) ==
    /\ t = [k \in 0 .. n |-> t[k]]
    /\ t[0] = <<>>
    /\ \A k \in 1 .. n : t[k] = t[k - 1] \o ListOf(asked[k])

LEMMA FetchAssisted ==
    ASSUME NEW n \in Nat, NEW asked, asked \in [1 .. n -> 0 .. 3]
    PROVE  Assisted(FetchEphemeris(asked))
<1>1. Len(asked) = n
  <2>1. asked \in Seq(0 .. 3)
    OBVIOUS
  <2>2. QED BY <2>1
<1> DEFINE Loops(f) == f = [k \in 0 .. n |-> IF k = 0 THEN <<>> ELSE f[k - 1] \o ListOf(asked[k])]
           upTo == CHOOSE f : Loops(f)
<1>2. \E f : Loops(f)
  <2> DEFINE S == {m \in Nat : \E t : Appends(t, asked, m)}
  <2>1. S \in SUBSET Nat
    OBVIOUS
  <2>2. 0 \in S
    <3>1. Appends([k \in 0 .. 0 |-> <<>>], asked, 0)
      BY DEF Appends
    <3>2. QED BY <3>1
  <2>3. ASSUME NEW m \in S PROVE m + 1 \in S
    <3>1. PICK t : Appends(t, asked, m)
      OBVIOUS
    <3> DEFINE u == [k \in 0 .. m + 1 |-> IF k = m + 1 THEN t[m] \o ListOf(asked[m + 1]) ELSE t[k]]
    <3>2. m \in Nat
      OBVIOUS
    <3> HIDE DEF S
    <3>3. u[0] = <<>>
      BY <3>1, <3>2 DEF Appends
    <3>4. \A k \in 1 .. m + 1 : u[k] = u[k - 1] \o ListOf(asked[k])
      <4> TAKE k \in 1 .. m + 1
      <4>1. CASE k = m + 1
        BY <3>2, <4>1
      <4>2. CASE k # m + 1
        <5>1. k \in 1 .. m
          BY <3>2, <4>2
        <5>2. u[k] = t[k] /\ u[k - 1] = t[k - 1]
          BY <3>2, <5>1
        <5>3. QED BY <3>1, <5>1, <5>2 DEF Appends
      <4>3. QED BY <4>1, <4>2
    <3>5. u = [k \in 0 .. m + 1 |-> u[k]]
      OBVIOUS
    <3>6. Appends(u, asked, m + 1)
      BY <3>3, <3>4, <3>5 DEF Appends
    <3>7. QED BY <3>2, <3>6 DEF S
  <2>4. S = Nat
    <3> HIDE DEF S
    <3>1. QED BY <2>1, <2>2, <2>3, Induction
  <2>5. PICK t : Appends(t, asked, n)
    BY <2>4
  <2>6. \A k \in 0 .. n : t[k] = IF k = 0 THEN <<>> ELSE t[k - 1] \o ListOf(asked[k])
    BY <2>5 DEF Appends
  <2>7. t = [k \in 0 .. n |-> t[k]]
    BY <2>5 DEF Appends
  <2>8. [k \in 0 .. n |-> t[k]] = [k \in 0 .. n |-> IF k = 0 THEN <<>> ELSE t[k - 1] \o ListOf(asked[k])]
    BY <2>6, Zenon
  <2>9. Loops(t)
    BY <2>7, <2>8, Zenon
  <2>10. QED BY <2>9
<1>3. Loops(upTo)
  BY <1>2
<1>4. FetchEphemeris(asked) = upTo[n]
  BY <1>1 DEF FetchEphemeris, ListOf, PrnsOf
<1> HIDE DEF upTo
<1>5. upTo[0] = <<>> /\ \A k \in 1 .. n : upTo[k] = upTo[k - 1] \o ListOf(asked[k])
  BY <1>3
<1> DEFINE S == {k \in Nat : k <= n => Assisted(upTo[k])}
<1>6. S \in SUBSET Nat
  OBVIOUS
<1>7. 0 \in S
  BY <1>5, NoneAssisted
<1>8. ASSUME NEW k \in S PROVE k + 1 \in S
  <2> SUFFICES ASSUME k + 1 <= n PROVE Assisted(upTo[k + 1])
    OBVIOUS
  <2>1. k \in Nat /\ Assisted(upTo[k]) /\ k + 1 \in 1 .. n /\ (k + 1) - 1 = k
    OBVIOUS
  <2>2. upTo[k + 1] = upTo[k] \o ListOf(asked[k + 1])
    BY <1>5, <2>1
  <2>3. Assisted(ListOf(asked[k + 1]))
    BY <2>1, ListAssisted
  <2>4. QED BY <2>1, <2>2, <2>3, AssistedAppended
<1>9. S = Nat
  <2> HIDE DEF S
  <2>1. QED BY <1>6, <1>7, <1>8, Induction
<1>10. Assisted(upTo[n])
  BY <1>9
<1>11. QED BY <1>4, <1>10

\* Which satellite a message is about.
SatelliteOf(m) == [constellation |-> constellationFromString(m.constellation), prn |-> m.prn]

\* The prefixes that the server and its caller make up are equal when the satellites are.
LEMMA SvIDNames ==
    ASSUME NEW a, NEW b, NEW p, NEW q
    PROVE  SvID(a, p) = SvID(b, q) <=> constellationFromString(a) = constellationFromString(b) /\ p = q
<1>1. SvID(a, p) = SvID(b, q) <=> constellationPrefix(a) = constellationPrefix(b) /\ p = q
  BY DEF SvID
<1>2. ASSUME NEW c
      PROVE  /\ c = "GALILEO" => constellationPrefix(c) = "E" /\ constellationFromString(c) = 1
             /\ c = "GLONASS" => constellationPrefix(c) = "R" /\ constellationFromString(c) = 2
             /\ c = "BEIDOU" => constellationPrefix(c) = "C" /\ constellationFromString(c) = 3
             /\ c \notin {"GALILEO", "GLONASS", "BEIDOU"} =>
                    constellationPrefix(c) = "G" /\ constellationFromString(c) = 0
  BY DEF constellationPrefix, constellationFromString, ConstellationGPS, ConstellationGalileo,
         ConstellationGLONASS, ConstellationBeiDou
<1>3. constellationPrefix(a) = constellationPrefix(b)
          <=> constellationFromString(a) = constellationFromString(b)
  <2>1. \/ a \in {"GALILEO", "GLONASS", "BEIDOU"}
        \/ a \notin {"GALILEO", "GLONASS", "BEIDOU"}
    OBVIOUS
  <2>2. CASE a = "GALILEO"
    BY <1>2, <2>2
  <2>3. CASE a = "GLONASS"
    BY <1>2, <2>3
  <2>4. CASE a = "BEIDOU"
    BY <1>2, <2>4
  <2>5. CASE a \notin {"GALILEO", "GLONASS", "BEIDOU"}
    BY <1>2, <2>5
  <2>6. QED BY <2>1, <2>2, <2>3, <2>4, <2>5
<1>4. QED BY <1>1, <1>3

\* What the solver gets for an ephemeris that went through both conversions.
LEMMA EphemerisSent ==
    ASSUME NEW ephs \in Seq(Ephemeris)
    PROVE  LET msgs == ToProto(ephs)
               got == fromProtoEphemerides(msgs)
           IN  /\ DOMAIN msgs = DOMAIN ephs /\ DOMAIN got = DOMAIN ephs
               /\ \A i \in DOMAIN ephs :
                     /\ SatelliteOf(msgs[i]) = ephs[i]
                     /\ got[i].constellation = ephs[i].constellation
                     /\ got[i].prn = ephs[i].prn
                     /\ got[i].svID = SvID(msgs[i].constellation, msgs[i].prn)
<1> DEFINE msgs == ToProto(ephs)
           got == fromProtoEphemerides(msgs)
<1>1. DOMAIN msgs = DOMAIN ephs /\ DOMAIN got = DOMAIN ephs
  BY DEF ToProto, fromProtoEphemerides
<1>2. ASSUME NEW i \in DOMAIN ephs
      PROVE  /\ SatelliteOf(msgs[i]) = ephs[i]
             /\ got[i].constellation = ephs[i].constellation
             /\ got[i].prn = ephs[i].prn
             /\ got[i].svID = SvID(msgs[i].constellation, msgs[i].prn)
  <2> DEFINE e == ephs[i]
             c == e.constellation
             name == constellationToString(c)
  <2>1. e \in Ephemeris
    OBVIOUS
  <2>2. e = [constellation |-> c, prn |-> e.prn] /\ c \in {0, 1}
    BY <2>1 DEF Ephemeris, Generated, ConstellationGPS, ConstellationGalileo
  <2>3. constellationFromString(name) = c
    <3>1. c = 0 => name = "GPS"
      BY DEF constellationToString
    <3>2. c = 1 => name = "GALILEO"
      BY DEF constellationToString
    <3>3. constellationFromString("GPS") = 0 /\ constellationFromString("GALILEO") = 1
      BY DEF constellationFromString, ConstellationGPS, ConstellationGalileo
    <3> HIDE DEF name
    <3>4. QED BY <2>2, <3>1, <3>2, <3>3
  <2>4. msgs[i] = [e EXCEPT !.constellation = name]
    BY DEF ToProto
  <2> HIDE DEF e
  <2>5. msgs[i] = [constellation |-> name, prn |-> e.prn]
    BY <2>2, <2>4
  <2>6. msgs[i].constellation = name /\ msgs[i].prn = e.prn
    BY <2>5
  <2>7. got[i] = [constellation |-> constellationFromString(msgs[i].constellation),
                  prn |-> msgs[i].prn,
                  svID |-> SvID(msgs[i].constellation, msgs[i].prn)]
    BY <1>1 DEF fromProtoEphemerides, e
  <2> HIDE DEF name, msgs, got
  <2>8. SatelliteOf(msgs[i]) = [constellation |-> c, prn |-> e.prn]
    BY <2>3, <2>6 DEF SatelliteOf
  <2>9. QED BY <2>2, <2>3, <2>6, <2>7, <2>8 DEF e
<1>3. QED BY <1>1, <1>2

\* A set of indices that is not empty has a last one.
LEMMA LastIndex ==
    ASSUME NEW n \in Nat, NEW S \in SUBSET (1 .. n), S # {}
    PROVE  \E i \in S : \A j \in S : j <= i
<1> DEFINE T == {n - i : i \in S}
<1>1. T \in SUBSET Nat /\ T # {}
  <2>1. \A i \in S : n - i \in Nat
    OBVIOUS
  <2>2. \E i \in S : n - i \in T
    OBVIOUS
  <2>3. QED BY <2>1, <2>2
<1>2. PICK x \in T : \A y \in T : x <= y
  <2> HIDE DEF T
  <2>1. QED BY <1>1, Least
<1>3. PICK i \in S : x = n - i
  OBVIOUS
<1>4. \A j \in S : j <= i
  BY <1>2, <1>3
<1>5. QED BY <1>4

\* The measured satellites of which the list has the ephemeris.
UsableSatellites(signals, ephs) ==
    {m \in {signals[i] : i \in DOMAIN signals} : SatelliteOf(m) \in {ephs[i] : i \in DOMAIN ephs}}

\* Through the conversions of the server and of its caller, the solver matches each
\* measurement that has an ephemeris with its own, and no other measurement.
LEMMA SatellitesAre ==
    ASSUME NEW ephs \in Seq(Ephemeris), NEW signals
    PROVE  LET svs == Satellites(fromProtoSignals(signals), fromProtoEphemerides(ToProto(ephs)))
               usable == UsableSatellites(signals, ephs)
           IN  /\ DOMAIN svs = {i \in DOMAIN signals : signals[i] \in usable}
               /\ \A i \in DOMAIN svs :
                     /\ svs[i].measured = signals[i]
                     /\ [constellation |-> svs[i].eph.constellation, prn |-> svs[i].eph.prn]
                            = SatelliteOf(signals[i])
<1> DEFINE msgs == ToProto(ephs)
           got == fromProtoEphemerides(msgs)
           meas == fromProtoSignals(signals)
           svs == Satellites(meas, got)
           usable == UsableSatellites(signals, ephs)
           n == Len(ephs)
<1>1. DOMAIN ephs = 1 .. n /\ n \in Nat
  OBVIOUS
<1>2. /\ DOMAIN msgs = 1 .. n /\ DOMAIN got = 1 .. n
      /\ \A i \in 1 .. n : /\ SatelliteOf(msgs[i]) = ephs[i]
                           /\ got[i].constellation = ephs[i].constellation
                           /\ got[i].prn = ephs[i].prn
                           /\ got[i].svID = SvID(msgs[i].constellation, msgs[i].prn)
  BY <1>1, EphemerisSent
<1>3. /\ DOMAIN meas = DOMAIN signals
      /\ \A k \in DOMAIN signals :
            meas[k] = [msg |-> signals[k], svID |-> SvID(signals[k].constellation, signals[k].prn)]
  BY DEF fromProtoSignals
<1> HIDE DEF meas, got, msgs
<1>4. ASSUME NEW k \in DOMAIN signals
      PROVE  Matched(meas[k], got) = {i \in 1 .. n : ephs[i] = SatelliteOf(signals[k])}
  <2>1. ASSUME NEW i \in 1 .. n
        PROVE  got[i].svID = meas[k].svID <=> ephs[i] = SatelliteOf(signals[k])
    <3>1. got[i].svID = meas[k].svID
            <=> /\ constellationFromString(msgs[i].constellation)
                      = constellationFromString(signals[k].constellation)
                /\ msgs[i].prn = signals[k].prn
      BY <1>2, <1>3, SvIDNames
    <3>2. SatelliteOf(msgs[i]) = SatelliteOf(signals[k])
            <=> /\ constellationFromString(msgs[i].constellation)
                      = constellationFromString(signals[k].constellation)
                /\ msgs[i].prn = signals[k].prn
      BY DEF SatelliteOf
    <3>3. SatelliteOf(msgs[i]) = ephs[i]
      BY <1>2
    <3>4. QED BY <3>1, <3>2, <3>3
  <2>2. QED BY <1>2, <2>1 DEF Matched
<1>5. DOMAIN svs = {i \in DOMAIN signals : signals[i] \in usable}
  <2>1. ASSUME NEW k \in DOMAIN signals
        PROVE  Matched(meas[k], got) # {} <=> signals[k] \in usable
    <3>1. signals[k] \in usable <=> SatelliteOf(signals[k]) \in {ephs[i] : i \in 1 .. n}
      BY <1>1 DEF UsableSatellites
    <3>2. QED BY <1>4, <3>1
  <2>2. DOMAIN svs = {i \in DOMAIN meas : Matched(meas[i], got) # {}}
    BY DEF Satellites
  <2> HIDE DEF svs, usable
  <2>3. QED BY <1>3, <2>1, <2>2
<1>6. ASSUME NEW k \in DOMAIN svs
      PROVE  /\ svs[k].measured = signals[k]
             /\ [constellation |-> svs[k].eph.constellation, prn |-> svs[k].eph.prn]
                    = SatelliteOf(signals[k])
  <2> DEFINE same == Matched(meas[k], got)
             last == CHOOSE i \in same : \A j \in same : j <= i
  <2>1. k \in DOMAIN signals
    BY <1>5
  <2>2. same = {i \in 1 .. n : ephs[i] = SatelliteOf(signals[k])} /\ same # {}
    BY <1>4, <2>1 DEF Satellites
  <2>3. svs[k] = [measured |-> meas[k].msg, eph |-> got[last]]
    BY DEF Satellites
  <2>4. last \in same
    <3>1. same \in SUBSET (1 .. n)
      BY <2>2
    <3> HIDE DEF same
    <3>2. \E i \in same : \A j \in same : j <= i
      BY <1>1, <2>2, <3>1, LastIndex
    <3>3. QED BY <3>2
  <2> HIDE DEF last, same, svs
  <2>5. last \in 1 .. n /\ ephs[last] = SatelliteOf(signals[k])
    BY <2>2, <2>4
  <2>6. got[last].constellation = ephs[last].constellation /\ got[last].prn = ephs[last].prn
    BY <1>2, <2>5
  <2>7. svs[k].measured = signals[k] /\ svs[k].eph = got[last]
    BY <1>3, <2>1, <2>3
  <2>8. [constellation |-> ephs[last].constellation, prn |-> ephs[last].prn] = SatelliteOf(signals[k])
    BY <2>5 DEF SatelliteOf
  <2>9. QED BY <2>6, <2>7, <2>8
<1>7. QED BY <1>5, <1>6 DEF meas, got, msgs

\* What the solver makes of the satellites it can use.
Matches(fix, usable, iteration) ==
    LET svs == fix.svs
    IN  /\ (fix.error = "") <=> (Cardinality(usable) >= 4 /\ iteration # "singular")
        /\ fix.error = "" =>
              /\ Cardinality(DOMAIN svs) = Cardinality(usable)
              /\ {svs[i].measured : i \in DOMAIN svs} = usable
              /\ \A i \in DOMAIN svs :
                    [constellation |-> svs[i].eph.constellation, prn |-> svs[i].eph.prn]
                        = SatelliteOf(svs[i].measured)

\* A fix uses each measured satellite with an ephemeris once, with its own ephemeris, and
\* there is one exactly when four of them have one and the equations have a solution.
THEOREM FixMatched ==
    ASSUME NEW ephs \in Seq(Ephemeris), NEW signals, NEW iteration,
           IsFiniteSet(DOMAIN signals),
           \A i, j \in DOMAIN signals : signals[i] = signals[j] => i = j
    PROVE  Matches(GnssServerComputePosition(signals, ToProto(ephs), iteration),
                   UsableSatellites(signals, ephs), iteration)
<1> DEFINE fix == GnssServerComputePosition(signals, ToProto(ephs), iteration)
           meas == fromProtoSignals(signals)
           got == fromProtoEphemerides(ToProto(ephs))
           svs == Satellites(meas, got)
           usable == UsableSatellites(signals, ephs)
           kept == {i \in DOMAIN signals : signals[i] \in usable}
<1>1. /\ DOMAIN svs = kept
      /\ \A i \in DOMAIN svs :
            /\ svs[i].measured = signals[i]
            /\ [constellation |-> svs[i].eph.constellation, prn |-> svs[i].eph.prn]
                   = SatelliteOf(signals[i])
  BY SatellitesAre
<1>2. DOMAIN meas = DOMAIN signals
  BY DEF fromProtoSignals
<1>3. Cardinality(kept) = Cardinality(usable) /\ Cardinality(kept) \in Nat
      /\ Cardinality(kept) <= Cardinality(DOMAIN signals) /\ Cardinality(DOMAIN signals) \in Nat
  <2>1. kept \in SUBSET DOMAIN signals
    OBVIOUS
  <2> DEFINE h == [i \in kept |-> signals[i]]
  <2>2. h \in [kept -> usable] /\ \A a, b \in kept : h[a] = h[b] => a = b
    OBVIOUS
  <2>3. \A m \in usable : \E i \in kept : h[i] = m
    BY DEF UsableSatellites
  <2> HIDE DEF h, kept, usable
  <2>4. h \in Bijection(kept, usable)
    BY <2>2, <2>3, BijectionIs
  <2>5. IsFiniteSet(kept) /\ Cardinality(kept) <= Cardinality(DOMAIN signals)
    BY <2>1, FS_Subset
  <2>6. ExistsBijection(kept, usable)
    BY <2>4 DEF ExistsBijection
  <2>7. QED BY <2>5, <2>6, FS_Bijection, FS_CardinalityType
<1>4. {signals[i] : i \in kept} = usable
  BY DEF UsableSatellites
<1> HIDE DEF meas, got, svs, usable, kept
<1>5. CASE Cardinality(usable) >= 4 /\ iteration # "singular"
  <2>1. Cardinality(DOMAIN signals) >= 4 /\ ~(Cardinality(DOMAIN signals) < 4)
    BY <1>3, <1>5
  <2>2. fix = [error |-> "", svs |-> svs]
    <3>1. fix = ComputePosition(meas, got, iteration)
      BY <2>1 DEF GnssServerComputePosition, meas, got
    <3>2. Cardinality(DOMAIN meas) >= 4 /\ Cardinality(DOMAIN svs) >= 4
      BY <1>1, <1>2, <1>3, <1>5, <2>1
    <3>3. QED BY <1>5, <3>1, <3>2 DEF ComputePosition, svs
  <2> HIDE DEF fix
  <2>3. fix.error = "" /\ fix.svs = svs
    BY <2>2
  <2>4. {svs[i].measured : i \in kept} = {signals[i] : i \in kept}
    BY <1>1
  <2>5. {svs[i].measured : i \in DOMAIN svs} = usable
    BY <1>1, <1>4, <2>4
  <2>6. Cardinality(DOMAIN svs) = Cardinality(usable)
    BY <1>1, <1>3
  <2>7. \A i \in DOMAIN svs :
            [constellation |-> svs[i].eph.constellation, prn |-> svs[i].eph.prn]
                = SatelliteOf(svs[i].measured)
    BY <1>1
  <2> DEFINE used == fix.svs
  <2>8. used = svs
    BY <2>3
  <2> HIDE DEF used
  <2>9. /\ Cardinality(DOMAIN used) = Cardinality(usable)
        /\ {used[i].measured : i \in DOMAIN used} = usable
        /\ \A i \in DOMAIN used :
              [constellation |-> used[i].eph.constellation, prn |-> used[i].eph.prn]
                  = SatelliteOf(used[i].measured)
    BY <2>5, <2>6, <2>7, <2>8
  <2>10. QED BY <1>5, <2>3, <2>9 DEF fix, used, usable, Matches
<1>6. CASE ~(Cardinality(usable) >= 4 /\ iteration # "singular")
  <2>1. fix.error # ""
    <3>1. CASE Cardinality(DOMAIN signals) < 4
      BY <3>1 DEF GnssServerComputePosition, Failed
    <3>2. CASE ~(Cardinality(DOMAIN signals) < 4)
      <4>1. fix = ComputePosition(meas, got, iteration)
        BY <3>2 DEF GnssServerComputePosition, meas, got
      <4>2. Cardinality(DOMAIN meas) >= 4 /\ Cardinality(DOMAIN svs) = Cardinality(usable)
        BY <1>1, <1>2, <1>3, <3>2
      <4>3. CASE Cardinality(usable) >= 4
        <5>1. Cardinality(DOMAIN svs) >= 4 /\ iteration = "singular"
          BY <1>6, <4>2, <4>3
        <5>2. fix = Failed("WLS")
          BY <4>1, <4>2, <5>1 DEF ComputePosition, svs
        <5> HIDE DEF fix
        <5>3. QED BY <5>2 DEF Failed
      <4>4. CASE ~(Cardinality(usable) >= 4)
        <5>1. ~(Cardinality(DOMAIN svs) >= 4)
          BY <4>2, <4>4
        <5>2. fix = Failed("few SVs")
          BY <4>1, <4>2, <5>1 DEF ComputePosition, svs
        <5> HIDE DEF fix
        <5>3. QED BY <5>2 DEF Failed
      <4>5. QED BY <4>3, <4>4
    <3>3. QED BY <3>1, <3>2
  <2>2. QED BY <1>6, <2>1 DEF usable, Matches
<1>7. QED BY <1>5, <1>6

-----------------------------------------------------------------------------
(* The computations, one request at a time.                                *)

algorithmVars == <<unit, input, output>>

\* A computation that has run returned its result for a request that it can get.
Ran(u, S, result) == unit = u => input \in S /\ output \in {<<>>, result}

WireResult ==
    <<DetermineLocationStatus(input.body, TRUE)>> \o
        IF Accepted(input.body) THEN PlanOf(Forwarded(input.body), input.answer) ELSE <<>>

RttInputs == [report : Reports(Cells), known : SUBSET Cells]

ResultsInv ==
    /\ Ran("selector", SelectorInputs, Plan(input))
    /\ Ran("wire", WireInputs, WireResult)
    /\ Ran("subscribe", SubscriptionRequest, <<SubscribeStatus(input)>>)
    /\ Ran("geofence", GeofenceInputs, <<IsPointInPolygon(input.p, input.quad)>>)
    /\ Ran("clock", ClockInputs, <<Elapsed(input)>>)
    /\ Ran("fusion", FusionInputs, <<Fuse(input)>>)
    /\ Ran("tdoa", TdoaInputs, <<TdoaComputePosition(input.report, input.known, input.fetched, input.configured)>>)
    /\ Ran("rtt", RttInputs, RttAnswers(input, input.report))
    /\ Ran("ecid", EcidInputs, EcidAnswers(input, input.report))
    /\ Ran("gnss", GnssInputs, <<Fix(input)>>)

LEMMA ResultsInit == Init => ResultsInv
BY DEF Init, ResultsInv, Ran, TdoaInputs, RttInputs, EcidInputs

LEMMA ResultsNext == ResultsInv /\ [Next]_algorithmVars => ResultsInv'
<1> SUFFICES ASSUME ResultsInv, [Next]_algorithmVars PROVE ResultsInv'
  OBVIOUS
<1>1. CASE UNCHANGED algorithmVars
  BY <1>1 DEF algorithmVars, ResultsInv, Ran, WireResult
<1>2. CASE SelectMethods
  BY <1>2 DEF SelectMethods, Run, ResultsInv, Ran
<1>3. CASE Wire
  BY <1>3 DEF Wire, Run, ResultsInv, Ran, WireResult
<1>4. CASE Subscribes
  BY <1>4 DEF Subscribes, Run, ResultsInv, Ran
<1>5. CASE Locate
  BY <1>5 DEF Locate, Run, ResultsInv, Ran
<1>6. CASE Clock
  BY <1>6 DEF Clock, Run, ResultsInv, Ran
<1>7. CASE FuseAll
  BY <1>7 DEF FuseAll, Run, ResultsInv, Ran
<1>8. CASE Tdoa
  BY <1>8 DEF Tdoa, Run, ResultsInv, Ran
<1>9. CASE Rtt
  BY <1>9 DEF Rtt, Run, ResultsInv, Ran
<1>10. CASE Ecid
  BY <1>10 DEF Ecid, Run, ResultsInv, Ran
<1>11. CASE Gnss
  BY <1>11 DEF Gnss, Run, ResultsInv, Ran
<1>12. CASE Solve \/ Dop \/ Chan
  <2>1. unit \in {"solve", "dop", "chan"} /\ UNCHANGED unit
    BY <1>12 DEF Solve, Dop, Chan, Run
  <2>2. QED BY <2>1 DEF ResultsInv, Ran
<1>13. QED
  BY <1>1, <1>2, <1>3, <1>4, <1>5, <1>6, <1>7, <1>8, <1>9, <1>10, <1>11, <1>12 DEF Next

LEMMA ResultsAlways == Spec => []ResultsInv
BY ResultsInit, ResultsNext, PTL DEF Spec, algorithmVars

\* For a grid of every size: triangles are what their half-planes say, and a cut along a
\* diagonal leaves no gap and no overlap.
THEOREM AreaIsExact == Spec => []AreaExact
<1>1. ResultsInv => AreaExact
  <2> SUFFICES ASSUME ResultsInv, Answered("geofence") PROVE AreaExact
    BY DEF AreaExact
  <2> DEFINE p == input.p
             q == input.quad
  <2>1. p \in Location /\ q \in [1 .. 4 -> Location] /\ output = <<IsPointInPolygon(p, q)>>
    <3>1. input \in GeofenceInputs /\ output = <<IsPointInPolygon(p, q)>>
      BY DEF ResultsInv, Ran, Answered
    <3>2. Grid \subseteq Location
      <4>1. 0 .. N \subseteq Int
        BY InputsAssumption
      <4>2. QED BY <4>1 DEF Grid, Point, Location
    <3>3. p \in Grid /\ q \in [1 .. 4 -> Grid]
      BY <3>1 DEF GeofenceInputs
    <3>4. QED BY <3>1, <3>2, <3>3
  <2> HIDE DEF p, q
  <2>2. /\ q[1] \in Location /\ q[2] \in Location /\ q[3] \in Location
    BY <2>1
  <2> DEFINE t == <<q[1], q[2], q[3]>>
             rest == <<q[1], q[3], q[4]>>
             inside == IsPointInPolygon(p, t)
  <2>3. /\ (\A x \in Sides(t, p) : x > 0) \/ (\A x \in Sides(t, p) : x < 0) => inside
        /\ (\E x \in Sides(t, p) : x > 0) /\ (\E x \in Sides(t, p) : x < 0) => ~inside
    BY <2>1, <2>2, RayCasting
  <2>4. output[1] = (inside # IsPointInPolygon(p, rest))
    <3>1. IsPointInPolygon(p, q) <=> (inside # IsPointInPolygon(p, rest))
      BY <2>1, CutExact
    <3>2. IsPointInPolygon(p, q) \in BOOLEAN
      BY DEF IsPointInPolygon
    <3> HIDE DEF inside, rest
    <3>3. QED BY <2>1, <3>1, <3>2
  <2>5. Triangle = t /\ Rest = rest
    BY DEF Triangle, Rest, p, q
  <2> HIDE DEF t, rest
  <2>6. QED BY <2>3, <2>4, <2>5 DEF AreaExact, p
<1>2. QED BY <1>1, ResultsAlways, PTL

\* Whenever the ephemerides were generated, the time since their reference is exact, across
\* the end of a week too.
THEOREM WeekWrapIsExact == Spec => []WeekWrapExact
<1>1. ResultsInv => WeekWrapExact
  <2> SUFFICES ASSUME ResultsInv, Answered("clock") PROVE WeekWrapExact
    BY DEF WeekWrapExact
  <2> DEFINE made == input.made
             interval == IF input.system = ConstellationGPS THEN 6 ELSE 3
             reference == CHOOSE k \in made - 5 .. made : k % interval = 0 /\ made - k < interval
  <2>1. /\ input.system \in Generated /\ made \in Nat /\ input.age \in 0 .. 6
        /\ input.travel \in {0, 1} /\ output[1] = Elapsed(input)
    <3>1. input \in ClockInputs /\ output = <<Elapsed(input)>>
      BY DEF ResultsInv, Ran, Answered
    <3>2. Moments \subseteq Nat
      BY DEF Moments, HalfWeek, Week
    <3>3. QED BY <3>1, <3>2 DEF ClockInputs
  <2>2. interval \in {3, 6}
    OBVIOUS
  <2> HIDE DEF interval
  <2>3. Elapsed(input) = (input.age - input.travel) + (made % interval)
    BY <2>1, WeekWrap DEF Elapsed, interval
  <2> HIDE DEF made
  <2>4. reference = made - (made % interval)
    <3>1. \A m \in Nat :
              /\ m - (m % 3) \in m - 5 .. m /\ (m - (m % 3)) % 3 = 0 /\ m - (m - (m % 3)) < 3
              /\ m - (m % 6) \in m - 5 .. m /\ (m - (m % 6)) % 6 = 0 /\ m - (m - (m % 6)) < 6
      OBVIOUS
    <3>2. \A m \in Nat : \A k \in m - 5 .. m :
              /\ k % 3 = 0 /\ m - k < 3 => k = m - (m % 3)
              /\ k % 6 = 0 /\ m - k < 6 => k = m - (m % 6)
      OBVIOUS
    <3> DEFINE k0 == made - (made % interval)
               Is(k) == k % interval = 0 /\ made - k < interval
    <3>3. k0 \in made - 5 .. made /\ Is(k0)
      BY <2>1, <2>2, <3>1
    <3>4. \A k \in made - 5 .. made : Is(k) => k = k0
      BY <2>1, <2>2, <3>2
    <3> HIDE DEF k0, Is
    <3>5. (CHOOSE k \in made - 5 .. made : Is(k)) = k0
      BY <3>3, <3>4
    <3>6. QED BY <3>5 DEF k0, Is
  <2>5. output[1] = made + input.age - input.travel - reference
    <3>1. made % interval \in Int
      BY <2>1, <2>2
    <3> DEFINE r == made % interval
    <3> HIDE DEF r
    <3>2. \A m, a, l, e \in Int : m + a - l - (m - e) = (a - l) + e
      OBVIOUS
    <3>3. made \in Int /\ input.age \in Int /\ input.travel \in Int /\ r \in Int
      BY <2>1, <3>1 DEF r
    <3> HIDE DEF reference
    <3>4. QED BY <2>1, <2>3, <2>4, <3>2, <3>3 DEF r
  <2>6. QED BY <2>5 DEF WeekWrapExact, made, interval
<1>2. QED BY <1>1, ResultsAlways, PTL

\* What the orchestrator knows of the UE: a lookup that failed, and an answer without
\* capabilities, are a UE that supports nothing.
LEMMA CapabilitiesKnown ==
    ASSUME NEW answer \in {NoCapabilities, CallFailed} \cup SUBSET Capabilities
    PROVE  /\ GetUECapabilities(answer) = answer \cap Capabilities
           /\ GetUECapabilities(answer) # NoCapabilities
<1>1. NoCapabilities \cap Capabilities = {} /\ CallFailed \cap Capabilities = {} /\ NoCapabilities # {}
  BY DEF NoCapabilities, CallFailed, Capabilities
<1>2. \A S \in SUBSET Capabilities : S # NoCapabilities
  BY DEF NoCapabilities, Capabilities
<1>3. QED BY <1>1, <1>2 DEF GetUECapabilities

\* From the body of a request to the methods that are attempted for it.
THEOREM WirePlanSound ==
    ASSUME NEW session, NEW answer \in {NoCapabilities, CallFailed} \cup SUBSET Capabilities
    PROVE  /\ PlanOf(session, answer) \in Seq(Methods)
           /\ Sound(PlanOf(session, answer), answer \cap Capabilities, FALSE)
<1> DEFINE caps == GetUECapabilities(answer)
           in == Input(caps, session.accuracy, "DelayTolerant", FALSE)
<1>1. caps = answer \cap Capabilities /\ caps # NoCapabilities
  BY CapabilitiesKnown
<1> HIDE DEF caps
<1>2. PlanOf(session, answer) = Plan(in)
  <2>1. Select(Input(caps, session.accuracy, session.response, FALSE)) = Plan(in)
    BY <1>1, ConversionsKeepPlan
  <2>2. QED BY <2>1 DEF PlanOf, caps
<1>3. in.caps = caps /\ in.response = "DelayTolerant" /\ in.indoor = FALSE
  BY DEF Input
<1> HIDE DEF in
<1>4. Plan(in) \in Seq(Methods) /\ Sound(Plan(in), caps, FALSE)
  BY <1>1, <1>3, SelectionSound
<1>5. QED BY <1>1, <1>2, <1>4

\* The plan that is attempted is sound for what is known of the UE, from the HTTP body on,
\* for every accuracy: also when it is not one of those the run tries.
THEOREM PlanIsSound == Spec => []PlanSound
<1>1. ResultsInv /\ Answered("selector") =>
          Sound(output, input.caps, input.response = "NoDelay")
  <2> SUFFICES ASSUME ResultsInv, Answered("selector")
               PROVE  Sound(output, input.caps, input.response = "NoDelay")
    OBVIOUS
  <2>1. input \in SelectorInputs /\ output = Plan(input)
    BY DEF ResultsInv, Ran, Answered
  <2>2. input.caps \in SUBSET Capabilities /\ input.indoor \in BOOLEAN
    BY <2>1 DEF SelectorInputs, Input
  <2>3. QED BY <2>1, <2>2, SelectionSound
<1>2. ResultsInv /\ Answered("subscribe") => output[1] = BadRequest \/ input.supi
  BY DEF ResultsInv, Ran, Answered, SubscribeStatus, BadRequest
<1>3. ResultsInv /\ Answered("wire") =>
          IF Head(output) = BadRequest THEN ~input.body.json \/ ~Identified(input.body)
          ELSE /\ Head(output) = 200
               /\ Identified(input.body)
               /\ Sound(Tail(output), input.answer \cap Capabilities, FALSE)
  <2> SUFFICES ASSUME ResultsInv, Answered("wire")
               PROVE  IF Head(output) = BadRequest THEN ~input.body.json \/ ~Identified(input.body)
                      ELSE /\ Head(output) = 200
                           /\ Identified(input.body)
                           /\ Sound(Tail(output), input.answer \cap Capabilities, FALSE)
    OBVIOUS
  <2> DEFINE plan == PlanOf(Forwarded(input.body), input.answer)
  <2>1. input.answer \in {NoCapabilities, CallFailed} \cup SUBSET Capabilities /\ output = WireResult
    BY DEF ResultsInv, Ran, Answered, WireInputs
  <2>2. CASE Accepted(input.body)
    <3>1. plan \in Seq(Methods) /\ Sound(plan, input.answer \cap Capabilities, FALSE)
      BY <2>1, WirePlanSound
    <3>2. output = <<200>> \o plan
      BY <2>1, <2>2 DEF WireResult, DetermineLocationStatus
    <3> HIDE DEF plan
    <3>3. Head(output) = 200 /\ Tail(output) = plan
      <4>1. \A s \in Seq(Methods) : Head(<<200>> \o s) = 200 /\ Tail(<<200>> \o s) = s
        <5> TAKE s \in Seq(Methods)
        <5> DEFINE w == <<200>> \o s
        <5>1. /\ Len(s) \in Nat /\ Len(w) = Len(s) + 1 /\ w[1] = 200
              /\ \A i \in 1 .. Len(s) : w[i + 1] = s[i]
          OBVIOUS
        <5>2. w \in Seq(Methods \cup {200}) /\ w # <<>>
          BY <5>1
        <5> HIDE DEF w
        <5>3. Tail(w) \in Seq(Methods \cup {200}) /\ Len(Tail(w)) = Len(s) /\ Head(w) = 200
          BY <5>1, <5>2
        <5>4. \A i \in 1 .. Len(s) : Tail(w)[i] = s[i]
          BY <5>1, <5>2
        <5>5. Tail(w) = s
          BY <5>3, <5>4
        <5>6. QED BY <5>3, <5>5 DEF w
      <4>2. QED BY <3>1, <3>2, <4>1
    <3>4. Head(output) # BadRequest /\ Identified(input.body)
      BY <2>2, <3>3 DEF BadRequest, Accepted
    <3>5. Sound(Tail(output), input.answer \cap Capabilities, FALSE)
      BY <3>1, <3>3, Zenon
    <3>6. QED BY <3>3, <3>4, <3>5
  <2>3. CASE ~Accepted(input.body)
    <3>1. output = <<BadRequest>> \o <<>>
      BY <2>1, <2>3 DEF WireResult, DetermineLocationStatus
    <3>2. Head(output) = BadRequest
      BY <3>1
    <3>3. QED BY <2>3, <3>2 DEF Accepted
  <2>4. QED BY <2>2, <2>3
<1>4. ResultsInv => PlanSound
  BY <1>1, <1>2, <1>3 DEF PlanSound
<1>5. QED BY <1>4, ResultsAlways, PTL

LEMMA FusionInputIs ==
    ASSUME NEW ests \in FusionInputs
    PROVE  \E n \in Nat \ {0} : Estimates(ests, n)
<1>1. PICK n \in 1 .. MaxEstimates :
          ests \in [1 .. n -> {Estimate(lat, s) : lat \in {0, 1}, s \in Sigmas}]
  BY DEF FusionInputs
<1>2. n \in Nat \ {0}
  BY InputsAssumption
<1>3. {Estimate(lat, s) : lat \in {0, 1}, s \in Sigmas} \subseteq [lat : Int, sigma : Sigmas]
  BY DEF Estimate
<1> DEFINE E == {Estimate(lat, s) : lat \in {0, 1}, s \in Sigmas}
           R == [lat : Int, sigma : Sigmas]
<1>4. ests \in [1 .. n -> R]
  <2>1. E \subseteq R /\ ests \in [1 .. n -> E]
    BY <1>1, <1>3
  <2> HIDE DEF E, R
  <2>2. QED BY <2>1
<1>5. QED BY <1>2, <1>4 DEF Estimates

\* Whatever the number of estimates, the outliers are a minority, the most precise stay,
\* and fusing costs no accuracy that one estimate had.
THEOREM FusionIsSound == Spec => []FusionSound
<1>1. ResultsInv => FusionSound
  <2> SUFFICES ASSUME ResultsInv, Answered("fusion") PROVE FusionSound
    BY DEF FusionSound
  <2> DEFINE variance == Fuse(input).variance
             qos(a) == [accuracy |-> a, vertical |-> FALSE, altitude |-> 0, response |-> "NoDelay"]
  <2>1. input \in FusionInputs /\ output = <<Fuse(input)>>
    BY DEF ResultsInv, Ran, Answered
  <2>2. PICK n \in Nat \ {0} : Estimates(input, n)
    BY <2>1, FusionInputIs
  <2>3. DOMAIN input = 1 .. n /\ Len(input) = n
    BY <2>2, EstimatesAre
  <2>4. /\ 2 * Cardinality(Kept(input)) > n
        /\ \A i \in 1 .. n : (\A j \in 1 .. n : input[i].sigma <= input[j].sigma) => i \in Kept(input)
    BY <2>2, KeptIs
  <2>5. output[1].variance = variance
    BY <2>1
  <2>6. ASSUME NEW i \in 1 .. n, NEW a \in 0 .. 10, input[i].sigma > 0,
               ~HorizontalFails(a, [num |-> input[i].sigma * input[i].sigma, den |-> 1])
        PROVE  EvaluateQoS(qos(a), variance, 0, 0) = [accuracy |-> "FULFILLED", timeBreached |-> FALSE]
    <3>1. a \in Nat
      OBVIOUS
    <3>2. ~HorizontalFails(a, variance)
      BY <2>2, <2>6, <3>1, FusedAsAccurate
    <3> HIDE DEF variance
    <3>3. EvaluateAccuracyFulfilment(qos(a), variance, 0) = "FULFILLED"
      BY <3>2 DEF EvaluateAccuracyFulfilment, VerticalFails
    <3>4. IsResponseTimeBreached(0, qos(a).response) = FALSE
      BY DEF IsResponseTimeBreached, Deadline
    <3> HIDE DEF qos
    <3>5. QED BY <3>3, <3>4 DEF EvaluateQoS
  <2> HIDE DEF variance
  <2>7. QED BY <2>3, <2>4, <2>5, <2>6 DEF FusionSound
<1>2. QED BY <1>1, ResultsAlways, PTL

LEMMA PlacesAre == \A c \in Cells : Places[c] \in Int
<1> DEFINE order == SetToSeq(Cells)
           At(c) == CHOOSE k \in DOMAIN order : order[k] = c
           n == Cardinality(Cells)
<1>1. order \in [1 .. n -> Cells] /\ \A c \in Cells : \E k \in 1 .. n : order[k] = c
  <2>1. n \in Nat /\ n = Cardinality(1 .. n) /\ IsFiniteSet(1 .. n) /\ IsFiniteSet(Cells)
    <3>1. IsFiniteSet(Cells) /\ n \in Nat
      BY InputsAssumption, FS_CardinalityType
    <3> HIDE DEF n
    <3>2. QED BY <3>1, FS_Interval
  <2> DEFINE D == 1 .. n
             Listing(f) == f \in [D -> Cells] /\ IsInjective(f)
  <2>2. \E f : Listing(f)
    <3>1. ExistsBijection(D, Cells)
      <4>1. IsFiniteSet(D) /\ IsFiniteSet(Cells) /\ Cardinality(D) = Cardinality(Cells)
        BY <2>1
      <4> HIDE DEF D
      <4>2. QED BY <4>1, FS_SameCardinalityBij
    <3> HIDE DEF D
    <3>2. PICK f : f \in Bijection(D, Cells)
      BY <3>1 DEF ExistsBijection
    <3>3. f \in Injection(D, Cells)
      BY <3>2 DEF Bijection
    <3>4. QED BY <3>3 DEF Injection
  <2>3. order = CHOOSE f \in [D -> Cells] : IsInjective(f)
    BY DEF SetToSeq
  <2>4. Listing(order)
    <3> HIDE DEF order, D
    <3>1. QED BY <2>2, <2>3
  <2>5. order \in Injection(D, Cells)
    BY <2>4 DEF Injection
  <2>6. order \in Surjection(D, Cells)
    <3>1. Cardinality(D) = Cardinality(Cells) /\ IsFiniteSet(Cells)
      BY <2>1
    <3> HIDE DEF order, D
    <3>2. QED BY <2>5, <3>1, FS_Injection
  <2> HIDE DEF order, n
  <2>7. QED BY <2>5, <2>6 DEF Injection, Surjection
<1>2. n \in Nat
  BY InputsAssumption, FS_CardinalityType
<1>3. ASSUME NEW c \in Cells PROVE Places[c] \in Int
  <2>1. Places[c] = 3 * At(c)
    BY DEF Places
  <2> HIDE DEF order, n
  <2>2. DOMAIN order = 1 .. n /\ \E k \in 1 .. n : order[k] = c
    BY <1>1
  <2>3. At(c) \in 1 .. n
    BY <2>2
  <2> HIDE DEF At
  <2>4. QED BY <1>2, <2>1, <2>3
<1>4. QED BY <1>3

\* No engine's answer, and not the fused position, depends on the order of what was measured.
THEOREM OrderIsFree == Spec => []OrderFree
<1>1. ASSUME ResultsInv, Answered("fusion"), NEW f \in Bijection(DOMAIN input, DOMAIN input)
      PROVE  output[1] = Fuse(Reordered(input, f))
  <2>1. input \in FusionInputs /\ output = <<Fuse(input)>>
    BY <1>1 DEF ResultsInv, Ran, Answered
  <2>2. PICK n \in Nat \ {0} : Estimates(input, n)
    BY <2>1, FusionInputIs
  <2>3. f \in Bijection(1 .. n, 1 .. n)
    BY <2>2, EstimatesAre
  <2>4. Fuse(Reordered(input, f)) = Fuse(input)
    BY <2>2, <2>3, FusionOrderFree
  <2>5. QED BY <2>1, <2>4
<1>2. ASSUME NEW X, NEW s \in Reports(X)
      PROVE  \E n \in Nat : s \in [1 .. n -> X] /\ DOMAIN s = 1 .. n
  <2>1. PICK n \in 1 .. MaxReport : s \in [1 .. n -> X]
    BY DEF Reports
  <2>2. n \in Nat
    BY InputsAssumption
  <2>3. QED BY <2>1, <2>2
<1>3. ASSUME ResultsInv, Answered("tdoa"), NEW f \in Bijection(DOMAIN input.report, DOMAIN input.report)
      PROVE  output[1] = TdoaComputePosition(Reordered(input.report, f), input.known, input.fetched, input.configured)
  <2>1. /\ input.report \in Reports(Pairs)
        /\ output = <<TdoaComputePosition(input.report, input.known, input.fetched, input.configured)>>
    BY <1>3 DEF ResultsInv, Ran, Answered, TdoaInputs
  <2>2. PICK n \in Nat : input.report \in [1 .. n -> Pairs] /\ DOMAIN input.report = 1 .. n
    BY <1>2, <2>1
  <2>3. f \in Bijection(1 .. n, 1 .. n)
    BY <2>2
  <2> DEFINE r == input.report
             k == input.known
             g == input.fetched
             c == input.configured
  <2> HIDE DEF r, k, g, c
  <2>4. ReportOf(r, Pairs, n)
    BY <2>2 DEF r, ReportOf
  <2>5. TdoaComputePosition(Reordered(r, f), k, g, c) = TdoaComputePosition(r, k, g, c)
    BY <2>3, <2>4, TdoaOrderFree
  <2>6. QED BY <2>1, <2>5 DEF r, k, g, c
<1>4. ASSUME ResultsInv, Answered("rtt"), NEW f \in Bijection(DOMAIN input.report, DOMAIN input.report)
      PROVE  output = RttAnswers(input, Reordered(input.report, f))
  <2>1. input.report \in Reports(Cells) /\ output = RttAnswers(input, input.report)
    BY <1>4 DEF ResultsInv, Ran, Answered, RttInputs
  <2>2. PICK n \in Nat : input.report \in [1 .. n -> Cells] /\ DOMAIN input.report = 1 .. n
    BY <1>2, <2>1
  <2>3. f \in Bijection(1 .. n, 1 .. n)
    BY <2>2
  <2> DEFINE r == input.report
  <2> HIDE DEF r
  <2>4. ReportOf(r, Cells, n)
    BY <2>2 DEF r, ReportOf
  <2>5. \A known : RttComputePosition(Reordered(r, f), known) = RttComputePosition(r, known)
    BY <2>3, <2>4, RttOrderFree
  <2>6. QED BY <2>1, <2>5 DEF r, RttAnswers, ComputeRtt
<1>5. ASSUME ResultsInv, Answered("ecid"), NEW f \in Bijection(DOMAIN input.report, DOMAIN input.report)
      PROVE  output = EcidAnswers(input, Reordered(input.report, f))
  <2> DEFINE r == input.report
             none == [c \in {""} |-> 0]
  <2>1. input \in EcidInputs /\ output = EcidAnswers(input, r)
    BY <1>5 DEF ResultsInv, Ran, Answered
  <2>2. r \in Heard /\ input.known \in SUBSET Cells /\ input.serving \in Cells
    BY <2>1 DEF EcidInputs
  <2>3. PICK n \in 1 .. 3 : r \in [1 .. n -> Entry(Cells)]
    BY <2>2 DEF Heard, Entry
  <2>4. ReportOf(r, Entry(Cells), n) /\ f \in Bijection(1 .. n, 1 .. n)
    BY <2>3 DEF ReportOf
  <2> HIDE DEF r
  <2>5. EcidComputePosition(input.named, input.serving, input.advance, Reordered(r, f), input.known, Places)
          = EcidComputePosition(input.named, input.serving, input.advance, r, input.known, Places)
    <3> DEFINE named == input.named
               serving == input.serving
               known == input.known
               advance == input.advance
    <3>1. Placed(Places, Cells \cap (known \cup {serving}))
      BY PlacesAre DEF Placed
    <3> HIDE DEF named, serving, known, advance
    <3>2. EcidComputePosition(named, serving, advance, Reordered(r, f), known, Places)
            = EcidComputePosition(named, serving, advance, r, known, Places)
      BY <2>4, <3>1, EcidOrderFree
    <3>3. QED BY <3>2 DEF named, serving, known, advance
  <2>6. EcidComputePosition(input.named, "", input.advance, Reordered(r, f), {}, none)
          = EcidComputePosition(input.named, "", input.advance, r, {}, none)
    <3> DEFINE named == input.named
               advance == input.advance
               serving == ""
               known == {}
    <3>1. Placed(none, Cells \cap (known \cup {serving}))
      <4>1. known \cup {serving} = {""}
        OBVIOUS
      <4>2. none[""] = 0
        OBVIOUS
      <4> HIDE DEF none
      <4>3. \A c \in {""} : none[c] = 0
        BY <4>2
      <4>4. \A c \in known \cup {serving} : none[c] = 0
        BY <4>1, <4>3
      <4> HIDE DEF known, serving
      <4>5. QED BY <4>4 DEF Placed
    <3> HIDE DEF named, serving, known, advance, none
    <3>2. EcidComputePosition(named, serving, advance, Reordered(r, f), known, none)
            = EcidComputePosition(named, serving, advance, r, known, none)
      BY <2>4, <3>1, EcidOrderFree
    <3>3. QED BY <3>2 DEF named, serving, known, advance
  <2>7. QED BY <2>1, <2>5, <2>6 DEF r, EcidAnswers, ComputeEcid
<1>6. ResultsInv => OrderFree
  <2> SUFFICES ASSUME ResultsInv PROVE OrderFree
    OBVIOUS
  <2>1. \A s, f : [i \in DOMAIN s |-> s[f[i]]] = Reordered(s, f)
    BY DEF Reordered
  <2>2. Answered("fusion") => \A f \in Bijection(DOMAIN input, DOMAIN input) :
            output[1] = Fuse(Reordered(input, f))
    BY <1>1
  <2>3. Answered("tdoa") => \A f \in Bijection(DOMAIN input.report, DOMAIN input.report) :
            output[1] = TdoaComputePosition(Reordered(input.report, f), input.known, input.fetched, input.configured)
    BY <1>3
  <2>4. Answered("rtt") => \A f \in Bijection(DOMAIN input.report, DOMAIN input.report) :
            output = RttAnswers(input, Reordered(input.report, f))
    BY <1>4
  <2>5. Answered("ecid") => \A f \in Bijection(DOMAIN input.report, DOMAIN input.report) :
            output = EcidAnswers(input, Reordered(input.report, f))
    BY <1>5
  <2>6. QED BY <2>2, <2>3, <2>4, <2>5 DEF OrderFree, Reordered
<1>7. QED BY <1>6, ResultsAlways, PTL

LEMMA MeasurableFinite == IsFiniteSet(Measurable)
<1> DEFINE code == [m \in Measurable |-> 4 * m.prn + (CASE m.constellation = "GPS" -> 0
                                                         [] m.constellation = "GALILEO" -> 1
                                                         [] m.constellation = "GLONASS" -> 2
                                                         [] OTHER -> 3)]
<1>1. \A m \in Measurable :
         /\ m.constellation \in {"GPS", "GALILEO", "GLONASS", "BEIDOU"} /\ m.prn \in {1, 3, 21}
         /\ m = [constellation |-> m.constellation, prn |-> m.prn]
  BY DEF Measurable
<1>2. \A m \in Measurable : code[m] \in 0 .. 99
  BY <1>1
<1>3. ASSUME NEW m \in Measurable, NEW k \in Measurable, code[m] = code[k]
      PROVE  m = k
  <2>1. m.constellation = k.constellation /\ m.prn = k.prn
    BY <1>1, <1>3
  <2>2. QED BY <1>1, <2>1
<1>4. code \in Injection(Measurable, 0 .. 99)
  BY <1>2, <1>3 DEF Injection, IsInjective
<1>5. IsFiniteSet(0 .. 99)
  BY 0 \in Int, 99 \in Int, FS_Interval, Zenon
<1> HIDE DEF code
<1>6. QED BY <1>4, <1>5, FS_Injection

\* What getMeasurements returns: the first six ephemerides, which differ, or nothing.
LEMMA MeasurementsDiffer ==
    ASSUME NEW ephs, Assisted(ephs)
    PROVE  LET signals == getMeasurements(ToProto(ephs))
           IN  /\ IsFiniteSet(DOMAIN signals)
               /\ \A i, j \in DOMAIN signals : signals[i] = signals[j] => i = j
               /\ Len(ephs) = 0 => DOMAIN signals = {} /\ ToProto(ephs) = <<>>
               /\ Len(ephs) # 0 => Len(ToProto(ephs)) >= 6
<1> DEFINE msgs == ToProto(ephs)
           signals == getMeasurements(msgs)
           n == Len(ephs)
<1>1. ephs \in Seq(Ephemeris) /\ n \in Nat /\ DOMAIN ephs = 1 .. n /\ (n = 0 \/ n >= 6)
  <2>1. ephs \in Seq(Ephemeris) /\ (n = 0 \/ n >= 6)
    BY DEF Assisted
  <2>2. QED BY <2>1
<1>2. /\ DOMAIN msgs = 1 .. n
      /\ \A i \in 1 .. n : SatelliteOf(msgs[i]) = ephs[i]
  BY <1>1, EphemerisSent
<1>3. msgs = [i \in 1 .. n |-> msgs[i]]
  BY <1>1, <1>2 DEF ToProto
<1>4. \A i, j \in 1 .. 6 : n >= 6 /\ ephs[i] = ephs[j] => i = j
  BY DEF Assisted
<1> HIDE DEF n, msgs
<1>5. Len(msgs) = n
  BY <1>1, <1>3
<1>6. CASE n = 0
  <2>1. msgs = <<>>
    BY <1>3, <1>6
  <2>2. signals = <<>>
    <3>1. signals = SubSeq(msgs, 1, 0)
      BY <1>5, <1>6 DEF getMeasurements
    <3>2. QED BY <3>1, SubSeqEmpty
  <2>3. DOMAIN signals = {}
    BY <2>2
  <2>4. IsFiniteSet({})
    BY FS_EmptySet
  <2> HIDE DEF signals
  <2>5. QED BY <1>6, <2>1, <2>3, <2>4 DEF signals, msgs, n
<1>7. CASE n >= 6
  <2> DEFINE S == {msgs[i] : i \in 1 .. n}
  <2>1. signals = SubSeq(msgs, 1, 6)
    BY <1>1, <1>5, <1>7 DEF getMeasurements
  <2>2. \A i \in 1 .. 6 : msgs[i] \in S
    BY <1>1, <1>7
  <2> HIDE DEF S, signals
  <2>3. signals \in Seq(S) /\ Len(signals) = 6 /\ \A i \in 1 .. 6 : signals[i] = msgs[i]
    <3> DEFINE a == 1
               b == 6
    <3>1. a \in Int /\ b \in Int /\ a <= b /\ b - a + 1 = 6 /\ (\A i \in 1 .. 6 : a + i - 1 = i)
          /\ \A i \in a .. b : msgs[i] \in S
      BY <2>2
    <3>2. signals = SubSeq(msgs, a, b)
      BY <2>1
    <3> HIDE DEF a, b
    <3>3. /\ SubSeq(msgs, a, b) \in Seq(S)
          /\ Len(SubSeq(msgs, a, b)) = IF a <= b THEN b - a + 1 ELSE 0
          /\ \A i \in 1 .. b - a + 1 : SubSeq(msgs, a, b)[i] = msgs[a + i - 1]
      BY <3>1, SubSeqProperties
    <3>4. QED BY <3>1, <3>2, <3>3
  <2>4. DOMAIN signals = 1 .. 6
    BY <2>3
  <2>5. \A i, j \in DOMAIN signals : signals[i] = signals[j] => i = j
    <3>1. \A i \in 1 .. 6 : SatelliteOf(signals[i]) = ephs[i]
      BY <1>1, <1>2, <1>7, <2>3
    <3>2. QED BY <1>4, <1>7, <2>4, <3>1
  <2>6. IsFiniteSet(1 .. 6)
    BY 1 \in Int, 6 \in Int, FS_Interval, Zenon
  <2>7. QED BY <1>5, <1>7, <2>4, <2>5, <2>6 DEF signals, msgs, n
<1>8. QED BY <1>1, <1>6, <1>7

\* What the provider generates goes through every conversion to the measurement it is for.
THEOREM SatellitesAreMatched == Spec => []SatellitesMatched
<1>1. ResultsInv => SatellitesMatched
  <2> SUFFICES ASSUME ResultsInv, Answered("gnss") PROVE SatellitesMatched
    BY DEF SatellitesMatched
  <2> DEFINE asked == [i \in DOMAIN input.names |-> constellationFromString(input.names[i])]
             ephs == FetchEphemeris(asked)
             msgs == ToProto(ephs)
             signals == Reported(input)
             iteration == input.iteration
             fix == GnssServerComputePosition(signals, msgs, iteration)
             usable == UsableSatellites(signals, ephs)
  <2>1. input \in GnssInputs /\ output = <<Fix(input)>>
    BY DEF ResultsInv, Ran, Answered
  <2>2. Assisted(ephs)
    <3>1. input.names \in NameLists
      BY <2>1 DEF GnssInputs
    <3>2. PICK n \in 1 .. 2 : input.names \in [1 .. n -> Names]
      BY <3>1 DEF NameLists
    <3>3. \A c : constellationFromString(c) \in 0 .. 3
      BY DEF constellationFromString, ConstellationGPS, ConstellationGalileo,
             ConstellationGLONASS, ConstellationBeiDou
    <3>4. asked \in [1 .. n -> 0 .. 3] /\ n \in Nat
      BY <3>2, <3>3
    <3> HIDE DEF asked
    <3>5. QED BY <3>4, FetchAssisted
  <2>3. Assistance(input.names) = msgs
    BY DEF Assistance
  <2> HIDE DEF asked
  <2>4. ephs \in Seq(Ephemeris) /\ Len(ephs) \in Nat /\ DOMAIN ephs = 1 .. Len(ephs)
    <3>1. ephs \in Seq(Ephemeris)
      BY <2>2 DEF Assisted
    <3> HIDE DEF ephs
    <3>2. QED BY <3>1
  <2>5. DOMAIN msgs = 1 .. Len(ephs) /\ Len(msgs) = Len(ephs)
        /\ \A i \in 1 .. Len(ephs) : SatelliteOf(msgs[i]) = ephs[i]
    <3>1. DOMAIN msgs = 1 .. Len(ephs) /\ \A i \in 1 .. Len(ephs) : SatelliteOf(msgs[i]) = ephs[i]
      BY <2>4, EphemerisSent
    <3>2. msgs = [i \in DOMAIN ephs |-> [ephs[i] EXCEPT !.constellation = constellationToString(@)]]
      BY DEF ToProto
    <3> HIDE DEF ephs, msgs
    <3>3. Len(msgs) = Len(ephs)
      BY <2>4, <3>1, <3>2
    <3>4. QED BY <3>1, <3>3
  <2> DEFINE Differ == /\ IsFiniteSet(DOMAIN signals)
                       /\ \A i, j \in DOMAIN signals : signals[i] = signals[j] => i = j
             None == DOMAIN signals = {} /\ Fix(input) = Failed("no ephemeris")
  <2>6. ASSUME ~input.adapter
        PROVE  Differ /\ Fix(input) = fix
    <3>1. signals = [m \in input.measured |-> m] /\ Fix(input) = fix
      BY <2>3, <2>6 DEF Reported, Fix
    <3>2. input.measured \in SUBSET Measurable
      BY <2>1, <2>6 DEF GnssInputs
    <3>3. DOMAIN signals = input.measured /\ \A m \in input.measured : signals[m] = m
      BY <3>1
    <3>4. IsFiniteSet(input.measured)
      BY <3>2, MeasurableFinite, FS_Subset
    <3>5. QED BY <3>1, <3>3, <3>4
  <2>7. ASSUME input.adapter
        PROVE  Differ /\ (None \/ Fix(input) = fix)
    <3>1. signals = getMeasurements(msgs) /\ Fix(input) = AdapterCompute(input.names, iteration)
      BY <2>3, <2>7 DEF Reported, Fix
    <3>2. /\ IsFiniteSet(DOMAIN signals)
          /\ \A i, j \in DOMAIN signals : signals[i] = signals[j] => i = j
          /\ Len(ephs) = 0 => DOMAIN signals = {} /\ msgs = <<>>
          /\ Len(ephs) # 0 => Len(msgs) >= 6
      BY <2>2, <3>1, MeasurementsDiffer
    <3>3. CASE Len(ephs) = 0
      <4>1. Fix(input) = Failed("no ephemeris")
        BY <2>3, <3>1, <3>2, <3>3 DEF AdapterCompute
      <4>2. QED BY <3>2, <3>3, <4>1
    <3>4. CASE Len(ephs) # 0
      <4> HIDE DEF ephs, msgs
      <4>1. Len(msgs) >= 6 /\ msgs # <<>> /\ ~(Len(msgs) < 4)
        BY <2>4, <2>5, <3>2, <3>4
      <4>2. Fix(input) = GnssServerComputePosition(getMeasurements(msgs), msgs, iteration)
        BY <2>3, <3>1, <4>1 DEF AdapterCompute
      <4>3. QED BY <3>1, <3>2, <4>2
    <3>5. QED BY <3>3, <3>4
  <2>8. Differ
    BY <2>6, <2>7
  <2>9. ASSUME Fix(input) = fix
        PROVE  Matches(output[1], usable, iteration)
    <3>1. Matches(fix, usable, iteration)
      BY <2>4, <2>8, FixMatched
    <3>2. output[1] = fix
      BY <2>1, <2>9
    <3>3. QED BY <3>1, <3>2, Zenon
  <2>10. ASSUME None
         PROVE  Matches(output[1], usable, iteration)
    <3>1. output[1].error # ""
      <4> DEFINE failed == Failed("no ephemeris")
      <4>1. failed.error = "no ephemeris"
        BY DEF Failed
      <4> HIDE DEF failed
      <4>2. output[1] = failed
        BY <2>1, <2>10 DEF failed
      <4>3. QED BY <4>1, <4>2
    <3>2. usable = {}
      BY <2>10 DEF UsableSatellites
    <3>3. Cardinality(usable) = 0
      BY <3>2, FS_EmptySet
    <3> HIDE DEF usable
    <3>4. ~(Cardinality(usable) >= 4)
      BY <3>3
    <3>5. QED BY <3>1, <3>4 DEF Matches
  <2>11. Matches(output[1], usable, iteration)
    BY <2>6, <2>7, <2>9, <2>10
  <2>12. QED
    <3>1. /\ ToSet(signals) = {signals[i] : i \in DOMAIN signals}
          /\ ToSet(ephs) = {ephs[i] : i \in DOMAIN ephs}
      BY DEF ToSet
    <3>2. usable = {m \in ToSet(signals) : SatelliteOf(m) \in ToSet(ephs)}
      BY <3>1 DEF UsableSatellites
    <3>3. QED BY <2>11, <3>2, Zenon DEF SatellitesMatched, Matches, SatelliteOf, asked
<1>2. QED BY <1>1, ResultsAlways, PTL
=============================================================================
