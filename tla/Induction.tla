------------------------------- MODULE Induction -------------------------------
(***************************************************************************)
(* Induction over the natural numbers for sets, since the provers cannot   *)
(* instantiate the library's theorems about predicates; what it gives for  *)
(* Min and Max; a function defined by recursion over 0 .. N; and one        *)
(* defined by recursion along a measure.                                   *)
(***************************************************************************)
EXTENDS Integers, FiniteSetsExt, WellFoundedInduction, TLAPS

(* A non-empty set of naturals has a least element, and Min returns it.    *)
LEMMA MinIsLeast ==
  ASSUME NEW S \in SUBSET Nat, S # {}
  PROVE  Min(S) \in S /\ \A y \in S : Min(S) <= y
<1>. DEFINE R == {ss \in Nat \X Nat : ss[1] < ss[2]}
<1>1. IsWellFoundedOn(R, Nat)
  BY NatLessThanWellFounded DEF OpToRel
<1>2. \A x, y \in Nat : y < x => <<y, x>> \in R
  OBVIOUS
<1>. HIDE DEF R
<1>3. PICK x \in S : \A y \in S : <<y, x>> \notin R
  BY <1>1, WFMin
<1>4. \A y \in S : x <= y
  <2>. TAKE y \in S
  <2>1. ~(y < x)
    BY <1>2, <1>3
  <2>. QED BY <2>1
<1>. QED BY <1>3, <1>4 DEF Min

(* A set of naturals with 0 and every successor has them all.              *)
LEMMA SetInduction ==
  ASSUME NEW S, 0 \in S, \A n \in Nat : n \in S => n + 1 \in S
  PROVE  \A n \in Nat : n \in S
<1>. DEFINE T == {n \in Nat : n \notin S}
<1>. SUFFICES ASSUME T # {} PROVE FALSE
  OBVIOUS
<1>1. Min(T) \in T /\ \A y \in T : Min(T) <= y
  BY MinIsLeast
<1>. DEFINE m == Min(T)
<1>. HIDE DEF m
<1>2. m \in Nat /\ m \notin S /\ m # 0 /\ m - 1 \in Nat
  BY <1>1 DEF m
<1>3. m - 1 \in S
  BY <1>1, <1>2 DEF m
<1>4. (m - 1) + 1 = m
  BY <1>2
<1>. QED BY <1>2, <1>3, <1>4

(* The same up to a bound.                                                 *)
LEMMA BoundedInduction ==
  ASSUME NEW N \in Nat, NEW S, 0 \in S, \A n \in 1 .. N : n - 1 \in S => n \in S
  PROVE  \A n \in 0 .. N : n \in S
<1>. DEFINE T == {n \in Nat : n <= N => n \in S}
<1>1. 0 \in T
  OBVIOUS
<1>2. \A n \in Nat : n \in T => n + 1 \in T
  <2>. TAKE n \in Nat
  <2>. SUFFICES ASSUME n \in T, n + 1 <= N PROVE n + 1 \in S
    OBVIOUS
  <2>1. n \in S /\ n + 1 \in 1 .. N /\ (n + 1) - 1 = n
    OBVIOUS
  <2>. QED BY <2>1
<1>3. \A n \in Nat : n \in T
  <2>. HIDE DEF T
  <2>. QED BY <1>1, <1>2, SetInduction
<1>. QED BY <1>3

(* A set of naturals with a bound has a greatest element, which Max returns. *)
LEMMA MaxIsGreatest ==
  ASSUME NEW N \in Nat, NEW S \in SUBSET (0 .. N), S # {}
  PROVE  Max(S) \in S /\ \A y \in S : Max(S) >= y
<1>. DEFINE T == {N - x : x \in S}
<1>1. T \in SUBSET Nat /\ T # {}
  <2>1. \A x \in S : N - x \in Nat
    OBVIOUS
  <2>2. PICK x \in S : TRUE
    OBVIOUS
  <2>3. N - x \in T
    OBVIOUS
  <2>. QED BY <2>1, <2>3
<1>2. PICK t \in T : \A y \in T : t <= y
  BY <1>1, MinIsLeast
<1>3. PICK x \in S : t = N - x
  OBVIOUS
<1>4. \A y \in S : x >= y
  <2>. TAKE y \in S
  <2>1. N - x <= N - y
    BY <1>2, <1>3
  <2>. QED BY <2>1
<1>. QED BY <1>4 DEF Max

(* g is base and then, step by step, what step[n] makes of the value before. *)
Iterates(g, N, S, base, step) ==
  /\ \A n \in 0 .. N : g[n] \in S
  /\ g[0] = base
  /\ \A n \in 1 .. N : g[n] = step[n][g[n - 1]]

(* Recursion over 0 .. N has a solution.                                   *)
LEMMA Iteration ==
  ASSUME NEW N \in Nat, NEW S, NEW base \in S, NEW step \in [1 .. N -> [S -> S]]
  PROVE  \E g : Iterates(g, N, S, base, step)
<1>. DEFINE Good(n, g) == g[0] = base /\ \A i \in 1 .. n : g[i] = step[i][g[i - 1]]
            T == {n \in 0 .. N : \E g \in [0 .. n -> S] : Good(n, g)}
<1>1. 0 \in T
  <2>. DEFINE g == [i \in 0 .. 0 |-> base]
  <2>1. g \in [0 .. 0 -> S] /\ Good(0, g)
    OBVIOUS
  <2>. HIDE DEF g, Good
  <2>. QED BY <2>1
<1>2. \A n \in 1 .. N : n - 1 \in T => n \in T
  <2>. SUFFICES ASSUME NEW n \in 1 .. N, n - 1 \in T PROVE n \in T
    OBVIOUS
  <2>1. PICK g \in [0 .. n - 1 -> S] : Good(n - 1, g)
    OBVIOUS
  <2>. DEFINE h == [i \in 0 .. n |-> IF i = n THEN step[n][g[n - 1]] ELSE g[i]]
  <2>2. step[n] \in [S -> S] /\ g[n - 1] \in S
    OBVIOUS
  <2>3. h \in [0 .. n -> S]
    BY <2>2
  <2>4. ASSUME NEW i \in 1 .. n
        PROVE  h[i] = step[i][h[i - 1]]
    <3>1. h[i - 1] = g[i - 1]
      OBVIOUS
    <3>2. CASE i = n
      BY <3>1, <3>2
    <3>3. CASE i # n
      <4>1. i \in 1 .. n - 1 /\ h[i] = g[i]
        BY <3>3
      <4>. QED BY <4>1, <3>1, <2>1
    <3>. QED BY <3>2, <3>3
  <2>5. Good(n, h)
    <3>1. h[0] = base
      BY <2>1
    <3>. QED BY <3>1, <2>4
  <2>. HIDE DEF h, Good
  <2>. QED BY <2>3, <2>5
<1>3. N \in T
  <2>. HIDE DEF T
  <2>1. \A n \in 0 .. N : n \in T
    BY <1>1, <1>2, BoundedInduction
  <2>. QED BY <2>1
<1>. QED BY <1>3 DEF Iterates

(* g is base and then, for ever, what next makes of the value before.      *)
Repeats(g, S, base, next) ==
  /\ \A n \in Nat : g[n] \in S
  /\ g[0] = base
  /\ \A n \in Nat : g[n + 1] = next[g[n]]

(* The values of a repeated step, all of them.                             *)
LEMMA Repetition ==
  ASSUME NEW S, NEW base \in S, NEW next \in [S -> S]
  PROVE  \E g : Repeats(g, S, base, next)
<1>. DEFINE step(N) == [n \in 1 .. N |-> next]
            G(N) == CHOOSE g : Iterates(g, N, S, base, step(N))
            h == [n \in Nat |-> G(n)[n]]
<1>1. ASSUME NEW N \in Nat
      PROVE  Iterates(G(N), N, S, base, step(N))
  <2>1. step(N) \in [1 .. N -> [S -> S]]
    OBVIOUS
  <2>. HIDE DEF step
  <2>2. \E g : Iterates(g, N, S, base, step(N))
    BY <2>1, Iteration
  <2>. QED BY <2>2
<1>. HIDE DEF G
<1>2. ASSUME NEW N \in Nat
      PROVE  /\ \A n \in 0 .. N : G(N)[n] \in S
             /\ G(N)[0] = base
             /\ \A n \in 1 .. N : G(N)[n] = next[G(N)[n - 1]]
  BY <1>1 DEF Iterates
<1>3. ASSUME NEW N \in Nat
      PROVE  G(N + 1)[N] = G(N)[N]
  <2>. DEFINE T == {n \in 0 .. N : G(N + 1)[n] = G(N)[n]}
  <2>1. 0 \in T
    BY <1>2
  <2>2. \A n \in 1 .. N : n - 1 \in T => n \in T
    <3>. SUFFICES ASSUME NEW n \in 1 .. N, n - 1 \in T PROVE n \in T
      OBVIOUS
    <3>1. n \in 1 .. N + 1 /\ N + 1 \in Nat
      OBVIOUS
    <3>. QED BY <3>1, <1>2
  <2>3. \A n \in 0 .. N : n \in T
    <3>. HIDE DEF T
    <3>. QED BY <2>1, <2>2, BoundedInduction
  <2>. QED BY <2>3
<1>4. \A n \in Nat : h[n] \in S
  BY <1>2
<1>5. ASSUME NEW n \in Nat
      PROVE  h[n + 1] = next[h[n]]
  <2>1. n + 1 \in Nat /\ n + 1 \in 1 .. n + 1 /\ (n + 1) - 1 = n
    OBVIOUS
  <2>2. G(n + 1)[n + 1] = next[G(n + 1)[n]]
    BY <1>2, <2>1
  <2>. QED BY <2>1, <2>2, <1>3
<1>6. h[0] = base
  BY <1>2
<1>. HIDE DEF h
<1>. QED BY <1>4, <1>5, <1>6 DEF Repeats

(* The value next gives a function at d depends only on the function's     *)
(* values at arguments of a smaller measure.                               *)
Descends(next, D, R, m) ==
  /\ m \in [D -> Nat]
  /\ next \in [[D -> R] -> [D -> R]]
  /\ \A f, g \in [D -> R] : \A d \in D :
       (\A e \in D : m[e] < m[d] => f[e] = g[e]) => next[f][d] = next[g][d]

IsFixed(f, next, D, R) == f \in [D -> R] /\ f = next[f]

(* Then a function may be defined by next from itself.                     *)
LEMMA Recursion ==
  ASSUME NEW D, NEW R, NEW m, NEW next, Descends(next, D, R, m), R # {}
  PROVE  \E f : IsFixed(f, next, D, R)
<1>. USE DEF Descends
<1>. PICK r \in R : TRUE
  OBVIOUS
<1>. DEFINE base == [d \in D |-> r]
<1>1. PICK g : /\ \A n \in Nat : g[n] \in [D -> R]
               /\ g[0] = base
               /\ \A n \in Nat : g[n + 1] = next[g[n]]
  <2>. DEFINE S == [D -> R]
  <2>1. base \in S /\ next \in [S -> S]
    OBVIOUS
  <2>. HIDE DEF S
  <2>2. \E g : Repeats(g, S, base, next)
    BY <2>1, Repetition
  <2>. QED BY <2>2 DEF S, Repeats
<1>. DEFINE Stable(n) == \A k \in Nat : \A d \in D : m[d] < n => g[n + k][d] = g[n][d]
            T == {n \in Nat : Stable(n)}
<1>2. 0 \in T
  OBVIOUS
<1>3. \A n \in Nat : n \in T => n + 1 \in T
  <2>. SUFFICES ASSUME NEW n \in Nat, Stable(n) PROVE Stable(n + 1)
    <3>. HIDE DEF Stable
    <3>. QED OBVIOUS
  <2>. SUFFICES ASSUME NEW k \in Nat, NEW d \in D, m[d] < n + 1
                PROVE  g[(n + 1) + k][d] = g[n + 1][d]
    OBVIOUS
  <2>1. n + k \in Nat /\ (n + 1) + k = (n + k) + 1
    OBVIOUS
  <2>2. g[n + k] \in [D -> R] /\ g[n] \in [D -> R]
    BY <2>1, <1>1
  <2>3. \A e \in D : m[e] < m[d] => g[n + k][e] = g[n][e]
    OBVIOUS
  <2>4. next[g[n + k]][d] = next[g[n]][d]
    <3>. DEFINE u == g[n + k]
                v == g[n]
    <3>1. u \in [D -> R] /\ v \in [D -> R] /\ \A e \in D : m[e] < m[d] => u[e] = v[e]
      BY <2>2, <2>3
    <3>. HIDE DEF u, v
    <3>2. next[u][d] = next[v][d]
      BY <3>1
    <3>. QED BY <3>2 DEF u, v
  <2>5. g[(n + 1) + k] = next[g[n + k]] /\ g[n + 1] = next[g[n]]
    BY <2>1, <1>1
  <2>. QED BY <2>4, <2>5
<1>4. \A n \in Nat : n \in T
  <2>. HIDE DEF T
  <2>. QED BY <1>2, <1>3, SetInduction
<1>. DEFINE f == [d \in D |-> g[m[d] + 1][d]]
<1>5. f \in [D -> R]
  BY <1>1
<1>6. ASSUME NEW d \in D
      PROVE  f[d] = next[f][d]
  <2>1. m[d] \in Nat /\ f[d] = next[g[m[d]]][d]
    BY <1>1
  <2>2. ASSUME NEW e \in D, m[e] < m[d]
        PROVE  f[e] = g[m[d]][e]
    <3>1. m[e] + 1 \in T
      BY <1>4
    <3>2. PICK k \in Nat : m[d] = (m[e] + 1) + k
      <4>1. m[d] - (m[e] + 1) \in Nat
        BY <2>2
      <4>. QED BY <4>1
    <3>. QED BY <3>1, <3>2
  <2>3. next[f][d] = next[g[m[d]]][d]
    <3>. HIDE DEF f
    <3>. QED BY <2>1, <2>2, <1>1, <1>5
  <2>. QED BY <2>1, <2>3
<1>7. f = next[f]
  <2>. HIDE DEF f
  <2>. QED BY <1>5, <1>6
<1>. HIDE DEF f
<1>. QED BY <1>5, <1>7 DEF IsFixed

(* The common case: the value at n > 0 comes from the value at n - 1.      *)
StepsUp(next, R) ==
  /\ next \in [[Nat -> R] -> [Nat -> R]]
  /\ \A f, g \in [Nat -> R] : \A n \in Nat :
       n = 0 \/ f[n - 1] = g[n - 1] => next[f][n] = next[g][n]

(* Such a function may be defined.                                         *)
LEMMA PrimitiveRecursion ==
  ASSUME NEW R, NEW next, StepsUp(next, R), R # {}
  PROVE  \E f : IsFixed(f, next, Nat, R)
<1>. DEFINE m == [n \in Nat |-> n]
<1>1. m \in [Nat -> Nat] /\ next \in [[Nat -> R] -> [Nat -> R]]
  BY DEF StepsUp
<1>2. ASSUME NEW f \in [Nat -> R], NEW g \in [Nat -> R], NEW n \in Nat,
             \A e \in Nat : m[e] < m[n] => f[e] = g[e]
      PROVE  next[f][n] = next[g][n]
  <2>1. n # 0 => n - 1 \in Nat /\ m[n - 1] < m[n]
    OBVIOUS
  <2>2. n = 0 \/ f[n - 1] = g[n - 1]
    BY <1>2, <2>1
  <2>. QED BY <2>2 DEF StepsUp
<1>3. Descends(next, Nat, R, m)
  <2>. HIDE DEF m
  <2>. QED BY <1>1, <1>2 DEF Descends
<1>. QED BY <1>3, Recursion
================================================================================
