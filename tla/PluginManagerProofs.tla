-------------------------- MODULE PluginManagerProofs --------------------------
(***************************************************************************)
(* Proofs about PluginManager, for every number of plugins, phases and     *)
(* functions and every description of the plugins: the sort finds a valid  *)
(* order exactly when there is one, and no plugin is ever up while one it  *)
(* depends on was never started or is shut down.                           *)
(***************************************************************************)
EXTENDS PluginManager, Induction, FiniteSetTheorems, SequenceTheorems

(* What the sort reads: registered plugins and their descriptions.         *)
Registry ==
  /\ manifest \in [Libs -> Description]
  /\ plugins \in Seq([lib : Libs, gen : Nat])

LEMMA RegistryFacts ==
  ASSUME Registry
  PROVE  /\ Len(plugins) \in Nat
         /\ Indices = 1 .. Len(plugins)
         /\ \A i \in Indices : /\ Of(i) \in Description
                               /\ Of(i).phase \in 0 .. Phases - 1
                               /\ Deps(i) \subseteq Indices
<1>1. Len(plugins) \in Nat /\ Indices = 1 .. Len(plugins)
  BY DEF Registry, Indices
<1>2. ASSUME NEW i \in Indices
      PROVE  Of(i) \in Description /\ Of(i).phase \in 0 .. Phases - 1
  <2>1. plugins[i] \in [lib : Libs, gen : Nat]
    BY <1>1, ElementOfSeq DEF Registry
  <2>2. manifest[plugins[i].lib] \in Description
    BY <2>1 DEF Registry
  <2>. QED BY <2>2 DEF Of, Description
<1>3. ASSUME NEW i \in Indices
      PROVE  Deps(i) \subseteq Indices
  BY DEF Deps, Find
<1>. QED BY <1>1, <1>2, <1>3

-------------------------------------------------------------------------------
(* The inner loop.                                                         *)

(* s continues order with ready indices up to n, ascending, leaving out    *)
(* none.                                                                   *)
Continues(order, ready, n, s) ==
  /\ s \in Seq(Indices)
  /\ Len(order) <= Len(s)
  /\ \A x \in 1 .. Len(order) : s[x] = order[x]
  /\ \A x \in Len(order) + 1 .. Len(s) : s[x] \in ready /\ s[x] <= n
  /\ \A x, y \in Len(order) + 1 .. Len(s) : x < y => s[x] < s[y]
  /\ \A i \in ready : i <= n => \E x \in Len(order) + 1 .. Len(s) : s[x] = i

LEMMA AppendedStep ==
  ASSUME Registry, NEW order \in Seq(Indices), NEW ready \in SUBSET Indices,
         NEW n \in Indices, NEW s, Continues(order, ready, n - 1, s)
  PROVE  Continues(order, ready, n, IF n \in ready THEN Append(s, n) ELSE s)
<1>1. Len(plugins) \in Nat /\ Indices = 1 .. Len(plugins) /\ n \in Nat \ {0}
  BY RegistryFacts
<1>2. /\ s \in Seq(Indices) /\ Len(s) \in Nat /\ Len(order) \in Nat
      /\ Len(order) <= Len(s)
  BY DEF Continues
<1>3. CASE n \in ready
  <2>. DEFINE t == Append(s, n)
  <2>1. /\ t \in Seq(Indices) /\ Len(t) = Len(s) + 1
        /\ \A x \in 1 .. Len(s) : t[x] = s[x]
        /\ t[Len(s) + 1] = n
    BY <1>2
  <2>. HIDE DEF t
  <2>2. /\ Len(order) <= Len(t)
        /\ \A x \in 1 .. Len(order) : t[x] = order[x]
    BY <2>1, <1>2 DEF Continues
  <2>3. \A x \in Len(order) + 1 .. Len(t) : t[x] \in ready /\ t[x] <= n
    <3>. TAKE x \in Len(order) + 1 .. Len(t)
    <3>1. CASE x = Len(s) + 1
      BY <3>1, <2>1, <1>1, <1>3
    <3>2. CASE x # Len(s) + 1
      <4>1. x \in Len(order) + 1 .. Len(s) /\ x \in 1 .. Len(s)
        BY <3>2, <2>1, <1>2
      <4>2. t[x] = s[x] /\ s[x] \in ready /\ s[x] <= n - 1 /\ s[x] \in Nat
        BY <4>1, <2>1, <1>1 DEF Continues
      <4>. QED BY <4>2, <1>1
    <3>. QED BY <3>1, <3>2
  <2>4. \A x, y \in Len(order) + 1 .. Len(t) : x < y => t[x] < t[y]
    <3>. SUFFICES ASSUME NEW x \in Len(order) + 1 .. Len(t),
                         NEW y \in Len(order) + 1 .. Len(t), x < y
                  PROVE  t[x] < t[y]
      OBVIOUS
    <3>1. x \in Len(order) + 1 .. Len(s) /\ x \in 1 .. Len(s)
      BY <2>1, <1>2
    <3>2. t[x] = s[x] /\ s[x] <= n - 1 /\ s[x] \in Nat
      <4>1. s[x] \in ready /\ s[x] <= n - 1
        BY <3>1 DEF Continues
      <4>. QED BY <4>1, <3>1, <2>1, <1>1
    <3>3. CASE y = Len(s) + 1
      BY <3>3, <3>2, <2>1, <1>1
    <3>4. CASE y # Len(s) + 1
      <4>1. y \in Len(order) + 1 .. Len(s) /\ y \in 1 .. Len(s)
        BY <3>4, <2>1, <1>2
      <4>. QED BY <4>1, <3>1, <2>1 DEF Continues
    <3>. QED BY <3>3, <3>4
  <2>5. \A i \in ready : i <= n => \E x \in Len(order) + 1 .. Len(t) : t[x] = i
    <3>. SUFFICES ASSUME NEW i \in ready, i <= n
                  PROVE  \E x \in Len(order) + 1 .. Len(t) : t[x] = i
      OBVIOUS
    <3>1. CASE i = n
      BY <3>1, <2>1, <1>2
    <3>2. CASE i # n
      <4>1. i <= n - 1
        BY <3>2, <1>1
      <4>2. PICK x \in Len(order) + 1 .. Len(s) : s[x] = i
        BY <4>1 DEF Continues
      <4>3. x \in 1 .. Len(s) /\ x \in Len(order) + 1 .. Len(t)
        BY <2>1, <1>2
      <4>. QED BY <4>2, <4>3, <2>1
    <3>. QED BY <3>1, <3>2
  <2>6. Continues(order, ready, n, t)
    BY <2>1, <2>2, <2>3, <2>4, <2>5 DEF Continues
  <2>. QED BY <2>6, <1>3 DEF t
<1>4. CASE n \notin ready
  <2>1. \A i \in ready : i <= n => i <= n - 1
    BY <1>1, <1>4
  <2>2. \A x \in Len(order) + 1 .. Len(s) : s[x] \in ready /\ s[x] <= n
    <3>. TAKE x \in Len(order) + 1 .. Len(s)
    <3>1. s[x] \in ready /\ s[x] <= n - 1 /\ s[x] \in Nat
      BY <1>1 DEF Continues
    <3>. QED BY <3>1, <1>1
  <2>3. \A i \in ready : i <= n => \E x \in Len(order) + 1 .. Len(s) : s[x] = i
    BY <2>1 DEF Continues
  <2>4. Continues(order, ready, n, s)
    BY <2>2, <2>3 DEF Continues
  <2>. QED BY <2>4, <1>4
<1>. QED BY <1>3, <1>4

LEMMA AppendedIsRecursion ==
  ASSUME Registry, NEW order \in Seq(Indices), NEW ready \in SUBSET Indices
  PROVE  \E after : /\ Appended(order, ready) = after[Len(plugins)]
                    /\ after[0] = order
                    /\ \A n \in Indices :
                         after[n] = IF n \in ready THEN Append(after[n - 1], n) ELSE after[n - 1]
<1>. DEFINE N == Len(plugins)
            Rhs(f) == [n \in 0 .. N |->
                         IF n = 0 THEN order
                         ELSE IF n \in ready THEN Append(f[n - 1], n) ELSE f[n - 1]]
            step == [n \in 1 .. N |-> [s \in Seq(Indices) |->
                        IF n \in ready THEN Append(s, n) ELSE s]]
            after == CHOOSE f : f = Rhs(f)
<1>1. N \in Nat /\ Indices = 1 .. N
  BY RegistryFacts
<1>. DEFINE S == Seq(Indices)
<1>2. step \in [1 .. N -> [S -> S]]
  <2>1. \A n \in 1 .. N, s \in Seq(Indices) : Append(s, n) \in Seq(Indices)
    BY <1>1
  <2>. QED BY <2>1
<1>3. PICK g : Iterates(g, N, S, order, step)
  <2>1. order \in S /\ N \in Nat
    BY <1>1
  <2>. HIDE DEF step, S, N
  <2>. QED BY <1>2, <2>1, Iteration
<1>. DEFINE h == [n \in 0 .. N |-> g[n]]
<1>4. h = Rhs(h)
  <2>1. ASSUME NEW n \in 0 .. N
        PROVE  h[n] = Rhs(h)[n]
    <3>1. CASE n = 0
      BY <3>1, <1>3 DEF Iterates
    <3>2. CASE n # 0
      <4>1. n \in 1 .. N /\ n - 1 \in 0 .. N
        BY <3>2, <1>1
      <4>2. g[n - 1] \in Seq(Indices) /\ h[n - 1] = g[n - 1] /\ h[n] = step[n][g[n - 1]]
        BY <4>1, <1>3 DEF Iterates
      <4>. QED BY <3>2, <4>1, <4>2
    <3>. QED BY <3>1, <3>2
  <2>. QED BY <2>1
<1>5. after = Rhs(after)
  <2>. HIDE DEF Rhs
  <2>. QED BY <1>4
<1>6. Appended(order, ready) = after[N]
  BY DEF Appended
<1>7. /\ after[0] = order
      /\ \A n \in Indices :
           after[n] = IF n \in ready THEN Append(after[n - 1], n) ELSE after[n - 1]
  <2>. HIDE DEF after
  <2>1. after = [n \in 0 .. N |->
                   IF n = 0 THEN order
                   ELSE IF n \in ready THEN Append(after[n - 1], n) ELSE after[n - 1]]
    BY <1>5 DEF Rhs
  <2>2. 0 \in 0 .. N /\ \A n \in 1 .. N : n # 0 /\ n \in 0 .. N
    BY <1>1
  <2>. HIDE DEF N
  <2>3. after[0] = order
    BY <2>1, <2>2
  <2>4. \A n \in 1 .. N :
          after[n] = IF n \in ready THEN Append(after[n - 1], n) ELSE after[n - 1]
    BY <2>1, <2>2
  <2>. QED BY <2>3, <2>4, <1>1
<1>. HIDE DEF after
<1>. QED BY <1>6, <1>7

LEMMA AppendedContinues ==
  ASSUME Registry, NEW order \in Seq(Indices), NEW ready \in SUBSET Indices
  PROVE  Continues(order, ready, Len(plugins), Appended(order, ready))
<1>. DEFINE N == Len(plugins)
<1>1. N \in Nat /\ Indices = 1 .. N
  BY RegistryFacts
<1>2. PICK after : /\ Appended(order, ready) = after[N]
                   /\ after[0] = order
                   /\ \A n \in Indices :
                        after[n] = IF n \in ready THEN Append(after[n - 1], n) ELSE after[n - 1]
  BY AppendedIsRecursion
<1>. DEFINE T == {n \in 0 .. N : Continues(order, ready, n, after[n])}
<1>3. 0 \in T
  <2>1. Len(order) \in Nat /\ \A i \in ready : ~(i <= 0)
    BY <1>1
  <2>2. Continues(order, ready, 0, order)
    BY <2>1 DEF Continues
  <2>. QED BY <2>2, <1>1, <1>2
<1>4. ASSUME NEW n \in 1 .. N, n - 1 \in T
      PROVE  n \in T
  <2>1. Continues(order, ready, n - 1, after[n - 1]) /\ n \in Indices
    BY <1>1, <1>4
  <2>2. Continues(order, ready, n, after[n])
    BY <2>1, <1>2, AppendedStep
  <2>. QED BY <2>2
<1>5. \A n \in 0 .. N : n \in T
  <2>1. N \in Nat
    BY <1>1
  <2>. HIDE DEF T, N
  <2>. QED BY <2>1, <1>3, <1>4, BoundedInduction
<1>. QED BY <1>1, <1>2, <1>5

-------------------------------------------------------------------------------
(* One pass.                                                               *)

Waiting(order, p) == {i \in Indices : Of(i).phase = p /\ i \notin ToSet(order)}

Ready(order, p) == {i \in Waiting(order, p) : Deps(i) \subseteq ToSet(order)}

(* Part of a valid order, of plugins of phases up to p.                    *)
Sound(order, p) ==
  /\ order \in Seq(Indices)
  /\ \A x, y \in 1 .. Len(order) : order[x] = order[y] => x = y
  /\ \A x, y \in 1 .. Len(order) : x < y => Of(order[x]).phase <= Of(order[y]).phase
  /\ \A x \in 1 .. Len(order) : Of(order[x]).phase <= p
  /\ \A y \in 1 .. Len(order) : \A d \in Deps(order[y]) : \E x \in 1 .. y - 1 : order[x] = d

Extends(order, s) ==
  /\ Len(order) <= Len(s)
  /\ \A x \in 1 .. Len(order) : s[x] = order[x]

LEMMA Members ==
  ASSUME NEW S, NEW s \in Seq(S)
  PROVE  /\ \A x \in 1 .. Len(s) : s[x] \in ToSet(s) /\ s[x] \in S
         /\ \A i \in ToSet(s) : \E x \in 1 .. Len(s) : s[x] = i
         /\ ToSet(s) \subseteq S
<1>1. DOMAIN s = 1 .. Len(s) /\ \A x \in 1 .. Len(s) : s[x] \in S
  BY ElementOfSeq
<1>. QED BY <1>1 DEF ToSet

LEMMA ExtendsMembers ==
  ASSUME NEW S, NEW order \in Seq(S), NEW s \in Seq(S), Extends(order, s)
  PROVE  ToSet(order) \subseteq ToSet(s)
<1>. SUFFICES ASSUME NEW i \in ToSet(order)
              PROVE  i \in ToSet(s)
  OBVIOUS
<1>1. PICK x \in 1 .. Len(order) : order[x] = i
  BY Members
<1>2. x \in 1 .. Len(s) /\ s[x] = i
  BY <1>1 DEF Extends
<1>. QED BY <1>2, Members

LEMMA SoundLater ==
  ASSUME NEW order, NEW p \in Int, Registry, Sound(order, p - 1)
  PROVE  Sound(order, p)
<1>1. \A x \in 1 .. Len(order) : Of(order[x]).phase \in 0 .. Phases - 1
  BY RegistryFacts, ElementOfSeq DEF Sound
<1>2. Phases \in Nat
  BY PluginAssumption
<1>3. \A x \in 1 .. Len(order) : Of(order[x]).phase <= p
  BY <1>1, <1>2 DEF Sound
<1>. QED BY <1>3 DEF Sound

(* A pass continues a sound order with all that is ready.                  *)
LEMMA PassSound ==
  ASSUME Registry, NEW p \in Int, NEW order, Sound(order, p)
  PROVE  /\ Sound(Pass(order, p), p)
         /\ Extends(order, Pass(order, p))
         /\ Ready(order, p) # {} => Len(Pass(order, p)) > Len(order)
<1>. DEFINE r == Pass(order, p)
            L == Len(order)
            ready == Ready(order, p)
<1>1. /\ order \in Seq(Indices) /\ L \in Nat
      /\ ready \in SUBSET Indices
  BY DEF Sound, Ready, Waiting
<1>2. Continues(order, ready, Len(plugins), r)
  <2>1. r = Appended(order, ready)
    BY DEF Pass, Ready, Waiting
  <2>. HIDE DEF r, ready
  <2>. QED BY <2>1, <1>1, AppendedContinues
<1>3. /\ r \in Seq(Indices) /\ L <= Len(r) /\ Len(r) \in Nat
      /\ \A x \in 1 .. L : r[x] = order[x]
      /\ \A x \in L + 1 .. Len(r) : r[x] \in ready
      /\ \A x, y \in L + 1 .. Len(r) : x < y => r[x] < r[y]
      /\ \A i \in ready : \E x \in L + 1 .. Len(r) : r[x] = i
  <2>1. \A i \in ready : i <= Len(plugins)
    BY <1>1, RegistryFacts
  <2>2. /\ r \in Seq(Indices) /\ L <= Len(r)
        /\ \A x \in 1 .. L : r[x] = order[x]
        /\ \A x \in L + 1 .. Len(r) : r[x] \in ready
        /\ \A x, y \in L + 1 .. Len(r) : x < y => r[x] < r[y]
    BY <1>2 DEF Continues
  <2>3. \A i \in ready : \E x \in L + 1 .. Len(r) : r[x] = i
    <3>. HIDE DEF ready
    <3>. QED BY <1>2, <2>1 DEF Continues
  <2>. QED BY <2>2, <2>3
<1>4. \A i \in ready : /\ i \in Indices /\ Of(i).phase = p /\ i \notin ToSet(order)
                       /\ Deps(i) \subseteq ToSet(order)
  BY DEF Ready, Waiting
<1>5. \A x \in 1 .. L : order[x] \in ToSet(order)
  BY <1>1, Members
<1>6. /\ \A x, y \in 1 .. L : order[x] = order[y] => x = y
      /\ \A x, y \in 1 .. L : x < y => Of(order[x]).phase <= Of(order[y]).phase
      /\ \A x \in 1 .. L : Of(order[x]).phase <= p
      /\ \A y \in 1 .. L : \A d \in Deps(order[y]) : \E x \in 1 .. y - 1 : order[x] = d
  BY DEF Sound
<1>7. \A x \in 1 .. Len(r) : x \in 1 .. L \/ x \in L + 1 .. Len(r)
  BY <1>1, <1>3
<1>8. \A x \in 1 .. Len(r) : r[x] \in Nat
  BY <1>3, ElementOfSeq, RegistryFacts
<1>. HIDE DEF r, L, ready
<1>9. \A x, y \in 1 .. Len(r) : r[x] = r[y] => x = y
  <2>. SUFFICES ASSUME NEW x \in 1 .. Len(r), NEW y \in 1 .. Len(r), r[x] = r[y]
                PROVE  x = y
    OBVIOUS
  <2>1. CASE x \in 1 .. L /\ y \in 1 .. L
    BY <2>1, <1>3, <1>6
  <2>2. CASE x \in L + 1 .. Len(r) /\ y \in L + 1 .. Len(r)
    <3>1. ~(x < y) /\ ~(y < x)
      BY <2>2, <1>3, <1>8
    <3>. QED BY <3>1
  <2>3. CASE x \in 1 .. L /\ y \in L + 1 .. Len(r)
    BY <2>3, <1>3, <1>4, <1>5
  <2>4. CASE x \in L + 1 .. Len(r) /\ y \in 1 .. L
    BY <2>4, <1>3, <1>4, <1>5
  <2>. QED BY <2>1, <2>2, <2>3, <2>4, <1>7
<1>10. \A x \in 1 .. Len(r) : Of(r[x]).phase <= p
  <2>. TAKE x \in 1 .. Len(r)
  <2>1. CASE x \in 1 .. L
    BY <2>1, <1>3, <1>6
  <2>2. CASE x \in L + 1 .. Len(r)
    BY <2>2, <1>3, <1>4
  <2>. QED BY <2>1, <2>2, <1>7
<1>11. \A x, y \in 1 .. Len(r) : x < y => Of(r[x]).phase <= Of(r[y]).phase
  <2>. SUFFICES ASSUME NEW x \in 1 .. Len(r), NEW y \in 1 .. Len(r), x < y
                PROVE  Of(r[x]).phase <= Of(r[y]).phase
    OBVIOUS
  <2>1. CASE y \in 1 .. L
    <3>1. x \in 1 .. L
      BY <2>1, <1>1 DEF L
    <3>. QED BY <2>1, <3>1, <1>3, <1>6
  <2>2. CASE y \in L + 1 .. Len(r)
    BY <2>2, <1>3, <1>4, <1>10
  <2>. QED BY <2>1, <2>2, <1>7
<1>12. \A y \in 1 .. Len(r) : \A d \in Deps(r[y]) : \E x \in 1 .. y - 1 : r[x] = d
  <2>. SUFFICES ASSUME NEW y \in 1 .. Len(r), NEW d \in Deps(r[y])
                PROVE  \E x \in 1 .. y - 1 : r[x] = d
    OBVIOUS
  <2>1. CASE y \in 1 .. L
    <3>1. PICK x \in 1 .. y - 1 : order[x] = d
      BY <2>1, <1>3, <1>6
    <3>2. x \in 1 .. L
      BY <2>1, <1>1 DEF L
    <3>. QED BY <3>1, <3>2, <1>3
  <2>2. CASE y \in L + 1 .. Len(r)
    <3>1. d \in ToSet(order)
      BY <2>2, <1>3, <1>4
    <3>2. PICK x \in 1 .. L : order[x] = d
      BY <3>1, <1>1, Members DEF L
    <3>3. x \in 1 .. y - 1
      BY <2>2, <1>1 DEF L
    <3>. QED BY <3>2, <3>3, <1>3
  <2>. QED BY <2>1, <2>2, <1>7
<1>13. Sound(r, p)
  BY <1>3, <1>9, <1>10, <1>11, <1>12 DEF Sound
<1>14. Extends(order, r)
  BY <1>3 DEF Extends, L
<1>15. ready # {} => Len(r) > L
  BY <1>1, <1>3
<1>. QED BY <1>13, <1>14, <1>15 DEF r, L, ready

-------------------------------------------------------------------------------
(* All passes of a phase.                                                  *)

LEMMA PassType ==
  ASSUME Registry, NEW p, NEW order \in Seq(Indices)
  PROVE  Pass(order, p) \in Seq(Indices)
<1>1. Pass(order, p) = Appended(order, Ready(order, p))
  BY DEF Pass, Ready, Waiting
<1>2. Ready(order, p) \in SUBSET Indices
  BY DEF Ready, Waiting
<1>. QED BY <1>1, <1>2, AppendedContinues DEF Continues

LEMMA PassesIsRecursion ==
  ASSUME Registry, NEW p, NEW order \in Seq(Indices)
  PROVE  \E after : /\ Passes(order, p) = after[Len(plugins)]
                    /\ after[0] = order
                    /\ \A n \in 1 .. Len(plugins) : after[n] = Pass(after[n - 1], p)
<1>. DEFINE N == Len(plugins)
            S == Seq(Indices)
            Rhs(f) == [n \in 0 .. N |-> IF n = 0 THEN order ELSE Pass(f[n - 1], p)]
            step == [n \in 1 .. N |-> [s \in S |-> Pass(s, p)]]
            after == CHOOSE f : f = Rhs(f)
<1>1. N \in Nat
  BY RegistryFacts
<1>2. step \in [1 .. N -> [S -> S]]
  <2>1. \A s \in S : Pass(s, p) \in S
    BY PassType
  <2>. QED BY <2>1
<1>3. PICK g : Iterates(g, N, S, order, step)
  <2>1. order \in S /\ N \in Nat
    BY <1>1
  <2>. HIDE DEF step, S, N
  <2>. QED BY <1>2, <2>1, Iteration
<1>. DEFINE h == [n \in 0 .. N |-> g[n]]
<1>4. h = Rhs(h)
  <2>1. ASSUME NEW n \in 0 .. N
        PROVE  h[n] = Rhs(h)[n]
    <3>1. CASE n = 0
      BY <3>1, <1>3 DEF Iterates
    <3>2. CASE n # 0
      <4>1. n \in 1 .. N /\ n - 1 \in 0 .. N
        BY <3>2, <1>1
      <4>2. g[n - 1] \in S /\ h[n - 1] = g[n - 1] /\ h[n] = step[n][g[n - 1]]
        BY <4>1, <1>3 DEF Iterates
      <4>. QED BY <3>2, <4>1, <4>2
    <3>. QED BY <3>1, <3>2
  <2>. QED BY <2>1
<1>5. after = Rhs(after)
  <2>. HIDE DEF Rhs
  <2>. QED BY <1>4
<1>6. Passes(order, p) = after[N]
  BY DEF Passes
<1>7. after[0] = order /\ \A n \in 1 .. N : after[n] = Pass(after[n - 1], p)
  <2>. HIDE DEF after
  <2>1. after = [n \in 0 .. N |-> IF n = 0 THEN order ELSE Pass(after[n - 1], p)]
    BY <1>5 DEF Rhs
  <2>2. 0 \in 0 .. N /\ \A n \in 1 .. N : n # 0 /\ n \in 0 .. N
    BY <1>1
  <2>. HIDE DEF N
  <2>. QED BY <2>1, <2>2
<1>. HIDE DEF after
<1>. QED BY <1>6, <1>7

LEMMA ExtendsFurther ==
  ASSUME NEW S, NEW a \in Seq(S), NEW b \in Seq(S), NEW c \in Seq(S),
         Extends(a, b), Extends(b, c)
  PROVE  Extends(a, c)
<1>1. Len(a) \in Nat /\ Len(b) \in Nat /\ Len(c) \in Nat
  OBVIOUS
<1>2. \A x \in 1 .. Len(a) : x \in 1 .. Len(b)
  BY <1>1 DEF Extends
<1>. QED BY <1>1, <1>2 DEF Extends

LEMMA ExtendsItself ==
  ASSUME NEW S, NEW a \in Seq(S)
  PROVE  Extends(a, a)
BY DEF Extends

LEMMA PassesSound ==
  ASSUME Registry, NEW p \in Int, NEW order, Sound(order, p)
  PROVE  Sound(Passes(order, p), p) /\ Extends(order, Passes(order, p))
<1>. DEFINE N == Len(plugins)
<1>1. N \in Nat /\ order \in Seq(Indices)
  BY RegistryFacts DEF Sound
<1>2. PICK after : /\ Passes(order, p) = after[N]
                   /\ after[0] = order
                   /\ \A n \in 1 .. N : after[n] = Pass(after[n - 1], p)
  BY <1>1, PassesIsRecursion
<1>. DEFINE T == {n \in 0 .. N : Sound(after[n], p) /\ Extends(order, after[n])}
<1>3. 0 \in T
  BY <1>1, <1>2, ExtendsItself
<1>4. ASSUME NEW n \in 1 .. N, n - 1 \in T
      PROVE  n \in T
  <2>1. Sound(after[n - 1], p) /\ Extends(order, after[n - 1])
    BY <1>4
  <2>2. Sound(after[n], p) /\ Extends(after[n - 1], after[n])
    BY <2>1, <1>2, PassSound
  <2>3. after[n - 1] \in Seq(Indices) /\ after[n] \in Seq(Indices)
    BY <2>1, <2>2 DEF Sound
  <2>4. Extends(order, after[n])
    BY <1>1, <2>1, <2>2, <2>3, ExtendsFurther
  <2>. QED BY <2>2, <2>4
<1>5. \A n \in 0 .. N : n \in T
  <2>1. N \in Nat
    BY <1>1
  <2>. HIDE DEF T, N
  <2>. QED BY <2>1, <1>3, <1>4, BoundedInduction
<1>6. Sound(after[N], p) /\ Extends(order, after[N])
  BY <1>1, <1>5
<1>. QED BY <1>2, <1>6

-------------------------------------------------------------------------------
(* All phases.                                                             *)

Accs == [order : Seq(Indices), ok : BOOLEAN]

(* Before phase p: what was sorted so far is sound, and while no phase     *)
(* failed it is all of the earlier phases.                                 *)
SortedBefore(acc, p) ==
  /\ acc \in Accs
  /\ Sound(acc.order, p - 1)
  /\ acc.ok => \A i \in Indices : Of(i).phase < p => i \in ToSet(acc.order)

LEMMA SortPhaseType ==
  ASSUME Registry, NEW p, NEW acc \in Accs
  PROVE  SortPhase(acc, p) \in Accs
<1>1. acc.order \in Seq(Indices) /\ acc.ok \in BOOLEAN
  BY DEF Accs
<1>2. Passes(acc.order, p) \in Seq(Indices)
  <2>. DEFINE N == Len(plugins)
  <2>1. N \in Nat
    BY RegistryFacts
  <2>2. PICK after : /\ Passes(acc.order, p) = after[N]
                     /\ after[0] = acc.order
                     /\ \A n \in 1 .. N : after[n] = Pass(after[n - 1], p)
    BY <1>1, PassesIsRecursion
  <2>. DEFINE T == {n \in 0 .. N : after[n] \in Seq(Indices)}
  <2>3. 0 \in T
    BY <1>1, <2>1, <2>2
  <2>4. ASSUME NEW n \in 1 .. N, n - 1 \in T
        PROVE  n \in T
    BY <2>2, <2>4, PassType
  <2>5. \A n \in 0 .. N : n \in T
    <3>. HIDE DEF T, N
    <3>. QED BY <2>1, <2>3, <2>4, BoundedInduction
  <2>. QED BY <2>1, <2>2, <2>5
<1>3. PhaseDone(Passes(acc.order, p), p) \in BOOLEAN
  BY DEF PhaseDone
<1>. QED BY <1>1, <1>2, <1>3 DEF SortPhase, Accs

LEMMA SortPhaseStep ==
  ASSUME Registry, NEW p \in 0 .. Phases - 1, NEW acc, SortedBefore(acc, p)
  PROVE  SortedBefore(SortPhase(acc, p), p + 1)
<1>. DEFINE a == SortPhase(acc, p)
            order == Passes(acc.order, p)
<1>1. p \in Int /\ (p + 1) - 1 = p
  BY PluginAssumption
<1>2. acc \in Accs /\ a \in Accs
  BY SortPhaseType DEF SortedBefore
<1>3. Sound(acc.order, p)
  BY <1>1, SoundLater DEF SortedBefore
<1>4. Sound(order, p) /\ Extends(acc.order, order)
  BY <1>1, <1>3, PassesSound
<1>5. a = IF acc.ok THEN [order |-> order, ok |-> PhaseDone(order, p)] ELSE acc
  BY DEF SortPhase
<1>6. CASE acc.ok
  <2>1. a.order = order /\ a.ok = PhaseDone(order, p)
    BY <1>5, <1>6
  <2>2. ToSet(acc.order) \subseteq ToSet(order)
    BY <1>3, <1>4, ExtendsMembers DEF Sound
  <2>3. ASSUME a.ok, NEW i \in Indices, Of(i).phase < p + 1
        PROVE  i \in ToSet(order)
    <3>1. CASE Of(i).phase = p
      BY <3>1, <2>1, <2>3 DEF PhaseDone
    <3>2. CASE Of(i).phase # p
      <4>1. Of(i).phase < p
        BY <3>2, <2>3, <1>1, PluginAssumption, RegistryFacts
      <4>. QED BY <4>1, <1>6, <2>2 DEF SortedBefore
    <3>. QED BY <3>1, <3>2
  <2>. QED BY <1>1, <1>2, <1>4, <2>1, <2>3 DEF SortedBefore
<1>7. CASE ~acc.ok
  BY <1>1, <1>2, <1>3, <1>5, <1>7 DEF SortedBefore
<1>. QED BY <1>6, <1>7

LEMMA SortIsRecursion ==
  ASSUME Registry
  PROVE  \E after : /\ Sort = after[Phases]
                    /\ after[0] = [order |-> <<>>, ok |-> TRUE]
                    /\ \A p \in 1 .. Phases : after[p] = SortPhase(after[p - 1], p - 1)
<1>. DEFINE S == Accs
            start == [order |-> <<>>, ok |-> TRUE]
            Rhs(f) == [p \in 0 .. Phases |->
                         IF p = 0 THEN [order |-> <<>>, ok |-> TRUE] ELSE SortPhase(f[p - 1], p - 1)]
            step == [p \in 1 .. Phases |-> [a \in S |-> SortPhase(a, p - 1)]]
            after == CHOOSE f : f = Rhs(f)
<1>1. Phases \in Nat
  BY PluginAssumption
<1>2. step \in [1 .. Phases -> [S -> S]]
  <2>1. \A p \in 1 .. Phases, a \in S : SortPhase(a, p - 1) \in S
    BY SortPhaseType
  <2>. HIDE DEF S
  <2>. QED BY <2>1
<1>3. PICK g : Iterates(g, Phases, S, start, step)
  <2>1. start \in S
    BY DEF Accs
  <2>. HIDE DEF step, S, start
  <2>. QED BY <1>1, <1>2, <2>1, Iteration
<1>. HIDE DEF S
<1>. DEFINE h == [p \in 0 .. Phases |-> g[p]]
<1>4. h = Rhs(h)
  <2>1. ASSUME NEW p \in 0 .. Phases
        PROVE  h[p] = Rhs(h)[p]
    <3>1. CASE p = 0
      BY <3>1, <1>3 DEF Iterates
    <3>2. CASE p # 0
      <4>1. p \in 1 .. Phases /\ p - 1 \in 0 .. Phases
        BY <3>2, <1>1
      <4>2. g[p - 1] \in S /\ h[p - 1] = g[p - 1] /\ h[p] = step[p][g[p - 1]]
        BY <4>1, <1>3 DEF Iterates
      <4>. QED BY <3>2, <4>1, <4>2
    <3>. QED BY <3>1, <3>2
  <2>. QED BY <2>1
<1>5. after = Rhs(after)
  <2>. HIDE DEF Rhs
  <2>. QED BY <1>4
<1>6. Sort = after[Phases]
  BY DEF Sort
<1>7. after[0] = start /\ \A p \in 1 .. Phases : after[p] = SortPhase(after[p - 1], p - 1)
  <2>. HIDE DEF after
  <2>1. after = [p \in 0 .. Phases |->
                   IF p = 0 THEN [order |-> <<>>, ok |-> TRUE] ELSE SortPhase(after[p - 1], p - 1)]
    BY <1>5 DEF Rhs
  <2>2. 0 \in 0 .. Phases /\ \A p \in 1 .. Phases : p # 0 /\ p \in 0 .. Phases
    BY <1>1
  <2>. QED BY <2>1, <2>2
<1>. HIDE DEF after
<1>. QED BY <1>6, <1>7

LEMMA SortIsSortedBefore ==
  ASSUME Registry
  PROVE  SortedBefore(Sort, Phases)
<1>1. Phases \in Nat
  BY PluginAssumption
<1>2. PICK after : /\ Sort = after[Phases]
                   /\ after[0] = [order |-> <<>>, ok |-> TRUE]
                   /\ \A p \in 1 .. Phases : after[p] = SortPhase(after[p - 1], p - 1)
  BY SortIsRecursion
<1>. DEFINE T == {p \in 0 .. Phases : SortedBefore(after[p], p)}
<1>3. 0 \in T
  <2>. DEFINE start == [order |-> <<>>, ok |-> TRUE]
  <2>1. start \in Accs /\ start.order = <<>> /\ Len(start.order) = 0
    BY DEF Accs
  <2>2. Sound(start.order, 0 - 1)
    BY <2>1 DEF Sound
  <2>3. \A i \in Indices : ~(Of(i).phase < 0)
    BY <1>1, RegistryFacts
  <2>. HIDE DEF start
  <2>4. SortedBefore(start, 0)
    BY <2>1, <2>2, <2>3 DEF SortedBefore
  <2>. QED BY <1>1, <1>2, <2>4 DEF start
<1>4. ASSUME NEW p \in 1 .. Phases, p - 1 \in T
      PROVE  p \in T
  <2>1. p - 1 \in 0 .. Phases - 1 /\ (p - 1) + 1 = p
    BY <1>1
  <2>2. SortedBefore(SortPhase(after[p - 1], p - 1), p)
    BY <1>4, <2>1, SortPhaseStep
  <2>. QED BY <1>2, <2>2
<1>5. \A p \in 0 .. Phases : p \in T
  <2>. HIDE DEF T
  <2>. QED BY <1>1, <1>3, <1>4, BoundedInduction
<1>. QED BY <1>1, <1>2, <1>5

-------------------------------------------------------------------------------
(* Sequences of numbers up to N in which none occurs twice.                *)
LEMMA Distinct ==
  ASSUME NEW N \in Nat, NEW s \in Seq(1 .. N),
         \A x, y \in 1 .. Len(s) : s[x] = s[y] => x = y
  PROVE  /\ Len(s) <= N
         /\ Len(s) = N <=> ToSet(s) = 1 .. N
<1>. DEFINE D == 1 .. Len(s)
            R == 1 .. N
<1>0. Len(s) \in Nat
  OBVIOUS
<1>1. IsFiniteSet(D) /\ Cardinality(D) = Len(s)
  <2>. DEFINE L == Len(s)
  <2>0. L \in Nat
    BY <1>0
  <2>. HIDE DEF L
  <2>1. IF 1 > L THEN L = 0 ELSE L - 1 + 1 = L
    BY <2>0
  <2>2. IsFiniteSet(1 .. L) /\ Cardinality(1 .. L) = L
    BY <2>0, <2>1, FS_Interval
  <2>. QED BY <2>2 DEF L
<1>8. IsFiniteSet(R) /\ Cardinality(R) = N
  <2>1. IF 1 > N THEN N = 0 ELSE N - 1 + 1 = N
    OBVIOUS
  <2>. QED BY <2>1, FS_Interval
<1>2. s \in [D -> R]
  OBVIOUS
<1>3. s \in Injection(D, R)
  BY <1>2 DEF Injection, IsInjective
<1>4. /\ Cardinality(D) <= Cardinality(R)
      /\ Cardinality(D) = Cardinality(R) <=> s \in Surjection(D, R)
  BY <1>8, <1>3, FS_Injection
<1>5. s \in Surjection(D, R) <=> ToSet(s) = R
  <2>1. /\ \A x \in D : s[x] \in ToSet(s)
        /\ \A i \in ToSet(s) : \E x \in D : s[x] = i
        /\ ToSet(s) \subseteq R
    BY Members
  <2>2. ASSUME s \in Surjection(D, R), NEW i \in R
        PROVE  i \in ToSet(s)
    <3>1. PICK x \in D : s[x] = i
      BY <2>2 DEF Surjection
    <3>. QED BY <3>1, <2>1
  <2>3. ASSUME ToSet(s) = R
        PROVE  s \in Surjection(D, R)
    BY <1>2, <2>1, <2>3 DEF Surjection
  <2>. QED BY <2>1, <2>2, <2>3
<1>. HIDE DEF D, R
<1>. QED BY <1>1, <1>8, <1>4, <1>5 DEF R

LEMMA SoundBounded ==
  ASSUME Registry, NEW p, NEW order, Sound(order, p)
  PROVE  /\ Len(order) <= Len(plugins)
         /\ Len(order) = Len(plugins) <=> ToSet(order) = Indices
BY RegistryFacts, Distinct DEF Sound

(* A sort that succeeds has found a valid order.                           *)
LEMMA SortIsValid ==
  ASSUME Registry, Sort.ok
  PROVE  ValidOrder(Sort.order)
<1>. DEFINE order == Sort.order
<1>1. SortedBefore(Sort, Phases)
  BY SortIsSortedBefore
<1>2. Sound(order, Phases - 1) /\ order \in Seq(Indices)
  BY <1>1 DEF SortedBefore, Sound
<1>3. \A i \in Indices : i \in ToSet(order)
  BY <1>1, RegistryFacts, PluginAssumption DEF SortedBefore
<1>4. ToSet(order) = Indices
  BY <1>2, <1>3, Members
<1>5. Len(order) = Len(plugins)
  BY <1>2, <1>4, SoundBounded
<1>6. DOMAIN order = 1 .. Len(order)
  BY <1>2
<1>. HIDE DEF order
<1>7. ValidOrder(order)
  BY <1>2, <1>4, <1>5, <1>6 DEF ValidOrder, Sound
<1>. QED BY <1>7 DEF order

-------------------------------------------------------------------------------
(* And when there is a valid order the sort finds one.                     *)

(* While a phase has plugins waiting, the one that is first in a valid     *)
(* order is ready.                                                         *)
LEMMA SomeReady ==
  ASSUME Registry, NEW v \in Seq(Indices), ValidOrder(v),
         NEW p \in 0 .. Phases - 1, NEW order \in Seq(Indices),
         \A i \in Indices : Of(i).phase < p => i \in ToSet(order),
         Waiting(order, p) # {}
  PROVE  Ready(order, p) # {}
<1>. DEFINE X == {y \in 1 .. Len(v) : v[y] \in Waiting(order, p)}
            y == Min(X)
<1>1. X \in SUBSET Nat
  OBVIOUS
<1>2. X # {}
  <2>1. PICK i \in Waiting(order, p) : i \in ToSet(v)
    BY DEF Waiting, ValidOrder
  <2>2. PICK x \in 1 .. Len(v) : v[x] = i
    BY <2>1, Members
  <2>. QED BY <2>1, <2>2
<1>3. y \in X /\ \A x \in X : y <= x
  <2>. HIDE DEF X
  <2>. QED BY <1>1, <1>2, MinIsLeast
<1>. HIDE DEF y
<1>4. /\ y \in 1 .. Len(v) /\ v[y] \in Waiting(order, p)
      /\ v[y] \in Indices /\ Of(v[y]).phase = p
  BY <1>3 DEF Waiting
<1>5. DOMAIN v = 1 .. Len(v) /\ Len(v) \in Nat
  OBVIOUS
<1>6. ASSUME NEW d \in Deps(v[y])
      PROVE  d \in ToSet(order)
  <2>1. d \in Indices /\ Of(d).phase \in 0 .. Phases - 1
    BY <1>4, <1>6, RegistryFacts
  <2>2. PICK x \in 1 .. y - 1 : v[x] = d
    BY <1>4, <1>5, <1>6 DEF ValidOrder
  <2>3. x \in 1 .. Len(v) /\ x < y
    BY <2>2, <1>4, <1>5
  <2>4. Of(d).phase <= p
    BY <2>2, <2>3, <1>4, <1>5 DEF ValidOrder
  <2>5. d \notin Waiting(order, p)
    BY <2>2, <2>3, <1>3, <1>5
  <2>6. p \in Int /\ Phases \in Nat
    BY PluginAssumption
  <2>7. CASE Of(d).phase = p
    BY <2>7, <2>1, <2>5 DEF Waiting
  <2>8. CASE Of(d).phase < p
    BY <2>8, <2>1
  <2>. QED BY <2>1, <2>4, <2>6, <2>7, <2>8
<1>7. v[y] \in Ready(order, p)
  BY <1>4, <1>6 DEF Ready
<1>. QED BY <1>7

LEMMA PassesComplete ==
  ASSUME Registry, NEW v \in Seq(Indices), ValidOrder(v),
         NEW p \in 0 .. Phases - 1, NEW order, Sound(order, p),
         \A i \in Indices : Of(i).phase < p => i \in ToSet(order)
  PROVE  PhaseDone(Passes(order, p), p)
<1>. DEFINE N == Len(plugins)
<1>1. N \in Nat /\ order \in Seq(Indices) /\ p \in Int
  BY RegistryFacts, PluginAssumption DEF Sound
<1>2. PICK after : /\ Passes(order, p) = after[N]
                   /\ after[0] = order
                   /\ \A n \in 1 .. N : after[n] = Pass(after[n - 1], p)
  BY <1>1, PassesIsRecursion
<1>. DEFINE Far(n) == PhaseDone(after[n], p) \/ Len(after[n]) >= n
            T == {n \in 0 .. N : /\ Sound(after[n], p)
                                 /\ Extends(order, after[n])
                                 /\ Far(n)}
<1>3. 0 \in T
  <2>1. Len(order) >= 0
    BY <1>1
  <2>. QED BY <2>1, <1>1, <1>2, ExtendsItself
<1>4. ASSUME NEW n \in 1 .. N, n - 1 \in T
      PROVE  n \in T
  <2>. DEFINE a == after[n - 1]
              b == after[n]
  <2>1. Sound(a, p) /\ Extends(order, a) /\ Far(n - 1)
    BY <1>4
  <2>2. /\ Sound(b, p) /\ Extends(a, b)
        /\ Ready(a, p) # {} => Len(b) > Len(a)
    BY <1>1, <1>2, <2>1, PassSound
  <2>3. a \in Seq(Indices) /\ b \in Seq(Indices)
    BY <2>1, <2>2 DEF Sound
  <2>4. Extends(order, b)
    BY <1>1, <2>1, <2>2, <2>3, ExtendsFurther
  <2>5. CASE PhaseDone(a, p)
    <3>1. PhaseDone(b, p)
      BY <2>2, <2>3, <2>5, ExtendsMembers DEF PhaseDone
    <3>. QED BY <3>1, <2>2, <2>4
  <2>6. CASE ~PhaseDone(a, p)
    <3>1. Waiting(a, p) # {}
      BY <2>6 DEF PhaseDone, Waiting
    <3>2. ToSet(order) \subseteq ToSet(a)
      BY <1>1, <2>1, <2>3, ExtendsMembers
    <3>3. Ready(a, p) # {}
      BY <2>3, <3>1, <3>2, SomeReady
    <3>4. Len(b) > Len(a) /\ Len(a) >= n - 1
      BY <2>1, <2>2, <2>6, <3>3
    <3>5. Len(a) \in Nat /\ Len(b) \in Nat /\ n \in Nat
      BY <1>1, <2>3
    <3>6. Len(b) >= n
      <4>. HIDE DEF a, b
      <4>1. \A k, m \in Nat : m > k /\ k >= n - 1 => m >= n
        BY <3>5
      <4>. QED BY <3>4, <3>5, <4>1
    <3>. QED BY <3>6, <2>2, <2>4
  <2>. QED BY <2>5, <2>6
<1>5. \A n \in 0 .. N : n \in T
  <2>1. N \in Nat
    BY <1>1
  <2>. HIDE DEF T, N
  <2>. QED BY <2>1, <1>3, <1>4, BoundedInduction
<1>6. Sound(after[N], p) /\ (PhaseDone(after[N], p) \/ Len(after[N]) >= N)
  BY <1>1, <1>5
<1>7. CASE Len(after[N]) >= N
  <2>1. Len(after[N]) <= N /\ (Len(after[N]) = N => ToSet(after[N]) = Indices)
    BY <1>6, SoundBounded
  <2>2. Len(after[N]) \in Nat
    BY <1>6 DEF Sound
  <2>3. ToSet(after[N]) = Indices
    BY <1>1, <1>7, <2>1, <2>2
  <2>. QED BY <1>2, <2>3 DEF PhaseDone
<1>. QED BY <1>2, <1>6, <1>7

LEMMA SortIsComplete ==
  ASSUME Registry, NEW v \in Seq(Indices), ValidOrder(v)
  PROVE  Sort.ok
<1>1. Phases \in Nat
  BY PluginAssumption
<1>2. PICK after : /\ Sort = after[Phases]
                   /\ after[0] = [order |-> <<>>, ok |-> TRUE]
                   /\ \A p \in 1 .. Phases : after[p] = SortPhase(after[p - 1], p - 1)
  BY SortIsRecursion
<1>. DEFINE T == {p \in 0 .. Phases : SortedBefore(after[p], p) /\ after[p].ok}
<1>3. 0 \in T
  <2>. DEFINE start == [order |-> <<>>, ok |-> TRUE]
  <2>1. start \in Accs /\ start.order = <<>> /\ Len(start.order) = 0 /\ start.ok
    BY DEF Accs
  <2>2. Sound(start.order, 0 - 1)
    BY <2>1 DEF Sound
  <2>3. \A i \in Indices : ~(Of(i).phase < 0)
    BY <1>1, RegistryFacts
  <2>. HIDE DEF start
  <2>4. SortedBefore(start, 0)
    BY <2>1, <2>2, <2>3 DEF SortedBefore
  <2>. QED BY <1>1, <1>2, <2>1, <2>4 DEF start
<1>4. ASSUME NEW p \in 1 .. Phases, p - 1 \in T
      PROVE  p \in T
  <2>. DEFINE acc == after[p - 1]
              q == p - 1
  <2>1. q \in 0 .. Phases - 1 /\ q + 1 = p /\ q \in Int
    BY <1>1
  <2>2. SortedBefore(acc, q) /\ acc.ok
    BY <1>4
  <2>. HIDE DEF acc, q
  <2>3. SortedBefore(SortPhase(acc, q), q + 1)
    BY <2>1, <2>2, SortPhaseStep
  <2>4. Sound(acc.order, q)
    BY <2>1, <2>2, SoundLater DEF SortedBefore
  <2>5. PhaseDone(Passes(acc.order, q), q)
    BY <2>1, <2>2, <2>4, PassesComplete DEF SortedBefore
  <2>6. SortPhase(acc, q).ok
    BY <2>2, <2>5 DEF SortPhase
  <2>. QED BY <1>2, <2>1, <2>3, <2>6 DEF acc, q
<1>5. \A p \in 0 .. Phases : p \in T
  <2>. HIDE DEF T
  <2>. QED BY <1>1, <1>3, <1>4, BoundedInduction
<1>. QED BY <1>1, <1>2, <1>5

LEMMA SortIsExact ==
  ASSUME Registry
  PROVE  Sort.ok <=> \E order \in SetToSeqs(Indices) : ValidOrder(order)
<1>. DEFINE N == Len(plugins)
<1>1. N \in Nat /\ Indices = 1 .. N
  BY RegistryFacts
<1>2. Cardinality(Indices) = N
  <2>1. IF 1 > N THEN N = 0 ELSE N - 1 + 1 = N
    BY <1>1
  <2>. HIDE DEF N
  <2>. QED BY <1>1, <2>1, FS_Interval
<1>3. ASSUME Sort.ok
      PROVE  \E order \in SetToSeqs(Indices) : ValidOrder(order)
  <2>. DEFINE order == Sort.order
  <2>1. ValidOrder(order)
    BY <1>3, SortIsValid
  <2>2. SortedBefore(Sort, Phases)
    BY SortIsSortedBefore
  <2>3. order \in Seq(Indices) /\ \A x, y \in 1 .. Len(order) : order[x] = order[y] => x = y
    BY <2>2 DEF SortedBefore, Sound
  <2>4. Len(order) = N
    BY <2>1 DEF ValidOrder
  <2>. HIDE DEF order
  <2>5. order \in [1 .. N -> Indices]
    BY <2>3, <2>4
  <2>6. order \in SetToSeqs(Indices)
    BY <1>2, <2>3, <2>4, <2>5 DEF SetToSeqs
  <2>. QED BY <2>1, <2>6
<1>4. ASSUME NEW order \in SetToSeqs(Indices), ValidOrder(order)
      PROVE  Sort.ok
  <2>1. order \in [1 .. N -> Indices]
    BY <1>2 DEF SetToSeqs
  <2>2. order \in Seq(Indices)
    BY <1>1, <2>1
  <2>. QED BY <1>4, <2>2, SortIsComplete
<1>. QED BY <1>3, <1>4

-------------------------------------------------------------------------------
(* The inductive invariant.                                                *)

Stages == {"registered", "inited", "loaded", "down"}

TypeInv ==
  /\ Registry
  /\ contexts \in Seq([funcs : Seq(Functions), api : BOOLEAN])
  /\ Len(contexts) = Len(plugins)
  /\ stage \in Seq(Stages) /\ Len(stage) = Len(plugins)
  /\ sorted \in Seq(Indices) /\ Len(sorted) <= Len(plugins)
  /\ resolved \in BOOLEAN /\ fault \in BOOLEAN
  /\ handles \in Seq(Libs)
  /\ maps \in [Libs -> [gen : Nat, count : Int]]
  /\ task \in [op : {"none", "init", "load", "shutdown", "unload"}, left : Seq(Indices)]

Current == resolved => Resolvable /\ ValidOrder(sorted)

(* Nothing is started while something it depends on is not. *)
StartedTogether == \A i \in Indices : Started(i) => \A d \in Deps(i) : Started(d)

(* The names a plugin depends on belong to plugins since it was started.   *)
NamesFound == \A i \in Indices : Started(i) => \A n \in Kept(i) : Find(n) # {}

APIsFound ==
  \A i \in Indices : stage[i] = "inited" =>
    \A d \in Deps(i) : Of(d).exports => contexts[d].api

(* Starting: what is left is the end of the order; the plugins before it   *)
(* are up, and those that were initialised have exported their APIs.       *)
Starting ==
  LET passed == Len(sorted) - Len(task.left)
  IN  task.op \in {"init", "load"} /\ ~fault =>
        /\ resolved
        /\ passed >= 0
        /\ \A x \in 1 .. Len(task.left) : task.left[x] = sorted[passed + x]
        /\ \A j \in 1 .. passed :
             /\ Started(sorted[j])
             /\ task.op = "init" /\ Of(sorted[j]).exports => contexts[sorted[j]].api

(* Stopping: what is left is the front of the order, reversed; the plugins *)
(* behind it are down.                                                     *)
Stopping ==
  LET ahead == Len(task.left)
  IN  task.op \in {"shutdown", "unload"} /\ ~fault /\ task.left # <<>> =>
        /\ resolved
        /\ ahead <= Len(sorted)
        /\ \A x \in 1 .. ahead : task.left[x] = sorted[ahead + 1 - x]
        /\ \A j \in ahead + 1 .. Len(sorted) : ~Started(sorted[j])

Waits == task.op = "none" => task.left = <<>>

IInv ==
  /\ TypeInv /\ Current /\ StartedTogether /\ NamesFound /\ APIsFound
  /\ Starting /\ Stopping /\ Waits

LEMMA InitIsSafe == Init => IInv
<1>. SUFFICES ASSUME Init
              PROVE  IInv
  OBVIOUS
<1>1. manifest \in [Libs -> Description]
  BY PluginAssumption DEF Init
<1>2. /\ plugins = <<>> /\ contexts = <<>> /\ stage = <<>> /\ sorted = <<>>
      /\ handles = <<>> /\ resolved = FALSE /\ fault = FALSE
      /\ task = Idle /\ maps = [l \in Libs |-> [gen |-> 0, count |-> 0]]
  BY DEF Init
<1>3. TypeInv
  <2>1. Registry /\ handles \in Seq(Libs)
    BY <1>1, <1>2, EmptySeq DEF Registry
  <2>2. /\ contexts \in Seq([funcs : Seq(Functions), api : BOOLEAN])
        /\ stage \in Seq(Stages) /\ sorted \in Seq(Indices)
        /\ Len(contexts) = Len(plugins) /\ Len(stage) = Len(plugins) /\ Len(sorted) <= Len(plugins)
    BY <1>2, EmptySeq
  <2>3. task \in [op : {"none", "init", "load", "shutdown", "unload"}, left : Seq(Indices)]
    BY <1>2, EmptySeq DEF Idle
  <2>4. resolved \in BOOLEAN /\ fault \in BOOLEAN
    BY <1>2
  <2>5. maps \in [Libs -> [gen : Nat, count : Int]]
    <3>1. [gen |-> 0, count |-> 0] \in [gen : Nat, count : Int]
      OBVIOUS
    <3>2. maps = [l \in Libs |-> [gen |-> 0, count |-> 0]]
      BY <1>2
    <3>. QED BY <3>1, <3>2
  <2>. QED BY <2>1, <2>2, <2>3, <2>4, <2>5 DEF TypeInv
<1>4. Current /\ StartedTogether /\ NamesFound /\ APIsFound
  BY <1>2 DEF Current, StartedTogether, NamesFound, APIsFound, Indices
<1>5. Starting /\ Stopping /\ Waits
  BY <1>2 DEF Starting, Stopping, Waits, Idle
<1>. QED BY <1>3, <1>4, <1>5 DEF IInv

(* What depends on the registry alone.                                     *)
LEMMA SameRegistry ==
  ASSUME UNCHANGED <<manifest, plugins>>
  PROVE  /\ Indices' = Indices /\ Resolvable' = Resolvable
         /\ Registry' = Registry
         /\ \A i : Of(i)' = Of(i)
         /\ \A n : Find(n)' = Find(n)
         /\ \A i : Kept(i)' = Kept(i) /\ Deps(i)' = Deps(i)
         /\ \A order : ValidOrder(order)' = ValidOrder(order)
<1>1. Indices' = Indices /\ \A i : Of(i)' = Of(i)
  BY DEF Indices, Of
<1>2. \A n : Find(n)' = Find(n)
  BY <1>1 DEF Find
<1>3. \A i : Kept(i)' = Kept(i)
  BY <1>1 DEF Kept
<1>4. Resolvable' = Resolvable /\ \A i : Deps(i)' = Deps(i)
  BY <1>1, <1>2, <1>3 DEF Resolvable, Deps
<1>5. Registry' = Registry
  BY DEF Registry
<1>6. \A order : ValidOrder(order)' = ValidOrder(order)
  BY <1>1, <1>4 DEF ValidOrder
<1>. QED BY <1>1, <1>2, <1>3, <1>4, <1>5, <1>6

(* Steps that run no hook and register nothing.                            *)
LEMMA QuietStep ==
  ASSUME StartedTogether, NamesFound, APIsFound,
         UNCHANGED <<manifest, plugins, contexts, stage>>
  PROVE  StartedTogether' /\ NamesFound' /\ APIsFound'
<1>1. \A i : Started(i)' = Started(i)
  BY DEF Started
<1>2. StartedTogether'
  BY <1>1, SameRegistry DEF StartedTogether
<1>3. NamesFound'
  BY <1>1, SameRegistry DEF NamesFound
<1>4. APIsFound'
  BY SameRegistry DEF APIsFound
<1>. QED BY <1>2, <1>3, <1>4

LEMMA SortingStep ==
  ASSUME TypeInv, Current, Sorting, UNCHANGED <<manifest, plugins>>
  PROVE  /\ resolved' \in BOOLEAN
         /\ sorted' \in Seq(Indices) /\ Len(sorted') <= Len(plugins)
         /\ Current'
<1>. DEFINE N == Len(plugins)
<1>1. Registry /\ N \in Nat /\ sorted \in Seq(Indices) /\ Len(sorted) <= N /\ resolved \in BOOLEAN
  BY RegistryFacts DEF TypeInv
<1>2. CASE ~Resolvable
  BY <1>1, <1>2, SameRegistry DEF Sorting, Current
<1>3. CASE Resolvable
  <2>. DEFINE order == Sort.order
              rest == SubSeq(sorted, Len(order) + 1, Len(sorted))
  <2>1. resolved' = (resolved \/ Sort.ok) /\ sorted' = order \o rest
    BY <1>3 DEF Sorting
  <2>2. Sound(order, Phases - 1)
    BY <1>1, SortIsSortedBefore DEF SortedBefore
  <2>3. order \in Seq(Indices) /\ Len(order) \in Nat /\ Len(order) <= N
    <3>1. Len(order) <= N
      BY <1>1, <2>2, SoundBounded
    <3>2. order \in Seq(Indices)
      BY <2>2 DEF Sound
    <3>. QED BY <3>1, <3>2, LenProperties
  <2>4. Sort.ok \in BOOLEAN /\ (resolved => Sort.ok)
    <3>1. Sort \in Accs
      BY <1>1, SortIsSortedBefore DEF SortedBefore
    <3>2. resolved => Sort.ok
      BY <1>1, SortIsComplete DEF Current
    <3>. QED BY <3>1, <3>2 DEF Accs
  <2>. HIDE DEF order, N
  <2>5. Len(sorted) \in Nat /\ \A x \in Len(order) + 1 .. Len(sorted) : sorted[x] \in Indices
    <3>1. Len(sorted) \in Nat /\ \A x \in 1 .. Len(sorted) : sorted[x] \in Indices
      BY <1>1, LenProperties, ElementOfSeq
    <3>. QED BY <3>1, <2>3
  <2>6. /\ rest \in Seq(Indices)
        /\ Len(rest) = IF Len(order) + 1 <= Len(sorted) THEN Len(sorted) - (Len(order) + 1) + 1 ELSE 0
    <3>1. Len(order) + 1 \in Int /\ Len(sorted) \in Int
      BY <2>3, <2>5
    <3>. QED BY <3>1, <2>5, SubSeqProperties
  <2>7. sorted' \in Seq(Indices) /\ Len(sorted') <= N
    <3>. HIDE DEF rest
    <3>1. sorted' \in Seq(Indices) /\ Len(sorted') = Len(order) + Len(rest)
      BY <2>1, <2>3, <2>6, ConcatProperties
    <3>2. Len(order) + Len(rest) <= N
      BY <1>1, <2>3, <2>5, <2>6
    <3>. QED BY <3>1, <3>2
  <2>8. CASE Sort.ok
    <3>1. ValidOrder(order)
      BY <1>1, <2>8, SortIsValid DEF order
    <3>2. Len(order) = N
      BY <3>1 DEF ValidOrder, N
    <3>3. Len(sorted) < Len(order) + 1
      BY <1>1, <2>3, <2>5, <3>2
    <3>4. rest = <<>>
      BY <2>3, <2>5, <3>3, SubSeqEmpty
    <3>5. sorted' = order
      BY <2>1, <2>3, <3>4, ConcatEmptySeq
    <3>. QED BY <1>3, <2>1, <2>7, <2>8, <3>1, <3>5, SameRegistry DEF Current, N
  <2>9. CASE ~Sort.ok
    <3>1. resolved' = FALSE
      BY <1>1, <2>1, <2>4, <2>9
    <3>. QED BY <3>1, <2>7 DEF Current, N
  <2>. QED BY <2>8, <2>9
<1>. QED BY <1>2, <1>3

LEMMA ResolveStep ==
  ASSUME IInv, ResolveAndSort
  PROVE  IInv'
<1>1. /\ TypeInv /\ Current /\ StartedTogether /\ NamesFound /\ APIsFound
      /\ Sorting /\ task = Idle
      /\ UNCHANGED <<manifest, plugins, contexts, handles, maps, task, stage, fault>>
  BY DEF IInv, ResolveAndSort
<1>2. TypeInv' /\ Current'
  BY <1>1, SortingStep, SameRegistry DEF TypeInv
<1>3. StartedTogether' /\ NamesFound' /\ APIsFound'
  BY <1>1, QuietStep
<1>4. Starting' /\ Stopping' /\ Waits'
  BY <1>1 DEF Starting, Stopping, Waits, Idle
<1>. QED BY <1>2, <1>3, <1>4 DEF IInv

LEMMA StartStep ==
  ASSUME IInv, NEW op \in {"init", "load"}, Start(op)
  PROVE  IInv'
<1>1. /\ TypeInv /\ Current /\ StartedTogether /\ NamesFound /\ APIsFound
      /\ task = Idle
      /\ IF resolved THEN UNCHANGED <<resolved, sorted>> ELSE Sorting
      /\ task' = IF resolved' THEN [op |-> op, left |-> sorted'] ELSE Idle
      /\ UNCHANGED <<manifest, plugins, contexts, handles, maps, stage, fault>>
  BY DEF IInv, Start
<1>2. /\ resolved' \in BOOLEAN /\ Current'
      /\ sorted' \in Seq(Indices) /\ Len(sorted') <= Len(plugins)
  <2>1. CASE resolved
    BY <1>1, <2>1, SameRegistry DEF TypeInv, Current
  <2>2. CASE ~resolved
    BY <1>1, <2>2, SortingStep
  <2>. QED BY <2>1, <2>2
<1>3. task' \in [op : {"none", "init", "load", "shutdown", "unload"}, left : Seq(Indices)]
  BY <1>1, <1>2, EmptySeq DEF Idle
<1>4. TypeInv'
  BY <1>1, <1>2, <1>3, SameRegistry DEF TypeInv
<1>5. StartedTogether' /\ NamesFound' /\ APIsFound'
  BY <1>1, QuietStep
<1>6. CASE resolved'
  <2>1. task'.op = op /\ task'.left = sorted' /\ Len(sorted') \in Nat
    BY <1>1, <1>2, <1>6, LenProperties
  <2>. DEFINE N == Len(sorted')
  <2>2. N - N = 0 /\ \A x \in 1 .. N : 0 + x = x
    BY <2>1
  <2>3. Starting'
    BY <1>6, <2>1, <2>2 DEF Starting
  <2>4. Stopping' /\ Waits'
    BY <2>1 DEF Stopping, Waits
  <2>. QED BY <1>2, <1>4, <1>5, <2>3, <2>4 DEF IInv
<1>7. CASE ~resolved'
  <2>1. Starting' /\ Stopping' /\ Waits'
    BY <1>1, <1>7 DEF Starting, Stopping, Waits, Idle
  <2>. QED BY <1>2, <1>4, <1>5, <2>1 DEF IInv
<1>. QED BY <1>6, <1>7

LEMMA TeardownStep ==
  ASSUME IInv, NEW op \in {"shutdown", "unload"}, task' = Teardown(op),
         UNCHANGED <<manifest, plugins, contexts, sorted, resolved, handles, maps, stage, fault>>
  PROVE  IInv'
<1>1. TypeInv /\ Current /\ StartedTogether /\ NamesFound /\ APIsFound
  BY DEF IInv
<1>. DEFINE N == Len(sorted)
            r == Reverse(sorted)
<1>2. sorted \in Seq(Indices) /\ N \in Nat
  BY <1>1, LenProperties DEF TypeInv
<1>3. r \in Seq(Indices) /\ Len(r) = N /\ \A x \in 1 .. N : r[x] = sorted[N + 1 - x]
  <2>1. r = [x \in 1 .. N |-> sorted[(N - x) + 1]]
    BY DEF Reverse
  <2>2. \A x \in 1 .. N : (N - x) + 1 \in 1 .. N /\ (N - x) + 1 = N + 1 - x
    BY <1>2
  <2>3. \A x \in 1 .. N : sorted[(N - x) + 1] \in Indices
    BY <1>2, <2>2, ElementOfSeq
  <2>. HIDE DEF N
  <2>4. r \in [1 .. N -> Indices]
    BY <2>1, <2>3
  <2>5. r \in Seq(Indices) /\ Len(r) = N
    <3>. HIDE DEF r
    <3>. QED BY <1>2, <2>4
  <2>6. \A x \in 1 .. N : r[x] = sorted[N + 1 - x]
    <3>. HIDE DEF r
    <3>. QED BY <2>1, <2>2
  <2>. QED BY <2>5, <2>6
<1>4. task'.op = op /\ task'.left = IF resolved THEN r ELSE <<>>
  BY DEF Teardown
<1>5. task' \in [op : {"none", "init", "load", "shutdown", "unload"}, left : Seq(Indices)]
  <2>. HIDE DEF r
  <2>. QED BY <1>3, EmptySeq DEF Teardown, r
<1>6. TypeInv' /\ Current'
  BY <1>1, <1>5, SameRegistry DEF TypeInv, Current
<1>7. StartedTogether' /\ NamesFound' /\ APIsFound'
  BY <1>1, QuietStep
<1>8. Stopping'
  <2>. SUFFICES ASSUME resolved
                PROVE  Stopping'
    BY <1>4 DEF Stopping
  <2>1. task'.left = r /\ Len(r) = N /\ sorted' = sorted
    BY <1>3, <1>4
  <2>2. \A x \in 1 .. N : task'.left[x] = sorted'[N + 1 - x]
    BY <1>3, <2>1
  <2>3. \A j \in N + 1 .. N : FALSE
    BY <1>2
  <2>4. Len(task'.left) = N /\ Len(sorted') = N
    BY <2>1
  <2>. HIDE DEF r, N
  <2>5. /\ resolved' /\ Len(task'.left) <= Len(sorted')
        /\ \A x \in 1 .. Len(task'.left) : task'.left[x] = sorted'[Len(task'.left) + 1 - x]
        /\ \A j \in Len(task'.left) + 1 .. Len(sorted') : ~Started(sorted[j])'
    BY <1>2, <2>2, <2>3, <2>4
  <2>. QED BY <2>5 DEF Stopping
<1>9. Starting' /\ Waits'
  BY <1>4 DEF Starting, Waits
<1>. QED BY <1>6, <1>7, <1>8, <1>9 DEF IInv

LEMMA FinishStep ==
  ASSUME IInv, Finish
  PROVE  IInv'
<1>1. /\ TypeInv /\ Current /\ StartedTogether /\ NamesFound /\ APIsFound
      /\ task' = Idle
      /\ UNCHANGED <<manifest, plugins, contexts, sorted, resolved, handles, maps, stage, fault>>
  BY DEF IInv, Finish
<1>2. task' \in [op : {"none", "init", "load", "shutdown", "unload"}, left : Seq(Indices)]
  BY <1>1, EmptySeq DEF Idle
<1>3. TypeInv' /\ Current'
  BY <1>1, <1>2, SameRegistry DEF TypeInv, Current
<1>4. StartedTogether' /\ NamesFound' /\ APIsFound'
  BY <1>1, QuietStep
<1>5. Starting' /\ Stopping' /\ Waits'
  BY <1>1 DEF Starting, Stopping, Waits, Idle
<1>. QED BY <1>3, <1>4, <1>5 DEF IInv

LEMMA FreeStep ==
  ASSUME IInv, FreeLibraries
  PROVE  IInv'
<1>1. /\ TypeInv /\ Current /\ StartedTogether /\ NamesFound /\ APIsFound
      /\ task' = Idle /\ handles' = <<>>
      /\ maps' = [l \in Libs |-> [maps[l] EXCEPT !.count = @ - Held(l)]]
      /\ UNCHANGED <<manifest, plugins, contexts, sorted, resolved, stage, fault>>
  BY DEF IInv, FreeLibraries
<1>2. task' \in [op : {"none", "init", "load", "shutdown", "unload"}, left : Seq(Indices)]
  BY <1>1, EmptySeq DEF Idle
<1>3. \A l \in Libs : Held(l) \in Nat
  <2>. TAKE l \in Libs
  <2>1. Len(handles) \in Nat /\ DOMAIN handles = 1 .. Len(handles)
    BY <1>1, LenProperties DEF TypeInv
  <2>2. IsFiniteSet(DOMAIN handles)
    BY <2>1, FS_Interval
  <2>3. IsFiniteSet({h \in DOMAIN handles : handles[h] = l})
    BY <2>2, FS_Subset
  <2>. QED BY <2>3, FS_CardinalityType DEF Held
<1>4. maps' \in [Libs -> [gen : Nat, count : Int]]
  <2>1. ASSUME NEW l \in Libs
        PROVE  [maps[l] EXCEPT !.count = @ - Held(l)] \in [gen : Nat, count : Int]
    <3>1. maps[l] \in [gen : Nat, count : Int]
      BY <1>1 DEF TypeInv
    <3>. QED BY <3>1, <1>3
  <2>. QED BY <1>1, <2>1
<1>5. TypeInv' /\ Current'
  BY <1>1, <1>2, <1>4, EmptySeq, SameRegistry DEF TypeInv, Current
<1>6. StartedTogether' /\ NamesFound' /\ APIsFound'
  BY <1>1, QuietStep
<1>7. Starting' /\ Stopping' /\ Waits'
  BY <1>1 DEF Starting, Stopping, Waits, Idle
<1>. QED BY <1>5, <1>6, <1>7 DEF IInv

(* Registering changes nothing for the plugins that are up: the names they *)
(* depend on keep their first plugins.                                     *)
LEMMA RegisterStep ==
  ASSUME IInv, task = Idle, NEW l \in Libs, NEW gen \in Nat, Registered(l, gen),
         UNCHANGED <<manifest, sorted, task, fault>>,
         handles' \in Seq(Libs), maps' \in [Libs -> [gen : Nat, count : Int]]
  PROVE  IInv'
<1>. DEFINE N == Len(plugins)
<1>1. /\ TypeInv /\ StartedTogether /\ NamesFound /\ APIsFound
      /\ plugins' = Append(plugins, [lib |-> l, gen |-> gen])
      /\ contexts' = Append(contexts, [funcs |-> <<>>, api |-> FALSE])
      /\ stage' = Append(stage, "registered")
      /\ resolved' = FALSE
  BY DEF IInv, Registered
<1>2. /\ plugins \in Seq([lib : Libs, gen : Nat]) /\ N \in Nat
      /\ stage \in Seq(Stages) /\ Len(stage) = N
      /\ contexts \in Seq([funcs : Seq(Functions), api : BOOLEAN]) /\ Len(contexts) = N
      /\ sorted \in Seq(Indices) /\ Len(sorted) <= N /\ Len(sorted) \in Nat
  BY <1>1, LenProperties DEF TypeInv, Registry
<1>3. /\ plugins' \in Seq([lib : Libs, gen : Nat]) /\ Len(plugins') = N + 1
      /\ \A i \in 1 .. N : plugins'[i] = plugins[i]
  <2>1. [lib |-> l, gen |-> gen] \in [lib : Libs, gen : Nat]
    OBVIOUS
  <2>. QED BY <1>1, <1>2, <2>1, AppendProperties
<1>4. /\ stage' \in Seq(Stages) /\ Len(stage') = N + 1
      /\ stage'[N + 1] = "registered" /\ \A i \in 1 .. N : stage'[i] = stage[i]
  <2>1. "registered" \in Stages
    BY DEF Stages
  <2>. QED BY <1>1, <1>2, <2>1, AppendProperties
<1>5. /\ contexts' \in Seq([funcs : Seq(Functions), api : BOOLEAN])
      /\ Len(contexts') = N + 1 /\ \A i \in 1 .. N : contexts'[i] = contexts[i]
  <2>1. [funcs |-> <<>>, api |-> FALSE] \in [funcs : Seq(Functions), api : BOOLEAN]
    BY EmptySeq
  <2>. QED BY <1>1, <1>2, <2>1, AppendProperties
<1>. HIDE DEF N
<1>6. Indices = 1 .. N /\ Indices' = 1 .. N + 1
  BY <1>2, <1>3, LenProperties DEF Indices, N
<1>7. TypeInv'
  <2>1. Indices \subseteq Indices'
    BY <1>2, <1>6
  <2>2. sorted' \in Seq(Indices')
    BY <1>2, <2>1, SeqMonotonic
  <2>3. Len(sorted') <= Len(plugins')
    BY <1>2, <1>3
  <2>4. task' \in [op : {"none", "init", "load", "shutdown", "unload"}, left : Seq(Indices')]
    BY EmptySeq DEF Idle
  <2>5. Registry'
    BY <1>1, <1>3 DEF TypeInv, Registry
  <2>6. fault' \in BOOLEAN /\ resolved' \in BOOLEAN
    BY <1>1 DEF TypeInv
  <2>. QED BY <1>3, <1>4, <1>5, <2>2, <2>3, <2>4, <2>5, <2>6 DEF TypeInv
<1>8. \A i \in 1 .. N : Of(i)' = Of(i) /\ Kept(i)' = Kept(i)
  BY <1>3 DEF Of, Kept
<1>9. ASSUME NEW n, Find(n) # {}
      PROVE  Find(n)' = Find(n)
  <2>1. PICK f \in Find(n) : TRUE
    BY <1>9
  <2>2. f \in 1 .. N /\ Of(f).name = n
    BY <2>1, <1>6 DEF Find
  <2>3. ASSUME NEW i \in Find(n)
        PROVE  i \in Find(n)'
    <3>1. i \in 1 .. N /\ Of(i).name = n /\ \A j \in 1 .. i - 1 : Of(j).name # n
      BY <2>3, <1>6 DEF Find
    <3>2. i \in 1 .. N + 1 /\ \A j \in 1 .. i - 1 : j \in 1 .. N
      BY <3>1, <1>2
    <3>. QED BY <3>1, <3>2, <1>6, <1>8 DEF Find
  <2>4. ASSUME NEW i \in Find(n)'
        PROVE  i \in Find(n)
    <3>1. i \in 1 .. N + 1 /\ Of(i)'.name = n /\ \A j \in 1 .. i - 1 : Of(j)'.name # n
      BY <2>4, <1>6 DEF Find
    <3>2. ~(f \in 1 .. i - 1)
      BY <3>1, <2>2, <1>8
    <3>3. i \in 1 .. N /\ \A j \in 1 .. i - 1 : j \in 1 .. N
      BY <3>1, <3>2, <2>2, <1>2
    <3>. QED BY <3>1, <3>3, <1>6, <1>8 DEF Find
  <2>. QED BY <2>3, <2>4
<1>10. ASSUME NEW i \in Indices', Started(i)'
       PROVE  /\ i \in Indices /\ Started(i)
              /\ \A n \in Kept(i) : Find(n) # {} /\ Find(n)' = Find(n)
              /\ Deps(i)' = Deps(i) /\ Deps(i) \subseteq Indices
  <2>1. i \in 1 .. N /\ stage'[i] = stage[i]
    BY <1>2, <1>4, <1>6, <1>10 DEF Started
  <2>2. i \in Indices /\ Started(i)
    BY <2>1, <1>6, <1>10 DEF Started
  <2>3. \A n \in Kept(i) : Find(n) # {} /\ Find(n)' = Find(n)
    BY <1>1, <1>9, <2>2 DEF NamesFound
  <2>4. Deps(i)' = Deps(i)
    BY <2>1, <2>3, <1>8 DEF Deps
  <2>5. Deps(i) \subseteq Indices
    BY DEF Deps, Find
  <2>. QED BY <2>2, <2>3, <2>4, <2>5
<1>11. StartedTogether'
  <2>. SUFFICES ASSUME NEW i \in Indices', Started(i)', NEW d \in Deps(i)'
                PROVE  Started(d)'
    BY DEF StartedTogether
  <2>1. d \in 1 .. N /\ Started(d)
    BY <1>1, <1>6, <1>10 DEF StartedTogether
  <2>. QED BY <2>1, <1>4 DEF Started
<1>12. NamesFound'
  <2>. SUFFICES ASSUME NEW i \in Indices', Started(i)', NEW n \in Kept(i)'
                PROVE  Find(n)' # {}
    BY DEF NamesFound
  <2>1. n \in Kept(i)
    BY <1>6, <1>8, <1>10
  <2>. QED BY <1>10, <2>1
<1>13. APIsFound'
  <2>. SUFFICES ASSUME NEW i \in Indices', stage'[i] = "inited", NEW d \in Deps(i)', Of(d)'.exports
                PROVE  contexts'[d].api
    BY DEF APIsFound
  <2>1. i \in Indices /\ d \in Deps(i) /\ d \in 1 .. N
    BY <1>6, <1>10 DEF Started
  <2>2. stage[i] = "inited" /\ Of(d).exports
    BY <2>1, <1>4, <1>6, <1>8
  <2>. QED BY <1>1, <1>5, <2>1, <2>2 DEF APIsFound
<1>14. Current' /\ Starting' /\ Stopping' /\ Waits'
  BY <1>1 DEF Current, Starting, Stopping, Waits, Idle
<1>. QED BY <1>7, <1>11, <1>12, <1>13, <1>14 DEF IInv

LEMMA RegisterPluginStep ==
  ASSUME IInv, NEW l \in Libs, RegisterPlugin(l)
  PROVE  IInv'
<1>1. /\ task = Idle /\ Registered(l, 0)
      /\ UNCHANGED <<manifest, sorted, handles, maps, task, fault>>
  BY DEF RegisterPlugin
<1>2. handles' \in Seq(Libs) /\ maps' \in [Libs -> [gen : Nat, count : Int]]
  BY <1>1 DEF IInv, TypeInv
<1>. QED BY <1>1, <1>2, RegisterStep

LEMMA LoadFileStep ==
  ASSUME IInv, NEW l \in Libs, LoadPluginFile(l)
  PROVE  IInv'
<1>. DEFINE gen == IF maps[l].count = 0 THEN maps[l].gen + 1 ELSE maps[l].gen
<1>1. /\ task = Idle /\ Registered(l, gen)
      /\ maps' = [maps EXCEPT ![l] = [gen |-> gen, count |-> @.count + 1]]
      /\ handles' = Append(handles, l)
      /\ UNCHANGED <<manifest, sorted, task, fault>>
  BY DEF LoadPluginFile
<1>2. maps \in [Libs -> [gen : Nat, count : Int]] /\ handles \in Seq(Libs)
  BY DEF IInv, TypeInv
<1>3. gen \in Nat
  BY <1>2
<1>. HIDE DEF gen
<1>4. handles' \in Seq(Libs)
  BY <1>1, <1>2, AppendProperties
<1>5. maps' \in [Libs -> [gen : Nat, count : Int]]
  <2>1. [gen |-> gen, count |-> maps[l].count + 1] \in [gen : Nat, count : Int]
    BY <1>2, <1>3
  <2>. QED BY <1>1, <1>2, <2>1
<1>. QED BY <1>1, <1>3, <1>4, <1>5, RegisterStep

(* A valid order has every plugin once.                                    *)
LEMMA ValidOnce ==
  ASSUME Registry, NEW order \in Seq(Indices), ValidOrder(order)
  PROVE  \A x, y \in 1 .. Len(order) : order[x] = order[y] => x = y
<1>. DEFINE N == Len(plugins)
            D == 1 .. N
<1>1. N \in Nat /\ Indices = D /\ Len(order) = N /\ ToSet(order) = D
  BY RegistryFacts DEF ValidOrder
<1>2. order \in [D -> D] /\ \A i \in D : \E x \in D : order[x] = i
  <2>1. order \in [1 .. Len(order) -> Indices]
    BY LenProperties
  <2>2. \A i \in ToSet(order) : \E x \in 1 .. Len(order) : order[x] = i
    BY Members
  <2>. QED BY <1>1, <2>1, <2>2
<1>3. IsFiniteSet(D)
  BY <1>1, FS_Interval
<1>4. order \in Surjection(D, D)
  BY <1>2 DEF Surjection
<1>5. order \in Injection(D, D)
  BY <1>3, <1>4, FS_Surjection
<1>. QED BY <1>1, <1>2, <1>5 DEF Injection, IsInjective

(* The step of a loop that runs the hook of a plugin in mapped memory.     *)
Runs(i) ==
  /\ IInv /\ Hook
  /\ task.left # <<>> /\ ~fault /\ Good(i)
  /\ i = Head(task.left)

LEMMA HookFacts ==
  ASSUME IInv, Hook
  PROVE  /\ task.left \in Seq(Indices) /\ Len(task.left) \in Nat \ {0}
         /\ task'.op = task.op /\ task'.left = Tail(task.left)
         /\ task'.left \in Seq(Indices) /\ Len(task'.left) = Len(task.left) - 1
         /\ \A x \in 1 .. Len(task'.left) : task'.left[x] = task.left[x + 1]
         /\ Head(task.left) \in Indices /\ Head(task.left) = task.left[1]
         /\ task.op \in {"init", "load", "shutdown", "unload"}
         /\ task' \in [op : {"none", "init", "load", "shutdown", "unload"}, left : Seq(Indices)]
<1>1. /\ task \in [op : {"none", "init", "load", "shutdown", "unload"}, left : Seq(Indices)]
      /\ Waits /\ task.left # <<>> /\ task' = [task EXCEPT !.left = Tail(@)]
  BY DEF IInv, TypeInv, Hook
<1>2. task.left \in Seq(Indices) /\ task.op \in {"none", "init", "load", "shutdown", "unload"}
  BY <1>1
<1>3. /\ Head(task.left) \in Indices /\ Tail(task.left) \in Seq(Indices)
      /\ Len(Tail(task.left)) = Len(task.left) - 1
      /\ \A x \in 1 .. Len(Tail(task.left)) : Tail(task.left)[x] = task.left[x + 1]
      /\ Len(task.left) \in Nat \ {0}
  BY <1>1, <1>2, HeadTailProperties, EmptySeq
<1>4. Head(task.left) = task.left[1]
  BY <1>1, <1>2
<1>5. task'.op = task.op /\ task'.left = Tail(task.left)
  BY <1>1
<1>6. task.op # "none"
  BY <1>1 DEF Waits
<1>7. task' \in [op : {"none", "init", "load", "shutdown", "unload"}, left : Seq(Indices)]
  BY <1>1, <1>3
<1>. QED BY <1>2, <1>3, <1>4, <1>5, <1>6, <1>7

LEMMA FaultStep ==
  ASSUME IInv, Hook, ~Good(Head(task.left))
  PROVE  IInv'
<1>1. /\ TypeInv /\ Current /\ StartedTogether /\ NamesFound /\ APIsFound
      /\ fault' = TRUE
      /\ UNCHANGED <<manifest, plugins, contexts, sorted, resolved, handles, maps, stage>>
  BY DEF IInv, Hook
<1>2. task' \in [op : {"none", "init", "load", "shutdown", "unload"}, left : Seq(Indices)]
  BY HookFacts
<1>3. TypeInv' /\ Current'
  BY <1>1, <1>2, SameRegistry DEF TypeInv, Current
<1>4. StartedTogether' /\ NamesFound' /\ APIsFound'
  BY <1>1, QuietStep
<1>5. Starting' /\ Stopping' /\ Waits'
  BY <1>1, HookFacts DEF Starting, Stopping, Waits
<1>. QED BY <1>3, <1>4, <1>5 DEF IInv

LEMMA AfterInitType ==
  ASSUME Registry, NEW i \in Indices, NEW c \in [funcs : Seq(Functions), api : BOOLEAN]
  PROVE  AfterInit(c, i) \in [funcs : Seq(Functions), api : BOOLEAN]
<1>. DEFINE all == c.funcs \o Of(i).gives
            n == IF Len(all) < MaxFuncs THEN Len(all) ELSE MaxFuncs
<1>1. c.funcs \in Seq(Functions) /\ Of(i).gives \in Seq(Functions) /\ Of(i).exports \in BOOLEAN
  BY RegistryFacts DEF Description
<1>2. all \in Seq(Functions) /\ Len(all) \in Nat
  BY <1>1, ConcatProperties, LenProperties
<1>. HIDE DEF all
<1>3. n \in Nat /\ n <= Len(all)
  BY <1>2, PluginAssumption
<1>. HIDE DEF n
<1>4. \A x \in 1 .. n : all[x] \in Functions
  BY <1>2, <1>3, ElementOfSeq
<1>5. SubSeq(all, 1, n) \in Seq(Functions)
  BY <1>3, <1>4, SubSeqProperties
<1>. QED BY <1>1, <1>5 DEF AfterInit, all, n

LEMMA RunFacts ==
  ASSUME NEW i, Runs(i)
  PROVE  /\ i \in Indices /\ TypeInv' /\ Current'
         /\ fault' = FALSE /\ resolved' = resolved /\ sorted' = sorted
         /\ UNCHANGED <<manifest, plugins>>
         /\ stage'[i] = Then(task.op)
         /\ \A j \in Indices : j # i => stage'[j] = stage[j] /\ contexts'[j] = contexts[j]
         /\ task.op = "init" => contexts'[i].api = (contexts[i].api \/ Of(i).exports)
         /\ task.op = "load" => contexts'[i].api = contexts[i].api
<1>1. /\ TypeInv /\ Current /\ ~fault /\ i \in Indices
  BY HookFacts DEF Runs, IInv
<1>. DEFINE c == CASE task.op = "init" -> AfterInit(contexts[i], i)
                   [] task.op = "load" -> contexts[i]
                   [] OTHER -> Reset
            s == Then(task.op)
<1>2. /\ stage' = [stage EXCEPT ![i] = s]
      /\ contexts' = [contexts EXCEPT ![i] = c]
      /\ UNCHANGED <<manifest, plugins, sorted, resolved, handles, maps, fault>>
  BY DEF Runs, Hook
<1>3. /\ stage \in Seq(Stages) /\ Len(stage) = Len(plugins)
      /\ contexts \in Seq([funcs : Seq(Functions), api : BOOLEAN]) /\ Len(contexts) = Len(plugins)
      /\ Indices = 1 .. Len(plugins)
  BY <1>1, RegistryFacts DEF TypeInv
<1>4. s \in Stages
  BY DEF Then, Stages
<1>5. c \in [funcs : Seq(Functions), api : BOOLEAN]
  <2>1. contexts[i] \in [funcs : Seq(Functions), api : BOOLEAN]
    BY <1>1, <1>3, ElementOfSeq
  <2>2. AfterInit(contexts[i], i) \in [funcs : Seq(Functions), api : BOOLEAN]
    BY <1>1, <2>1, AfterInitType DEF TypeInv
  <2>3. Reset \in [funcs : Seq(Functions), api : BOOLEAN]
    BY EmptySeq DEF Reset
  <2>. QED BY <2>1, <2>2, <2>3
<1>. HIDE DEF c, s
<1>6. /\ stage' \in Seq(Stages) /\ Len(stage') = Len(plugins)
      /\ \A j \in Indices : stage'[j] = IF j = i THEN s ELSE stage[j]
  BY <1>1, <1>2, <1>3, <1>4, ExceptSeq
<1>7. /\ contexts' \in Seq([funcs : Seq(Functions), api : BOOLEAN])
      /\ Len(contexts') = Len(plugins)
      /\ \A j \in Indices : contexts'[j] = IF j = i THEN c ELSE contexts[j]
  BY <1>1, <1>2, <1>3, <1>5, ExceptSeq
<1>8. task' \in [op : {"none", "init", "load", "shutdown", "unload"}, left : Seq(Indices)]
  BY HookFacts DEF Runs
<1>9. TypeInv' /\ Current'
  BY <1>1, <1>2, <1>6, <1>7, <1>8, SameRegistry DEF TypeInv, Current
<1>10. contexts'[i] = c /\ stage'[i] = s /\ \A j \in Indices : j # i => stage'[j] = stage[j] /\ contexts'[j] = contexts[j]
  BY <1>1, <1>6, <1>7
<1>11. task.op = "init" => contexts'[i].api = (contexts[i].api \/ Of(i).exports)
  <2>1. task.op = "init" => c = AfterInit(contexts[i], i)
    BY DEF c
  <2>2. AfterInit(contexts[i], i).api = (contexts[i].api \/ Of(i).exports)
    BY DEF AfterInit
  <2>. QED BY <1>10, <2>1, <2>2
<1>12. task.op = "load" => contexts'[i].api = contexts[i].api
  <2>1. task.op = "load" => c = contexts[i]
    BY DEF c
  <2>. QED BY <1>10, <2>1
<1>. QED BY <1>1, <1>2, <1>9, <1>10, <1>11, <1>12 DEF s

(* The hook of a loop that starts plugins: what the plugin depends on has  *)
(* been started before it.                                                 *)
LEMMA StartingHook ==
  ASSUME NEW i, Runs(i), task.op \in {"init", "load"}
  PROVE  IInv'
<1>. DEFINE N == Len(sorted)
            L == Len(task.left)
            passed == N - L
<1>1. /\ TypeInv /\ Current /\ StartedTogether /\ NamesFound /\ APIsFound /\ Starting
      /\ ~fault /\ Hook /\ IInv /\ i = Head(task.left)
  BY DEF Runs, IInv
<1>2. /\ resolved /\ passed >= 0
      /\ \A x \in 1 .. L : task.left[x] = sorted[passed + x]
      /\ \A j \in 1 .. passed :
           /\ Started(sorted[j])
           /\ task.op = "init" /\ Of(sorted[j]).exports => contexts[sorted[j]].api
  BY <1>1 DEF Starting
<1>3. L \in Nat \ {0} /\ N \in Nat /\ DOMAIN sorted = 1 .. N /\ sorted \in Seq(Indices)
  BY <1>1, HookFacts, LenProperties DEF TypeInv
<1>4. /\ i \in Indices /\ i = sorted[passed + 1] /\ passed + 1 \in 1 .. N
      /\ task'.op = task.op /\ Len(task'.left) = L - 1
      /\ \A x \in 1 .. L - 1 : task'.left[x] = task.left[x + 1]
  <2>1. /\ i \in Indices /\ i = task.left[1] /\ task'.op = task.op /\ Len(task'.left) = L - 1
        /\ \A x \in 1 .. L - 1 : task'.left[x] = task.left[x + 1]
    BY <1>1, HookFacts
  <2>. HIDE DEF L, N
  <2>2. passed + 1 \in 1 .. N /\ 1 \in 1 .. L
    BY <1>2, <1>3
  <2>. QED BY <2>1, <2>2, <1>2
<1>. HIDE DEF L, N
<1>5. /\ Resolvable
      /\ \A d \in Deps(i) : \E x \in 1 .. passed : sorted[x] = d
  <2>1. Resolvable /\ ValidOrder(sorted)
    BY <1>1, <1>2 DEF Current
  <2>2. (passed + 1) - 1 = passed
    BY <1>3
  <2>. QED BY <1>3, <1>4, <2>1, <2>2 DEF ValidOrder
<1>6. /\ \A j \in Indices : Started(j) => Started(j)'
      /\ \A j \in Indices : j # i /\ Started(j)' => Started(j)
      /\ Started(i)'
  BY RunFacts DEF Started, Then
<1>7. \A j \in Indices : contexts[j].api => contexts'[j].api
  <2>1. contexts[i].api => contexts'[i].api
    BY RunFacts
  <2>2. \A j \in Indices : j # i => contexts'[j] = contexts[j]
    BY RunFacts
  <2>. QED BY <2>1, <2>2
<1>8. task.op = "init" /\ Of(i).exports => contexts'[i].api
  BY RunFacts
<1>9. UNCHANGED <<manifest, plugins>> /\ \A j \in Indices : Deps(j) \subseteq Indices
  BY <1>1, RunFacts, RegistryFacts DEF TypeInv
<1>10. \A d \in Deps(i) : Started(d) /\ (task.op = "init" /\ Of(d).exports => contexts[d].api)
  BY <1>2, <1>5
<1>11. StartedTogether'
  <2>. SUFFICES ASSUME NEW j \in Indices, Started(j)', NEW d \in Deps(j)
                PROVE  Started(d)'
    BY <1>9, SameRegistry DEF StartedTogether
  <2>1. Started(d) /\ d \in Indices
    BY <1>1, <1>4, <1>6, <1>9, <1>10 DEF StartedTogether
  <2>. QED BY <2>1, <1>6
<1>12. NamesFound'
  <2>. SUFFICES ASSUME NEW j \in Indices, Started(j)', NEW n \in Kept(j)
                PROVE  Find(n) # {}
    BY <1>9, SameRegistry DEF NamesFound
  <2>1. CASE j = i
    BY <2>1, <1>5 DEF Resolvable
  <2>2. CASE j # i
    BY <2>2, <1>1, <1>6 DEF NamesFound
  <2>. QED BY <2>1, <2>2
<1>13. APIsFound'
  <2>. SUFFICES ASSUME NEW j \in Indices, stage'[j] = "inited", NEW d \in Deps(j), Of(d).exports
                PROVE  contexts'[d].api
    BY <1>9, SameRegistry DEF APIsFound
  <2>1. d \in Indices
    BY <1>9
  <2>2. CASE j = i
    <3>1. task.op = "init"
      BY <2>2, RunFacts DEF Then
    <3>. QED BY <2>1, <2>2, <3>1, <1>7, <1>10
  <2>3. CASE j # i
    <3>1. stage'[j] = stage[j]
      BY <2>3, RunFacts
    <3>2. contexts[d].api
      BY <3>1, <1>1 DEF APIsFound
    <3>. QED BY <2>1, <3>2, <1>7
  <2>. QED BY <2>2, <2>3
<1>14. Starting'
  <2>. DEFINE L2 == Len(task'.left)
              passed2 == N - L2
  <2>1. L2 = L - 1 /\ passed2 = passed + 1 /\ passed2 >= 0
    BY <1>2, <1>3, <1>4
  <2>2. ASSUME NEW x \in 1 .. L2
        PROVE  task'.left[x] = sorted[passed2 + x]
    <3>1. x + 1 \in 1 .. L /\ x \in 1 .. L - 1 /\ passed + (x + 1) = passed2 + x
      BY <2>1, <1>3
    <3>2. task'.left[x] = task.left[x + 1]
      BY <3>1, <1>4
    <3>3. task.left[x + 1] = sorted[passed + (x + 1)]
      BY <3>1, <1>2
    <3>. QED BY <3>1, <3>2, <3>3
  <2>3. ASSUME NEW j \in 1 .. passed2
        PROVE  /\ Started(sorted[j])'
               /\ task.op = "init" /\ Of(sorted[j]).exports => contexts'[sorted[j]].api
    <3>0. j \in 1 .. N
      BY <2>1, <1>2, <1>3
    <3>1. sorted[j] \in Indices /\ sorted' = sorted
      BY <3>0, <1>3, RunFacts, ElementOfSeq DEF N
    <3>2. CASE j = passed + 1
      BY <3>1, <3>2, <1>4, <1>6, <1>8
    <3>3. CASE j # passed + 1
      <4>1. j \in 1 .. passed
        BY <2>1, <3>3, <1>2, <1>3
      <4>2. Started(sorted[j]) /\ (task.op = "init" /\ Of(sorted[j]).exports => contexts[sorted[j]].api)
        BY <4>1, <1>2
      <4>. QED BY <3>1, <4>2, <1>6, <1>7
    <3>. QED BY <3>2, <3>3
  <2>4. /\ sorted' = sorted /\ resolved' /\ N = Len(sorted')
        /\ \A j : Of(j)' = Of(j)
    BY <1>2, <1>9, RunFacts, SameRegistry DEF N
  <2>. HIDE DEF L2
  <2>5. /\ resolved' /\ N - L2 >= 0
        /\ \A x \in 1 .. L2 : task'.left[x] = sorted'[(N - L2) + x]
        /\ \A j \in 1 .. N - L2 :
             /\ Started(sorted[j])'
             /\ task'.op = "init" /\ Of(sorted[j])'.exports => contexts'[sorted'[j]].api
    BY <1>4, <2>1, <2>2, <2>3, <2>4
  <2>. QED BY <2>4, <2>5 DEF Starting, L2
<1>15. Stopping' /\ Waits'
  BY <1>4 DEF Stopping, Waits
<1>. QED BY <1>11, <1>12, <1>13, <1>14, <1>15, RunFacts DEF IInv

(* The hook of a loop that stops plugins: what depends on the plugin comes *)
(* behind it in the order and is down already.                             *)
LEMMA StoppingHook ==
  ASSUME NEW i, Runs(i), task.op \in {"shutdown", "unload"}
  PROVE  IInv'
<1>. DEFINE N == Len(sorted)
            L == Len(task.left)
<1>1. /\ TypeInv /\ Current /\ StartedTogether /\ NamesFound /\ APIsFound /\ Stopping
      /\ ~fault /\ Hook /\ IInv /\ i = Head(task.left) /\ task.left # <<>>
  BY DEF Runs, IInv
<1>2. /\ resolved /\ L <= N
      /\ \A x \in 1 .. L : task.left[x] = sorted[L + 1 - x]
      /\ \A j \in L + 1 .. N : ~Started(sorted[j])
  BY <1>1 DEF Stopping
<1>3. L \in Nat \ {0} /\ N \in Nat /\ DOMAIN sorted = 1 .. N /\ sorted \in Seq(Indices)
  BY <1>1, HookFacts, LenProperties DEF TypeInv
<1>4. /\ i \in Indices /\ i = sorted[L] /\ L \in 1 .. N
      /\ task'.op = task.op /\ Len(task'.left) = L - 1
      /\ \A x \in 1 .. L - 1 : task'.left[x] = task.left[x + 1]
  <2>1. /\ i \in Indices /\ i = task.left[1] /\ task'.op = task.op /\ Len(task'.left) = L - 1
        /\ \A x \in 1 .. L - 1 : task'.left[x] = task.left[x + 1]
    BY <1>1, HookFacts
  <2>. HIDE DEF L, N
  <2>2. L \in 1 .. N /\ 1 \in 1 .. L /\ L + 1 - 1 = L
    BY <1>2, <1>3
  <2>. QED BY <2>1, <2>2, <1>2
<1>5. Registry /\ ValidOrder(sorted)
  BY <1>1, <1>2 DEF Current, TypeInv
<1>6. ASSUME NEW j \in Indices, i \in Deps(j)
      PROVE  ~Started(j)
  <2>1. PICK y \in 1 .. N : sorted[y] = j
    <3>1. j \in ToSet(sorted)
      BY <1>5 DEF ValidOrder
    <3>. QED BY <3>1, <1>3, Members
  <2>2. PICK x \in 1 .. y - 1 : sorted[x] = i
    BY <1>3, <1>5, <1>6, <2>1 DEF ValidOrder
  <2>3. x \in 1 .. N
    BY <2>1, <2>2, <1>3
  <2>4. x = L
    <3>1. \A a, b \in 1 .. N : sorted[a] = sorted[b] => a = b
      BY <1>3, <1>5, ValidOnce
    <3>. QED BY <3>1, <1>4, <2>2, <2>3
  <2>5. y \in L + 1 .. N
    <3>. HIDE DEF L, N
    <3>. QED BY <1>3, <2>1, <2>2, <2>4
  <2>. QED BY <1>2, <2>1, <2>5
<1>. HIDE DEF L, N
<1>7. /\ UNCHANGED <<manifest, plugins>> /\ stage'[i] = "down"
      /\ \A j \in Indices : j # i => stage'[j] = stage[j] /\ contexts'[j] = contexts[j]
      /\ \A j \in Indices : Deps(j) \subseteq Indices
  <2>1. Then(task.op) = "down"
    BY DEF Then
  <2>2. stage'[i] = Then(task.op)
    BY RunFacts
  <2>3. /\ UNCHANGED <<manifest, plugins>>
        /\ \A j \in Indices : j # i => stage'[j] = stage[j] /\ contexts'[j] = contexts[j]
    BY RunFacts
  <2>. QED BY <2>1, <2>2, <2>3, <1>5, RegistryFacts
<1>8. /\ ~Started(i)' /\ \A j \in Indices : j # i => Started(j)' = Started(j)
  BY <1>7 DEF Started
<1>9. ASSUME NEW j \in Indices, Started(j)', NEW d \in Deps(j)
      PROVE  Started(j) /\ j # i /\ d # i /\ d \in Indices /\ Started(d)'
  <2>1. Started(j) /\ j # i
    BY <1>8, <1>9
  <2>2. d # i /\ d \in Indices
    BY <1>6, <1>7, <1>9, <2>1
  <2>3. Started(d)
    BY <1>1, <1>9, <2>1 DEF StartedTogether
  <2>. QED BY <2>1, <2>2, <2>3, <1>8
<1>10. StartedTogether'
  BY <1>7, <1>9, SameRegistry DEF StartedTogether
<1>11. NamesFound'
  <2>. SUFFICES ASSUME NEW j \in Indices, Started(j)', NEW n \in Kept(j)
                PROVE  Find(n) # {}
    BY <1>7, SameRegistry DEF NamesFound
  <2>1. Started(j)
    BY <1>8
  <2>. QED BY <2>1, <1>1 DEF NamesFound
<1>12. APIsFound'
  <2>. SUFFICES ASSUME NEW j \in Indices, stage'[j] = "inited", NEW d \in Deps(j), Of(d).exports
                PROVE  contexts'[d].api
    BY <1>7, SameRegistry DEF APIsFound
  <2>1. Started(j)'
    BY DEF Started
  <2>2. j # i /\ d # i /\ d \in Indices
    BY <2>1, <1>9
  <2>3. stage[j] = "inited" /\ contexts'[d] = contexts[d]
    BY <2>2, <1>7
  <2>. QED BY <2>3, <1>1 DEF APIsFound
<1>13. Stopping'
  <2>. DEFINE L2 == Len(task'.left)
  <2>1. L2 = L - 1 /\ L2 <= N
    BY <1>2, <1>3, <1>4
  <2>2. ASSUME NEW x \in 1 .. L2
        PROVE  task'.left[x] = sorted[L2 + 1 - x]
    <3>1. x + 1 \in 1 .. L /\ x \in 1 .. L - 1 /\ L + 1 - (x + 1) = L2 + 1 - x
      BY <2>1, <1>3
    <3>2. task'.left[x] = task.left[x + 1]
      BY <3>1, <1>4
    <3>3. task.left[x + 1] = sorted[L + 1 - (x + 1)]
      BY <3>1, <1>2
    <3>. QED BY <3>1, <3>2, <3>3
  <2>3. sorted' = sorted /\ resolved' /\ N = Len(sorted')
    BY <1>2, RunFacts DEF N
  <2>4. ASSUME NEW j \in L2 + 1 .. N
        PROVE  ~Started(sorted[j])'
    <3>0. j \in 1 .. N
      BY <2>1, <1>3
    <3>1. sorted[j] \in Indices
      BY <3>0, <1>3, ElementOfSeq DEF N
    <3>2. CASE sorted[j] = i
      BY <3>2, <2>3, <1>8
    <3>3. CASE sorted[j] # i
      <4>1. j # L
        BY <3>3, <1>4
      <4>2. j \in L + 1 .. N
        BY <4>1, <2>1, <1>3
      <4>3. ~Started(sorted[j])
        BY <4>2, <1>2
      <4>. QED BY <3>1, <3>3, <4>3, <2>3, <1>8
    <3>. QED BY <3>2, <3>3
  <2>. HIDE DEF L2
  <2>5. /\ resolved' /\ L2 <= Len(sorted')
        /\ \A x \in 1 .. L2 : task'.left[x] = sorted'[L2 + 1 - x]
        /\ \A j \in L2 + 1 .. Len(sorted') : ~Started(sorted[j])'
    BY <2>1, <2>2, <2>3, <2>4
  <2>. QED BY <2>5 DEF Stopping, L2
<1>14. Starting' /\ Waits'
  BY <1>4 DEF Starting, Waits
<1>. QED BY <1>10, <1>11, <1>12, <1>13, <1>14, RunFacts DEF IInv

LEMMA HookStep ==
  ASSUME IInv, Hook
  PROVE  IInv'
<1>1. task.left # <<>> /\ ~fault /\ task.op \in {"init", "load", "shutdown", "unload"}
  BY HookFacts DEF Hook
<1>2. CASE ~Good(Head(task.left))
  BY <1>2, FaultStep
<1>3. CASE Good(Head(task.left))
  <2>1. Runs(Head(task.left))
    BY <1>1, <1>3 DEF Runs
  <2>. QED BY <1>1, <2>1, StartingHook, StoppingHook
<1>. QED BY <1>2, <1>3

LEMMA StepIsSafe == IInv /\ [Next]_vars => IInv'
<1>. SUFFICES ASSUME IInv, [Next]_vars
              PROVE  IInv'
  OBVIOUS
<1>1. ASSUME NEW l \in Libs, RegisterPlugin(l) \/ LoadPluginFile(l)
      PROVE  IInv'
  BY <1>1, RegisterPluginStep, LoadFileStep
<1>2. CASE ResolveAndSort
  BY <1>2, ResolveStep
<1>3. CASE InitializePlugins \/ LoadPlugins
  BY <1>3, StartStep DEF InitializePlugins, LoadPlugins
<1>4. CASE ShutdownPlugins
  BY <1>4, TeardownStep DEF ShutdownPlugins
<1>5. CASE UnloadAll
  BY <1>5, TeardownStep DEF UnloadAll
<1>6. CASE Hook
  BY <1>6, HookStep
<1>7. CASE Finish
  BY <1>7, FinishStep
<1>8. CASE FreeLibraries
  BY <1>8, FreeStep
<1>9. CASE UNCHANGED vars
  <2>1. /\ TypeInv /\ Current /\ StartedTogether /\ NamesFound /\ APIsFound
        /\ Starting /\ Stopping /\ Waits
        /\ UNCHANGED <<manifest, plugins, contexts, sorted, resolved, handles, maps, task, stage, fault>>
    BY <1>9 DEF IInv, vars
  <2>2. TypeInv' /\ Current'
    BY <2>1, SameRegistry DEF TypeInv, Current
  <2>3. StartedTogether' /\ NamesFound' /\ APIsFound'
    BY <2>1, QuietStep
  <2>4. Waits' /\ \A i : Of(i)' = Of(i) /\ Started(i)' = Started(i)
    BY <2>1 DEF Waits, Of, Started
  <2>5. Starting'
    BY <2>1, <2>4 DEF Starting
  <2>6. Stopping'
    BY <2>1, <2>4 DEF Stopping
  <2>. QED BY <2>2, <2>3, <2>4, <2>5, <2>6 DEF IInv
<1>. QED BY <1>1, <1>2, <1>3, <1>4, <1>5, <1>6, <1>7, <1>8, <1>9 DEF Next

LEMMA AlwaysSafe == Spec => []IInv
<1>1. Init => IInv
  BY InitIsSafe
<1>2. IInv /\ [Next]_vars => IInv'
  BY StepIsSafe
<1>. QED BY <1>1, <1>2, PTL DEF Spec

-------------------------------------------------------------------------------
(* For every set of plugins and every graph of kept dependencies: an order *)
(* the manager takes to be current is a valid one for all registered,      *)
(* and ResolveAndSort fails only where no valid order exists               *)
(* (PluginManager.hpp:66-118).                                             *)
THEOREM OrderIsRight == Spec => []SortIsRight
<1>1. IInv => SortIsRight
  BY SortIsExact DEF IInv, TypeInv, Current, SortIsRight
<1>. QED BY <1>1, AlwaysSafe, PTL

(* The newest plugin has no hook behind it unless the order is current.    *)
Late == ~resolved /\ stage # <<>> => Last(stage) = "registered"

(* A shutdown that has run has left nothing started.                       *)
AllStopped ==
  task.op \in {"shutdown", "unload"} /\ task.left = <<>> /\ resolved /\ ~fault =>
    \A i \in Indices : ~Started(i)

LEMMA LateStep ==
  ASSUME IInv, Late, [Next]_vars
  PROVE  Late'
<1>1. ASSUME NEW l, RegisterPlugin(l) \/ LoadPluginFile(l)
      PROVE  Late'
  <2>1. stage' = Append(stage, "registered")
    BY <1>1 DEF RegisterPlugin, LoadPluginFile, Registered
  <2>2. stage \in Seq(Stages) /\ "registered" \in Stages /\ Len(stage) \in Nat
    BY LenProperties DEF IInv, TypeInv, Stages
  <2>3. Len(stage') = Len(stage) + 1 /\ stage'[Len(stage) + 1] = "registered"
    BY <2>1, <2>2, AppendProperties
  <2>. QED BY <2>3 DEF Late, Last
<1>2. CASE Hook
  <2>1. resolved \/ ~Good(Head(task.left))
    BY <1>2, HookFacts DEF Hook, IInv, Starting, Stopping
  <2>2. resolved' = resolved /\ (~Good(Head(task.left)) => stage' = stage)
    BY <1>2 DEF Hook
  <2>. QED BY <2>1, <2>2 DEF Late
<1>3. CASE ResolveAndSort \/ InitializePlugins \/ LoadPlugins
  <2>1. stage' = stage /\ (resolved => resolved')
    BY <1>3 DEF ResolveAndSort, InitializePlugins, LoadPlugins, Start, Sorting
  <2>. QED BY <2>1 DEF Late
<1>4. CASE ShutdownPlugins \/ UnloadAll \/ Finish \/ FreeLibraries \/ UNCHANGED vars
  BY <1>4 DEF ShutdownPlugins, UnloadAll, Finish, FreeLibraries, vars, Late
<1>. QED BY <1>1, <1>2, <1>3, <1>4 DEF Next

LEMMA InOrder ==
  ASSUME IInv, resolved, NEW i \in Indices
  PROVE  \E x \in 1 .. Len(sorted) : sorted[x] = i
<1>1. sorted \in Seq(Indices) /\ ToSet(sorted) = Indices
  BY DEF IInv, TypeInv, Current, ValidOrder
<1>. QED BY <1>1, Members

(* The last hook of a shutdown is that of the first plugin in the order.   *)
LEMMA LastHookStops ==
  ASSUME IInv, Hook, task'.left = <<>>, task.op \in {"shutdown", "unload"}, ~fault'
  PROVE  AllStopped'
<1>1. Runs(Head(task.left)) /\ Head(task.left) = task.left[1] /\ Len(task.left) = 1
  <2>1. Len(task'.left) = 0 /\ Len(task.left) \in Nat /\ Len(task'.left) = Len(task.left) - 1
    BY HookFacts
  <2>2. Good(Head(task.left)) /\ ~fault /\ task.left # <<>>
    BY DEF Hook
  <2>. QED BY <2>1, <2>2, HookFacts DEF Runs
<1>2. /\ resolved /\ 1 <= Len(sorted) /\ Len(sorted) \in Nat /\ task.left[1] = sorted[1]
      /\ \A j \in 2 .. Len(sorted) : ~Started(sorted[j])
  <2>1. Stopping /\ ~fault /\ task.left # <<>> /\ sorted \in Seq(Indices)
    BY <1>1 DEF Runs, IInv, TypeInv
  <2>2. 1 \in 1 .. 1 /\ 1 + 1 - 1 = 1 /\ 1 + 1 = 2
    OBVIOUS
  <2>. QED BY <1>1, <2>1, <2>2, LenProperties DEF Stopping
<1>. DEFINE h == sorted[1]
<1>3. /\ h \in Indices /\ stage'[h] = "down" /\ UNCHANGED <<manifest, plugins>>
      /\ \A j \in Indices : j # h => stage'[j] = stage[j]
  <2>1. h = Head(task.left) /\ Then(task.op) = "down"
    BY <1>1, <1>2 DEF Then
  <2>. QED BY <1>1, <2>1, RunFacts
<1>4. ASSUME NEW i \in Indices
      PROVE  ~Started(i)'
  <2>1. CASE i = h
    BY <1>3, <2>1 DEF Started
  <2>2. CASE i # h
    <3>1. PICK x \in 1 .. Len(sorted) : sorted[x] = i
      BY <1>2, InOrder
    <3>2. x \in 2 .. Len(sorted)
      BY <1>2, <2>2, <3>1
    <3>. QED BY <1>2, <1>3, <2>2, <3>1, <3>2 DEF Started
  <2>. QED BY <2>1, <2>2
<1>. QED BY <1>3, <1>4, SameRegistry DEF AllStopped

LEMMA AllStoppedStep ==
  ASSUME IInv, AllStopped, [Next]_vars
  PROVE  AllStopped'
<1>1. CASE ShutdownPlugins \/ UnloadAll
  <2>1. /\ task'.left = IF resolved THEN Reverse(sorted) ELSE <<>>
        /\ UNCHANGED <<manifest, plugins, resolved, sorted, stage>>
    BY <1>1 DEF ShutdownPlugins, UnloadAll, Teardown
  <2>2. SUFFICES ASSUME resolved, Reverse(sorted) = <<>>, NEW i \in Indices PROVE FALSE
    BY <2>1, SameRegistry DEF AllStopped
  <2>3. sorted \in Seq(Indices) /\ Len(sorted) \in Nat
    BY LenProperties DEF IInv, TypeInv
  <2>4. Reverse(sorted) = [x \in 1 .. Len(sorted) |-> sorted[(Len(sorted) - x) + 1]]
    BY DEF Reverse
  <2>5. DOMAIN Reverse(sorted) = 1 .. Len(sorted) /\ DOMAIN <<>> = {}
    BY <2>4
  <2>6. 1 .. Len(sorted) = {}
    BY <2>2, <2>5
  <2>. QED BY <2>2, <2>6, InOrder
<1>2. CASE Hook
  <2>1. task'.op = task.op
    BY <1>2, HookFacts
  <2>. QED BY <1>2, <2>1, LastHookStops DEF AllStopped
<1>3. ASSUME NEW l, RegisterPlugin(l) \/ LoadPluginFile(l)
      PROVE  AllStopped'
  BY <1>3 DEF RegisterPlugin, LoadPluginFile, AllStopped, Idle
<1>4. CASE ResolveAndSort \/ Finish \/ FreeLibraries
  <2>1. task'.op = "none"
    BY <1>4 DEF ResolveAndSort, Finish, FreeLibraries, Idle
  <2>. QED BY <2>1 DEF AllStopped
<1>5. CASE InitializePlugins \/ LoadPlugins
  <2>1. task'.op \in {"init", "load", "none"}
    BY <1>5 DEF InitializePlugins, LoadPlugins, Start, Idle
  <2>. QED BY <2>1 DEF AllStopped
<1>6. CASE UNCHANGED vars
  BY <1>6, SameRegistry DEF vars, AllStopped, Started
<1>. QED BY <1>1, <1>2, <1>3, <1>4, <1>5, <1>6 DEF Next

LEMMA AlwaysStops == Spec => [](IInv /\ Late /\ AllStopped)
<1>1. Init => Late /\ AllStopped
  BY DEF Init, Late, AllStopped, Idle
<1>2. IInv /\ Late /\ AllStopped /\ [Next]_vars => Late' /\ AllStopped'
  BY LateStep, AllStoppedStep
<1>. QED BY <1>1, <1>2, InitIsSafe, StepIsSafe, PTL DEF Spec

(* For every set of plugins, and between any two hooks of any loop: no     *)
(* plugin is up while one it depends on was never started or is shut down, *)
(* and only an UnloadAll behind a late registration abandons a plugin      *)
(* (PluginManager.hpp:121-158, PluginLoader.hpp:97-108).                   *)
THEOREM NothingUpAlone == Spec => []DependenciesUp
<1>1. ASSUME IInv, NEW i \in Indices, Up(i), NEW d \in Deps(i)
      PROVE  Up(d) \/ Abandoned(d)
  BY <1>1 DEF IInv, StartedTogether, Up, Abandoned
<1>2. ASSUME IInv, Late, AllStopped, Unmapping, NEW i \in Indices, Up(i)
      PROVE  Last(stage) = "registered"
  <2>1. ~resolved
    BY <1>2 DEF AllStopped, Unmapping, Up
  <2>2. stage # <<>>
    <3>1. Len(stage) = Len(plugins) /\ Len(plugins) # 0
      BY <1>2, RegistryFacts DEF IInv, TypeInv
    <3>. QED BY <3>1
  <2>. QED BY <1>2, <2>1, <2>2 DEF Late
<1>3. IInv /\ Late /\ AllStopped => DependenciesUp
  BY <1>1, <1>2 DEF DependenciesUp
<1>. QED BY <1>3, AlwaysStops, PTL

(* An initialised plugin finds the API of each plugin it depends on, and   *)
(* finds it in mapped memory unless that plugin was abandoned              *)
(* (PluginContext.hpp:79, PluginManager.hpp:177-180).                      *)
THEOREM APIsAreFound == Spec => []InitedFindsAPIs
<1>1. ASSUME IInv, NEW i \in Indices, stage[i] = "inited", NEW d \in Deps(i), Of(d).exports
      PROVE  HasAPI(Of(d).name) /\ (Good(d) \/ Abandoned(d))
  <2>1. PICK n \in Kept(i) : d \in Find(n)
    BY <1>1 DEF Deps
  <2>2. d \in Find(Of(d).name)
    BY <2>1 DEF Find
  <2>3. contexts[d].api
    BY <1>1 DEF IInv, APIsFound
  <2>4. Started(d)
    BY <1>1 DEF IInv, StartedTogether, Started
  <2>. QED BY <2>2, <2>3, <2>4 DEF HasAPI, Abandoned
<1>2. IInv => InitedFindsAPIs
  BY <1>1 DEF InitedFindsAPIs
<1>. QED BY <1>2, AlwaysSafe, PTL
================================================================================
