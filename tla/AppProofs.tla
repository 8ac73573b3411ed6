------------------------------- MODULE AppProofs ------------------------------
(***************************************************************************)
(* Proofs about the Launcher, for every list of applications and every     *)
(* size of its window: the selected entry stays on the window, the         *)
(* distance of names is the edit distance, and the search finds the first  *)
(* of the nearest names.  And about Tetris, for every board of at least    *)
(* four by four: the piece stays on free cells of the board exactly as     *)
(* long as the game is on, and the loop that clears rows stacks the others. *)
(***************************************************************************)
EXTENDS Tetris, Launcher, Induction, FiniteSetTheorems

(***************************************************************************)
(* What an alignment of two beginnings costs beside one of shorter ones.   *)
(***************************************************************************)

LEMMA EditedIsFinite ==
  ASSUME NEW s, NEW t, NEW i \in Nat, NEW f
  PROVE  /\ IsFiniteSet(Edited(s, t, i, f)) /\ Edited(s, t, i, f) \subseteq 1 .. i
         /\ Cardinality(Edited(s, t, i, f)) \in Nat /\ Cardinality(Edited(s, t, i, f)) <= i
<1>1. IsFiniteSet(1 .. i) /\ Cardinality(1 .. i) = i
  BY FS_Interval
<1>2. Edited(s, t, i, f) \in SUBSET (1 .. i)
  BY DEF Edited
<1>3. IsFiniteSet(Edited(s, t, i, f)) /\ Cardinality(Edited(s, t, i, f)) <= i
  BY <1>1, <1>2, FS_Subset
<1>. QED BY <1>2, <1>3, FS_CardinalityType

LEMMA LeftAloneIsFinite ==
  ASSUME NEW i \in Nat, NEW j \in Nat, NEW f
  PROVE  /\ IsFiniteSet(LeftAlone(i, j, f)) /\ LeftAlone(i, j, f) \subseteq 1 .. j
         /\ Cardinality(LeftAlone(i, j, f)) \in Nat /\ Cardinality(LeftAlone(i, j, f)) <= j
<1>1. IsFiniteSet(1 .. j) /\ Cardinality(1 .. j) = j
  BY FS_Interval
<1>2. LeftAlone(i, j, f) \in SUBSET (1 .. j)
  BY DEF LeftAlone
<1>3. IsFiniteSet(LeftAlone(i, j, f)) /\ Cardinality(LeftAlone(i, j, f)) <= j
  BY <1>1, <1>2, FS_Subset
<1>. QED BY <1>2, <1>3, FS_CardinalityType

Beginning(f, i) == [a \in 1 .. i |-> f[a]]

(* The last character of s is left alone.                                  *)
LEMMA LastDeleted ==
  ASSUME NEW s, NEW t, NEW i \in Nat \ {0}, NEW j \in Nat,
         NEW f \in [1 .. i -> 0 .. j], f[i] = 0
  PROVE  /\ f \in Alignments(i, j) <=> Beginning(f, i - 1) \in Alignments(i - 1, j)
         /\ AlignmentCost(s, t, i, j, f)
              = AlignmentCost(s, t, i - 1, j, Beginning(f, i - 1)) + 1
<1>. DEFINE g == Beginning(f, i - 1)
<1>1. i - 1 \in Nat /\ \A a : a \in 1 .. i <=> a \in 1 .. i - 1 \/ a = i
  OBVIOUS
<1>2. g \in [1 .. i - 1 -> 0 .. j] /\ \A a \in 1 .. i - 1 : g[a] = f[a]
  BY DEF Beginning
<1>3. f \in Alignments(i, j) <=> g \in Alignments(i - 1, j)
  <2>1. f \in Alignments(i, j) => g \in Alignments(i - 1, j)
    BY <1>1, <1>2 DEF Alignments
  <2>2. ASSUME g \in Alignments(i - 1, j), NEW a \in 1 .. i, NEW b \in 1 .. i,
               a < b, f[a] # 0, f[b] # 0
        PROVE  f[a] < f[b]
    <3>1. a \in 1 .. i - 1 /\ b \in 1 .. i - 1
      BY <1>1, <2>2
    <3>. QED BY <1>2, <2>2, <3>1 DEF Alignments
  <2>3. g \in Alignments(i - 1, j) => f \in Alignments(i, j)
    BY <2>2 DEF Alignments
  <2>. QED BY <2>1, <2>3
<1>4. Edited(s, t, i, f) = Edited(s, t, i - 1, g) \cup {i} /\ i \notin Edited(s, t, i - 1, g)
  BY <1>1, <1>2 DEF Edited
<1>5. LeftAlone(i, j, f) = LeftAlone(i - 1, j, g)
  BY <1>1, <1>2 DEF LeftAlone
<1>. HIDE DEF g
<1>6. Cardinality(Edited(s, t, i, f)) = Cardinality(Edited(s, t, i - 1, g)) + 1
  <2>1. IsFiniteSet(Edited(s, t, i - 1, g))
    BY <1>1, EditedIsFinite
  <2>2. Cardinality(Edited(s, t, i - 1, g) \cup {i}) = Cardinality(Edited(s, t, i - 1, g)) + 1
    BY <1>4, <2>1, FS_AddElement
  <2>. QED BY <1>4, <2>2
<1>7. /\ Cardinality(Edited(s, t, i - 1, g)) \in Nat
      /\ Cardinality(LeftAlone(i - 1, j, g)) \in Nat
  BY <1>1, EditedIsFinite, LeftAloneIsFinite
<1>8. AlignmentCost(s, t, i, j, f) = AlignmentCost(s, t, i - 1, j, g) + 1
  BY <1>5, <1>6, <1>7 DEF AlignmentCost
<1>. QED BY <1>3, <1>8 DEF g

(* The last character of t is left alone.                                  *)
LEMMA LastInserted ==
  ASSUME NEW s, NEW t, NEW i \in Nat, NEW j \in Nat \ {0},
         NEW f \in [1 .. i -> 0 .. j - 1]
  PROVE  /\ f \in Alignments(i, j) <=> f \in Alignments(i, j - 1)
         /\ AlignmentCost(s, t, i, j, f) = AlignmentCost(s, t, i, j - 1, f) + 1
<1>1. j - 1 \in Nat /\ \A a : a \in 1 .. j <=> a \in 1 .. j - 1 \/ a = j
  OBVIOUS
<1>2. f \in [1 .. i -> 0 .. j]
  OBVIOUS
<1>3. f \in Alignments(i, j) <=> f \in Alignments(i, j - 1)
  BY <1>2 DEF Alignments
<1>4. LeftAlone(i, j, f) = LeftAlone(i, j - 1, f) \cup {j} /\ j \notin LeftAlone(i, j - 1, f)
  <2>1. \A a \in 1 .. i : f[a] # j
    OBVIOUS
  <2>. QED BY <1>1, <2>1 DEF LeftAlone
<1>5. Cardinality(LeftAlone(i, j, f)) = Cardinality(LeftAlone(i, j - 1, f)) + 1
  BY <1>1, <1>4, EditedIsFinite, LeftAloneIsFinite, FS_AddElement
<1>6. Cardinality(Edited(s, t, i, f)) \in Nat /\ Cardinality(LeftAlone(i, j - 1, f)) \in Nat
  BY <1>1, EditedIsFinite, LeftAloneIsFinite
<1>7. AlignmentCost(s, t, i, j, f) = AlignmentCost(s, t, i, j - 1, f) + 1
  BY <1>5, <1>6 DEF AlignmentCost
<1>. QED BY <1>3, <1>7

(* The last two characters are a pair.                                     *)
LEMMA LastPaired ==
  ASSUME NEW s, NEW t, NEW i \in Nat \ {0}, NEW j \in Nat \ {0},
         NEW f \in [1 .. i -> 0 .. j], f[i] = j
  PROVE  /\ f \in Alignments(i, j) => Beginning(f, i - 1) \in Alignments(i - 1, j - 1)
         /\ Beginning(f, i - 1) \in Alignments(i - 1, j - 1) =>
              /\ f \in Alignments(i, j)
              /\ AlignmentCost(s, t, i, j, f)
                   = AlignmentCost(s, t, i - 1, j - 1, Beginning(f, i - 1)) + Cost(s[i], t[j])
<1>. DEFINE g == Beginning(f, i - 1)
<1>1. /\ i - 1 \in Nat /\ \A a : a \in 1 .. i <=> a \in 1 .. i - 1 \/ a = i
      /\ j - 1 \in Nat /\ \A a : a \in 1 .. j <=> a \in 1 .. j - 1 \/ a = j
  OBVIOUS
<1>2. \A a \in 1 .. i - 1 : g[a] = f[a]
  BY DEF Beginning
<1>3. ASSUME f \in Alignments(i, j)
      PROVE  g \in Alignments(i - 1, j - 1)
  <2>1. ASSUME NEW a \in 1 .. i - 1
        PROVE  f[a] \in 0 .. j - 1
    <3>1. a \in 1 .. i /\ i \in 1 .. i /\ a < i /\ f[a] \in 0 .. j
      OBVIOUS
    <3>2. f[a] # 0 => f[a] < j
      BY <1>3, <3>1 DEF Alignments
    <3>. QED BY <3>1, <3>2
  <2>2. g \in [1 .. i - 1 -> 0 .. j - 1]
    BY <2>1 DEF Beginning
  <2>. QED BY <1>1, <1>2, <1>3, <2>2 DEF Alignments
<1>4. ASSUME g \in Alignments(i - 1, j - 1)
      PROVE  /\ f \in Alignments(i, j)
             /\ AlignmentCost(s, t, i, j, f)
                  = AlignmentCost(s, t, i - 1, j - 1, g) + Cost(s[i], t[j])
  <2>1. \A a \in 1 .. i - 1 : f[a] = g[a] /\ g[a] \in 0 .. j - 1
    BY <1>2, <1>4 DEF Alignments
  <2>2. f \in Alignments(i, j)
    <3>. SUFFICES ASSUME NEW a \in 1 .. i, NEW b \in 1 .. i, a < b, f[a] # 0, f[b] # 0
                  PROVE  f[a] < f[b]
      BY DEF Alignments
    <3>1. a \in 1 .. i - 1
      OBVIOUS
    <3>2. CASE b = i
      BY <2>1, <3>1, <3>2
    <3>3. CASE b # i
      <4>1. b \in 1 .. i - 1
        BY <3>3
      <4>. QED BY <1>4, <2>1, <3>1, <4>1 DEF Alignments
    <3>. QED BY <3>2, <3>3
  <2>3. LeftAlone(i, j, f) = LeftAlone(i - 1, j - 1, g)
    <3>. SUFFICES ASSUME NEW b PROVE b \in LeftAlone(i, j, f) <=> b \in LeftAlone(i - 1, j - 1, g)
      OBVIOUS
    <3>1. CASE b = j
      BY <1>1, <3>1 DEF LeftAlone
    <3>2. CASE b # j
      BY <1>1, <2>1, <3>2 DEF LeftAlone
    <3>. QED BY <3>1, <3>2
  <2>4. \A a \in 1 .. i - 1 : a \in Edited(s, t, i, f) <=> a \in Edited(s, t, i - 1, g)
    BY <1>1, <2>1 DEF Edited
  <2>5. i \in Edited(s, t, i, f) <=> Cost(s[i], t[j]) = 1
    BY <1>1 DEF Edited, Cost
  <2>6. i \notin Edited(s, t, i - 1, g) /\ Cost(s[i], t[j]) \in {0, 1}
    BY DEF Edited, Cost
  <2>7. Edited(s, t, i - 1, g) \subseteq 1 .. i - 1 /\ Edited(s, t, i, f) \subseteq 1 .. i
    BY DEF Edited
  <2>8. Edited(s, t, i, f) = IF Cost(s[i], t[j]) = 1 THEN Edited(s, t, i - 1, g) \cup {i}
                             ELSE Edited(s, t, i - 1, g)
    <3>1. \A a : a \in Edited(s, t, i, f) <=> \/ a \in Edited(s, t, i - 1, g)
                                              \/ a = i /\ Cost(s[i], t[j]) = 1
      BY <1>1, <2>4, <2>5, <2>7
    <3>. DEFINE E == Edited(s, t, i, f)
                F == Edited(s, t, i - 1, g)
                c == Cost(s[i], t[j])
    <3>. HIDE DEF E, F, c
    <3>2. \A a : a \in E <=> a \in F \/ (a = i /\ c = 1)
      BY <3>1 DEF E, F, c
    <3>3. E = IF c = 1 THEN F \cup {i} ELSE F
      BY <3>2
    <3>. QED BY <3>3 DEF E, F, c
  <2>. HIDE DEF g
  <2>9. Cardinality(Edited(s, t, i - 1, g) \cup {i}) = Cardinality(Edited(s, t, i - 1, g)) + 1
    BY <1>1, <2>6, EditedIsFinite, LeftAloneIsFinite, FS_AddElement
  <2>10. /\ Cardinality(Edited(s, t, i - 1, g)) \in Nat
         /\ Cardinality(LeftAlone(i - 1, j - 1, g)) \in Nat
    BY <1>1, EditedIsFinite, LeftAloneIsFinite
  <2>11. Cardinality(Edited(s, t, i, f)) = Cardinality(Edited(s, t, i - 1, g)) + Cost(s[i], t[j])
    BY <2>6, <2>8, <2>9, <2>10
  <2>. QED BY <2>2, <2>3, <2>6, <2>10, <2>11 DEF AlignmentCost
<1>. QED BY <1>3, <1>4

LEMMA DeletionExtends ==
  ASSUME NEW s, NEW t, NEW i \in Nat \ {0}, NEW j \in Nat, NEW g \in Alignments(i - 1, j)
  PROVE  \E f \in Alignments(i, j) :
           AlignmentCost(s, t, i, j, f) = AlignmentCost(s, t, i - 1, j, g) + 1
<1>. DEFINE f == [a \in 1 .. i |-> IF a = i THEN 0 ELSE g[a]]
<1>1. g \in [1 .. i - 1 -> 0 .. j]
  BY DEF Alignments
<1>2. f \in [1 .. i -> 0 .. j] /\ f[i] = 0
  BY <1>1
<1>3. Beginning(f, i - 1) = g
  BY <1>1 DEF Beginning
<1>. HIDE DEF f
<1>4. f \in Alignments(i, j)
  <2>1. f \in Alignments(i, j) <=> Beginning(f, i - 1) \in Alignments(i - 1, j)
    BY <1>2, LastDeleted
  <2>. QED BY <1>3, <2>1
<1>5. AlignmentCost(s, t, i, j, f) = AlignmentCost(s, t, i - 1, j, Beginning(f, i - 1)) + 1
  BY <1>2, LastDeleted
<1>. QED BY <1>3, <1>4, <1>5

LEMMA PairExtends ==
  ASSUME NEW s, NEW t, NEW i \in Nat \ {0}, NEW j \in Nat \ {0},
         NEW g \in Alignments(i - 1, j - 1)
  PROVE  \E f \in Alignments(i, j) :
           AlignmentCost(s, t, i, j, f) = AlignmentCost(s, t, i - 1, j - 1, g) + Cost(s[i], t[j])
<1>. DEFINE f == [a \in 1 .. i |-> IF a = i THEN j ELSE g[a]]
<1>1. g \in [1 .. i - 1 -> 0 .. j - 1]
  BY DEF Alignments
<1>2. f \in [1 .. i -> 0 .. j] /\ f[i] = j
  BY <1>1
<1>3. Beginning(f, i - 1) = g
  BY <1>1 DEF Beginning
<1>. HIDE DEF f
<1>. QED BY <1>2, <1>3, LastPaired

LEMMA PairShortens ==
  ASSUME NEW s, NEW t, NEW i \in Nat \ {0}, NEW j \in Nat \ {0},
         NEW f \in Alignments(i, j), f[i] = j
  PROVE  \E g \in Alignments(i - 1, j - 1) :
           AlignmentCost(s, t, i, j, f)
             = AlignmentCost(s, t, i - 1, j - 1, g) + Cost(s[i], t[j])
<1>1. f \in [1 .. i -> 0 .. j]
  BY DEF Alignments
<1>2. /\ Beginning(f, i - 1) \in Alignments(i - 1, j - 1)
      /\ AlignmentCost(s, t, i, j, f)
           = AlignmentCost(s, t, i - 1, j - 1, Beginning(f, i - 1)) + Cost(s[i], t[j])
  BY <1>1, LastPaired, Z3
<1>. QED BY <1>2

LEMMA EveryAlignment ==
  ASSUME NEW s, NEW t, NEW i \in Nat \ {0}, NEW j \in Nat, NEW f \in Alignments(i, j)
  PROVE  \/ \E g \in Alignments(i - 1, j) :
               AlignmentCost(s, t, i, j, f) = AlignmentCost(s, t, i - 1, j, g) + 1
         \/ /\ j # 0
            /\ \E g \in Alignments(i, j - 1) :
                 AlignmentCost(s, t, i, j, f) = AlignmentCost(s, t, i, j - 1, g) + 1
         \/ /\ j # 0
            /\ \E g \in Alignments(i - 1, j - 1) :
                 AlignmentCost(s, t, i, j, f)
                   = AlignmentCost(s, t, i - 1, j - 1, g) + Cost(s[i], t[j])
<1>1. f \in [1 .. i -> 0 .. j] /\ i \in 1 .. i /\ f[i] \in 0 .. j
  BY DEF Alignments
<1>2. CASE f[i] = 0
  <2>1. /\ f \in Alignments(i, j) <=> Beginning(f, i - 1) \in Alignments(i - 1, j)
        /\ AlignmentCost(s, t, i, j, f)
             = AlignmentCost(s, t, i - 1, j, Beginning(f, i - 1)) + 1
    BY <1>1, <1>2, LastDeleted
  <2>. QED BY <2>1
<1>3. CASE f[i] # 0 /\ f[i] = j
  <2>1. j \in Nat \ {0}
    BY <1>3
  <2>2. \E g \in Alignments(i - 1, j - 1) :
          AlignmentCost(s, t, i, j, f)
            = AlignmentCost(s, t, i - 1, j - 1, g) + Cost(s[i], t[j])
    BY <1>3, <2>1, PairShortens
  <2>. QED BY <2>1, <2>2
<1>4. CASE f[i] # 0 /\ f[i] # j
  <2>1. j \in Nat \ {0} /\ f[i] < j
    BY <1>1, <1>4
  <2>2. ASSUME NEW a \in 1 .. i
        PROVE  f[a] \in 0 .. j - 1
    <3>1. f[a] \in 0 .. j /\ (a = i \/ a < i)
      BY <1>1
    <3>2. a < i /\ f[a] # 0 => f[a] < f[i]
      BY <1>1, <1>4 DEF Alignments
    <3>. QED BY <1>1, <2>1, <3>1, <3>2
  <2>3. f \in [1 .. i -> 0 .. j - 1]
    BY <1>1, <2>2
  <2>4. f \in Alignments(i, j - 1)
    BY <2>1, <2>3, LastInserted
  <2>5. AlignmentCost(s, t, i, j, f) = AlignmentCost(s, t, i, j - 1, f) + 1
    BY <2>1, <2>3, LastInserted
  <2>. QED BY <2>1, <2>4, <2>5
<1>. QED BY <1>2, <1>3, <1>4

(***************************************************************************)
(* d is the cost of the cheapest alignment.                                *)
(***************************************************************************)

Cheapest(s, t, i, j, d) ==
  /\ d \in Nat
  /\ \E f \in Alignments(i, j) : AlignmentCost(s, t, i, j, f) = d
  /\ \A f \in Alignments(i, j) : d <= AlignmentCost(s, t, i, j, f)

LEMMA CostIsNatural ==
  ASSUME NEW s, NEW t, NEW i \in Nat, NEW j \in Nat, NEW f
  PROVE  AlignmentCost(s, t, i, j, f) \in Nat
BY EditedIsFinite, LeftAloneIsFinite DEF AlignmentCost

(* Nothing of s: every character of t is left alone.                       *)
LEMMA CheapestOfNone ==
  ASSUME NEW s, NEW t, NEW j \in Nat
  PROVE  Cheapest(s, t, 0, j, j)
<1>1. \A f : Edited(s, t, 0, f) = {} /\ LeftAlone(0, j, f) = 1 .. j
  BY DEF Edited, LeftAlone
<1>2. Cardinality({}) = 0 /\ Cardinality(1 .. j) = j
  BY FS_EmptySet, FS_Interval
<1>3. \A f : AlignmentCost(s, t, 0, j, f) = j
  BY <1>1, <1>2 DEF AlignmentCost
<1>4. [a \in 1 .. 0 |-> 0] \in Alignments(0, j)
  BY DEF Alignments
<1>. QED BY <1>3, <1>4 DEF Cheapest

(* Nothing of t: every character of s is left alone.                       *)
LEMMA CheapestToNone ==
  ASSUME NEW s, NEW t, NEW i \in Nat \ {0}, NEW d, Cheapest(s, t, i - 1, 0, d)
  PROVE  Cheapest(s, t, i, 0, d + 1)
<1>1. d \in Nat /\ i - 1 \in Nat
  BY DEF Cheapest
<1>2. \E f \in Alignments(i, 0) : AlignmentCost(s, t, i, 0, f) = d + 1
  BY DeletionExtends DEF Cheapest
<1>3. ASSUME NEW f \in Alignments(i, 0)
      PROVE  d + 1 <= AlignmentCost(s, t, i, 0, f)
  <2>1. PICK g \in Alignments(i - 1, 0) :
               AlignmentCost(s, t, i, 0, f) = AlignmentCost(s, t, i - 1, 0, g) + 1
    BY EveryAlignment
  <2>2. d <= AlignmentCost(s, t, i - 1, 0, g) /\ AlignmentCost(s, t, i - 1, 0, g) \in Nat
    BY <1>1, CostIsNatural DEF Cheapest
  <2>. QED BY <1>1, <2>1, <2>2
<1>. QED BY <1>1, <1>2, <1>3 DEF Cheapest

(* One step of the table.                                                  *)
LEMMA CheapestOfBoth ==
  ASSUME NEW s, NEW t, NEW i \in Nat \ {0}, NEW j \in Nat \ {0}, NEW u, NEW v, NEW z,
         Cheapest(s, t, i - 1, j, u), Cheapest(s, t, i, j - 1, v),
         Cheapest(s, t, i - 1, j - 1, z)
  PROVE  Cheapest(s, t, i, j, Min({u + 1, v + 1, z + Cost(s[i], t[j])}))
<1>. DEFINE c == Cost(s[i], t[j])
            M == {u + 1, v + 1, z + c}
            m == Min(M)
<1>1. /\ u \in Nat /\ v \in Nat /\ z \in Nat /\ c \in {0, 1}
      /\ i - 1 \in Nat /\ j - 1 \in Nat
  BY DEF Cheapest, Cost
<1>2. m \in M /\ (\A n \in M : m <= n)
  <2>1. M \in SUBSET Nat /\ M # {}
    BY <1>1
  <2>. HIDE DEF M
  <2>. QED BY <2>1, MinIsLeast
<1>3. m \in Nat /\ m <= u + 1 /\ m <= v + 1 /\ m <= z + c
      /\ (m = u + 1 \/ m = v + 1 \/ m = z + c)
  <2>. HIDE DEF m
  <2>. QED BY <1>1, <1>2
<1>. HIDE DEF m
<1>4. \E f \in Alignments(i, j) : AlignmentCost(s, t, i, j, f) = u + 1
  BY DeletionExtends DEF Cheapest
<1>5. \E f \in Alignments(i, j) : AlignmentCost(s, t, i, j, f) = v + 1
  <2>1. PICK g \in Alignments(i, j - 1) : AlignmentCost(s, t, i, j - 1, g) = v
    BY DEF Cheapest
  <2>2. g \in [1 .. i -> 0 .. j - 1]
    BY DEF Alignments
  <2>. QED BY <2>1, <2>2, LastInserted
<1>6. \E f \in Alignments(i, j) : AlignmentCost(s, t, i, j, f) = z + c
  <2>1. PICK g \in Alignments(i - 1, j - 1) : AlignmentCost(s, t, i - 1, j - 1, g) = z
    BY DEF Cheapest
  <2>. QED BY <2>1, PairExtends
<1>7. \E f \in Alignments(i, j) : AlignmentCost(s, t, i, j, f) = m
  BY <1>3, <1>4, <1>5, <1>6
<1>8. ASSUME NEW f \in Alignments(i, j)
      PROVE  m <= AlignmentCost(s, t, i, j, f)
  <2>1. CASE \E g \in Alignments(i - 1, j) :
               AlignmentCost(s, t, i, j, f) = AlignmentCost(s, t, i - 1, j, g) + 1
    <3>1. PICK g \in Alignments(i - 1, j) :
                 AlignmentCost(s, t, i, j, f) = AlignmentCost(s, t, i - 1, j, g) + 1
      BY <2>1
    <3>2. u <= AlignmentCost(s, t, i - 1, j, g) /\ AlignmentCost(s, t, i - 1, j, g) \in Nat
      BY <1>1, CostIsNatural DEF Cheapest
    <3>. QED BY <1>1, <1>3, <3>1, <3>2
  <2>2. CASE \E g \in Alignments(i, j - 1) :
               AlignmentCost(s, t, i, j, f) = AlignmentCost(s, t, i, j - 1, g) + 1
    <3>1. PICK g \in Alignments(i, j - 1) :
                 AlignmentCost(s, t, i, j, f) = AlignmentCost(s, t, i, j - 1, g) + 1
      BY <2>2
    <3>2. v <= AlignmentCost(s, t, i, j - 1, g) /\ AlignmentCost(s, t, i, j - 1, g) \in Nat
      BY <1>1, CostIsNatural DEF Cheapest
    <3>. QED BY <1>1, <1>3, <3>1, <3>2
  <2>3. CASE \E g \in Alignments(i - 1, j - 1) :
               AlignmentCost(s, t, i, j, f) = AlignmentCost(s, t, i - 1, j - 1, g) + c
    <3>1. PICK g \in Alignments(i - 1, j - 1) :
                 AlignmentCost(s, t, i, j, f) = AlignmentCost(s, t, i - 1, j - 1, g) + c
      BY <2>3
    <3>2. /\ z <= AlignmentCost(s, t, i - 1, j - 1, g)
          /\ AlignmentCost(s, t, i - 1, j - 1, g) \in Nat
      BY <1>1, CostIsNatural DEF Cheapest
    <3>. QED BY <1>1, <1>3, <3>1, <3>2
  <2>. QED BY <2>1, <2>2, <2>3, EveryAlignment
<1>9. Cheapest(s, t, i, j, m)
  BY <1>3, <1>7, <1>8 DEF Cheapest
<1>. QED BY <1>9 DEF m

(***************************************************************************)
(* The table.                                                              *)
(***************************************************************************)

(* Each entry of a row comes from the one before it and from two above.    *)
Follows(row, prev, c, t) ==
  /\ row \in [0 .. Len(t) -> Nat]
  /\ row[0] = prev[0] + 1
  /\ \A j \in 1 .. Len(t) :
       row[j] = Min({prev[j] + 1, row[j - 1] + 1, prev[j - 1] + Cost(c, t[j])})

LEMMA RowIsRecursion ==
  ASSUME NEW t, Len(t) \in Nat, NEW c, NEW prev \in [0 .. Len(t) -> Nat]
  PROVE  Follows(NextRow(prev, c, t), prev, c, t)
<1>. DEFINE n == Len(t)
<1>. HIDE DEF n
<1>0. n = Len(t) /\ n \in Nat /\ prev \in [0 .. n -> Nat]
  BY DEF n
<1>. DEFINE base == prev[0] + 1
            Entry(j, u) == Min({prev[j] + 1, u + 1, prev[j - 1] + Cost(c, t[j])})
            Rhs(f) == [j \in 0 .. n |-> IF j = 0 THEN base ELSE Entry(j, f[j - 1])]
            step == [j \in 1 .. n |-> [u \in Nat |-> Entry(j, u)]]
            row == CHOOSE f : f = Rhs(f)
<1>1. ASSUME NEW j \in 1 .. n, NEW u \in Nat
      PROVE  Entry(j, u) \in Nat
  <2>. DEFINE M == {prev[j] + 1, u + 1, prev[j - 1] + Cost(c, t[j])}
  <2>1. prev[j] \in Nat /\ prev[j - 1] \in Nat /\ Cost(c, t[j]) \in Nat
    BY <1>0 DEF Cost
  <2>2. M \in SUBSET Nat /\ M # {}
    BY <2>1
  <2>3. Min(M) \in M
    <3>. HIDE DEF M
    <3>. QED BY <2>2, MinIsLeast
  <2>. QED BY <2>2, <2>3
<1>2. base \in Nat
  BY <1>0
<1>. HIDE DEF Entry, base
<1>3. step \in [1 .. n -> [Nat -> Nat]]
  BY <1>1
<1>4. PICK g : Iterates(g, n, Nat, base, step)
  <2>. HIDE DEF step
  <2>. QED BY <1>0, <1>2, <1>3, Iteration
<1>. DEFINE h == [j \in 0 .. n |-> g[j]]
<1>5. h = Rhs(h)
  <2>1. ASSUME NEW j \in 0 .. n
        PROVE  h[j] = Rhs(h)[j]
    <3>1. CASE j = 0
      BY <3>1, <1>4 DEF Iterates
    <3>2. CASE j # 0
      <4>1. j \in 1 .. n /\ j - 1 \in 0 .. n
        BY <1>0, <3>2
      <4>2. g[j - 1] \in Nat /\ h[j - 1] = g[j - 1] /\ h[j] = step[j][g[j - 1]]
        BY <4>1, <1>4 DEF Iterates
      <4>3. step[j][g[j - 1]] = Entry(j, g[j - 1])
        BY <4>1, <4>2
      <4>. QED BY <3>2, <4>1, <4>2, <4>3
    <3>. QED BY <3>1, <3>2
  <2>. QED BY <2>1
<1>6. row = Rhs(row)
  <2>. HIDE DEF Rhs
  <2>. QED BY <1>5
<1>7. NextRow(prev, c, t) = row
  BY <1>0 DEF NextRow, base, Entry
<1>. HIDE DEF row
<1>8. row = [j \in 0 .. n |-> IF j = 0 THEN base ELSE Entry(j, row[j - 1])]
  BY <1>6 DEF Rhs
<1>9. row[0] = base /\ \A j \in 1 .. n : row[j] = Entry(j, row[j - 1])
  <2>1. 0 \in 0 .. n /\ \A j \in 1 .. n : j # 0 /\ j \in 0 .. n
    BY <1>0
  <2>. QED BY <1>8, <2>1
<1>. DEFINE T == {j \in 0 .. n : row[j] \in Nat}
<1>10. 0 \in T
  BY <1>0, <1>2, <1>9
<1>11. \A j \in 1 .. n : j - 1 \in T => j \in T
  <2>. SUFFICES ASSUME NEW j \in 1 .. n, row[j - 1] \in Nat PROVE row[j] \in Nat
    BY <1>0
  <2>. QED BY <1>1, <1>9
<1>12. \A j \in 0 .. n : j \in T
  <2>. HIDE DEF T
  <2>. QED BY <1>0, <1>10, <1>11, BoundedInduction
<1>13. row \in [0 .. n -> Nat]
  BY <1>8, <1>12
<1>. QED BY <1>0, <1>7, <1>9, <1>13 DEF base, Entry, Follows

RowIsCheapest(s, t, i, row) ==
  /\ row \in [0 .. Len(t) -> Nat]
  /\ \A j \in 0 .. Len(t) : Cheapest(s, t, i, j, row[j])

LEMMA FirstRowIsCheapest ==
  ASSUME NEW s, NEW t, Len(t) \in Nat
  PROVE  RowIsCheapest(s, t, 0, FirstRow(t))
<1>1. \A j \in 0 .. Len(t) : FirstRow(t)[j] = j /\ j \in Nat
  BY DEF FirstRow
<1>2. FirstRow(t) \in [0 .. Len(t) -> Nat]
  BY DEF FirstRow
<1>3. \A j \in 0 .. Len(t) : Cheapest(s, t, 0, j, FirstRow(t)[j])
  BY <1>1, CheapestOfNone
<1>. QED BY <1>2, <1>3 DEF RowIsCheapest

LEMMA NextRowIsCheapest ==
  ASSUME NEW s, NEW t, Len(t) \in Nat, NEW i \in Nat \ {0}, NEW prev,
         RowIsCheapest(s, t, i - 1, prev)
  PROVE  RowIsCheapest(s, t, i, NextRow(prev, s[i], t))
<1>. DEFINE n == Len(t)
            c == s[i]
            row == NextRow(prev, c, t)
            T == {j \in 0 .. n : Cheapest(s, t, i, j, row[j])}
<1>1. n \in Nat /\ prev \in [0 .. n -> Nat]
      /\ \A j \in 0 .. n : Cheapest(s, t, i - 1, j, prev[j])
  BY DEF RowIsCheapest
<1>2. /\ row \in [0 .. n -> Nat]
      /\ row[0] = prev[0] + 1
      /\ \A j \in 1 .. n :
           row[j] = Min({prev[j] + 1, row[j - 1] + 1, prev[j - 1] + Cost(c, t[j])})
  <2>1. Follows(NextRow(prev, c, t), prev, c, t)
    BY <1>1, RowIsRecursion
  <2>. QED BY <2>1 DEF Follows
<1>. HIDE DEF row
<1>3. 0 \in T
  <2>1. Cheapest(s, t, i, 0, prev[0] + 1)
    BY <1>1, CheapestToNone
  <2>. QED BY <1>1, <1>2, <2>1
<1>4. \A j \in 1 .. n : j - 1 \in T => j \in T
  <2>. SUFFICES ASSUME NEW j \in 1 .. n, j - 1 \in T PROVE Cheapest(s, t, i, j, row[j])
    OBVIOUS
  <2>1. j \in Nat \ {0} /\ j \in 0 .. n /\ j - 1 \in 0 .. n
    BY <1>1
  <2>2. /\ Cheapest(s, t, i - 1, j, prev[j]) /\ Cheapest(s, t, i, j - 1, row[j - 1])
        /\ Cheapest(s, t, i - 1, j - 1, prev[j - 1])
    BY <1>1, <2>1
  <2>3. Cheapest(s, t, i, j, Min({prev[j] + 1, row[j - 1] + 1, prev[j - 1] + Cost(s[i], t[j])}))
    BY <2>1, <2>2, CheapestOfBoth
  <2>. QED BY <1>2, <2>3
<1>5. \A j \in 0 .. n : j \in T
  <2>. HIDE DEF T, n
  <2>. QED BY <1>1, <1>3, <1>4, BoundedInduction
<1>6. RowIsCheapest(s, t, i, row)
  BY <1>2, <1>5 DEF RowIsCheapest
<1>. QED BY <1>6 DEF row

(* The names and searches are looked at up to Window characters.           *)
LEMMA SeenIsText ==
  ASSUME NEW s \in Seq(Letters)
  PROVE  /\ Seen(s) \in Seq(Letters) /\ Len(Seen(s)) \in Nat /\ Len(Seen(s)) <= Window
         /\ Len(s) <= Window => Seen(s) = s
<1>. DEFINE M == {Len(s), Window}
            m == Min(M)
<1>1. Len(s) \in Nat /\ Window \in Nat
  BY LetterAssumption
<1>2. m \in M /\ \A n \in M : m <= n
  <2>1. M \in SUBSET Nat /\ M # {}
    BY <1>1
  <2>. HIDE DEF M
  <2>. QED BY <2>1, MinIsLeast
<1>3. m \in Nat /\ m <= Len(s) /\ m <= Window /\ (Len(s) <= Window => m = Len(s))
  <2>. HIDE DEF m
  <2>. QED BY <1>1, <1>2
<1>4. Seen(s) = SubSeq(s, 1, m)
  BY DEF Seen
<1>. HIDE DEF m
<1>5. SubSeq(s, 1, m) \in Seq(Letters) /\ Len(SubSeq(s, 1, m)) = m
  BY <1>1, <1>3
<1>6. m = Len(s) => SubSeq(s, 1, m) = s
  BY <1>1
<1>. QED BY <1>3, <1>4, <1>5, <1>6

LEMMA TableIsRecursion ==
  ASSUME NEW s1 \in Seq(Letters), NEW s2 \in Seq(Letters)
  PROVE  \E dp : /\ dp[0] = FirstRow(Seen(s2))
                 /\ \A i \in 1 .. Len(Seen(s1)) :
                      dp[i] = NextRow(dp[i - 1], Seen(s1)[i], Seen(s2))
                 /\ Distance(s1, s2) = dp[Len(Seen(s1))][Len(Seen(s2))]
<1>. DEFINE s == Seen(s1)
            t == Seen(s2)
            n == Len(s)
            S == [0 .. Len(t) -> Nat]
            base == FirstRow(t)
            After(i, u) == NextRow(u, s[i], t)
            Rhs(f) == [i \in 0 .. n |-> IF i = 0 THEN base ELSE After(i, f[i - 1])]
            step == [i \in 1 .. n |-> [u \in S |-> After(i, u)]]
            dp == CHOOSE f : f = Rhs(f)
<1>1. n \in Nat /\ Len(t) \in Nat
  BY SeenIsText
<1>2. base \in S
  BY <1>1 DEF FirstRow
<1>3. step \in [1 .. n -> [S -> S]]
  <2>1. ASSUME NEW i \in 1 .. n, NEW u \in S
        PROVE  After(i, u) \in S
    <3>1. Follows(NextRow(u, s[i], t), u, s[i], t)
      BY <1>1, RowIsRecursion
    <3>. QED BY <3>1 DEF Follows
  <2>. HIDE DEF S, After
  <2>. QED BY <2>1
<1>. HIDE DEF S, After, base, n
<1>4. PICK g : Iterates(g, n, S, base, step)
  <2>. HIDE DEF step
  <2>. QED BY <1>1, <1>2, <1>3, Iteration
<1>. DEFINE h == [i \in 0 .. n |-> g[i]]
<1>5. h = Rhs(h)
  <2>1. ASSUME NEW i \in 0 .. n
        PROVE  h[i] = Rhs(h)[i]
    <3>1. CASE i = 0
      BY <3>1, <1>4 DEF Iterates
    <3>2. CASE i # 0
      <4>1. i \in 1 .. n /\ i - 1 \in 0 .. n
        BY <1>1, <3>2
      <4>2. g[i - 1] \in S /\ h[i - 1] = g[i - 1] /\ h[i] = step[i][g[i - 1]]
        BY <4>1, <1>4 DEF Iterates
      <4>3. step[i][g[i - 1]] = After(i, g[i - 1])
        BY <4>1, <4>2
      <4>. QED BY <3>2, <4>1, <4>2, <4>3
    <3>. QED BY <3>1, <3>2
  <2>. QED BY <2>1
<1>6. dp = Rhs(dp)
  <2>. HIDE DEF Rhs
  <2>. QED BY <1>5
<1>7. Distance(s1, s2) = dp[n][Len(t)]
  BY DEF Distance, base, After, n
<1>. HIDE DEF dp
<1>8. dp = [i \in 0 .. n |-> IF i = 0 THEN base ELSE After(i, dp[i - 1])]
  BY <1>6 DEF Rhs
<1>9. dp[0] = base /\ \A i \in 1 .. n : dp[i] = After(i, dp[i - 1])
  <2>1. 0 \in 0 .. n /\ \A i \in 1 .. n : i # 0 /\ i \in 0 .. n
    BY <1>1
  <2>. QED BY <1>8, <2>1
<1>. QED BY <1>7, <1>9 DEF base, After, n

(* The launcher's distance is the cost of the cheapest alignment, of what  *)
(* is looked at: for every two texts.                                      *)
LEMMA DistanceIsCheapest ==
  ASSUME NEW s1 \in Seq(Letters), NEW s2 \in Seq(Letters)
  PROVE  Cheapest(Seen(s1), Seen(s2), Len(Seen(s1)), Len(Seen(s2)), Distance(s1, s2))
<1>. DEFINE s == Seen(s1)
            t == Seen(s2)
            n == Len(s)
<1>1. n \in Nat /\ Len(t) \in Nat
  BY SeenIsText
<1>2. PICK dp : /\ dp[0] = FirstRow(t)
                /\ \A i \in 1 .. n : dp[i] = NextRow(dp[i - 1], s[i], t)
                /\ Distance(s1, s2) = dp[n][Len(t)]
  BY TableIsRecursion
<1>. DEFINE T == {i \in 0 .. n : RowIsCheapest(s, t, i, dp[i])}
<1>. HIDE DEF n, s, t
<1>3. 0 \in T
  BY <1>1, <1>2, FirstRowIsCheapest
<1>4. \A i \in 1 .. n : i - 1 \in T => i \in T
  <2>. SUFFICES ASSUME NEW i \in 1 .. n, RowIsCheapest(s, t, i - 1, dp[i - 1])
                PROVE  RowIsCheapest(s, t, i, dp[i])
    BY <1>1
  <2>1. i \in Nat \ {0}
    BY <1>1
  <2>2. RowIsCheapest(s, t, i, NextRow(dp[i - 1], s[i], t))
    BY <1>1, <2>1, NextRowIsCheapest
  <2>. QED BY <1>2, <2>2
<1>5. \A i \in 0 .. n : i \in T
  <2>. HIDE DEF T
  <2>. QED BY <1>1, <1>3, <1>4, BoundedInduction
<1>6. RowIsCheapest(s, t, n, dp[n])
  BY <1>1, <1>5
<1>7. Cheapest(s, t, n, Len(t), dp[n][Len(t)])
  BY <1>1, <1>6 DEF RowIsCheapest
<1>. QED BY <1>2, <1>7 DEF n, s, t

LEMMA EditDistanceIsCheapest ==
  ASSUME NEW s, NEW t, NEW d, Len(s) \in Nat, Len(t) \in Nat,
         Cheapest(s, t, Len(s), Len(t), d)
  PROVE  EditDistance(s, t) = d
<1>. DEFINE C == {AlignmentCost(s, t, Len(s), Len(t), f) : f \in Alignments(Len(s), Len(t))}
<1>1. C \in SUBSET Nat /\ d \in C /\ d \in Nat /\ \A c \in C : d <= c
  BY CostIsNatural DEF Cheapest
<1>2. EditDistance(s, t) = Min(C)
  BY DEF EditDistance
<1>. HIDE DEF C
<1>3. Min(C) \in C /\ \A c \in C : Min(C) <= c
  BY <1>1, MinIsLeast
<1>4. Min(C) \in Nat /\ Min(C) <= d /\ d <= Min(C)
  BY <1>1, <1>3
<1>. QED BY <1>1, <1>2, <1>4

(* Pairing the characters at the same places costs no more than the longer *)
(* text is long.                                                           *)
LEMMA CheapestIsShort ==
  ASSUME NEW s, NEW t, NEW i \in Nat, NEW j \in Nat, NEW d, NEW w \in Nat,
         i <= w, j <= w, Cheapest(s, t, i, j, d)
  PROVE  d <= w
<1>. DEFINE f == [a \in 1 .. i |-> IF a <= j THEN a ELSE 0]
<1>1. f \in Alignments(i, j)
  BY DEF Alignments
<1>2. LeftAlone(i, j, f) = i + 1 .. j
  <2>1. ASSUME NEW b \in 1 .. j
        PROVE  (\A a \in 1 .. i : f[a] # b) <=> b > i
    <3>1. b <= i => b \in 1 .. i /\ f[b] = b
      OBVIOUS
    <3>2. \A a \in 1 .. i : f[a] = b => a = b \/ b = 0
      OBVIOUS
    <3>. QED BY <3>1, <3>2
  <2>2. \A b \in i + 1 .. j : b \in 1 .. j
    OBVIOUS
  <2>. HIDE DEF f
  <2>. QED BY <2>1, <2>2 DEF LeftAlone
<1>. HIDE DEF f
<1>3. Cardinality(i + 1 .. j) = IF i + 1 > j THEN 0 ELSE j - (i + 1) + 1
  <2>1. i + 1 \in Int /\ j \in Int
    OBVIOUS
  <2>. QED BY <2>1, FS_Interval
<1>4. Cardinality(Edited(s, t, i, f)) \in Nat /\ Cardinality(Edited(s, t, i, f)) <= i
  BY EditedIsFinite
<1>5. AlignmentCost(s, t, i, j, f) <= w
  BY <1>2, <1>3, <1>4 DEF AlignmentCost
<1>6. d <= AlignmentCost(s, t, i, j, f) /\ d \in Nat
  BY <1>1 DEF Cheapest
<1>7. AlignmentCost(s, t, i, j, f) \in Nat
  BY CostIsNatural
<1>. QED BY <1>5, <1>6, <1>7

LEMMA DistanceIsNear ==
  ASSUME NEW s1 \in Seq(Letters), NEW s2 \in Seq(Letters)
  PROVE  Distance(s1, s2) \in Nat /\ Distance(s1, s2) < Farthest
<1>1. Cheapest(Seen(s1), Seen(s2), Len(Seen(s1)), Len(Seen(s2)), Distance(s1, s2))
  BY DistanceIsCheapest
<1>2. /\ Len(Seen(s1)) \in Nat /\ Len(Seen(s1)) <= Window
      /\ Len(Seen(s2)) \in Nat /\ Len(Seen(s2)) <= Window
  BY SeenIsText
<1>3. Distance(s1, s2) \in Nat
  BY <1>1 DEF Cheapest
<1>4. Window \in Nat /\ Farthest \in Nat /\ Window < Farthest
  BY LetterAssumption
<1>5. Distance(s1, s2) <= Window
  BY <1>1, <1>2, <1>4, CheapestIsShort
<1>. QED BY <1>3, <1>4, <1>5

LEMMA DistanceIsEditDistance ==
  ASSUME NEW s1 \in Seq(Letters), NEW s2 \in Seq(Letters),
         Len(s1) <= Window, Len(s2) <= Window
  PROVE  Distance(s1, s2) = EditDistance(s1, s2)
<1>1. Cheapest(Seen(s1), Seen(s2), Len(Seen(s1)), Len(Seen(s2)), Distance(s1, s2))
  BY DistanceIsCheapest
<1>2. Seen(s1) = s1 /\ Seen(s2) = s2 /\ Len(s1) \in Nat /\ Len(s2) \in Nat
  BY SeenIsText
<1>. QED BY <1>1, <1>2, EditDistanceIsCheapest

-------------------------------------------------------------------------------
(* The menu.                                                               *)

LEMMA RegistryLength == AppCount \in Nat
BY LauncherAssumption DEF AppCount

LEMMA NameIsText ==
  ASSUME NEW a \in Apps, Name(a) # NoApp
  PROVE  Name(a) \in Seq(Letters)
<1>1. a + 1 \in 1 .. Len(Registry) /\ Registry \in Seq(Seq(Letters) \cup {NoApp})
  BY LauncherAssumption DEF Apps, AppCount
<1>2. Registry[a + 1] \in Seq(Letters) \cup {NoApp}
  BY <1>1
<1>. QED BY <1>2 DEF Name

FirstBest == [app |-> 0, distance |-> Farthest]

BetterOf(text, n, s) ==
  IF Name(n - 1) # NoApp /\ Distance(text, Name(n - 1)) < s.distance
  THEN [app |-> n - 1, distance |-> Distance(text, Name(n - 1))] ELSE s

(* The loop of the search, whatever distance is.                           *)
LEMMA BestIsLoop ==
  ASSUME NEW text, AppCount # 0
  PROVE  \E best : /\ Best(text) = best[AppCount].app
                   /\ best[0] = FirstBest
                   /\ \A n \in 1 .. AppCount : best[n] = BetterOf(text, n, best[n - 1])
<1>. DEFINE N == AppCount
            far(n) == Distance(text, Name(n - 1))
            S == [app : Apps, distance : {Farthest} \cup {far(n) : n \in 1 .. N}]
            base == FirstBest
            Near(n, s) == BetterOf(text, n, s)
            Rhs(f) == [n \in 0 .. N |-> IF n = 0 THEN base ELSE Near(n, f[n - 1])]
            step == [n \in 1 .. N |-> [s \in S |-> Near(n, s)]]
            best == CHOOSE f : f = Rhs(f)
<1>1. N \in Nat \ {0} /\ 0 \in Apps /\ \A n \in 1 .. N : n - 1 \in Apps
  BY RegistryLength DEF Apps
<1>2. step \in [1 .. N -> [S -> S]]
  <2>1. ASSUME NEW n \in 1 .. N, NEW s \in S
        PROVE  Near(n, s) \in S
    <3>1. n - 1 \in Apps /\ far(n) \in {Farthest} \cup {far(m) : m \in 1 .. N}
      BY <1>1
    <3>2. Near(n, s) = s \/ Near(n, s) = [app |-> n - 1, distance |-> far(n)]
      BY DEF BetterOf
    <3>. HIDE DEF far, Near
    <3>. QED BY <3>1, <3>2
  <2>. HIDE DEF Near, S
  <2>. QED BY <2>1
<1>3. base \in S
  BY <1>1 DEF FirstBest
<1>4. PICK g : Iterates(g, N, S, base, step)
  <2>. HIDE DEF step, S, base, N
  <2>. QED BY <1>1, <1>2, <1>3, Iteration
<1>. HIDE DEF S
<1>. DEFINE h == [n \in 0 .. N |-> g[n]]
<1>5. h = Rhs(h)
  <2>1. ASSUME NEW n \in 0 .. N
        PROVE  h[n] = Rhs(h)[n]
    <3>. HIDE DEF Near, base
    <3>1. CASE n = 0
      BY <3>1, <1>4 DEF Iterates
    <3>2. CASE n # 0
      <4>1. n \in 1 .. N /\ n - 1 \in 0 .. N
        BY <3>2, <1>1
      <4>2. g[n - 1] \in S /\ h[n - 1] = g[n - 1] /\ h[n] = step[n][g[n - 1]]
        BY <4>1, <1>4 DEF Iterates
      <4>3. step[n][g[n - 1]] = Near(n, g[n - 1])
        BY <4>1, <4>2
      <4>. QED BY <3>2, <4>1, <4>2, <4>3
    <3>. QED BY <3>1, <3>2
  <2>. HIDE DEF Near, base
  <2>. QED BY <2>1
<1>6. best = Rhs(best)
  <2>. HIDE DEF Rhs
  <2>. QED BY <1>5
<1>7. Best(text) = best[N].app
  BY DEF Best, BetterOf, FirstBest
<1>. HIDE DEF best
<1>8. best[0] = base /\ \A n \in 1 .. N : best[n] = Near(n, best[n - 1])
  <2>1. best = [n \in 0 .. N |-> IF n = 0 THEN base ELSE Near(n, best[n - 1])]
    BY <1>6 DEF Rhs
  <2>2. 0 \in 0 .. N /\ \A n \in 1 .. N : n # 0 /\ n \in 0 .. N
    BY <1>1
  <2>. HIDE DEF base, N, Near
  <2>. QED BY <2>1, <2>2
<1>. QED BY <1>7, <1>8

(* The search answers an entry of the list, whatever distance is.          *)
LEMMA BestIsListed ==
  ASSUME NEW text, AppCount # 0
  PROVE  Best(text) \in Apps
<1>. DEFINE N == AppCount
<1>1. N \in Nat \ {0} /\ 0 \in Apps /\ \A n \in 1 .. N : n - 1 \in Apps
  BY RegistryLength DEF Apps
<1>2. PICK best : /\ Best(text) = best[N].app
                  /\ best[0] = FirstBest
                  /\ \A n \in 1 .. N : best[n] = BetterOf(text, n, best[n - 1])
  BY BestIsLoop
<1>. DEFINE T == {n \in 0 .. N : best[n].app \in Apps}
<1>3. 0 \in T
  BY <1>1, <1>2 DEF FirstBest
<1>4. \A n \in 1 .. N : n - 1 \in T => n \in T
  <2>. SUFFICES ASSUME NEW n \in 1 .. N, best[n - 1].app \in Apps PROVE best[n].app \in Apps
    BY <1>1
  <2>. DEFINE far == Distance(text, Name(n - 1))
  <2>1. \/ best[n] = [app |-> n - 1, distance |-> far]
        \/ best[n] = best[n - 1]
    BY <1>2 DEF BetterOf
  <2>. HIDE DEF far
  <2>. QED BY <1>1, <2>1
<1>5. \A n \in 0 .. N : n \in T
  <2>. HIDE DEF T, N
  <2>. QED BY <1>1, <1>3, <1>4, BoundedInduction
<1>. QED BY <1>1, <1>2, <1>5

(* What the loop knows after n entries: none was there, or the answer so   *)
(* far is the first of the nearest.                                        *)
NearestOf(text, n, s) ==
  \/ s = FirstBest /\ \A a \in 0 .. n - 1 : Name(a) = NoApp
  \/ /\ s.app \in 0 .. n - 1 /\ Name(s.app) # NoApp
     /\ s.distance = Distance(text, Name(s.app))
     /\ \A a \in 0 .. n - 1 : Name(a) # NoApp =>
          \/ s.distance < Distance(text, Name(a))
          \/ s.distance = Distance(text, Name(a)) /\ s.app <= a

LEMMA StepIsNearest ==
  ASSUME NEW text \in Seq(Letters), NEW n \in 1 .. AppCount, NEW s,
         NearestOf(text, n - 1, s)
  PROVE  NearestOf(text, n, BetterOf(text, n, s))
<1>. DEFINE far == Distance(text, Name(n - 1))
            new == [app |-> n - 1, distance |-> far]
<1>1. AppCount \in Nat
  BY RegistryLength
<1>2. \A a \in 0 .. AppCount - 1 :
        Name(a) # NoApp => Distance(text, Name(a)) \in Nat /\ Distance(text, Name(a)) < Farthest
  BY NameIsText, DistanceIsNear DEF Apps
<1>3. n \in Nat /\ Farthest \in Nat /\ n - 1 \in 0 .. AppCount - 1
      /\ \A a : a \in 0 .. n - 1 <=> a \in 0 .. n - 2 \/ a = n - 1
  BY <1>1, LetterAssumption
<1>4. new.app = n - 1 /\ new.distance = far
  OBVIOUS
<1>5. n - 1 - 1 = n - 2
  BY <1>3
<1>6. CASE Name(n - 1) = NoApp
  <2>1. BetterOf(text, n, s) = s
    BY <1>6 DEF BetterOf
  <2>2. NearestOf(text, n, s)
    BY <1>3, <1>5, <1>6 DEF NearestOf
  <2>. QED BY <2>1, <2>2
<1>7. CASE Name(n - 1) # NoApp /\ s = FirstBest /\ \A a \in 0 .. n - 2 : Name(a) = NoApp
  <2>1. far < s.distance /\ far \in Nat
    BY <1>2, <1>3, <1>7 DEF FirstBest
  <2>2. BetterOf(text, n, s) = new
    BY <1>7, <2>1 DEF BetterOf
  <2>. HIDE DEF new
  <2>3. NearestOf(text, n, new)
    BY <1>3, <1>4, <1>7, <2>1 DEF NearestOf
  <2>. QED BY <2>2, <2>3
<1>8. CASE /\ Name(n - 1) # NoApp
           /\ s.app \in 0 .. n - 2 /\ Name(s.app) # NoApp
           /\ s.distance = Distance(text, Name(s.app))
           /\ \A a \in 0 .. n - 2 : Name(a) # NoApp =>
                \/ s.distance < Distance(text, Name(a))
                \/ s.distance = Distance(text, Name(a)) /\ s.app <= a
  <2>1. far \in Nat /\ s.distance \in Nat
        /\ \A a \in 0 .. n - 1 : Name(a) # NoApp => Distance(text, Name(a)) \in Nat
    BY <1>1, <1>2, <1>3, <1>8
  <2>2. CASE far < s.distance
    <3>1. BetterOf(text, n, s) = new
      BY <1>8, <2>2 DEF BetterOf
    <3>. HIDE DEF new
    <3>2. ASSUME NEW a \in 0 .. n - 1, Name(a) # NoApp
          PROVE  \/ far < Distance(text, Name(a))
                 \/ far = Distance(text, Name(a)) /\ n - 1 <= a
      <4>1. CASE a = n - 1
        BY <1>3, <4>1
      <4>2. CASE a \in 0 .. n - 2
        <5>1. s.distance <= Distance(text, Name(a))
          BY <1>8, <2>1, <3>2, <4>2
        <5>. HIDE DEF far
        <5>. QED BY <2>1, <2>2, <3>2, <5>1
      <4>. QED BY <1>3, <4>1, <4>2
    <3>3. new.app \in 0 .. n - 1
      BY <1>3, <1>4
    <3>4. NearestOf(text, n, new)
      BY <1>4, <1>8, <3>2, <3>3 DEF NearestOf
    <3>. QED BY <3>1, <3>4
  <2>3. CASE ~(far < s.distance)
    <3>1. BetterOf(text, n, s) = s
      BY <2>3 DEF BetterOf
    <3>2. s.distance <= far /\ s.app <= n - 1
      BY <1>3, <1>8, <2>1, <2>3
    <3>. HIDE DEF new
    <3>3. NearestOf(text, n, s)
      BY <1>3, <1>8, <2>1, <3>2 DEF NearestOf
    <3>. QED BY <3>1, <3>3
  <2>. QED BY <2>2, <2>3
<1>. HIDE DEF new, far
<1>. QED BY <1>5, <1>6, <1>7, <1>8 DEF NearestOf

(* The search answers the first of the nearest entries that are there.     *)
LEMMA BestIsNearest ==
  ASSUME NEW text \in Seq(Letters), NEW a \in Apps, Name(a) # NoApp
  PROVE  /\ Best(text) \in Apps /\ Name(Best(text)) # NoApp
         /\ \/ Distance(text, Name(Best(text))) < Distance(text, Name(a))
            \/ Distance(text, Name(Best(text))) = Distance(text, Name(a)) /\ Best(text) <= a
<1>. DEFINE N == AppCount
<1>1. N \in Nat /\ N # 0 /\ a \in 0 .. N - 1
  BY RegistryLength DEF Apps
<1>2. PICK best : /\ Best(text) = best[N].app
                  /\ best[0] = FirstBest
                  /\ \A n \in 1 .. N : best[n] = BetterOf(text, n, best[n - 1])
  BY <1>1, BestIsLoop
<1>. DEFINE T == {n \in 0 .. N : NearestOf(text, n, best[n])}
<1>3. 0 \in T
  BY <1>1, <1>2 DEF NearestOf
<1>4. \A n \in 1 .. N : n - 1 \in T => n \in T
  <2>. SUFFICES ASSUME NEW n \in 1 .. N, NearestOf(text, n - 1, best[n - 1])
                PROVE  NearestOf(text, n, best[n])
    BY <1>1
  <2>. QED BY <1>2, StepIsNearest
<1>5. \A n \in 0 .. N : n \in T
  <2>. HIDE DEF T, N
  <2>. QED BY <1>1, <1>3, <1>4, BoundedInduction
<1>6. NearestOf(text, N, best[N])
  BY <1>1, <1>5
<1>. QED BY <1>1, <1>2, <1>6 DEF NearestOf, Apps

MenuInv ==
  /\ selected \in Nat /\ page \in Nat
  /\ AppCount # 0 => selected \in Apps
  /\ WindowShowsSelection

LEMMA SelectShows ==
  ASSUME MenuInv, NEW sel \in Apps, Select(sel)
  PROVE  MenuInv'
<1>1. PageSize \in Nat \ {0} /\ AppCount \in Nat /\ sel \in 0 .. AppCount - 1
  BY LauncherAssumption, RegistryLength DEF Apps
<1>2. selected' = sel /\ page' = Scrolled(page, sel)
  BY DEF Select
<1>3. /\ page \in Nat /\ selected \in Apps
      /\ page <= selected /\ selected < page + PageSize
      /\ page > 0 => page + PageSize <= AppCount
  BY <1>1 DEF MenuInv, WindowShowsSelection
<1>4. /\ page' \in Nat /\ page' <= sel /\ sel < page' + PageSize
      /\ page' > 0 => page' + PageSize <= AppCount
  BY <1>1, <1>2, <1>3 DEF Scrolled
<1>. QED BY <1>1, <1>2, <1>4 DEF MenuInv, WindowShowsSelection, AppCount, Apps

LEMMA SameMenu ==
  ASSUME MenuInv, UNCHANGED <<selected, page>>
  PROVE  MenuInv'
BY DEF MenuInv, WindowShowsSelection, AppCount, Apps

LEMMA MenuSteps ==
  ASSUME MenuInv, [MenuNext]_menuVars
  PROVE  MenuInv'
<1>1. ASSUME NEW text, Find(text)
      PROVE  MenuInv'
  BY <1>1, BestIsListed, SelectShows, SameMenu DEF Find
<1>2. CASE Up
  <2>1. selected \in Nat /\ selected > 0 /\ (AppCount # 0 => selected \in Apps)
    BY <1>2 DEF MenuInv, Up
  <2>2. CASE AppCount # 0
    <3>1. selected - 1 \in Apps
      BY <2>1, <2>2, RegistryLength DEF Apps
    <3>. QED BY <1>2, <3>1, SelectShows DEF Up
  <2>3. CASE AppCount = 0
    <3>1. page = 0 /\ Select(selected - 1)
      BY <1>2, <2>3, LauncherAssumption DEF MenuInv, WindowShowsSelection, Up
    <3>2. page' = 0 /\ selected' = selected - 1 /\ selected' < PageSize
      BY <2>1, <3>1, LauncherAssumption DEF Select, Scrolled, MenuInv, WindowShowsSelection
    <3>. QED BY <2>1, <2>3, <3>2, LauncherAssumption DEF MenuInv, WindowShowsSelection, AppCount, Apps
  <2>. QED BY <2>2, <2>3
<1>3. CASE Down
  <2>1. selected + 1 \in Apps /\ Select(selected + 1)
    BY <1>3, RegistryLength DEF MenuInv, Down, Apps
  <2>. QED BY <2>1, SelectShows
<1>4. CASE Leave \/ Deliver \/ Enter \/ UNCHANGED menuVars
  BY <1>4, SameMenu DEF Leave, Deliver, Enter, menuVars
<1>5. CASE Backspace
  BY <1>1, <1>5 DEF Backspace
<1>6. ASSUME NEW c \in Letters, TypeLetter(c)
      PROVE  MenuInv'
  BY <1>1, <1>6 DEF TypeLetter
<1>. QED BY <1>2, <1>3, <1>4, <1>5, <1>6 DEF MenuNext

(* Whatever arrows, searches and visits to applications come one after the *)
(* other, the selected entry is one of the rows drawn, and the window is   *)
(* not scrolled beyond the end of the list: for every list, every size of  *)
(* the window and every distance of names (wal.c:101-175, 211-216).        *)
THEOREM SelectionStaysOnWindow == MenuSpec => []WindowShowsSelection
<1>1. MenuInit => MenuInv
  BY LauncherAssumption, RegistryLength DEF MenuInit, MenuInv, WindowShowsSelection, Apps
<1>2. MenuInv /\ [MenuNext]_menuVars => MenuInv'
  BY MenuSteps
<1>3. MenuInv => WindowShowsSelection
  BY DEF MenuInv
<1>. QED BY <1>1, <1>2, <1>3, PTL DEF MenuSpec


(* The text of a search is letters, as many as the buffer holds.           *)
SearchInv == search \in Seq(Letters) /\ Len(search) <= SearchMax

Finds ==
  search' # search /\ search' # <<>> =>
    \A a \in Apps : Name(a) # NoApp =>
      LET found == EditDistance(search', Name(selected'))
          other == EditDistance(search', Name(a))
      IN  /\ Name(selected') # NoApp
          /\ found < other \/ (found = other /\ selected' <= a)

(* The search looks at the whole of its text and of every name.            *)
NamesFit ==
  /\ SearchMax <= Window
  /\ \A a \in Apps : Name(a) # NoApp => Len(Name(a)) <= Window

LEMMA FindFinds ==
  ASSUME NamesFit, NEW text \in Seq(Letters), Len(text) <= SearchMax, Find(text)
  PROVE  SearchInv' /\ Finds
<1>1. search' = text
  BY DEF Find
<1>2. SearchInv'
  BY <1>1 DEF SearchInv
<1>3. SearchMax \in Nat /\ Window \in Nat /\ SearchMax <= Window /\ Len(text) \in Nat
  BY LauncherAssumption, LetterAssumption DEF NamesFit
<1>4. ASSUME text # <<>>, NEW a \in Apps, Name(a) # NoApp
      PROVE  /\ Name(selected') # NoApp
             /\ \/ EditDistance(text, Name(selected')) < EditDistance(text, Name(a))
                \/ /\ EditDistance(text, Name(selected')) = EditDistance(text, Name(a))
                   /\ selected' <= a
  <2>1. AppCount # 0
    BY <1>4, RegistryLength DEF Apps
  <2>2. selected' = Best(text)
    BY <1>4, <2>1 DEF Find, Select
  <2>3. /\ Best(text) \in Apps /\ Name(Best(text)) # NoApp
        /\ \/ Distance(text, Name(Best(text))) < Distance(text, Name(a))
           \/ Distance(text, Name(Best(text))) = Distance(text, Name(a)) /\ Best(text) <= a
    BY <1>4, BestIsNearest
  <2>4. ASSUME NEW b \in Apps, Name(b) # NoApp
        PROVE  Distance(text, Name(b)) = EditDistance(text, Name(b))
    <3>1. Name(b) \in Seq(Letters) /\ Len(Name(b)) <= Window /\ Len(text) <= Window
      BY <1>3, <2>4, NameIsText DEF NamesFit
    <3>. QED BY <3>1, DistanceIsEditDistance
  <2>5. Distance(text, Name(Best(text))) = EditDistance(text, Name(Best(text)))
    BY <2>3, <2>4
  <2>6. Distance(text, Name(a)) = EditDistance(text, Name(a))
    BY <1>4, <2>4
  <2>. QED BY <2>2, <2>3, <2>5, <2>6
<1>. QED BY <1>1, <1>2, <1>4 DEF Finds

LEMMA SearchSteps ==
  ASSUME NamesFit, SearchInv, [MenuNext]_menuVars
  PROVE  SearchInv' /\ Finds
<1>1. search \in Seq(Letters) /\ Len(search) \in Nat /\ Len(search) <= SearchMax
      /\ SearchMax \in Nat
  BY LauncherAssumption DEF SearchInv
<1>2. CASE Leave
  <2>1. search' = <<>>
    BY <1>2 DEF Leave
  <2>. QED BY <1>1, <2>1 DEF SearchInv, Finds
<1>3. CASE Deliver \/ Up \/ Down \/ Enter \/ UNCHANGED menuVars
  <2>1. search' = search
    BY <1>3 DEF Deliver, Up, Down, Enter, menuVars
  <2>. QED BY <1>1, <2>1 DEF SearchInv, Finds
<1>4. CASE Backspace
  <2>. DEFINE text == SubSeq(search, 1, Len(search) - 1)
  <2>1. search # <<>> /\ Find(text)
    BY <1>4 DEF Backspace
  <2>2. text \in Seq(Letters) /\ Len(text) <= SearchMax
    BY <1>1, <2>1
  <2>. HIDE DEF text
  <2>. QED BY <2>1, <2>2, FindFinds
<1>5. ASSUME NEW c \in Letters, TypeLetter(c)
      PROVE  SearchInv' /\ Finds
  <2>. DEFINE text == Append(search, c)
  <2>1. Len(search) < SearchMax /\ Find(text)
    BY <1>5 DEF TypeLetter
  <2>2. text \in Seq(Letters) /\ Len(text) <= SearchMax
    BY <1>1, <2>1
  <2>. HIDE DEF text
  <2>. QED BY <2>1, <2>2, FindFinds
<1>. QED BY <1>2, <1>3, <1>4, <1>5 DEF MenuNext

(* While the user types, the entry selected is the first of those nearest  *)
(* in edits to the text: the two rows of wal_levenshtein_distance compute  *)
(* the cheapest alignment, and the loop of the search finds the least,     *)
(* for every list of applications whose names the distance looks at as a   *)
(* whole (wal.c:19-61, 101-125).                                           *)
THEOREM SearchAlwaysFindsNearest ==
  ASSUME NamesFit
  PROVE  MenuSpec => SearchFindsNearest
<1>1. MenuInit => SearchInv
  BY LauncherAssumption DEF MenuInit, SearchInv
<1>2. SearchInv /\ [MenuNext]_menuVars => SearchInv' /\ Finds
  BY SearchSteps
<1>3. Finds => [search' # search /\ search' # <<>> =>
                  \A a \in Apps : Name(a) # NoApp =>
                    LET found == EditDistance(search', Name(selected'))
                        other == EditDistance(search', Name(a))
                    IN  /\ Name(selected') # NoApp
                        /\ found < other \/ (found = other /\ selected' <= a)]_menuVars
  BY DEF Finds
<1>. QED BY <1>1, <1>2, <1>3, PTL DEF MenuSpec, SearchFindsNearest

-------------------------------------------------------------------------------
(* Tetris.                                                                 *)

USE TetrisAssumption

-------------------------------------------------------------------------------
(* The pieces.                                                             *)

Square == (0 .. 3) \X (0 .. 3)

LEMMA ShapesFitSquare ==
  ASSUME NEW p \in 0 .. 6, NEW r \in 0 .. 3
  PROVE  Tetrominoes[p + 1][r + 1] \in SUBSET Square
<1>1. CASE p = 0
  BY <1>1 DEF Tetrominoes, Square
<1>2. CASE p = 1
  BY <1>2 DEF Tetrominoes, Square
<1>3. CASE p = 2
  BY <1>3 DEF Tetrominoes, Square
<1>4. CASE p = 3
  BY <1>4 DEF Tetrominoes, Square
<1>5. CASE p = 4
  BY <1>5 DEF Tetrominoes, Square
<1>6. CASE p = 5
  BY <1>6 DEF Tetrominoes, Square
<1>7. CASE p = 6
  BY <1>7 DEF Tetrominoes, Square
<1>. QED BY <1>1, <1>2, <1>3, <1>4, <1>5, <1>6, <1>7

Pieces == 0 .. PieceCount - 1

LEMMA CellsOfPiece ==
  ASSUME NEW p \in Pieces, NEW r \in 0 .. 3, NEW px \in Int, NEW py \in Nat
  PROVE  \A c \in CellsAt(p, r, px, py) :
           /\ c \in (px .. px + 3) \X (py .. py + 3)
           /\ c = <<c[1], c[2]>>
<1>1. p \in 0 .. 6
  BY DEF Pieces
<1>2. Tetrominoes[p + 1][r + 1] \in SUBSET Square
  BY <1>1, ShapesFitSquare
<1>. DEFINE S == Tetrominoes[p + 1][r + 1]
<1>3. ASSUME NEW d \in S
      PROVE  <<px + d[1], py + d[2]>> \in (px .. px + 3) \X (py .. py + 3)
  <2>1. d \in Square
    BY <1>2
  <2>2. d[1] \in 0 .. 3 /\ d[2] \in 0 .. 3
    BY <2>1 DEF Square
  <2>. QED BY <2>2
<1>. HIDE DEF S
<1>4. \A c \in {<<px + d[1], py + d[2]>> : d \in S} : c \in (px .. px + 3) \X (py .. py + 3)
  BY <1>3
<1>5. \A c \in (px .. px + 3) \X (py .. py + 3) : c = <<c[1], c[2]>>
  OBVIOUS
<1>. QED BY <1>4, <1>5 DEF CellsAt, S

(* A new piece has its place on the board.                                 *)
LEMMA NewPieceFits ==
  ASSUME NEW p \in Pieces
  PROVE  CellsAt(p, 0, StartX, 0) \subseteq Board
<1>1. StartX \in Nat /\ StartX + 3 <= Width - 1
  BY DEF StartX
<1>2. StartX \in Int /\ 0 \in Nat /\ 0 \in 0 .. 3
  BY <1>1
<1>3. \A c \in CellsAt(p, 0, StartX, 0) : c \in (StartX .. StartX + 3) \X (0 .. 0 + 3)
  BY <1>2, CellsOfPiece
<1>4. (StartX .. StartX + 3) \X (0 .. 0 + 3) \subseteq (0 .. Width - 1) \X (0 .. Height - 1)
  BY <1>1
<1>. QED BY <1>3, <1>4 DEF Board

-------------------------------------------------------------------------------
(* Full rows.                                                              *)

FullRows(b, row) == {r \in row + 1 .. Height - 1 : Full(b, r)}

LEMMA OnBoard ==
  ASSUME NEW b \in SUBSET Board, NEW c \in b
  PROVE  c[1] \in 0 .. Width - 1 /\ c[2] \in 0 .. Height - 1 /\ c = <<c[1], c[2]>>
<1>1. c \in (0 .. Width - 1) \X (0 .. Height - 1)
  BY DEF Board
<1>. QED BY <1>1

LEMMA FullRowsOnBoard ==
  ASSUME NEW b \in SUBSET Board, NEW r, Full(b, r)
  PROVE  r \in 0 .. Height - 1
<1>1. <<0, r>> \in b
  BY DEF Full
<1>2. <<0, r>>[2] \in 0 .. Height - 1
  BY <1>1, OnBoard
<1>. QED BY <1>2

LEMMA BelowBounds ==
  ASSUME NEW b \in SUBSET Board, NEW row \in Int
  PROVE  /\ IsFiniteSet(FullRows(b, row))
         /\ Below(b, row) = Cardinality(FullRows(b, row))
         /\ Below(b, row) \in 0 .. Height
         /\ row <= Height - 1 => row + Below(b, row) <= Height - 1
<1>. DEFINE F == FullRows(b, row)
<1>1. F \subseteq 0 .. Height - 1 /\ F \subseteq row + 1 .. Height - 1
  BY FullRowsOnBoard DEF FullRows
<1>2. /\ IsFiniteSet(0 .. Height - 1)
      /\ Cardinality(0 .. Height - 1) = Height
      /\ IsFiniteSet(row + 1 .. Height - 1)
      /\ Cardinality(row + 1 .. Height - 1) = IF row + 1 > Height - 1 THEN 0 ELSE (Height - 1) - (row + 1) + 1
  <2>1. Height \in Nat /\ Height >= 4 /\ 0 \in Int /\ Height - 1 \in Int /\ row + 1 \in Int
    OBVIOUS
  <2>2. /\ IsFiniteSet(0 .. Height - 1)
        /\ Cardinality(0 .. Height - 1) = IF 0 > Height - 1 THEN 0 ELSE Height - 1 - 0 + 1
    BY <2>1, FS_Interval
  <2>3. /\ IsFiniteSet(row + 1 .. Height - 1)
        /\ Cardinality(row + 1 .. Height - 1) = IF row + 1 > Height - 1 THEN 0 ELSE (Height - 1) - (row + 1) + 1
    BY <2>1, FS_Interval
  <2>. QED BY <2>1, <2>2, <2>3
<1>. HIDE DEF F
<1>3. IsFiniteSet(F) /\ Cardinality(F) <= Cardinality(0 .. Height - 1)
  BY <1>1, <1>2, FS_Subset
<1>4. Cardinality(F) <= Cardinality(row + 1 .. Height - 1)
  BY <1>1, <1>2, FS_Subset
<1>5. Cardinality(F) \in Nat
  BY <1>3, FS_CardinalityType
<1>6. Below(b, row) = Cardinality(F)
  BY DEF Below, F, FullRows
<1>. QED BY <1>2, <1>3, <1>4, <1>5, <1>6 DEF F

(* One row further up.                                                     *)
LEMMA BelowStep ==
  ASSUME NEW b \in SUBSET Board, NEW p \in Int, p <= Height - 1
  PROVE  Below(b, p - 1) = Below(b, p) + (IF Full(b, p) THEN 1 ELSE 0)
<1>1. IsFiniteSet(FullRows(b, p)) /\ Below(b, p) = Cardinality(FullRows(b, p)) /\ Below(b, p) \in Nat
  BY BelowBounds
<1>2. Below(b, p - 1) = Cardinality(FullRows(b, p - 1))
  <2>1. p - 1 \in Int
    OBVIOUS
  <2>. QED BY <2>1, BelowBounds
<1>3. p - 1 + 1 = p /\ p .. Height - 1 = {p} \cup (p + 1 .. Height - 1) /\ p \notin p + 1 .. Height - 1
  OBVIOUS
<1>4. p \notin FullRows(b, p)
  BY <1>3 DEF FullRows
<1>5. CASE Full(b, p)
  <2>1. FullRows(b, p - 1) = FullRows(b, p) \cup {p}
    BY <1>3, <1>5 DEF FullRows
  <2>. QED BY <1>1, <1>2, <1>4, <1>5, <2>1, FS_AddElement
<1>6. CASE ~Full(b, p)
  <2>1. FullRows(b, p - 1) = FullRows(b, p)
    BY <1>3, <1>6 DEF FullRows
  <2>. QED BY <1>1, <1>2, <1>6, <2>1
<1>. QED BY <1>5, <1>6

(* Cells of rows that are not full sink to different rows: the further     *)
(* down, the further down.                                                 *)
LEMMA SinkInOrder ==
  ASSUME NEW b \in SUBSET Board, NEW p \in Int, NEW q \in Int, p < q, q <= Height - 1, ~Full(b, q)
  PROVE  p + Below(b, p) < q + Below(b, q)
<1>. DEFINE P == FullRows(b, p)
            Q == FullRows(b, q)
            D == p + 1 .. q - 1
<1>1. /\ IsFiniteSet(P) /\ Below(b, p) = Cardinality(P) /\ Below(b, p) \in Nat
      /\ IsFiniteSet(Q) /\ Below(b, q) = Cardinality(Q) /\ Below(b, q) \in Nat
  BY BelowBounds
<1>2. IsFiniteSet(D) /\ Cardinality(D) = q - p - 1
  <2>1. p + 1 \in Int /\ q - 1 \in Int
    OBVIOUS
  <2>2. IsFiniteSet(D) /\ Cardinality(D) = IF p + 1 > q - 1 THEN 0 ELSE (q - 1) - (p + 1) + 1
    BY <2>1, FS_Interval
  <2>. QED BY <2>2
<1>3. P \subseteq D \cup Q
  <2>. SUFFICES ASSUME NEW r \in P, r \notin Q PROVE r \in D
    OBVIOUS
  <2>1. r \in p + 1 .. Height - 1 /\ Full(b, r)
    BY DEF FullRows
  <2>2. r # q /\ r \notin q + 1 .. Height - 1
    BY <2>1 DEF FullRows
  <2>. QED BY <2>1, <2>2
<1>. HIDE DEF P, Q, D
<1>4. IsFiniteSet(D \cup Q) /\ Cardinality(D \cup Q) = Cardinality(D) + Cardinality(Q) - Cardinality(D \cap Q)
  BY <1>1, <1>2, FS_Union
<1>5. Cardinality(D \cap Q) \in Nat
  <2>1. D \cap Q \in SUBSET D
    OBVIOUS
  <2>. QED BY <1>2, <2>1, FS_Subset, FS_CardinalityType
<1>6. Cardinality(P) <= Cardinality(D \cup Q)
  BY <1>3, <1>4, FS_Subset
<1>. QED BY <1>1, <1>2, <1>4, <1>5, <1>6

-------------------------------------------------------------------------------
(* The loop that clears rows.                                              *)

(* The board when the rows of b below p are stacked and those above have   *)
(* come down as far as the last full one made them.                        *)
Sunk(b, p) ==
  {<<c[1], c[2] + Below(b, IF c[2] > p THEN c[2] ELSE p)>> : c \in {d \in b : ~(d[2] > p /\ Full(b, d[2]))}}

(* After some rounds the loop looks at what was row p of b.                *)
LooksAt(s, b, p) ==
  /\ p \in Int /\ p <= Height - 1
  /\ s = [row |-> p + Below(b, p), board |-> Sunk(b, p), points |-> 100 * Below(b, p)]
  /\ s.row >= -1

LEMMA SunkCells ==
  ASSUME NEW b \in SUBSET Board, NEW p \in Int, p <= Height - 1, NEW e
  PROVE  e \in Sunk(b, p) <=>
           \E c \in b : \/ c[2] > p /\ ~Full(b, c[2]) /\ e = <<c[1], c[2] + Below(b, c[2])>>
                        \/ c[2] <= p /\ e = <<c[1], c[2] + Below(b, p)>>
<1>1. \A c \in b : c[2] \in Int
  BY OnBoard
<1>. QED BY <1>1 DEF Sunk

(* What the loop sees of the row it looks at is what that row was.         *)
LEMMA RowIsSeen ==
  ASSUME NEW b \in SUBSET Board, NEW p \in Int, p <= Height - 1
  PROVE  /\ \A i \in 0 .. Width - 1 : <<i, p + Below(b, p)>> \in Sunk(b, p) <=> <<i, p>> \in b
         /\ Full(Sunk(b, p), p + Below(b, p)) <=> Full(b, p)
<1>1. Below(b, p) \in Nat
  BY BelowBounds
<1>2. ASSUME NEW i \in 0 .. Width - 1
      PROVE  <<i, p + Below(b, p)>> \in Sunk(b, p) <=> <<i, p>> \in b
  <2>. DEFINE e == <<i, p + Below(b, p)>>
  <2>1. ASSUME e \in Sunk(b, p)
        PROVE  <<i, p>> \in b
    <3>1. PICK c \in b : \/ c[2] > p /\ ~Full(b, c[2]) /\ e = <<c[1], c[2] + Below(b, c[2])>>
                         \/ c[2] <= p /\ e = <<c[1], c[2] + Below(b, p)>>
      BY <2>1, SunkCells
    <3>2. c[2] \in 0 .. Height - 1 /\ c = <<c[1], c[2]>>
      BY OnBoard
    <3>3. ~(c[2] > p /\ ~Full(b, c[2]) /\ e = <<c[1], c[2] + Below(b, c[2])>>)
      <4>. SUFFICES ASSUME c[2] > p, ~Full(b, c[2]), e = <<c[1], c[2] + Below(b, c[2])>> PROVE FALSE
        OBVIOUS
      <4>1. c[2] \in Int /\ p < c[2] /\ c[2] <= Height - 1
        BY <3>2
      <4>2. p + Below(b, p) < c[2] + Below(b, c[2])
        BY <4>1, SinkInOrder
      <4>3. Below(b, c[2]) \in Nat
        BY <4>1, BelowBounds
      <4>. QED BY <1>1, <4>1, <4>2, <4>3
    <3>4. c[1] = i /\ c[2] + Below(b, p) = p + Below(b, p)
      BY <3>1, <3>3
    <3>5. c[2] = p
      BY <1>1, <3>2, <3>4
    <3>. QED BY <3>2, <3>4, <3>5
  <2>2. ASSUME <<i, p>> \in b
        PROVE  e \in Sunk(b, p)
    <3>1. <<i, p>>[1] = i /\ <<i, p>>[2] = p /\ p <= p
      OBVIOUS
    <3>. QED BY <2>2, <3>1, SunkCells
  <2>. QED BY <2>1, <2>2
<1>. QED BY <1>2 DEF Full

(* A full row is cleared: the ones above it come down by one more.         *)
LEMMA ShiftedIsSunk ==
  ASSUME NEW b \in SUBSET Board, NEW p \in Int, p <= Height - 1, Full(b, p)
  PROVE  ShiftDown(Sunk(b, p), p + Below(b, p)) = Sunk(b, p - 1)
<1>. DEFINE k == Below(b, p)
            S == Sunk(b, p)
            down(c) == <<c[1], c[2] + 1>>
<1>1. k \in Nat /\ Below(b, p - 1) = k + 1 /\ p - 1 \in Int /\ p - 1 <= Height - 1
  BY BelowBounds, BelowStep
<1>2. \A c \in b : c[2] \in Int /\ c[2] <= Height - 1
  BY OnBoard
<1>3. \A c \in b : Below(b, c[2]) \in Nat
  BY <1>2, BelowBounds
<1>4. \A c \in b : c[2] > p /\ ~Full(b, c[2]) => p + k < c[2] + Below(b, c[2])
  BY <1>2, SinkInOrder
<1>. HIDE DEF k, S
<1>5. \A e : e \in S <=>
        \E c \in b : \/ c[2] > p /\ ~Full(b, c[2]) /\ e = <<c[1], c[2] + Below(b, c[2])>>
                     \/ c[2] <= p /\ e = <<c[1], c[2] + k>>
  BY SunkCells DEF S, k
<1>6. \A e : e \in Sunk(b, p - 1) <=>
        \E c \in b : \/ c[2] > p - 1 /\ ~Full(b, c[2]) /\ e = <<c[1], c[2] + Below(b, c[2])>>
                     \/ c[2] <= p - 1 /\ e = <<c[1], c[2] + (k + 1)>>
  BY <1>1, SunkCells
<1>7. ASSUME NEW e \in S, e[2] > p + k
      PROVE  e \in Sunk(b, p - 1)
  <2>1. PICK c \in b : \/ c[2] > p /\ ~Full(b, c[2]) /\ e = <<c[1], c[2] + Below(b, c[2])>>
                       \/ c[2] <= p /\ e = <<c[1], c[2] + k>>
    BY <1>5
  <2>2. c[2] > p /\ ~Full(b, c[2]) /\ e = <<c[1], c[2] + Below(b, c[2])>>
    BY <1>1, <1>2, <1>7, <2>1
  <2>3. c[2] > p - 1
    BY <1>2, <2>2
  <2>. QED BY <1>6, <2>2, <2>3
<1>8. ASSUME NEW d \in S, d[2] < p + k
      PROVE  down(d) \in Sunk(b, p - 1)
  <2>1. PICK c \in b : \/ c[2] > p /\ ~Full(b, c[2]) /\ d = <<c[1], c[2] + Below(b, c[2])>>
                       \/ c[2] <= p /\ d = <<c[1], c[2] + k>>
    BY <1>5
  <2>2. ~(c[2] > p /\ ~Full(b, c[2]) /\ d = <<c[1], c[2] + Below(b, c[2])>>)
    <3>. SUFFICES ASSUME c[2] > p, ~Full(b, c[2]), d = <<c[1], c[2] + Below(b, c[2])>> PROVE FALSE
      OBVIOUS
    <3>1. d[2] = c[2] + Below(b, c[2])
      OBVIOUS
    <3>. QED BY <1>1, <1>2, <1>3, <1>4, <1>8, <3>1
  <2>3. d[1] = c[1] /\ d[2] = c[2] + k
    BY <2>1, <2>2
  <2>4. c[2] <= p - 1 /\ down(d) = <<c[1], c[2] + (k + 1)>>
    BY <1>1, <1>2, <1>8, <2>3
  <2>. QED BY <1>6, <2>4
<1>9. ASSUME NEW e \in Sunk(b, p - 1)
      PROVE  e \in ShiftDown(S, p + k)
  <2>1. PICK c \in b : \/ c[2] > p - 1 /\ ~Full(b, c[2]) /\ e = <<c[1], c[2] + Below(b, c[2])>>
                       \/ c[2] <= p - 1 /\ e = <<c[1], c[2] + (k + 1)>>
    BY <1>6
  <2>2. CASE c[2] > p - 1 /\ ~Full(b, c[2]) /\ e = <<c[1], c[2] + Below(b, c[2])>>
    <3>1. c[2] # p
      BY <2>2
    <3>2. c[2] > p
      BY <1>2, <2>2, <3>1
    <3>3. e \in S
      BY <1>5, <2>2, <3>2
    <3>4. e[2] = c[2] + Below(b, c[2])
      BY <2>2
    <3>5. e[2] > p + k
      BY <1>1, <1>2, <1>3, <1>4, <2>2, <3>2, <3>4
    <3>. QED BY <3>3, <3>5 DEF ShiftDown
  <2>3. CASE c[2] <= p - 1 /\ e = <<c[1], c[2] + (k + 1)>>
    <3>. DEFINE d == <<c[1], c[2] + k>>
    <3>1. d \in S
      <4>1. c[2] <= p
        BY <1>2, <2>3
      <4>. QED BY <1>5, <4>1
    <3>2. d[2] < p + k /\ e = down(d)
      BY <1>1, <1>2, <2>3
    <3>. QED BY <3>1, <3>2 DEF ShiftDown
  <2>. QED BY <2>1, <2>2, <2>3
<1>10. ShiftDown(S, p + k) \subseteq Sunk(b, p - 1)
  BY <1>7, <1>8 DEF ShiftDown
<1>. QED BY <1>9, <1>10 DEF S, k

(* A row that is not full stays, and is the next one stacked.              *)
LEMMA PassedIsSunk ==
  ASSUME NEW b \in SUBSET Board, NEW p \in Int, p <= Height - 1, ~Full(b, p)
  PROVE  Sunk(b, p) = Sunk(b, p - 1)
<1>1. Below(b, p) \in Nat /\ Below(b, p - 1) = Below(b, p) /\ p - 1 \in Int /\ p - 1 <= Height - 1
  BY BelowBounds, BelowStep
<1>2. \A c \in b : c[2] \in Int
  BY OnBoard
<1>3. \A e : e \in Sunk(b, p) <=>
        \E c \in b : \/ c[2] > p /\ ~Full(b, c[2]) /\ e = <<c[1], c[2] + Below(b, c[2])>>
                     \/ c[2] <= p /\ e = <<c[1], c[2] + Below(b, p)>>
  BY SunkCells
<1>4. \A e : e \in Sunk(b, p - 1) <=>
        \E c \in b : \/ c[2] > p - 1 /\ ~Full(b, c[2]) /\ e = <<c[1], c[2] + Below(b, c[2])>>
                     \/ c[2] <= p - 1 /\ e = <<c[1], c[2] + Below(b, p)>>
  <2>. DEFINE q == p - 1
              k == Below(b, p)
  <2>1. q \in Int /\ q <= Height - 1 /\ Below(b, q) = k
    BY <1>1
  <2>. HIDE DEF q, k
  <2>2. \A e : e \in Sunk(b, q) <=>
          \E c \in b : \/ c[2] > q /\ ~Full(b, c[2]) /\ e = <<c[1], c[2] + Below(b, c[2])>>
                       \/ c[2] <= q /\ e = <<c[1], c[2] + k>>
    BY <2>1, SunkCells
  <2>. QED BY <2>2 DEF q, k
<1>5. ASSUME NEW e
      PROVE  e \in Sunk(b, p) <=> e \in Sunk(b, p - 1)
  <2>3. ASSUME NEW c \in b
        PROVE  \/ c[2] > p /\ c[2] > p - 1
               \/ c[2] = p /\ c[2] > p - 1 /\ c[2] <= p
               \/ c[2] <= p - 1 /\ c[2] <= p
    BY <1>2
  <2>4. \A c \in b : ~(c[2] > p /\ c[2] <= p) /\ ~(c[2] > p - 1 /\ c[2] <= p - 1) /\ ~(c[2] = p /\ c[2] <= p - 1) /\ ~(c[2] = p /\ c[2] > p)
    BY <1>2
  <2>. QED BY <1>3, <1>4, <2>3, <2>4
<1>. QED BY <1>5

(* A round of the loop, while it goes on.                                  *)
LEMMA RoundLooksHigher ==
  ASSUME NEW b \in SUBSET Board, NEW p, NEW s, LooksAt(s, b, p), s.row >= 0
  PROVE  /\ LooksAt(Round(s), b, p - 1)
         /\ \/ Round(s).row = s.row - 1 /\ Below(b, p - 1) = Below(b, p)
            \/ Round(s).row = s.row /\ Below(b, p - 1) = Below(b, p) + 1
<1>1. /\ p \in Int /\ p <= Height - 1 /\ p - 1 \in Int /\ p - 1 <= Height - 1
      /\ s.row = p + Below(b, p) /\ s.board = Sunk(b, p) /\ s.points = 100 * Below(b, p)
      /\ Below(b, p) \in Nat
      /\ Full(s.board, s.row) <=> Full(b, p)
  <2>1. p \in Int /\ p <= Height - 1 /\ s.row = p + Below(b, p) /\ s.board = Sunk(b, p) /\ s.points = 100 * Below(b, p)
    BY DEF LooksAt
  <2>2. Below(b, p) \in Nat
    BY <2>1, BelowBounds
  <2>3. Full(Sunk(b, p), p + Below(b, p)) <=> Full(b, p)
    BY <2>1, RowIsSeen
  <2>. QED BY <2>1, <2>2, <2>3
<1>2. CASE Full(b, p)
  <2>1. Round(s) = [row |-> s.row, board |-> ShiftDown(s.board, s.row), points |-> s.points + 100]
    <3>1. s.row >= 0 /\ Full(s.board, s.row) /\ ~(s.row < 0) /\ ~(~Full(s.board, s.row))
      BY <1>1, <1>2
    <3>. QED BY <3>1 DEF Round
  <2>2. Below(b, p - 1) = Below(b, p) + 1
    BY <1>1, <1>2, BelowStep
  <2>3. ShiftDown(s.board, s.row) = Sunk(b, p - 1)
    BY <1>1, <1>2, ShiftedIsSunk
  <2>4. s.row = (p - 1) + Below(b, p - 1) /\ s.points + 100 = 100 * Below(b, p - 1)
    BY <1>1, <2>2
  <2>. QED BY <1>1, <2>1, <2>2, <2>3, <2>4 DEF LooksAt
<1>3. CASE ~Full(b, p)
  <2>1. Round(s) = [row |-> s.row - 1, board |-> s.board, points |-> s.points]
    <3>1. s.row >= 0 /\ ~Full(s.board, s.row) /\ ~(s.row < 0)
      BY <1>1, <1>3
    <3>. QED BY <3>1 DEF Round
  <2>2. Below(b, p - 1) = Below(b, p)
    BY <1>1, <1>3, BelowStep
  <2>3. s.board = Sunk(b, p - 1)
    BY <1>1, <1>3, PassedIsSunk
  <2>4. s.row - 1 = (p - 1) + Below(b, p - 1) /\ s.points = 100 * Below(b, p - 1)
    BY <1>1, <2>2
  <2>. QED BY <1>1, <2>1, <2>2, <2>3, <2>4 DEF LooksAt
<1>. QED BY <1>2, <1>3

(* The states the loop is in.                                              *)
LoopStates(b) == {[row |-> p + Below(b, p), board |-> Sunk(b, p), points |-> 100 * Below(b, p)] :
                    p \in {q \in Int : q <= Height - 1 /\ q + Below(b, q) >= -1}}

LEMMA LoopStatesLook ==
  ASSUME NEW b, NEW s
  PROVE  s \in LoopStates(b) <=> \E p : LooksAt(s, b, p)
BY DEF LoopStates, LooksAt

LEMMA RoundType ==
  ASSUME NEW b \in SUBSET Board, NEW s \in LoopStates(b)
  PROVE  Round(s) \in LoopStates(b) /\ (s.row = -1 => Round(s) = s)
<1>1. PICK p : LooksAt(s, b, p)
  BY LoopStatesLook
<1>2. s.row \in Int /\ s.row >= -1
  BY <1>1, BelowBounds DEF LooksAt
<1>3. CASE s.row >= 0
  BY <1>1, <1>3, RoundLooksHigher, LoopStatesLook
<1>4. CASE s.row = -1
  <2>1. Round(s) = s
    BY <1>4 DEF Round
  <2>. QED BY <2>1
<1>. QED BY <1>2, <1>3, <1>4

LEMMA SweptIsRecursion ==
  ASSUME NEW b \in SUBSET Board
  PROVE  \E after : /\ Swept(b) = after[Rounds]
                    /\ after[0] = [row |-> Height - 1, board |-> b, points |-> 0]
                    /\ after[0] \in LoopStates(b)
                    /\ \A n \in 1 .. Rounds : after[n] = Round(after[n - 1])
<1>. DEFINE S == LoopStates(b)
            base == [row |-> Height - 1, board |-> b, points |-> 0]
            Rhs(f) == [n \in 0 .. Rounds |-> IF n = 0 THEN base ELSE Round(f[n - 1])]
            step == [n \in 1 .. Rounds |-> [s \in S |-> Round(s)]]
            after == CHOOSE f : f = Rhs(f)
<1>1. Rounds \in Nat
  BY DEF Rounds
<1>2. step \in [1 .. Rounds -> [S -> S]]
  <2>1. \A s \in S : Round(s) \in S
    BY RoundType
  <2>. QED BY <2>1
<1>3. base \in S
  <2>. DEFINE p == Height - 1
  <2>1. p \in Int /\ p <= Height - 1 /\ p >= -1
    OBVIOUS
  <2>2. Below(b, p) = 0
    <3>1. p + Below(b, p) <= Height - 1 /\ Below(b, p) \in Nat
      BY <2>1, BelowBounds
    <3>. QED BY <3>1
  <2>3. Sunk(b, p) = b
    <3>1. \A c \in b : c[2] <= p /\ c[2] \in Int /\ c = <<c[1], c[2] + 0>>
      BY OnBoard
    <3>. HIDE DEF p
    <3>2. \A e : e \in Sunk(b, p) <=>
            \E c \in b : \/ c[2] > p /\ ~Full(b, c[2]) /\ e = <<c[1], c[2] + Below(b, c[2])>>
                         \/ c[2] <= p /\ e = <<c[1], c[2] + 0>>
      BY <2>1, <2>2, SunkCells
    <3>3. \A c \in b : ~(c[2] > p)
      BY <2>1, <3>1
    <3>4. \A e : e \in Sunk(b, p) <=> \E c \in b : e = c
      BY <3>1, <3>2, <3>3
    <3>. QED BY <3>4
  <2>4. base = [row |-> p + Below(b, p), board |-> Sunk(b, p), points |-> 100 * Below(b, p)]
    BY <2>2, <2>3
  <2>5. p + Below(b, p) >= -1
    BY <2>1, <2>2
  <2>. HIDE DEF p
  <2>. QED BY <2>1, <2>4, <2>5 DEF LoopStates
<1>4. PICK g : Iterates(g, Rounds, S, base, step)
  <2>. HIDE DEF step, S, base
  <2>. QED BY <1>1, <1>2, <1>3, Iteration
<1>. DEFINE h == [n \in 0 .. Rounds |-> g[n]]
<1>5. h = Rhs(h)
  <2>1. ASSUME NEW n \in 0 .. Rounds
        PROVE  h[n] = Rhs(h)[n]
    <3>1. CASE n = 0
      BY <3>1, <1>4 DEF Iterates
    <3>2. CASE n # 0
      <4>1. n \in 1 .. Rounds /\ n - 1 \in 0 .. Rounds
        BY <3>2, <1>1
      <4>2. g[n - 1] \in S /\ h[n - 1] = g[n - 1] /\ h[n] = step[n][g[n - 1]]
        BY <4>1, <1>4 DEF Iterates
      <4>3. step[n][g[n - 1]] = Round(g[n - 1])
        BY <4>1, <4>2
      <4>. QED BY <3>2, <4>1, <4>2, <4>3
    <3>. QED BY <3>1, <3>2
  <2>. QED BY <2>1
<1>6. after = Rhs(after)
  <2>. HIDE DEF Rhs
  <2>. QED BY <1>5
<1>7. Swept(b) = after[Rounds]
  BY DEF Swept
<1>8. after[0] = base /\ \A n \in 1 .. Rounds : after[n] = Round(after[n - 1])
  <2>. HIDE DEF after
  <2>1. after = [n \in 0 .. Rounds |-> IF n = 0 THEN base ELSE Round(after[n - 1])]
    BY <1>6 DEF Rhs
  <2>2. 0 \in 0 .. Rounds /\ \A n \in 1 .. Rounds : n # 0 /\ n \in 0 .. Rounds
    BY <1>1
  <2>. HIDE DEF base
  <2>. QED BY <2>1, <2>2
<1>. HIDE DEF after
<1>. QED BY <1>3, <1>7, <1>8

(* The loop has ended after as many rounds, and what it leaves is the rows *)
(* that were not full, stacked: for every board, whatever rows are full.   *)
LEMMA SweptIsStacked ==
  ASSUME NEW b \in SUBSET Board
  PROVE  Swept(b) = [row |-> -1, board |-> Stacked(b), points |-> 100 * Below(b, -1)]
<1>1. PICK after : /\ Swept(b) = after[Rounds]
                   /\ after[0] = [row |-> Height - 1, board |-> b, points |-> 0]
                   /\ after[0] \in LoopStates(b)
                   /\ \A n \in 1 .. Rounds : after[n] = Round(after[n - 1])
  BY SweptIsRecursion
<1>. DEFINE Far(n, p) == /\ LooksAt(after[n], b, p)
                         /\ after[n].row = -1 \/ n = (Height - 1 - after[n].row) + Below(b, p)
            T == {n \in 0 .. Rounds : \E p : Far(n, p)}
<1>2. Rounds \in Nat /\ Rounds = 2 * Height
  BY DEF Rounds
<1>3. 0 \in T
  <2>1. PICK p : LooksAt(after[0], b, p)
    BY <1>1, LoopStatesLook
  <2>2. after[0].points = 100 * Below(b, p) /\ Below(b, p) \in Nat
    BY <2>1, BelowBounds DEF LooksAt
  <2>3. after[0].row = Height - 1 /\ after[0].points = 0
    BY <1>1
  <2>4. 0 = (Height - 1 - after[0].row) + Below(b, p)
    BY <2>2, <2>3
  <2>. QED BY <1>2, <2>1, <2>4
<1>4. \A n \in 1 .. Rounds : n - 1 \in T => n \in T
  <2>. SUFFICES ASSUME NEW n \in 1 .. Rounds, n - 1 \in T PROVE n \in T
    OBVIOUS
  <2>1. PICK p : Far(n - 1, p)
    OBVIOUS
  <2>. DEFINE s == after[n - 1]
              t == after[n]
  <2>2. /\ LooksAt(s, b, p) /\ t = Round(s)
        /\ s.row = -1 \/ n - 1 = (Height - 1 - s.row) + Below(b, p)
    BY <1>1, <2>1
  <2>3. p \in Int /\ Below(b, p) \in Nat /\ s.row = p + Below(b, p) /\ s.row \in Int /\ s.row >= -1
    BY <2>2, BelowBounds DEF LooksAt
  <2>4. CASE s.row = -1
    <3>1. s \in LoopStates(b)
      BY <2>2, LoopStatesLook
    <3>2. t = s
      BY <2>2, <2>4, <3>1, RoundType
    <3>3. Far(n, p)
      BY <2>2, <2>4, <3>2
    <3>. HIDE DEF Far
    <3>. QED BY <1>2, <3>3
  <2>5. CASE s.row >= 0
    <3>0. /\ LooksAt(t, b, p - 1)
          /\ \/ t.row = s.row - 1 /\ Below(b, p - 1) = Below(b, p)
             \/ t.row = s.row /\ Below(b, p - 1) = Below(b, p) + 1
      <4>. HIDE DEF s, t
      <4>1. LooksAt(s, b, p) /\ t = Round(s) /\ s.row >= 0
        BY ONLY <2>2, <2>5
      <4>. QED BY ONLY <4>1, b \in SUBSET Board, RoundLooksHigher
    <3>1. LooksAt(t, b, p - 1)
      BY <3>0
    <3>2. \/ t.row = s.row - 1 /\ Below(b, p - 1) = Below(b, p)
          \/ t.row = s.row /\ Below(b, p - 1) = Below(b, p) + 1
      BY <3>0
    <3>3. n = (Height - 1 - t.row) + Below(b, p - 1)
      BY <2>2, <2>3, <2>5, <3>2
    <3>4. Far(n, p - 1)
      BY <3>1, <3>3
    <3>. HIDE DEF Far
    <3>. QED BY <1>2, <3>4
  <2>. QED BY <2>3, <2>4, <2>5
<1>5. Rounds \in T
  <2>. HIDE DEF T
  <2>1. \A n \in 0 .. Rounds : n \in T
    BY <1>2, <1>3, <1>4, BoundedInduction
  <2>. QED BY <1>2, <2>1
<1>6. PICK p : Far(Rounds, p)
  BY <1>5
<1>. DEFINE s == after[Rounds]
<1>7. /\ LooksAt(s, b, p)
      /\ s.row = -1 \/ 2 * Height = (Height - 1 - s.row) + Below(b, p)
  BY <1>2, <1>6
<1>. HIDE DEF s, Far, T
<1>8. /\ p \in Int /\ p <= Height - 1 /\ Below(b, p) \in 0 .. Height /\ s.row = p + Below(b, p) /\ s.row >= -1
      /\ s = [row |-> s.row, board |-> Sunk(b, p), points |-> 100 * Below(b, p)]
  BY <1>7, BelowBounds DEF LooksAt
<1>9. s.row = -1 /\ p <= -1
  BY <1>7, <1>8
<1>10. Below(b, p) = Below(b, -1)
  <2>1. FullRows(b, p) = FullRows(b, -1)
    <3>1. \A r : Full(b, r) => r \in 0 .. Height - 1
      BY FullRowsOnBoard
    <3>2. \A r \in 0 .. Height - 1 : r \in p + 1 .. Height - 1 /\ r \in -1 + 1 .. Height - 1
      BY <1>8, <1>9
    <3>. QED BY <3>1, <3>2 DEF FullRows
  <2>2. Below(b, p) = Cardinality(FullRows(b, p))
    BY <1>8, BelowBounds
  <2>3. Below(b, -1) = Cardinality(FullRows(b, -1))
    BY -1 \in Int, BelowBounds
  <2>. QED BY <2>1, <2>2, <2>3
<1>11. Sunk(b, p) = Stacked(b)
  <2>1. \A c \in b : c[2] > p
    <3>1. \A c \in b : c[2] \in 0 .. Height - 1
      BY OnBoard
    <3>. QED BY <1>8, <1>9, <3>1
  <2>. QED BY <2>1 DEF Sunk, Stacked
<1>. QED BY <1>1, <1>8, <1>9, <1>10, <1>11 DEF s

LEMMA StackedOnBoard ==
  ASSUME NEW b \in SUBSET Board
  PROVE  Stacked(b) \in SUBSET Board
<1>. SUFFICES ASSUME NEW c \in b PROVE <<c[1], c[2] + Below(b, c[2])>> \in Board
  BY DEF Stacked
<1>1. c[1] \in 0 .. Width - 1 /\ c[2] \in 0 .. Height - 1
  BY OnBoard
<1>2. Below(b, c[2]) \in Nat /\ c[2] + Below(b, c[2]) <= Height - 1
  BY <1>1, BelowBounds
<1>. QED BY <1>1, <1>2 DEF Board

-------------------------------------------------------------------------------
(* The game.                                                               *)

TypesOK ==
  /\ board \in SUBSET Board
  /\ x \in Int /\ y \in Nat
  /\ piece \in Pieces /\ rotation \in 0 .. 3
  /\ gameOver \in BOOLEAN
  /\ ticks \in Nat

GameInv == TypesOK /\ PieceFits

LEMMA PeriodIsPositive == Period \in Nat \ {0} /\ PieceCount \in Nat \ {0}
<1>1. PieceCount \in Nat \ {0} /\ FallEvery \in Nat \ {0}
  OBVIOUS
<1>2. PieceCount * FallEvery \in Nat \ {0}
  BY <1>1
<1>. QED BY <1>1, <1>2 DEF Period

(* A piece spawned on a board is on it, and the game is over if it must.   *)
LEMMA SpawnFits ==
  ASSUME NEW b \in SUBSET Board, NEW t \in Nat, board' = b, Spawn(b, t, FALSE), ticks' \in Nat
  PROVE  GameInv'
<1>1. t % PieceCount \in Pieces
  <2>1. \A m \in Nat \ {0} : t % m \in 0 .. m - 1
    OBVIOUS
  <2>. QED BY <2>1, PeriodIsPositive DEF Pieces
<1>2. StartX \in Nat
  BY DEF StartX
<1>3. /\ piece' = t % PieceCount /\ rotation' = 0 /\ x' = StartX /\ y' = 0
      /\ gameOver' = (CellsAt(t % PieceCount, 0, StartX, 0) \cap b # {})
  BY DEF Spawn
<1>4. TypesOK'
  BY <1>1, <1>2, <1>3 DEF TypesOK
<1>5. Cells' = CellsAt(t % PieceCount, 0, StartX, 0)
  BY <1>3 DEF Cells, CellsAt
<1>6. Cells' \subseteq Board
  BY <1>1, <1>5, NewPieceFits
<1>7. PieceFits'
  BY <1>3, <1>5, <1>6 DEF PieceFits
<1>. QED BY <1>4, <1>7 DEF GameInv

LEMMA MoveFits ==
  ASSUME GameInv, ~gameOver, ticks' \in Nat,
         NEW dx \in Int, NEW dy \in Nat, NEW dr \in Nat,
         ~Collides(dx, dy, dr), Move(dx, dy, dr)
  PROVE  GameInv'
<1>1. /\ x' = x + dx /\ y' = y + dy /\ rotation' = (rotation + dr) % 4
      /\ UNCHANGED <<board, piece, score, gameOver>>
      /\ TypesOK
  BY DEF Move, GameInv
<1>2. x + dx \in Int /\ y + dy \in Nat /\ (rotation + dr) % 4 \in 0 .. 3
  BY <1>1 DEF TypesOK
<1>3. TypesOK'
  BY <1>1, <1>2 DEF TypesOK
<1>. DEFINE C == CellsAt(piece, (rotation + dr) % 4, x + dx, y + dy)
<1>4. Cells' = C
  BY <1>1 DEF Cells, CellsAt
<1>5. \A c \in C : c \in (x + dx .. x + dx + 3) \X (y + dy .. y + dy + 3) /\ c = <<c[1], c[2]>>
  BY <1>1, <1>2, CellsOfPiece DEF TypesOK
<1>6. \A c \in C : ~(c[1] < 0 \/ c[1] >= Width \/ c[2] >= Height \/ c \in board)
  BY DEF Collides
<1>. HIDE DEF C
<1>7. C \subseteq Board /\ C \cap board = {}
  <2>. SUFFICES ASSUME NEW c \in C PROVE c \in Board /\ c \notin board
    OBVIOUS
  <2>1. c[1] \in Int /\ c[2] \in Nat
    BY <1>2, <1>5
  <2>2. c[1] \in 0 .. Width - 1 /\ c[2] \in 0 .. Height - 1
    BY <1>6, <2>1
  <2>3. <<c[1], c[2]>> \in Board
    BY <2>2 DEF Board
  <2>. QED BY <1>5, <1>6, <2>3
<1>8. PieceFits'
  BY <1>1, <1>4, <1>7 DEF PieceFits
<1>. QED BY <1>3, <1>8 DEF GameInv

LEMMA StayFits ==
  ASSUME GameInv, Stay, ticks' \in Nat
  PROVE  GameInv'
BY DEF GameInv, TypesOK, PieceFits, Cells, CellsAt, Stay

LEMMA LockFits ==
  ASSUME GameInv, ~gameOver, ticks' \in Nat, NEW t \in Nat, Lock(t)
  PROVE  GameInv'
<1>. DEFINE b == board \cup Cells
            s == Swept(b)
<1>1. b \in SUBSET Board
  BY DEF GameInv, TypesOK, PieceFits
<1>. HIDE DEF b
<1>2. s.board \in SUBSET Board
  BY <1>1, SweptIsStacked, StackedOnBoard
<1>3. board' = s.board /\ Spawn(s.board, t, FALSE)
  <2>1. gameOver = FALSE
    BY DEF GameInv, TypesOK
  <2>. QED BY <2>1 DEF Lock, b
<1>. HIDE DEF s
<1>. QED BY <1>2, <1>3, SpawnFits

LEMMA PlayFits ==
  ASSUME GameInv, NEW key, Play(key)
  PROVE  GameInv'
<1>. DEFINE t == (ticks + 1) % Period
<1>1. t \in Nat
  <2>1. \A m \in Nat \ {0}, n \in Nat : n % m \in Nat
    OBVIOUS
  <2>2. ticks + 1 \in Nat
    BY DEF GameInv, TypesOK
  <2>. QED BY <2>1, <2>2, PeriodIsPositive
<1>. HIDE DEF t
<1>2. /\ ~gameOver /\ ticks' = t
      /\ \/ Try(-1, 0, 0) \/ Try(1, 0, 0) \/ Try(0, 0, 1)
         \/ Fall(t) \/ Gravity(t)
  BY DEF Play, t
<1>3. ASSUME NEW dx \in Int, NEW dy \in Nat, NEW dr \in Nat, Try(dx, dy, dr)
      PROVE  GameInv'
  BY <1>1, <1>2, <1>3, MoveFits, StayFits DEF Try
<1>4. ASSUME Fall(t)
      PROVE  GameInv'
  <2>1. CASE Collides(0, 1, 0)
    BY <1>1, <1>2, <1>4, <2>1, LockFits DEF Fall
  <2>2. CASE ~Collides(0, 1, 0)
    BY <1>1, <1>2, <1>4, <2>2, MoveFits DEF Fall
  <2>. QED BY <2>1, <2>2
<1>5. CASE Gravity(t)
  BY <1>1, <1>2, <1>4, <1>5, StayFits DEF Gravity
<1>6. -1 \in Int /\ 0 \in Int /\ 1 \in Int /\ 0 \in Nat /\ 1 \in Nat
  OBVIOUS
<1>. QED BY <1>2, <1>3, <1>4, <1>5, <1>6

LEMMA FreshFits ==
  ASSUME Fresh
  PROVE  GameInv'
<1>1. board' = {} /\ ticks' = 0 /\ Spawn({}, 0, FALSE)
  BY DEF Fresh
<1>2. {} \in SUBSET Board /\ 0 \in Nat
  OBVIOUS
<1>. QED BY <1>1, <1>2, SpawnFits

LEMMA OverFits ==
  ASSUME GameInv, NEW key, Over(key)
  PROVE  GameInv'
<1>1. CASE key = "enter"
  BY <1>1, FreshFits DEF Over
<1>2. CASE key # "enter"
  <2>1. ticks' = (ticks + 1) % Period /\ Stay
    BY <1>2 DEF Over
  <2>2. ticks' \in Nat
    <3>1. \A m \in Nat \ {0}, n \in Nat : n % m \in Nat
      OBVIOUS
    <3>2. ticks + 1 \in Nat
      BY DEF GameInv, TypesOK
    <3>. QED BY <2>1, <3>1, <3>2, PeriodIsPositive
  <2>. QED BY <2>1, <2>2, StayFits
<1>. QED BY <1>1, <1>2

LEMMA StartFits ==
  ASSUME Init
  PROVE  GameInv
<1>1. StartX \in Nat /\ 0 \in Pieces
  BY PeriodIsPositive DEF StartX, Pieces
<1>2. Cells \subseteq Board
  BY <1>1, NewPieceFits DEF Init, Cells
<1>3. TypesOK
  <2>1. board \in SUBSET Board
    BY DEF Init
  <2>2. x \in Int /\ y \in Nat /\ piece \in Pieces /\ rotation \in 0 .. 3 /\ ticks \in Nat
    BY <1>1 DEF Init
  <2>3. gameOver \in BOOLEAN
    BY DEF Init
  <2>. QED BY <2>1, <2>2, <2>3 DEF TypesOK
<1>4. PieceFits
  BY <1>2 DEF Init, PieceFits
<1>. QED BY <1>3, <1>4 DEF GameInv

LEMMA GameSteps ==
  ASSUME GameInv, [Next]_vars
  PROVE  GameInv'
<1>1. CASE Next
  BY <1>1, PlayFits, OverFits DEF Next
<1>2. CASE UNCHANGED vars
  BY <1>2 DEF vars, GameInv, TypesOK, PieceFits, Cells, CellsAt
<1>. QED BY <1>1, <1>2

(* No sequence of keys and ticks brings the piece out of the board or into *)
(* a filled cell, and the game is over exactly when a new piece has no     *)
(* room: on every board of at least four by four, and for every number of  *)
(* pieces and every rhythm of falling (TetrisApp.c:78-198).                *)
THEOREM PieceAlwaysFits == Spec => []PieceFits
<1>1. Init => GameInv
  BY StartFits
<1>2. GameInv /\ [Next]_vars => GameInv'
  BY GameSteps
<1>3. GameInv => PieceFits
  BY DEF GameInv
<1>. QED BY <1>1, <1>2, <1>3, PTL DEF Spec

-------------------------------------------------------------------------------
(* What a step of the game does to the filled cells.                       *)

RowsStacked ==
  board' # board /\ ~gameOver =>
    LET b == board \cup Cells
    IN  /\ board' = Stacked(b)
        /\ score' = (score + 100 * Below(b, -1)) % ScoreWrap

LEMMA StepStacks ==
  ASSUME GameInv, [Next]_vars
  PROVE  RowsStacked
<1>. SUFFICES ASSUME board' # board, ~gameOver PROVE RowsStacked
  BY DEF RowsStacked
<1>. DEFINE b == board \cup Cells
<1>1. PICK key \in Keys : Play(key)
  BY DEF Next, Over, vars
<1>2. \E t : Lock(t)
  <2>1. \A dx, dy, dr : ~Try(dx, dy, dr)
    BY DEF Try, Move, Stay
  <2>2. ~Stay /\ ~Move(0, 1, 0)
    BY DEF Move, Stay
  <2>3. \E t : Fall(t)
    BY <1>1, <2>1, <2>2 DEF Play, Gravity
  <2>. QED BY <2>2, <2>3 DEF Fall
<1>3. b \in SUBSET Board
  BY DEF GameInv, TypesOK, PieceFits
<1>4. /\ board' = Swept(b).board
      /\ score' = (score + Swept(b).points) % ScoreWrap
  BY <1>2 DEF Lock
<1>. HIDE DEF b
<1>5. Swept(b).board = Stacked(b) /\ Swept(b).points = 100 * Below(b, -1)
  BY <1>3, SweptIsStacked
<1>. QED BY <1>4, <1>5 DEF RowsStacked, b

(* Whatever is filled and however many rows fill at once: where a piece    *)
(* comes to rest, the full rows vanish, every other cell sinks by the      *)
(* number of full rows below it, and each full row scores 100, on every    *)
(* board (TetrisApp.c:117-152).                                            *)
THEOREM RowsAreAlwaysStacked == Spec => RowsAreStacked
<1>1. Init => GameInv
  BY StartFits
<1>2. GameInv /\ [Next]_vars => GameInv' /\ RowsStacked
  BY GameSteps, StepStacks
<1>3. RowsStacked => [board' # board /\ ~gameOver =>
                        LET b == board \cup Cells
                        IN  /\ board' = Stacked(b)
                            /\ score' = (score + 100 * Below(b, -1)) % ScoreWrap]_vars
  BY DEF RowsStacked
<1>. QED BY <1>1, <1>2, <1>3, PTL DEF Spec, RowsAreStacked
===============================================================================
