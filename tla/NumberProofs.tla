---------------------------- MODULE NumberProofs ----------------------------
(***************************************************************************)
(* Proofs about the number libraries.  Of BigInt, for limbs of every width *)
(* and every length of the array: sums, differences, comparisons and       *)
(* products are those of the integers that the limbs stand for.  Of the    *)
(* vector kernels: every version does what the loop over single elements   *)
(* does.  Of RandomNumbers: a saved state replays the samples.             *)
(***************************************************************************)
EXTENDS BigInt, Arrays, RandomNumbers, Induction, FiniteSetTheorems, SequenceTheorems

LEMMA BaseIsLarge == Base \in Nat /\ Base > 1
<1>1. Radix \in 2 .. 2 ^ LimbBits - 1 /\ LimbBits \in Nat
  BY BigIntAssumption
<1>2. Base \in Int
  BY <1>1 DEF Base
<1>. QED BY <1>1, <1>2 DEF Base

LEMMA Divided ==
  ASSUME NEW t \in Int
  PROVE  /\ t % Base \in 0 .. Base - 1
         /\ t \div Base \in Int
         /\ (t % Base) + Base * (t \div Base) = t
<1>. DEFINE b == Base
<1>1. b \in Nat /\ b > 1
  BY BaseIsLarge
<1>. HIDE DEF b
<1>2. /\ t % b \in 0 .. b - 1
      /\ t \div b \in Int
      /\ (t % b) + b * (t \div b) = t
  BY <1>1
<1>. QED BY <1>2 DEF b

LEMMA Scaled ==
  ASSUME NEW x \in Int, NEW y \in Int
  PROVE  /\ Base * x \in Int
         /\ Base * (x + y) = Base * x + Base * y
         /\ Base * (x - y) = Base * x - Base * y
         /\ x > y => Base * x >= Base * y + Base
<1>. DEFINE b == Base
<1>1. b \in Nat /\ b > 1
  BY BaseIsLarge
<1>. HIDE DEF b
<1>2. b * x \in Int /\ b * (x + y) = b * x + b * y /\ b * (x - y) = b * x - b * y
  BY <1>1
<1>3. ASSUME x > y PROVE b * x >= b * y + b
  <2>. DEFINE d == x - y - 1
  <2>1. d \in Nat /\ x = d + y + 1
    BY <1>3
  <2>. HIDE DEF d
  <2>2. b * x = b * d + b * y + b
    BY <1>1, <2>1
  <2>3. b * d \in Nat
    BY <1>1, <2>1
  <2>. QED BY <1>1, <1>2, <2>2, <2>3
<1>. QED BY <1>2, <1>3 DEF b

(* Induction from the top down.                                            *)
LEMMA Downwards ==
  ASSUME NEW N \in Nat, NEW S, N + 1 \in S, \A i \in 1 .. N : i + 1 \in S => i \in S
  PROVE  \A i \in 1 .. N + 1 : i \in S
<1>. DEFINE T == {k \in 0 .. N : N + 1 - k \in S}
<1>1. 0 \in T
  OBVIOUS
<1>2. \A k \in 1 .. N : k - 1 \in T => k \in T
  <2>. TAKE k \in 1 .. N
  <2>. HAVE k - 1 \in T
  <2>1. N + 1 - (k - 1) = (N + 1 - k) + 1 /\ N + 1 - k \in 1 .. N
    OBVIOUS
  <2>. QED BY <2>1
<1>3. \A k \in 0 .. N : k \in T
  <2>. HIDE DEF T
  <2>. QED BY <1>1, <1>2, BoundedInduction
<1>. SUFFICES ASSUME NEW i \in 1 .. N + 1 PROVE i \in S
  OBVIOUS
<1>4. N + 1 - i \in 0 .. N /\ N + 1 - (N + 1 - i) = i
  OBVIOUS
<1>. QED BY <1>3, <1>4

Places == Nat \ {0}

(* f[i] is the number that s stands for from limb i on.                    *)
Denotes(f, s) ==
  /\ f \in [Places -> Int]
  /\ \A i \in Places : f[i] = IF i \in DOMAIN s THEN s[i] + Base * f[i + 1] ELSE 0

(* The number is a definition.                                             *)
LEMMA NumberDenotes ==
  ASSUME NEW s \in Seq(Int)
  PROVE  \E f : Denotes(f, s) /\ Number(s) = f[1]
<1>. DEFINE Body(f, i) == IF i \in DOMAIN s THEN s[i] + Base * f[i + 1] ELSE 0
            Rhs(f) == [i \in Nat \ {0} |-> Body(f, i)]
            From == CHOOSE f : f = Rhs(f)
            D == [Places -> Int]
            next == [f \in D |-> Rhs(f)]
            m == [i \in Places |-> IF i \in DOMAIN s THEN Len(s) + 1 - i ELSE 0]
<1>1. Number(s) = From[1]
  BY DEF Number
<1>2. \A f \in D : Rhs(f) \in D
  <2>1. ASSUME NEW f \in D, NEW i \in Places, i \in DOMAIN s
        PROVE  s[i] + Base * f[i + 1] \in Int
    <3>1. f[i + 1] \in Int /\ s[i] \in Int
      BY <2>1 DEF Places
    <3>2. Base * f[i + 1] \in Int
      BY <3>1, BaseIsLarge
    <3>. QED BY <3>1, <3>2
  <2>2. ASSUME NEW f \in D, NEW i \in Places
        PROVE  Body(f, i) \in Int
    BY <2>1, <2>2
  <2>. HIDE DEF Body
  <2>. QED BY <2>2 DEF Places
<1>3. m \in [Places -> Nat]
  <2>1. \A i \in DOMAIN s : Len(s) + 1 - i \in Nat
    OBVIOUS
  <2>. QED BY <2>1
<1>4. ASSUME NEW f \in D, NEW g \in D, NEW i \in Places, \A e \in Places : m[e] < m[i] => f[e] = g[e]
      PROVE  next[f][i] = next[g][i]
  <2>1. i \in DOMAIN s => f[i + 1] = g[i + 1]
    <3>. SUFFICES ASSUME i \in 1 .. Len(s) PROVE f[i + 1] = g[i + 1]
      OBVIOUS
    <3>1. m[i + 1] < m[i] /\ i + 1 \in Places
      BY DEF Places
    <3>. QED BY <1>4, <3>1
  <2>. QED BY <2>1 DEF Places
<1>5. Descends(next, Places, Int, m)
  <2>1. next \in [D -> D]
    <3>. HIDE DEF Rhs, D
    <3>. QED BY <1>2
  <2>. HIDE DEF next, m
  <2>. QED BY <1>3, <1>4, <2>1 DEF Descends
<1>6. PICK f : IsFixed(f, next, Places, Int)
  <2>. HIDE DEF next, m
  <2>. QED BY <1>5, Recursion
<1>7. From = Rhs(From)
  <2>1. f = Rhs(f)
    <3>. HIDE DEF Rhs
    <3>. QED BY <1>6 DEF IsFixed
  <2>. HIDE DEF Rhs
  <2>. QED BY <2>1
<1>8. From \in D
  <2>. SUFFICES ASSUME NEW i \in Places PROVE From[i] \in Int
    <3>1. From = [i \in Places |-> From[i]]
      BY <1>7 DEF Places
    <3>. HIDE DEF From
    <3>. QED BY <3>1
  <2>. HIDE DEF From
  <2>. DEFINE T == {j \in Places : From[j] \in Int}
  <2>1. \A j \in Places : From[j] = Body(From, j)
    BY <1>7 DEF Places
  <2>2. \A j \in Places : j \notin DOMAIN s => j \in T
    BY <2>1
  <2>3. Len(s) + 1 \in T
    BY <2>2 DEF Places
  <2>4. \A j \in 1 .. Len(s) : j + 1 \in T => j \in T
    <3>. TAKE j \in 1 .. Len(s)
    <3>. HAVE j + 1 \in T
    <3>1. s[j] \in Int /\ Base * From[j + 1] \in Int /\ j \in Places
      <4>1. From[j + 1] \in Int /\ j \in Places /\ j \in DOMAIN s
        BY DEF Places
      <4>. QED BY <4>1, BaseIsLarge
    <3>2. From[j] = s[j] + Base * From[j + 1]
      BY <2>1, <3>1
    <3>. QED BY <3>1, <3>2
  <2>5. \A j \in 1 .. Len(s) + 1 : j \in T
    <3>. HIDE DEF T
    <3>1. Len(s) \in Nat
      OBVIOUS
    <3>. QED BY <2>3, <2>4, <3>1, Downwards
  <2>6. i \in 1 .. Len(s) + 1 \/ i \notin DOMAIN s
    BY DEF Places
  <2>. QED BY <2>2, <2>5, <2>6
<1>9. Denotes(From, s)
  <2>. HIDE DEF From
  <2>. QED BY <1>7, <1>8 DEF Denotes, Places
<1>. HIDE DEF From
<1>. QED BY <1>1, <1>9

(* The equation of a place, limbs beyond the length included.              *)
LEMMA AtPlace ==
  ASSUME NEW s \in Seq(Int), NEW f, Denotes(f, s), NEW i \in Places
  PROVE  /\ Limb(s, i) \in Int /\ f[i] \in Int /\ i + 1 \in Places /\ f[i + 1] \in Int
         /\ f[i] = Limb(s, i) + Base * f[i + 1]
         /\ i > Len(s) => f[i] = 0 /\ Limb(s, i) = 0
<1>1. i + 1 \in Places
  BY DEF Places
<1>2. f[i] \in Int /\ f[i + 1] \in Int
  BY <1>1 DEF Denotes
<1>3. Limb(s, i) \in Int
  BY DEF Limb
<1>4. CASE i \in DOMAIN s
  <2>1. f[i] = s[i] + Base * f[i + 1] /\ ~(i > Len(s))
    BY <1>4 DEF Denotes, Places
  <2>. QED BY <1>1, <1>2, <1>3, <1>4, <2>1 DEF Limb
<1>5. CASE i \notin DOMAIN s
  <2>1. i + 1 \notin DOMAIN s
    BY <1>5 DEF Places
  <2>2. f[i] = 0 /\ f[i + 1] = 0
    BY <1>1, <1>5, <2>1 DEF Denotes
  <2>3. Limb(s, i) = 0
    BY <1>5 DEF Limb
  <2>4. Base * 0 = 0
    BY BaseIsLarge
  <2>. QED BY <1>1, <2>2, <2>3, <2>4
<1>. QED BY <1>4, <1>5

(* Limbs that agree from one on stand for the same from it on.             *)
LEMMA SameAbove ==
  ASSUME NEW s \in Seq(Int), NEW t \in Seq(Int), NEW f, NEW g, Denotes(f, s), Denotes(g, t),
         NEW i \in Places, \A j \in Places : j >= i => Limb(s, j) = Limb(t, j)
  PROVE  f[i] = g[i]
<1>. DEFINE N == IF Len(s) > Len(t) THEN Len(s) ELSE Len(t)
            S == {j \in Places : j >= i => f[j] = g[j]}
<1>1. N \in Nat /\ N >= Len(s) /\ N >= Len(t)
  OBVIOUS
<1>. HIDE DEF N
<1>2. \A j \in Places : j > N => j \in S
  <2>. TAKE j \in Places
  <2>. HAVE j > N
  <2>1. j > Len(s) /\ j > Len(t)
    BY <1>1 DEF Places
  <2>. QED BY <2>1, AtPlace
<1>3. \A j \in 1 .. N : j + 1 \in S => j \in S
  <2>. TAKE j \in 1 .. N
  <2>. HAVE j + 1 \in S
  <2>. SUFFICES ASSUME j >= i PROVE f[j] = g[j]
    BY DEF Places
  <2>1. j \in Places /\ f[j + 1] = g[j + 1]
    BY DEF Places
  <2>2. f[j] = Limb(s, j) + Base * f[j + 1] /\ g[j] = Limb(t, j) + Base * g[j + 1]
    BY <2>1, AtPlace
  <2>. QED BY <2>1, <2>2
<1>4. \A j \in 1 .. N + 1 : j \in S
  <2>1. N + 1 \in S
    BY <1>1, <1>2 DEF Places
  <2>. HIDE DEF S
  <2>. QED BY <1>1, <1>3, <2>1, Downwards
<1>5. i \in 1 .. N + 1 \/ i > N
  BY <1>1 DEF Places
<1>. QED BY <1>2, <1>4, <1>5, i >= i DEF Places

(* So limbs that are zero beyond the length count for nothing.             *)
LEMMA SameLimbs ==
  ASSUME NEW s \in Seq(Int), NEW t \in Seq(Int), \A j \in Places : Limb(s, j) = Limb(t, j)
  PROVE  Number(s) = Number(t)
<1>1. PICK f : Denotes(f, s) /\ Number(s) = f[1]
  BY NumberDenotes
<1>2. PICK g : Denotes(g, t) /\ Number(t) = g[1]
  BY NumberDenotes
<1>. QED BY <1>1, <1>2, SameAbove, 1 \in Places DEF Places

Digits == 0 .. Base - 1

(* What is larger from one limb on is larger altogether.                   *)
LEMMA HigherDecides ==
  ASSUME NEW s \in Seq(Digits), NEW t \in Seq(Digits), NEW f, NEW g, Denotes(f, s), Denotes(g, t),
         NEW m \in Places, f[m] > g[m]
  PROVE  f[1] > g[1]
<1>. DEFINE S == {i \in Places : f[i] > g[i]}
            N == m - 1
<1>0. s \in Seq(Int) /\ t \in Seq(Int)
  BY BaseIsLarge DEF Digits
<1>1. N \in Nat /\ N + 1 \in S /\ N + 1 = m
  BY DEF Places
<1>2. \A i \in 1 .. N : i + 1 \in S => i \in S
  <2>. TAKE i \in 1 .. N
  <2>. HAVE i + 1 \in S
  <2>1. i \in Places
    BY DEF Places
  <2>2. Limb(s, i) \in Digits /\ Limb(t, i) \in Digits
    BY BaseIsLarge DEF Limb, Digits
  <2>3. /\ f[i] = Limb(s, i) + Base * f[i + 1] /\ g[i] = Limb(t, i) + Base * g[i + 1]
        /\ f[i + 1] \in Int /\ g[i + 1] \in Int
    BY <1>0, <2>1, AtPlace
  <2>4. Base * f[i + 1] >= Base * g[i + 1] + Base /\ Base * f[i + 1] \in Int /\ Base * g[i + 1] \in Int
    BY <2>3, Scaled
  <2>5. f[i] > g[i]
    <3>. DEFINE x == Base * f[i + 1]
                y == Base * g[i + 1]
                d == Limb(s, i)
                e == Limb(t, i)
                b == Base
    <3>1. x >= y + b /\ x \in Int /\ y \in Int /\ d \in 0 .. b - 1 /\ e \in 0 .. b - 1 /\ b \in Nat
      BY <2>2, <2>4, BaseIsLarge DEF Digits
    <3>2. f[i] = d + x /\ g[i] = e + y
      BY <2>3
    <3>. HIDE DEF x, y, d, e, b
    <3>. QED BY <3>1, <3>2
  <2>. QED BY <2>1, <2>5
<1>3. \A i \in 1 .. N + 1 : i \in S
  <2>. HIDE DEF S, N
  <2>. QED BY <1>1, <1>2, Downwards
<1>. QED BY <1>1, <1>3

(* Magnitudes are never negative.                                          *)
LEMMA NumberIsNatural ==
  ASSUME NEW s \in Seq(Digits), NEW f, Denotes(f, s), NEW i \in Places
  PROVE  f[i] >= 0
<1>. DEFINE S == {j \in Places : f[j] >= 0}
<1>0. s \in Seq(Int) /\ Len(s) \in Nat
  BY BaseIsLarge DEF Digits
<1>1. \A j \in Places : j > Len(s) => j \in S
  BY <1>0, AtPlace
<1>2. \A j \in 1 .. Len(s) : j + 1 \in S => j \in S
  <2>. TAKE j \in 1 .. Len(s)
  <2>. HAVE j + 1 \in S
  <2>1. j \in Places
    BY DEF Places
  <2>2. Limb(s, j) \in Nat
    BY BaseIsLarge DEF Limb, Digits
  <2>3. f[j] = Limb(s, j) + Base * f[j + 1] /\ f[j + 1] \in Nat
    <3>1. f[j + 1] >= 0
      OBVIOUS
    <3>2. f[j] = Limb(s, j) + Base * f[j + 1] /\ f[j + 1] \in Int
      BY <1>0, <2>1, AtPlace
    <3>. QED BY <3>1, <3>2
  <2>4. Base * f[j + 1] \in Nat
    BY <2>3, BaseIsLarge
  <2>. QED BY <2>1, <2>2, <2>3, <2>4
<1>3. \A j \in 1 .. Len(s) + 1 : j \in S
  <2>1. Len(s) + 1 \in S
    BY <1>0, <1>1 DEF Places
  <2>. HIDE DEF S
  <2>. QED BY <1>0, <1>2, <2>1, Downwards
<1>4. i \in 1 .. Len(s) + 1 \/ i > Len(s)
  BY <1>0 DEF Places
<1>. QED BY <1>1, <1>3, <1>4

-------------------------------------------------------------------------------
(* Carries. *)

(* Columns and their sums.                                                 *)
Columns == Seq(Int)

(* The limbs and the carry that columns propagate to: Carries is the one   *)
(* from each column, by the recursion of the code.                         *)
Carries(c, column) ==
  /\ c \in [0 .. Len(column) -> Int]
  /\ c[0] = 0
  /\ \A i \in DOMAIN column : c[i] = (column[i] + c[i - 1]) \div Base

LEMMA CarriesAre ==
  ASSUME NEW column \in Columns
  PROVE  \E c : /\ Carries(c, column)
                /\ Propagate(column).digits = [i \in DOMAIN column |-> (column[i] + c[i - 1]) % Base]
                /\ Propagate(column).carry = c[Len(column)]
<1>. DEFINE Rhs(f) == [i \in 0 .. Len(column) |->
                         IF i = 0 THEN 0 ELSE (column[i] + f[i - 1]) \div Base]
            Carry == CHOOSE f : f = Rhs(f)
            n == Len(column)
            step == [i \in 1 .. n |-> [c \in Int |-> (column[i] + c) \div Base]]
<1>1. Propagate(column) =
        [digits |-> [i \in DOMAIN column |-> (column[i] + Carry[i - 1]) % Base],
         carry |-> Carry[n]]
  BY DEF Propagate
<1>2. n \in Nat /\ DOMAIN column = 1 .. n /\ column \in [1 .. n -> Int]
  BY DEF Columns
<1>. HIDE DEF n
<1>3. step \in [1 .. n -> [Int -> Int]]
  <2>1. \A i \in 1 .. n : \A c \in Int : (column[i] + c) \div Base \in Int
    <3>1. \A i \in 1 .. n : column[i] \in Int
      BY <1>2
    <3>. QED BY <3>1, Divided
  <2>. QED BY <2>1
<1>4. PICK g : Iterates(g, n, Int, 0, step)
  <2>. HIDE DEF step
  <2>. DEFINE S == Int
  <2>1. n \in Nat /\ 0 \in S /\ step \in [1 .. n -> [S -> S]]
    BY <1>2, <1>3
  <2>. HIDE DEF S
  <2>2. \E g : Iterates(g, n, S, 0, step)
    BY <2>1, Iteration
  <2>. QED BY <2>2 DEF S
<1>. DEFINE f == [i \in 0 .. n |-> g[i]]
<1>5. f = Rhs(f)
  <2>1. \A i \in 1 .. n : i - 1 \in 0 .. n /\ g[i] = (column[i] + g[i - 1]) \div Base
    <3>1. ASSUME NEW i \in 1 .. n
          PROVE  i - 1 \in 0 .. n /\ g[i - 1] \in Int /\ g[i] = step[i][g[i - 1]]
      <4>. HIDE DEF step
      <4>. QED BY <1>2, <1>4 DEF Iterates
    <3>. QED BY <3>1
  <2>2. g[0] = 0
    BY <1>4 DEF Iterates
  <2>3. \A i \in 0 .. n : i # 0 => i \in 1 .. n
    BY <1>2
  <2>4. \A i \in 0 .. n : f[i] = IF i = 0 THEN 0 ELSE (column[i] + f[i - 1]) \div Base
    BY <2>1, <2>2, <2>3
  <2>. QED BY <2>4 DEF n
<1>. HIDE DEF f
<1>6. Carry = Rhs(Carry)
  <2>. HIDE DEF Rhs
  <2>. QED BY <1>5
<1>. HIDE DEF Carry
<1>7. Carry[0] = 0 /\ \A i \in 1 .. n : Carry[i] = (column[i] + Carry[i - 1]) \div Base
  BY <1>2, <1>6 DEF n
<1>8. \A i \in 0 .. n : Carry[i] \in Int
  <2>. DEFINE T == {i \in 0 .. n : Carry[i] \in Int}
  <2>1. 0 \in T
    BY <1>2, <1>7
  <2>2. \A i \in 1 .. n : i - 1 \in T => i \in T
    <3>. TAKE i \in 1 .. n
    <3>. HAVE i - 1 \in T
    <3>1. column[i] + Carry[i - 1] \in Int
      BY <1>2
    <3>2. Carry[i] \in Int
      BY <1>7, <3>1, Divided
    <3>. QED BY <3>2
  <2>3. \A i \in 0 .. n : i \in T
    <3>. HIDE DEF T
    <3>. QED BY <1>2, <2>1, <2>2, BoundedInduction
  <2>. QED BY <2>3
<1>9. Carries(Carry, column)
  <2>1. Carry = [i \in 0 .. n |-> Carry[i]]
    BY <1>6 DEF n
  <2>. QED BY <1>2, <1>7, <1>8, <2>1 DEF Carries, n
<1>. QED BY <1>1, <1>9 DEF n

(* What is propagated is the number of the columns: the limbs with the     *)
(* last carry on top stand for it.                                         *)
LEMMA PropagateIsExact ==
  ASSUME NEW column \in Columns
  PROVE  LET p == Propagate(column) IN
         /\ p.digits \in Seq(Digits) /\ Len(p.digits) = Len(column)
         /\ p.carry \in Int
         /\ Number(Append(p.digits, p.carry)) = Number(column)
<1>. DEFINE p == Propagate(column)
            n == Len(column)
            s == Append(p.digits, p.carry)
<1>0. n \in Nat /\ DOMAIN column = 1 .. n /\ column \in [1 .. n -> Int] /\ column \in Seq(Int)
  BY DEF Columns
<1>1. PICK c : /\ Carries(c, column)
               /\ p.digits = [i \in DOMAIN column |-> (column[i] + c[i - 1]) % Base]
               /\ p.carry = c[n]
  BY CarriesAre
<1>. HIDE DEF n, p
<1>2. c \in [0 .. n -> Int] /\ c[0] = 0 /\ \A i \in 1 .. n : c[i] = (column[i] + c[i - 1]) \div Base
  BY <1>0, <1>1 DEF Carries, n
<1>3. \A i \in 1 .. n : column[i] + c[i - 1] \in Int /\ c[i - 1] \in Int /\ c[i] \in Int
  BY <1>0, <1>2
<1>4. p.digits \in [1 .. n -> Digits]
  <2>1. \A i \in 1 .. n : (column[i] + c[i - 1]) % Base \in Digits
    BY <1>3, Divided DEF Digits
  <2>. QED BY <1>0, <1>1, <2>1
<1>5. p.digits \in Seq(Digits) /\ Len(p.digits) = n
  BY <1>0, <1>4
<1>6. p.carry \in Int
  BY <1>0, <1>1, <1>2
<1>7. p.digits \in Seq(Int)
  BY <1>5, BaseIsLarge DEF Digits
<1>8. s \in Seq(Int) /\ Len(s) = n + 1 /\ s[n + 1] = c[n] /\ \A i \in 1 .. n : s[i] = (column[i] + c[i - 1]) % Base
  BY <1>0, <1>1, <1>5, <1>6, <1>7
<1>. HIDE DEF s
<1>9. PICK f : Denotes(f, s) /\ Number(s) = f[1]
  BY <1>8, NumberDenotes
<1>10. PICK g : Denotes(g, column) /\ Number(column) = g[1]
  BY <1>0, NumberDenotes
<1>. DEFINE S == {i \in Places : i <= n + 1 /\ f[i] = g[i] + c[i - 1]}
<1>11. n + 1 \in S
  <2>1. n + 1 \in Places /\ n + 1 + 1 \in Places
    BY <1>0 DEF Places
  <2>2. f[n + 1] = Limb(s, n + 1) + Base * f[n + 1 + 1]
    BY <1>8, <1>9, <2>1, AtPlace
  <2>3. f[n + 1 + 1] = 0
    <3>1. n + 1 + 1 > Len(s)
      BY <1>0, <1>8
    <3>. QED BY <1>8, <1>9, <2>1, <3>1, AtPlace
  <2>4. g[n + 1] = 0
    <3>1. n + 1 > Len(column)
      BY <1>0 DEF n
    <3>. QED BY <1>0, <1>10, <2>1, <3>1, AtPlace
  <2>5. Limb(s, n + 1) = c[n] /\ c[n] \in Int
    BY <1>0, <1>2, <1>8 DEF Limb
  <2>6. Base * 0 = 0
    BY BaseIsLarge
  <2>7. (n + 1) - 1 = n
    BY <1>0
  <2>. QED BY <1>0, <2>1, <2>2, <2>3, <2>4, <2>5, <2>6, <2>7
<1>12. \A i \in 1 .. n : i + 1 \in S => i \in S
  <2>. TAKE i \in 1 .. n
  <2>. HAVE i + 1 \in S
  <2>1. i \in Places /\ i <= n + 1 /\ (i + 1) - 1 = i
    BY <1>0 DEF Places
  <2>2. f[i] = Limb(s, i) + Base * f[i + 1] /\ f[i + 1] \in Int
    BY <1>8, <1>9, <2>1, AtPlace
  <2>3. g[i] = Limb(column, i) + Base * g[i + 1] /\ g[i + 1] \in Int
    BY <1>0, <1>10, <2>1, AtPlace
  <2>. DEFINE x == column[i] + c[i - 1]
  <2>4. Limb(s, i) = x % Base /\ Limb(column, i) = column[i] /\ c[i] = x \div Base
    BY <1>0, <1>2, <1>8 DEF Limb
  <2>5. x \in Int /\ column[i] \in Int /\ c[i - 1] \in Int /\ c[i] \in Int
    BY <1>0, <1>3
  <2>6. (x % Base) + Base * c[i] = x
    <3>. HIDE DEF x
    <3>. QED BY <2>4, <2>5, Divided
  <2>7. f[i + 1] = g[i + 1] + c[i]
    BY <2>1
  <2>8. Base * f[i + 1] = Base * g[i + 1] + Base * c[i]
    <3>1. Base * (g[i + 1] + c[i]) = Base * g[i + 1] + Base * c[i]
      BY <2>3, <2>5, Scaled
    <3>. QED BY <2>7, <3>1
  <2>9. Base * g[i + 1] \in Int /\ Base * c[i] \in Int /\ x % Base \in Int
    BY <2>3, <2>5, <2>6, BaseIsLarge, Divided
  <2>10. f[i] = g[i] + c[i - 1]
    <3>. DEFINE u == Base * g[i + 1]
                v == Base * c[i]
                w == x % Base
                y == column[i]
                z == c[i - 1]
    <3>1. u \in Int /\ v \in Int /\ w \in Int /\ y \in Int /\ z \in Int
      BY <2>5, <2>9
    <3>2. f[i] = w + (u + v) /\ g[i] = y + u /\ w + v = y + z
      BY <2>2, <2>3, <2>4, <2>6, <2>8
    <3>. HIDE DEF u, v, w, y, z
    <3>3. f[i] = g[i] + z
      BY <3>1, <3>2
    <3>. QED BY <3>3 DEF z
  <2>. QED BY <2>1, <2>10
<1>13. \A i \in 1 .. n + 1 : i \in S
  <2>. HIDE DEF S
  <2>. QED BY <1>0, <1>11, <1>12, Downwards
<1>14. f[1] = g[1] + c[0] /\ g[1] \in Int
  <2>1. f[1] = g[1] + c[1 - 1]
    BY <1>0, <1>13
  <2>. QED BY <2>1, <1>10 DEF Denotes, Places
<1>15. Number(s) = Number(column)
  BY <1>2, <1>9, <1>10, <1>14
<1>. QED BY <1>5, <1>6, <1>15 DEF s, p, n

-------------------------------------------------------------------------------
(* Trimming and comparing. *)

Magnitudes == Seq(Digits) \ {<<>>}

(* No zero on top, but for the number zero.                                *)
Trimmed(s) == Len(s) = 1 \/ s[Len(s)] # 0

LEMMA MagnitudeFields ==
  ASSUME NEW s \in Magnitudes
  PROVE  /\ s \in Seq(Digits) /\ s \in Seq(Int)
         /\ Len(s) \in Places /\ DOMAIN s = 1 .. Len(s)
         /\ \A i \in 1 .. Len(s) : s[i] \in Digits /\ s[i] \in Nat
         /\ \A i \in Places : Limb(s, i) \in Digits /\ Limb(s, i) \in Nat
<1>1. Digits \subseteq Nat /\ 0 \in Digits
  BY BaseIsLarge DEF Digits
<1>2. s \in Seq(Digits) /\ s # <<>>
  BY DEF Magnitudes
<1>3. Len(s) \in Places /\ DOMAIN s = 1 .. Len(s)
  BY <1>2 DEF Places
<1>4. \A i \in 1 .. Len(s) : s[i] \in Digits /\ s[i] \in Nat
  BY <1>1, <1>2, ElementOfSeq
<1>5. \A i \in Places : Limb(s, i) \in Digits /\ Limb(s, i) \in Nat
  BY <1>1, <1>3, <1>4 DEF Limb
<1>6. s \in Seq(Int)
  BY <1>2, BaseIsLarge DEF Digits
<1>. QED BY <1>2, <1>3, <1>4, <1>5, <1>6

(* Trimming leaves the number as it is.                                    *)
LEMMA TrimWorks ==
  ASSUME NEW s \in Magnitudes
  PROVE  /\ Trim(s) \in Magnitudes
         /\ Trimmed(Trim(s))
         /\ Number(Trim(s)) = Number(s)
         /\ Len(Trim(s)) <= Len(s)
         /\ Trimmed(s) => Trim(s) = s
<1>. DEFINE S == {1} \cup {i \in DOMAIN s : s[i] # 0}
            m == Max(S)
            r == SubSeq(s, 1, m)
<1>1. /\ s \in Seq(Digits) /\ s \in Seq(Int) /\ Len(s) \in Places /\ DOMAIN s = 1 .. Len(s)
      /\ \A i \in 1 .. Len(s) : s[i] \in Digits
  BY MagnitudeFields
<1>2. m \in S /\ \A y \in S : m >= y
  <2>1. S \in SUBSET (0 .. Len(s)) /\ S # {} /\ Len(s) \in Nat
    BY <1>1 DEF Places
  <2>. HIDE DEF S
  <2>. QED BY <2>1, MaxIsGreatest
<1>3. Trim(s) = r
  BY DEF Trim
<1>. HIDE DEF m
<1>4. m \in 1 .. Len(s) /\ m \in Nat
  BY <1>1, <1>2 DEF Places
<1>5. r \in Seq(Digits) /\ Len(r) = m /\ DOMAIN r = 1 .. m /\ \A i \in 1 .. m : r[i] = s[i]
  BY <1>1, <1>4
<1>. HIDE DEF r
<1>6. r \in Magnitudes
  BY <1>4, <1>5 DEF Magnitudes
<1>7. Trimmed(r)
  <2>1. m = 1 \/ s[m] # 0
    BY <1>2
  <2>. QED BY <1>4, <1>5, <2>1 DEF Trimmed
<1>8. Number(r) = Number(s)
  <2>1. ASSUME NEW j \in Places
        PROVE  Limb(r, j) = Limb(s, j)
    <3>1. CASE j \in 1 .. m
      BY <1>1, <1>4, <1>5, <3>1 DEF Limb
    <3>2. CASE j \notin 1 .. m
      <4>1. j > m
        BY <1>4, <3>2 DEF Places
      <4>2. j \in DOMAIN s => s[j] = 0
        BY <1>2, <1>4, <4>1 DEF Places
      <4>. QED BY <1>5, <3>2, <4>2 DEF Limb
    <3>. QED BY <3>1, <3>2
  <2>. QED BY <1>1, <1>6, <2>1, SameLimbs, MagnitudeFields
<1>9. ASSUME Trimmed(s) PROVE r = s
  <2>1. Len(s) \in S
    BY <1>1, <1>9 DEF Trimmed, Places
  <2>2. m = Len(s)
    <3>1. m >= Len(s) /\ Len(s) \in Nat
      BY <1>1, <1>2, <2>1 DEF Places
    <3>. QED BY <1>4, <3>1
  <2>. QED BY <1>1, <1>5, <2>2
<1>. QED BY <1>3, <1>4, <1>5, <1>6, <1>7, <1>8, <1>9

(* A trimmed magnitude with more limbs is larger.                          *)
LEMMA LongerIsLarger ==
  ASSUME NEW s \in Magnitudes, NEW t \in Magnitudes, Trimmed(s), Len(s) > Len(t)
  PROVE  Number(s) > Number(t)
<1>. DEFINE m == Len(s)
<1>1. s \in Seq(Int) /\ t \in Seq(Int) /\ s \in Seq(Digits) /\ t \in Seq(Digits)
  BY MagnitudeFields
<1>2. m \in Places /\ m > Len(t) /\ Len(t) \in Places /\ m + 1 \in Places /\ m + 1 > Len(s)
  BY MagnitudeFields DEF Places
<1>3. s[m] \in Nat /\ s[m] # 0 /\ Limb(s, m) = s[m]
  BY <1>2, MagnitudeFields DEF Trimmed, Limb, Places
<1>4. PICK f : Denotes(f, s) /\ Number(s) = f[1]
  BY <1>1, NumberDenotes
<1>5. PICK g : Denotes(g, t) /\ Number(t) = g[1]
  BY <1>1, NumberDenotes
<1>6. f[m] = Limb(s, m) + Base * f[m + 1]
  BY <1>1, <1>2, <1>4, AtPlace
<1>7. f[m + 1] = 0
  BY <1>1, <1>2, <1>4, AtPlace
<1>8. g[m] = 0
  BY <1>1, <1>2, <1>5, AtPlace
<1>9. f[m] > g[m]
  <2>1. Base * 0 = 0
    BY BaseIsLarge
  <2>. QED BY <1>3, <1>6, <1>7, <1>8, <2>1
<1>. QED BY <1>1, <1>2, <1>4, <1>5, <1>9, HigherDecides

(* Of two of a length the highest limb that differs decides.               *)
LEMMA HighestDecides ==
  ASSUME NEW s \in Magnitudes, NEW t \in Magnitudes, Len(s) = Len(t), NEW m \in 1 .. Len(s),
         s[m] > t[m], \A i \in 1 .. Len(s) : i > m => s[i] = t[i]
  PROVE  Number(s) > Number(t)
<1>1. s \in Seq(Int) /\ t \in Seq(Int) /\ s \in Seq(Digits) /\ t \in Seq(Digits)
  BY MagnitudeFields
<1>2. m \in Places /\ m + 1 \in Places /\ DOMAIN s = 1 .. Len(s) /\ DOMAIN t = 1 .. Len(s)
  BY <1>1 DEF Places
<1>3. PICK f : Denotes(f, s) /\ Number(s) = f[1]
  BY <1>1, NumberDenotes
<1>4. PICK g : Denotes(g, t) /\ Number(t) = g[1]
  BY <1>1, NumberDenotes
<1>5. f[m + 1] = g[m + 1]
  <2>1. \A j \in Places : j >= m + 1 => Limb(s, j) = Limb(t, j)
    BY <1>2 DEF Limb, Places
  <2>. QED BY <1>1, <1>2, <1>3, <1>4, <2>1, SameAbove
<1>6. f[m] = s[m] + Base * f[m + 1] /\ f[m + 1] \in Int
  BY <1>1, <1>2, <1>3, AtPlace DEF Limb
<1>7. g[m] = t[m] + Base * g[m + 1]
  BY <1>1, <1>2, <1>4, AtPlace DEF Limb
<1>8. f[m] > g[m]
  <2>1. s[m] \in Int /\ t[m] \in Int /\ Base * f[m + 1] \in Int
    BY <1>1, <1>2, <1>6, BaseIsLarge
  <2>. QED BY <1>5, <1>6, <1>7, <2>1
<1>. QED BY <1>1, <1>2, <1>3, <1>4, <1>8, HigherDecides

Order(x, y) == IF x > y THEN 1 ELSE IF x = y THEN 0 ELSE -1

(* The number of a single limb.                                            *)
LEMMA ZeroIsZero == <<0>> \in Magnitudes /\ Trimmed(<<0>>) /\ Number(<<0>>) = 0
<1>. DEFINE s == <<0>>
<1>1. s \in Seq(Int) /\ Len(s) = 1 /\ DOMAIN s = 1 .. 1 /\ s[1] = 0
  OBVIOUS
<1>2. s \in Magnitudes /\ Trimmed(s)
  <2>1. 0 \in Digits
    BY BaseIsLarge DEF Digits
  <2>2. s \in Seq(Digits) /\ s # <<>>
    BY <2>1
  <2>. QED BY <1>1, <2>2 DEF Magnitudes, Trimmed
<1>. HIDE DEF s
<1>3. PICK f : Denotes(f, s) /\ Number(s) = f[1]
  BY <1>1, NumberDenotes
<1>4. f[1] = Limb(s, 1) + Base * f[2] /\ f[2] = 0
  <2>1. 1 \in Places /\ 2 \in Places /\ 1 + 1 = 2 /\ 2 > Len(s)
    BY <1>1 DEF Places
  <2>2. f[1] = Limb(s, 1) + Base * f[1 + 1]
    BY <1>1, <1>3, <2>1, AtPlace
  <2>3. f[2] = 0
    BY <1>1, <1>3, <2>1, AtPlace
  <2>. QED BY <2>1, <2>2, <2>3
<1>5. Limb(s, 1) = 0 /\ Base * 0 = 0
  BY <1>1, BaseIsLarge DEF Limb
<1>. QED BY <1>2, <1>3, <1>4, <1>5 DEF s

(* A magnitude stands for a natural number.                                *)
LEMMA NumberIsNat ==
  ASSUME NEW s \in Magnitudes
  PROVE  Number(s) \in Nat
<1>1. s \in Seq(Digits) /\ s \in Seq(Int) /\ 1 \in Places
  BY MagnitudeFields DEF Places
<1>2. PICK f : Denotes(f, s) /\ Number(s) = f[1]
  BY <1>1, NumberDenotes
<1>3. f[1] >= 0 /\ f[1] \in Int
  BY <1>1, <1>2, NumberIsNatural, AtPlace
<1>. QED BY <1>2, <1>3

(* The comparison of limbs is that of numbers, and equal numbers have the  *)
(* same limbs.                                                             *)
LEMMA CompareWorks ==
  ASSUME NEW s \in Magnitudes, NEW t \in Magnitudes, Trimmed(s), Trimmed(t)
  PROVE  /\ CompareMagnitude(s, t) = Order(Number(s), Number(t))
         /\ Number(s) = Number(t) => s = t
<1>. DEFINE differ == {i \in DOMAIN s : s[i] # Limb(t, i)}
<1>0. Number(s) \in Nat /\ Number(t) \in Nat
  BY NumberIsNat
<1>1. /\ Len(s) \in Nat /\ Len(t) \in Nat /\ DOMAIN s = 1 .. Len(s) /\ DOMAIN t = 1 .. Len(t)
      /\ \A i \in 1 .. Len(s) : s[i] \in Nat
      /\ \A i \in 1 .. Len(t) : t[i] \in Nat
  BY MagnitudeFields DEF Places
<1>. DEFINE p == Len(s)
            q == Len(t)
<1>6. /\ p \in Nat /\ q \in Nat
      /\ p > q => p # q
      /\ q > p => p # q /\ ~(p > q)
      /\ p > q \/ q > p \/ p = q
  <2>1. p \in Nat /\ q \in Nat
    BY <1>1
  <2>. HIDE DEF p, q
  <2>. QED BY <2>1
<1>2. CASE Len(s) > Len(t)
  <2>1. Number(s) > Number(t)
    BY <1>2, LongerIsLarger
  <2>2. CompareMagnitude(s, t) = 1
    <3>1. Len(s) # Len(t)
      BY <1>2, <1>6
    <3>. QED BY <1>2, <3>1, Zenon DEF CompareMagnitude, Sign
  <2>. QED BY <1>0, <2>1, <2>2 DEF Order
<1>3. CASE Len(t) > Len(s)
  <2>1. Number(t) > Number(s)
    BY <1>3, LongerIsLarger
  <2>2. CompareMagnitude(s, t) = -1
    <3>1. Len(s) # Len(t) /\ ~(Len(s) > Len(t))
      BY <1>3, <1>6
    <3>. QED BY <3>1, Zenon DEF CompareMagnitude, Sign
  <2>. QED BY <1>0, <2>1, <2>2 DEF Order
<1>4. CASE Len(s) = Len(t) /\ differ = {}
  <2>1. s = t
    <3>1. \A i \in 1 .. Len(s) : s[i] = t[i]
      BY <1>1, <1>4 DEF Limb
    <3>2. s \in Seq(Digits) /\ t \in Seq(Digits)
      BY MagnitudeFields
    <3>. QED BY <1>4, <3>1, <3>2, SeqEqual
  <2>2. CompareMagnitude(s, t) = 0
    BY <1>4 DEF CompareMagnitude
  <2>. QED BY <1>0, <2>1, <2>2 DEF Order
<1>5. CASE Len(s) = Len(t) /\ differ # {}
  <2>. DEFINE m == Max(differ)
  <2>1. m \in differ /\ \A y \in differ : m >= y
    <3>1. differ \in SUBSET (0 .. Len(s))
      BY <1>1
    <3>. HIDE DEF differ
    <3>. QED BY <1>1, <1>5, <3>1, MaxIsGreatest
  <2>2. CompareMagnitude(s, t) = IF s[m] > t[m] THEN 1 ELSE -1
    BY <1>5 DEF CompareMagnitude, Sign
  <2>. HIDE DEF m
  <2>3. m \in 1 .. Len(s) /\ s[m] # t[m] /\ s[m] \in Nat /\ t[m] \in Nat
    BY <1>1, <1>5, <2>1 DEF Limb
  <2>4. \A i \in 1 .. Len(s) : i > m => s[i] = t[i]
    <3>. SUFFICES ASSUME NEW i \in 1 .. Len(s), i > m PROVE s[i] = t[i]
      OBVIOUS
    <3>1. i \notin differ
      BY <2>1, <2>3
    <3>2. Limb(t, i) = t[i]
      BY <1>1, <1>5 DEF Limb
    <3>. QED BY <1>1, <3>1, <3>2
  <2>5. CASE s[m] > t[m]
    <3>1. Number(s) > Number(t)
      BY <1>5, <2>3, <2>4, <2>5, HighestDecides
    <3>. QED BY <1>0, <2>2, <2>5, <3>1 DEF Order
  <2>6. CASE t[m] > s[m]
    <3>1. Number(t) > Number(s)
      BY <1>5, <2>3, <2>4, <2>6, HighestDecides
    <3>2. ~(s[m] > t[m])
      BY <2>3, <2>6
    <3>. QED BY <1>0, <2>2, <3>1, <3>2 DEF Order
  <2>. QED BY <2>3, <2>5, <2>6
<1>. QED
  <2>. HIDE DEF differ
  <2>1. Len(s) > Len(t) \/ Len(t) > Len(s) \/ Len(s) = Len(t)
    BY <1>6
  <2>. QED BY <1>2, <1>3, <1>4, <1>5, <2>1
-------------------------------------------------------------------------------
(* Sums and differences of magnitudes. *)

LEMMA DividedBetween ==
  ASSUME NEW t \in Int, NEW lo \in Int, NEW hi \in Int, Base * lo <= t, t <= Base * hi + Base - 1
  PROVE  t \div Base \in lo .. hi
<1>. DEFINE q == t \div Base
            b == Base
            x == Base * q
            y == Base * lo
            z == Base * hi
            r == t % Base
<1>1. q \in Int /\ b \in Nat /\ r \in 0 .. b - 1 /\ r + x = t
  BY BaseIsLarge, Divided
<1>2. x \in Int /\ y \in Int /\ z \in Int
  BY <1>1, BaseIsLarge
<1>3. (lo > q => y >= x + b) /\ (q > hi => x >= z + b)
  <2>. HIDE DEF q
  <2>. QED BY <1>1, Scaled
<1>4. y <= t /\ t <= z + b - 1
  OBVIOUS
<1>. HIDE DEF q, b, x, y, z, r
<1>5. q \in lo .. hi
  BY <1>1, <1>2, <1>3, <1>4
<1>. QED BY <1>5 DEF q

(* Columns between bounds leave a carry between them.                      *)
LEMMA CarryBetween ==
  ASSUME NEW column \in Columns, NEW lo \in Int, NEW hi \in Int, lo <= 0, hi >= 0,
         \A i \in DOMAIN column : /\ column[i] >= Base * lo - lo
                                  /\ column[i] <= Base * hi + Base - 1 - hi
  PROVE  Propagate(column).carry \in lo .. hi
<1>1. PICK c : /\ Carries(c, column)
               /\ Propagate(column).carry = c[Len(column)]
  BY CarriesAre
<1>. DEFINE n == Len(column)
            S == lo .. hi
<1>2. n \in Nat /\ DOMAIN column = 1 .. n /\ \A i \in 1 .. n : column[i] \in Int
  BY DEF Columns
<1>3. 0 \in {i \in 0 .. n : c[i] \in S}
  BY <1>1, <1>2 DEF Carries
<1>4. \A i \in 1 .. n : i - 1 \in {j \in 0 .. n : c[j] \in S} => i \in {j \in 0 .. n : c[j] \in S}
  <2>. SUFFICES ASSUME NEW i \in 1 .. n, c[i - 1] \in S PROVE c[i] \in S
    BY <1>2
  <2>1. c[i] = (column[i] + c[i - 1]) \div Base
    BY <1>1, <1>2 DEF Carries
  <2>. DEFINE x == column[i]
              y == c[i - 1]
              u == Base * lo
              v == Base * hi
              b == Base
  <2>2. x \in Int /\ y \in lo .. hi /\ u \in Int /\ v \in Int /\ b \in Nat
    BY <1>2, BaseIsLarge
  <2>3. x >= u - lo /\ x <= v + b - 1 - hi
    BY <1>2
  <2>4. x + y \in Int /\ u <= x + y /\ x + y <= v + b - 1
    <3>. HIDE DEF x, y, u, v, b
    <3>. QED BY <2>2, <2>3
  <2>5. (x + y) \div Base \in lo .. hi
    <3>. HIDE DEF x, y
    <3>. QED BY <2>4, DividedBetween
  <2>. QED BY <2>1, <2>5
<1>5. \A i \in 0 .. n : i \in {j \in 0 .. n : c[j] \in S}
  <2>. DEFINE T == {j \in 0 .. n : c[j] \in S}
  <2>1. 0 \in T /\ \A i \in 1 .. n : i - 1 \in T => i \in T
    BY <1>3, <1>4
  <2>. HIDE DEF T, n
  <2>2. \A i \in 0 .. n : i \in T
    BY <1>2, <2>1, BoundedInduction
  <2>. QED BY <2>2 DEF T
<1>6. n \in 0 .. n
  BY <1>2
<1>. QED BY <1>1, <1>5, <1>6

(* A multiple, added limb by limb.                                         *)
LEMMA Linear ==
  ASSUME NEW u \in Seq(Int), NEW s \in Seq(Int), NEW t \in Seq(Int), NEW k \in Int,
         \A i \in Places : Limb(u, i) = Limb(s, i) + k * Limb(t, i)
  PROVE  Number(u) = Number(s) + k * Number(t)
<1>1. PICK e : Denotes(e, u) /\ Number(u) = e[1]
  BY NumberDenotes
<1>2. PICK f : Denotes(f, s) /\ Number(s) = f[1]
  BY NumberDenotes
<1>3. PICK g : Denotes(g, t) /\ Number(t) = g[1]
  BY NumberDenotes
<1>. DEFINE N == Len(u) + Len(s) + Len(t)
            S == {i \in Places : e[i] = f[i] + k * g[i]}
<1>4. N \in Nat /\ Len(u) <= N /\ Len(s) <= N /\ Len(t) <= N
  OBVIOUS
<1>. HIDE DEF N
<1>5. N + 1 \in S
  <2>1. N + 1 \in Places /\ N + 1 > Len(u) /\ N + 1 > Len(s) /\ N + 1 > Len(t)
    BY <1>4 DEF Places
  <2>2. e[N + 1] = 0 /\ f[N + 1] = 0 /\ g[N + 1] = 0
    BY <1>1, <1>2, <1>3, <2>1, AtPlace
  <2>. QED BY <2>1, <2>2
<1>6. \A i \in 1 .. N : i + 1 \in S => i \in S
  <2>. TAKE i \in 1 .. N
  <2>. HAVE i + 1 \in S
  <2>1. i \in Places
    BY DEF Places
  <2>2. /\ e[i] = Limb(u, i) + Base * e[i + 1]
        /\ f[i] = Limb(s, i) + Base * f[i + 1] /\ Limb(s, i) \in Int /\ f[i + 1] \in Int
        /\ g[i] = Limb(t, i) + Base * g[i + 1] /\ Limb(t, i) \in Int /\ g[i + 1] \in Int
    BY <1>1, <1>2, <1>3, <2>1, AtPlace
  <2>3. e[i + 1] = f[i + 1] + k * g[i + 1] /\ Limb(u, i) = Limb(s, i) + k * Limb(t, i)
    BY <2>1
  <2>. DEFINE x == Limb(s, i)
              y == Limb(t, i)
              p == f[i + 1]
              q == g[i + 1]
              b == Base
  <2>4. x \in Int /\ y \in Int /\ p \in Int /\ q \in Int /\ b \in Int
    BY <2>2, BaseIsLarge
  <2>5. e[i] = (x + k * y) + b * (p + k * q) /\ f[i] = x + b * p /\ g[i] = y + b * q
    BY <2>2, <2>3
  <2>. HIDE DEF x, y, p, q, b
  <2>6. (x + k * y) + b * (p + k * q) = (x + b * p) + k * (y + b * q)
    BY <2>4
  <2>. QED BY <2>1, <2>5, <2>6
<1>7. \A i \in 1 .. N + 1 : i \in S
  <2>. HIDE DEF S
  <2>. QED BY <1>4, <1>5, <1>6, Downwards
<1>8. 1 \in S
  BY <1>4, <1>7
<1>. QED BY <1>1, <1>2, <1>3, <1>8

(* A carry that is a limb is kept.                                         *)
LEMMA CarriedWorks ==
  ASSUME NEW column \in Columns, column # <<>>, Propagate(column).carry \in Digits
  PROVE  /\ Carried(Propagate(column)) \in Magnitudes
         /\ Number(Carried(Propagate(column))) = Number(column)
         /\ Len(Carried(Propagate(column))) <= Len(column) + 1
<1>. DEFINE p == Propagate(column)
            d == p.digits
            c == p.carry
<1>1. d \in Seq(Digits) /\ Len(d) = Len(column) /\ Number(Append(d, c)) = Number(column)
  BY PropagateIsExact
<1>2. Len(column) \in Nat /\ Len(column) # 0
  BY EmptySeq DEF Columns
<1>3. Carried(p) = IF c = 0 THEN d ELSE Append(d, c)
  BY DEF Carried
<1>4. c \in Digits
  OBVIOUS
<1>. HIDE DEF p, d, c
<1>5. Append(d, c) \in Seq(Digits) /\ Len(Append(d, c)) = Len(column) + 1
  BY <1>1, <1>4
<1>6. Number(Carried(p)) = Number(column)
  <2>1. CASE c = 0
    <3>1. \A j \in Places : Limb(d, j) = Limb(Append(d, c), j)
      BY <1>1, <1>2, <2>1 DEF Limb, Places
    <3>2. d \in Seq(Int) /\ Append(d, c) \in Seq(Int)
      BY <1>1, <1>5, BaseIsLarge DEF Digits
    <3>3. Number(d) = Number(Append(d, c))
      BY <3>1, <3>2, SameLimbs
    <3>. QED BY <1>1, <1>3, <2>1, <3>3
  <2>2. CASE c # 0
    BY <1>1, <1>3, <2>2
  <2>. QED BY <2>1, <2>2
<1>7. Carried(p) \in Seq(Digits) /\ Len(Carried(p)) \in Nat \ {0} /\ Len(Carried(p)) <= Len(column) + 1
  BY <1>1, <1>2, <1>3, <1>5
<1>8. Carried(p) \in Magnitudes
  <2>1. Carried(p) # <<>>
    BY <1>7, EmptySeq
  <2>. QED BY <1>7, <2>1 DEF Magnitudes
<1>. QED BY <1>6, <1>7, <1>8 DEF p

Longer(s, t) == IF Len(s) > Len(t) THEN Len(s) ELSE Len(t)

(* bigint_add on magnitudes.                                               *)
LEMMA AddWorks ==
  ASSUME NEW s \in Magnitudes, NEW t \in Magnitudes
  PROVE  /\ AddMagnitude(s, t) \in Magnitudes
         /\ Number(AddMagnitude(s, t)) = Number(s) + Number(t)
         /\ Len(AddMagnitude(s, t)) <= Longer(s, t) + 1
<1>. DEFINE n == Max({Len(s), Len(t)})
            column == [i \in 1 .. n |-> Limb(s, i) + Limb(t, i)]
<1>1. /\ s \in Seq(Int) /\ t \in Seq(Int) /\ Len(s) \in Places /\ Len(t) \in Places
      /\ DOMAIN s = 1 .. Len(s) /\ DOMAIN t = 1 .. Len(t)
      /\ \A i \in Places : Limb(s, i) \in Digits /\ Limb(t, i) \in Digits
  BY MagnitudeFields
<1>2. n = Longer(s, t) /\ n \in Places /\ Len(s) <= n /\ Len(t) <= n
  <2>1. n \in {Len(s), Len(t)} /\ \A y \in {Len(s), Len(t)} : n >= y
    <3>. DEFINE S == {Len(s), Len(t)}
    <3>1. S \in SUBSET (0 .. Len(s) + Len(t)) /\ S # {} /\ Len(s) + Len(t) \in Nat
      BY <1>1 DEF Places
    <3>. HIDE DEF S
    <3>2. Max(S) \in S /\ \A y \in S : Max(S) >= y
      BY <3>1, MaxIsGreatest
    <3>. QED BY <3>2 DEF S
  <2>. HIDE DEF n
  <2>. QED BY <1>1, <2>1 DEF Longer, Places
<1>3. AddMagnitude(s, t) = Carried(Propagate(column))
  BY DEF AddMagnitude
<1>. HIDE DEF n
<1>4. \A i \in 1 .. n : /\ column[i] = Limb(s, i) + Limb(t, i) /\ i \in Places
                        /\ column[i] \in 0 .. 2 * Base - 2
  <2>. SUFFICES ASSUME NEW i \in 1 .. n PROVE i \in Places /\ column[i] \in 0 .. 2 * Base - 2
    OBVIOUS
  <2>1. i \in Places
    BY DEF Places
  <2>2. Limb(s, i) \in 0 .. Base - 1 /\ Limb(t, i) \in 0 .. Base - 1
    BY <1>1, <2>1 DEF Digits
  <2>3. column[i] = Limb(s, i) + Limb(t, i)
    OBVIOUS
  <2>. QED BY <2>1, <2>2, <2>3, BaseIsLarge
<1>5. column \in Seq(Int) /\ Len(column) = n /\ DOMAIN column = 1 .. n
  <2>1. \A i \in 1 .. n : column[i] \in Int
    BY <1>4, BaseIsLarge
  <2>2. n \in Nat
    BY <1>2 DEF Places
  <2>. QED BY <2>1, <2>2
<1>6. Propagate(column).carry \in Digits
  <2>1. \A i \in DOMAIN column : column[i] >= Base * 0 - 0 /\ column[i] <= Base * 1 + Base - 1 - 1
    BY <1>4, <1>5, BaseIsLarge
  <2>2. Propagate(column).carry \in 0 .. 1
    <3>. DEFINE lo == 0
                hi == 1
    <3>1. column \in Columns /\ lo \in Int /\ hi \in Int /\ lo <= 0 /\ hi >= 0
      BY <1>5 DEF Columns
    <3>2. \A i \in DOMAIN column : column[i] >= Base * lo - lo /\ column[i] <= Base * hi + Base - 1 - hi
      BY <2>1
    <3>. HIDE DEF column, lo, hi
    <3>3. Propagate(column).carry \in lo .. hi
      BY <3>1, <3>2, CarryBetween
    <3>. QED BY <3>3 DEF lo, hi
  <2>. QED BY <2>2, BaseIsLarge DEF Digits
<1>7. \A i \in Places : Limb(column, i) = Limb(s, i) + 1 * Limb(t, i)
  <2>. SUFFICES ASSUME NEW i \in Places PROVE Limb(column, i) = Limb(s, i) + 1 * Limb(t, i)
    OBVIOUS
  <2>0. Limb(s, i) \in Int /\ Limb(t, i) \in Int
    BY <1>1, BaseIsLarge DEF Digits
  <2>1. CASE i \in 1 .. n
    BY <1>4, <1>5, <2>0, <2>1 DEF Limb
  <2>2. CASE i \notin 1 .. n
    <3>1. i \notin DOMAIN s /\ i \notin DOMAIN t
      BY <1>1, <1>2, <2>2 DEF Places
    <3>2. i \notin DOMAIN column
      BY <1>5, <2>2
    <3>. QED BY <3>1, <3>2 DEF Limb
  <2>. QED BY <2>1, <2>2
<1>. HIDE DEF column
<1>8. Number(column) = Number(s) + 1 * Number(t)
  BY <1>1, <1>5, <1>7, Linear
<1>9. Number(s) \in Nat /\ Number(t) \in Nat
  BY NumberIsNat
<1>10. column # <<>>
  BY <1>2, <1>5, EmptySeq DEF Places
<1>11. /\ Carried(Propagate(column)) \in Magnitudes
       /\ Number(Carried(Propagate(column))) = Number(column)
       /\ Len(Carried(Propagate(column))) <= n + 1
  BY <1>5, <1>6, <1>10, CarriedWorks DEF Columns
<1>. QED BY <1>2, <1>3, <1>8, <1>9, <1>11

(* What is borrowed from nowhere makes the number negative.                *)
LEMMA BorrowedIsNegative ==
  ASSUME NEW d \in Seq(Digits)
  PROVE  Number(Append(d, -1)) < 0
<1>. DEFINE s == Append(d, -1)
            n == Len(d)
<1>1. /\ s \in Seq(Int) /\ n \in Nat /\ Len(s) = n + 1 /\ DOMAIN s = 1 .. n + 1
      /\ s[n + 1] = -1
      /\ \A i \in 1 .. n : s[i] = d[i] /\ d[i] \in Digits
  <2>1. d \in Seq(Int)
    BY BaseIsLarge DEF Digits
  <2>2. \A i \in 1 .. n : d[i] \in Digits
    BY ElementOfSeq
  <2>. QED BY <2>1, <2>2
<1>. HIDE DEF s, n
<1>2. PICK f : Denotes(f, s) /\ Number(s) = f[1]
  BY <1>1, NumberDenotes
<1>. DEFINE S == {i \in Places : f[i] <= -1}
<1>3. n + 1 \in S
  <2>1. n + 1 \in Places /\ n + 1 + 1 \in Places /\ n + 1 + 1 > Len(s)
    BY <1>1 DEF Places
  <2>2. f[n + 1] = Limb(s, n + 1) + Base * f[n + 1 + 1]
    BY <1>1, <1>2, <2>1, AtPlace
  <2>3. f[n + 1 + 1] = 0
    <3>. DEFINE k == n + 1 + 1
    <3>1. k \in Places /\ k > Len(s)
      BY <2>1
    <3>. HIDE DEF k
    <3>2. f[k] = 0
      BY <1>1, <1>2, <3>1, AtPlace
    <3>. QED BY <3>2 DEF k
  <2>4. Limb(s, n + 1) = -1
    BY <1>1 DEF Limb
  <2>5. Base * 0 = 0
    BY BaseIsLarge
  <2>. QED BY <2>1, <2>2, <2>3, <2>4, <2>5
<1>4. \A i \in 1 .. n : i + 1 \in S => i \in S
  <2>. TAKE i \in 1 .. n
  <2>. HAVE i + 1 \in S
  <2>1. i \in Places
    BY DEF Places
  <2>2. f[i] = Limb(s, i) + Base * f[i + 1] /\ f[i + 1] \in Int
    BY <1>1, <1>2, <2>1, AtPlace
  <2>3. Limb(s, i) \in 0 .. Base - 1
    BY <1>1 DEF Limb, Digits
  <2>4. 0 > f[i + 1]
    BY <2>2
  <2>. DEFINE x == Base * f[i + 1]
              y == Limb(s, i)
              b == Base
  <2>5. Base * 0 >= Base * f[i + 1] + Base /\ x \in Int /\ Base * 0 = 0 /\ b \in Nat
    BY <2>2, <2>4, Scaled, BaseIsLarge
  <2>6. 0 >= x + b /\ y \in 0 .. b - 1 /\ f[i] = y + x
    BY <2>2, <2>3, <2>5
  <2>. HIDE DEF x, y, b
  <2>7. f[i] <= -1
    BY <2>5, <2>6
  <2>. QED BY <2>1, <2>7
<1>5. \A i \in 1 .. n + 1 : i \in S
  <2>. HIDE DEF S
  <2>. QED BY <1>1, <1>3, <1>4, Downwards
<1>6. 1 \in S
  BY <1>1, <1>5
<1>7. Number(s) <= -1 /\ Number(s) \in Int
  <2>1. f[1] \in Int /\ f[1] <= -1
    BY <1>2, <1>6 DEF Denotes
  <2>. QED BY <1>2, <2>1
<1>. QED BY <1>7 DEF s

(* bigint_sub on magnitudes, the larger first: nothing is borrowed from    *)
(* beyond its limbs.                                                       *)
LEMMA SubWorks ==
  ASSUME NEW s \in Magnitudes, NEW t \in Magnitudes, Trimmed(t), Number(s) >= Number(t)
  PROVE  /\ SubMagnitude(s, t) \in Magnitudes
         /\ Number(SubMagnitude(s, t)) = Number(s) - Number(t)
         /\ Len(SubMagnitude(s, t)) = Len(s)
<1>. DEFINE n == Len(s)
            column == [i \in DOMAIN s |-> s[i] - Limb(t, i)]
            p == Propagate(column)
            d == p.digits
            c == p.carry
<1>1. /\ s \in Seq(Int) /\ t \in Seq(Int) /\ n \in Places /\ Len(t) \in Places
      /\ DOMAIN s = 1 .. n /\ DOMAIN t = 1 .. Len(t)
      /\ \A i \in 1 .. n : s[i] \in Digits
      /\ \A i \in Places : Limb(s, i) \in Digits /\ Limb(t, i) \in Digits
  BY MagnitudeFields
<1>2. Number(s) \in Nat /\ Number(t) \in Nat
  BY NumberIsNat
<1>3. Len(t) <= n
  <2>1. ~(Len(t) > n)
    BY <1>2, LongerIsLarger
  <2>. QED BY <1>1, <2>1 DEF Places
<1>4. \A i \in 1 .. n : /\ i \in Places /\ column[i] = s[i] - Limb(t, i)
                        /\ column[i] \in -(Base - 1) .. Base - 1
  <2>. SUFFICES ASSUME NEW i \in 1 .. n
                PROVE  /\ i \in Places /\ column[i] = s[i] - Limb(t, i)
                       /\ column[i] \in -(Base - 1) .. Base - 1
    OBVIOUS
  <2>1. i \in Places
    BY DEF Places
  <2>2. s[i] \in 0 .. Base - 1 /\ Limb(t, i) \in 0 .. Base - 1
    BY <1>1, <2>1 DEF Digits
  <2>3. column[i] = s[i] - Limb(t, i)
    BY <1>1
  <2>. QED BY <2>1, <2>2, <2>3, BaseIsLarge
<1>5. column \in Seq(Int) /\ Len(column) = n /\ DOMAIN column = 1 .. n
  <2>1. \A i \in 1 .. n : column[i] \in Int
    BY <1>4, BaseIsLarge
  <2>2. n \in Nat /\ DOMAIN s = 1 .. n
    BY <1>1 DEF Places
  <2>. HIDE DEF n
  <2>. QED BY <2>1, <2>2
<1>6. c \in -1 .. 0
  <2>1. \A i \in DOMAIN column : column[i] >= Base * (-1) - (-1) /\ column[i] <= Base * 0 + Base - 1 - 0
    BY <1>4, <1>5, BaseIsLarge
  <2>. DEFINE lo == -1
              hi == 0
  <2>2. column \in Columns /\ lo \in Int /\ hi \in Int /\ lo <= 0 /\ hi >= 0
    BY <1>5 DEF Columns
  <2>3. \A i \in DOMAIN column : column[i] >= Base * lo - lo /\ column[i] <= Base * hi + Base - 1 - hi
    BY <2>1
  <2>. HIDE DEF column, lo, hi
  <2>4. c \in lo .. hi
    BY <2>2, <2>3, CarryBetween
  <2>. QED BY <2>4 DEF lo, hi
<1>7. \A i \in Places : Limb(column, i) = Limb(s, i) + (-1) * Limb(t, i)
  <2>. SUFFICES ASSUME NEW i \in Places PROVE Limb(column, i) = Limb(s, i) + (-1) * Limb(t, i)
    OBVIOUS
  <2>0. Limb(s, i) \in Int /\ Limb(t, i) \in Int
    BY <1>1, BaseIsLarge DEF Digits
  <2>1. CASE i \in 1 .. n
    <3>1. Limb(column, i) = column[i] /\ Limb(s, i) = s[i]
      BY <1>1, <1>5, <2>1 DEF Limb
    <3>. QED BY <1>4, <2>0, <2>1, <3>1
  <2>2. CASE i \notin 1 .. n
    <3>1. i \notin DOMAIN s /\ i \notin DOMAIN t
      BY <1>1, <1>3, <2>2 DEF Places
    <3>2. i \notin DOMAIN column
      BY <1>5, <2>2
    <3>. QED BY <3>1, <3>2 DEF Limb
  <2>. QED BY <2>1, <2>2
<1>8. SubMagnitude(s, t) = d
  BY DEF SubMagnitude
<1>. HIDE DEF column
<1>9. Number(column) = Number(s) - Number(t)
  <2>1. Number(column) = Number(s) + (-1) * Number(t)
    BY <1>1, <1>5, <1>7, Linear
  <2>. QED BY <1>2, <2>1
<1>10. d \in Seq(Digits) /\ Len(d) = n /\ Number(Append(d, c)) = Number(column)
  BY <1>5, PropagateIsExact DEF Columns
<1>. HIDE DEF p, d, c, n
<1>11. c = 0
  <2>1. Number(column) >= 0
    BY <1>2, <1>9
  <2>2. ASSUME c = -1 PROVE FALSE
    <3>1. Number(Append(d, -1)) = Number(column)
      BY <1>10, <2>2
    <3>2. Number(Append(d, -1)) < 0
      BY <1>10, BorrowedIsNegative
    <3>3. Number(column) \in Int
      BY <1>2, <1>9
    <3>. QED BY <2>1, <3>1, <3>2, <3>3
  <2>. QED BY <1>6, <2>2
<1>12. Number(d) = Number(Append(d, 0))
  <2>1. d \in Seq(Int) /\ Append(d, 0) \in Seq(Int) /\ n \in Nat
    BY <1>1, <1>10, BaseIsLarge DEF Digits, Places
  <2>2. \A j \in Places : Limb(d, j) = Limb(Append(d, 0), j)
    BY <1>10, <2>1 DEF Limb, Places
  <2>. QED BY <2>1, <2>2, SameLimbs
<1>13. d \in Magnitudes
  BY <1>1, <1>10, EmptySeq DEF Magnitudes, Places
<1>. QED BY <1>8, <1>9, <1>10, <1>11, <1>12, <1>13 DEF n

-------------------------------------------------------------------------------
(* Signs. *)

(* Big integers as the operations leave them, of any length.               *)
BigNumbers == {a \in [limbs : Magnitudes, negative : BOOLEAN] : IsCanonical(a)}

Signed(i, negative) == IF negative THEN -i ELSE i

LEMMA SignedZero == \A n \in Nat : n <= 0 => -n = n /\ \A negative : Signed(n, negative) = n
<1>1. \A n \in Nat : n <= 0 => -n = n
  <2>. SUFFICES ASSUME NEW n \in Nat, n <= 0 PROVE -n = n
    OBVIOUS
  <2>. QED OBVIOUS
<1>. QED BY <1>1, Zenon DEF Signed

LEMMA BigNumberFields ==
  ASSUME NEW a \in BigNumbers
  PROVE  /\ a.limbs \in Magnitudes /\ Trimmed(a.limbs) /\ a.negative \in BOOLEAN
         /\ Number(a.limbs) \in Nat
         /\ ValueOf(a) = Signed(Number(a.limbs), a.negative)
         /\ Number(a.limbs) = 0 => a.limbs = <<0>> /\ a.negative = FALSE
<1>1. a.limbs \in Magnitudes /\ a.negative \in BOOLEAN /\ IsCanonical(a)
  BY DEF BigNumbers
<1>2. Trimmed(a.limbs)
  BY <1>1, TrimWorks DEF IsCanonical
<1>3. Number(a.limbs) \in Nat
  BY <1>1, NumberIsNat
<1>4. ValueOf(a) = Signed(Number(a.limbs), a.negative)
  BY DEF ValueOf, Signed
<1>5. ASSUME Number(a.limbs) = 0
      PROVE  a.limbs = <<0>> /\ a.negative = FALSE
  <2>1. <<0>> \in Magnitudes /\ Trimmed(<<0>>) /\ Number(<<0>>) = 0
    BY ZeroIsZero
  <2>2. a.limbs = <<0>>
    BY <1>1, <1>2, <1>5, <2>1, CompareWorks
  <2>3. ~a.negative
    BY <1>1, <2>2 DEF IsCanonical, IsZero
  <2>. QED BY <1>1, <2>2, <2>3
<1>. QED BY <1>1, <1>2, <1>3, <1>4, <1>5

LEMMA ValueIsInt ==
  ASSUME NEW a \in BigNumbers
  PROVE  ValueOf(a) \in Int
<1>1. \A n \in Nat : \A negative \in BOOLEAN : Signed(n, negative) \in Int
  BY DEF Signed
<1>2. Number(a.limbs) \in Nat /\ a.negative \in BOOLEAN /\ ValueOf(a) = Signed(Number(a.limbs), a.negative)
  BY BigNumberFields
<1>. QED BY <1>1, <1>2

(* bigint_normalize.                                                       *)
LEMMA NormalWorks ==
  ASSUME NEW s \in Magnitudes, NEW negative \in BOOLEAN
  PROVE  /\ Normal(s, negative) \in BigNumbers
         /\ IsNumber(Normal(s, negative), Signed(Number(s), negative))
         /\ Len(Normal(s, negative).limbs) <= Len(s)
<1>. DEFINE a == Normal(s, negative)
            r == Trim(s)
<1>1. /\ r \in Magnitudes /\ Trim(r) = r /\ Number(r) = Number(s) /\ Len(r) <= Len(s)
  <2>1. r \in Magnitudes /\ Trimmed(r) /\ Number(r) = Number(s) /\ Len(r) <= Len(s)
    BY TrimWorks
  <2>. HIDE DEF r
  <2>2. Trim(r) = r
    BY <2>1, TrimWorks
  <2>. QED BY <2>1, <2>2
<1>. HIDE DEF r
<1>2. a = [limbs |-> r, negative |-> negative /\ r # <<0>>]
  BY DEF Normal, r
<1>. HIDE DEF a
<1>3. a.limbs = r /\ a.negative = (negative /\ r # <<0>>) /\ a \in [limbs : Magnitudes, negative : BOOLEAN]
  BY <1>1, <1>2
<1>4. IsCanonical(a)
  BY <1>1, <1>3 DEF IsCanonical, IsZero
<1>5. a \in BigNumbers
  BY <1>3, <1>4 DEF BigNumbers
<1>6. ValueOf(a) = Signed(Number(s), negative)
  <2>1. CASE r = <<0>>
    <3>1. Number(r) = 0
      BY <2>1, ZeroIsZero
    <3>2. ValueOf(a) = 0
      BY <1>3, <2>1, <3>1 DEF ValueOf
    <3>3. Number(s) = 0
      BY <1>1, <3>1
    <3>4. Signed(0, negative) = 0
      BY SignedZero
    <3>. QED BY <3>2, <3>3, <3>4, Zenon
  <2>2. CASE r # <<0>>
    <3>1. a.negative = negative
      BY <1>3, <2>2
    <3>2. ValueOf(a) = Signed(Number(r), a.negative)
      BY <1>3, Zenon DEF ValueOf, Signed
    <3>. QED BY <1>1, <3>1, <3>2
  <2>. QED BY <2>1, <2>2
<1>7. Len(a.limbs) <= Len(s)
  BY <1>1, <1>3
<1>. QED BY <1>4, <1>5, <1>6, <1>7 DEF a, IsNumber

(* A number has one representation: two values that stand for the same     *)
(* number have the same limbs and the same sign, so that bigint_compare    *)
(* may answer 0 for what is equal limb by limb only.                       *)
THEOREM ValuesAreUnique ==
  ASSUME NEW a \in BigNumbers, NEW b \in BigNumbers, ValueOf(a) = ValueOf(b)
  PROVE  a.limbs = b.limbs /\ a.negative = b.negative
<1>. DEFINE x == Number(a.limbs)
            y == Number(b.limbs)
<1>1. /\ a.limbs \in Magnitudes /\ b.limbs \in Magnitudes
      /\ Trimmed(a.limbs) /\ Trimmed(b.limbs)
      /\ x \in Nat /\ y \in Nat
      /\ a.negative \in BOOLEAN /\ b.negative \in BOOLEAN
      /\ Signed(x, a.negative) = Signed(y, b.negative)
      /\ (x = 0 => a.negative = FALSE) /\ (y = 0 => b.negative = FALSE)
  BY BigNumberFields
<1>. HIDE DEF x, y
<1>2. x = y /\ a.negative = b.negative
  BY <1>1 DEF Signed
<1>3. a.limbs = b.limbs
  BY <1>1, <1>2, CompareWorks DEF x, y
<1>. QED BY <1>2, <1>3

(* bigint_compare orders values of any length as the numbers they stand    *)
(* for.                                                                    *)
THEOREM ComparisonIsExact ==
  ASSUME NEW a \in BigNumbers, NEW b \in BigNumbers
  PROVE  Compare(a, b) = Order(ValueOf(a), ValueOf(b))
<1>. DEFINE x == Number(a.limbs)
            y == Number(b.limbs)
            c == CompareMagnitude(a.limbs, b.limbs)
<1>1. /\ x \in Nat /\ y \in Nat /\ c = Order(x, y)
      /\ a.negative \in BOOLEAN /\ b.negative \in BOOLEAN
      /\ ValueOf(a) = Signed(x, a.negative) /\ ValueOf(b) = Signed(y, b.negative)
      /\ (x = 0 => a.negative = FALSE) /\ (y = 0 => b.negative = FALSE)
  BY BigNumberFields, CompareWorks
<1>2. Compare(a, b) = IF a.negative # b.negative THEN (IF b.negative THEN 1 ELSE -1)
                      ELSE IF a.negative THEN -c ELSE c
  BY DEF Compare, Sign
<1>. HIDE DEF x, y, c
<1>3. CASE a.negative = b.negative /\ a.negative = FALSE
  BY <1>1, <1>2, <1>3 DEF Order, Signed
<1>4. CASE a.negative = b.negative /\ a.negative = TRUE
  BY <1>1, <1>2, <1>4 DEF Order, Signed
<1>5. CASE a.negative = TRUE /\ b.negative = FALSE
  BY <1>1, <1>2, <1>5 DEF Order, Signed
<1>6. CASE a.negative = FALSE /\ b.negative = TRUE
  BY <1>1, <1>2, <1>6 DEF Order, Signed
<1>. QED BY <1>1, <1>3, <1>4, <1>5, <1>6

LEMMA NegatedWorks ==
  ASSUME NEW a \in BigNumbers
  PROVE  /\ Negated(a) \in BigNumbers /\ ValueOf(Negated(a)) = -ValueOf(a)
         /\ Negated(a).limbs = a.limbs
<1>1. a \in [limbs : Magnitudes, negative : BOOLEAN] /\ IsCanonical(a)
  BY DEF BigNumbers
<1>2. Number(a.limbs) \in Nat /\ a.negative \in BOOLEAN
  BY BigNumberFields
<1>3. CASE IsZero(a)
  <2>1. ValueOf(a) = 0
    <3>1. Number(a.limbs) = 0
      BY <1>3, ZeroIsZero DEF IsZero
    <3>2. ValueOf(a) = Signed(0, a.negative)
      BY <3>1, Zenon DEF ValueOf, Signed
    <3>3. Signed(0, a.negative) = 0
      BY SignedZero
    <3>. QED BY <3>2, <3>3, Zenon
  <2>2. Negated(a) = a
    BY <1>3 DEF Negated
  <2>3. ValueOf(a) = -ValueOf(a)
    <3>1. ValueOf(a) \in Nat /\ ValueOf(a) <= 0
      BY <2>1
    <3>. QED BY <3>1, SignedZero, Zenon
  <2>. QED BY <2>2, <2>3
<1>4. CASE ~IsZero(a)
  <2>1. Negated(a) = [a EXCEPT !.negative = ~a.negative]
    BY <1>4 DEF Negated
  <2>2. /\ Negated(a).limbs = a.limbs /\ Negated(a).negative = ~a.negative
        /\ Negated(a) \in [limbs : Magnitudes, negative : BOOLEAN]
    BY <1>1, <2>1
  <2>3. IsCanonical(Negated(a))
    BY <1>1, <1>4, <2>2 DEF IsCanonical, IsZero
  <2>4. ValueOf(Negated(a)) = -ValueOf(a)
    BY <1>2, <2>2 DEF ValueOf
  <2>. QED BY <2>2, <2>3, <2>4 DEF BigNumbers
<1>. QED BY <1>3, <1>4

(* bigint_add is exact for limbs of every width and values of every        *)
(* length and sign: the result is normalised, stands for the sum, and has  *)
(* at most one limb more than the longer of the two.                       *)
THEOREM SumIsExact ==
  ASSUME NEW a \in BigNumbers, NEW b \in BigNumbers
  PROVE  /\ Sum(a, b) \in BigNumbers
         /\ IsNumber(Sum(a, b), ValueOf(a) + ValueOf(b))
         /\ Len(Sum(a, b).limbs) <= Longer(a.limbs, b.limbs) + 1
<1>. DEFINE s == a.limbs
            t == b.limbs
            x == Number(s)
            y == Number(t)
            p == a.negative
            q == b.negative
            c == CompareMagnitude(s, t)
<1>1. /\ s \in Magnitudes /\ t \in Magnitudes /\ Trimmed(s) /\ Trimmed(t)
      /\ p \in BOOLEAN /\ q \in BOOLEAN
      /\ x \in Nat /\ y \in Nat
      /\ ValueOf(a) = Signed(x, p) /\ ValueOf(b) = Signed(y, q)
  BY BigNumberFields
<1>2. Sum(a, b) = IF p = q THEN Normal(AddMagnitude(s, t), p)
                  ELSE IF c >= 0 THEN Normal(SubMagnitude(s, t), p)
                  ELSE Normal(SubMagnitude(t, s), q)
  BY DEF Sum
<1>. HIDE DEF s, t, p, q
<1>3. c = Order(x, y) /\ Len(s) \in Nat /\ Len(t) \in Nat
  BY <1>1, CompareWorks, MagnitudeFields DEF Places
<1>. DEFINE i == ValueOf(a) + ValueOf(b)
            Right(n) == n \in BigNumbers /\ IsNumber(n, i) /\ Len(n.limbs) <= Longer(s, t) + 1
<1>4. CASE p = q
  <2>. DEFINE r == AddMagnitude(s, t)
  <2>1. r \in Magnitudes /\ Number(r) = x + y /\ Len(r) <= Longer(s, t) + 1
    BY <1>1, AddWorks
  <2>2. Len(r) \in Nat
    <3>. HIDE DEF r
    <3>. QED BY <2>1, MagnitudeFields DEF Places
  <2>. HIDE DEF r
  <2>3. /\ Normal(r, p) \in BigNumbers /\ IsNumber(Normal(r, p), Signed(Number(r), p))
        /\ Len(Normal(r, p).limbs) <= Len(r)
    BY <1>1, <2>1, NormalWorks
  <2>. HIDE DEF x, y
  <2>4. Signed(Number(r), p) = i
    BY <1>1, <1>4, <2>1 DEF Signed
  <2>5. Len(Normal(r, p).limbs) \in Nat
    BY <2>3, BigNumberFields, MagnitudeFields DEF Places
  <2>6. Longer(s, t) \in Nat
    BY <1>3 DEF Longer
  <2>7. Right(Normal(r, p))
    BY <2>1, <2>2, <2>3, <2>4, <2>5, <2>6
  <2>8. Sum(a, b) = Normal(r, p)
    BY <1>2, <1>4 DEF r
  <2>. QED BY <2>7, <2>8 DEF s, t
<1>5. ASSUME p # q, c >= 0
      PROVE  Right(Sum(a, b))
  <2>. DEFINE r == SubMagnitude(s, t)
  <2>0. x >= y
    <3>. HIDE DEF x, y, c
    <3>. QED BY <1>1, <1>3, <1>5 DEF Order
  <2>1. r \in Magnitudes /\ Number(r) = x - y /\ Len(r) = Len(s)
    BY <1>1, <2>0, SubWorks
  <2>. HIDE DEF r
  <2>3. /\ Normal(r, p) \in BigNumbers /\ IsNumber(Normal(r, p), Signed(Number(r), p))
        /\ Len(Normal(r, p).limbs) <= Len(r)
    BY <1>1, <2>1, NormalWorks
  <2>. HIDE DEF x, y, c
  <2>4. Signed(Number(r), p) = i
    BY <1>1, <1>5, <2>1 DEF Signed
  <2>5. Len(Normal(r, p).limbs) \in Nat
    BY <2>3, BigNumberFields, MagnitudeFields DEF Places
  <2>6. Longer(s, t) \in Nat /\ Longer(s, t) >= Len(s)
    BY <1>3 DEF Longer
  <2>7. Right(Normal(r, p))
    BY <1>3, <2>1, <2>3, <2>4, <2>5, <2>6
  <2>8. Sum(a, b) = Normal(r, p)
    BY <1>2, <1>5 DEF r
  <2>. QED BY <2>7, <2>8
<1>6. ASSUME p # q, ~(c >= 0)
      PROVE  Right(Sum(a, b))
  <2>. DEFINE r == SubMagnitude(t, s)
  <2>0. y >= x
    <3>. HIDE DEF x, y, c
    <3>. QED BY <1>1, <1>3, <1>6 DEF Order
  <2>1. r \in Magnitudes /\ Number(r) = y - x /\ Len(r) = Len(t)
    BY <1>1, <2>0, SubWorks
  <2>. HIDE DEF r
  <2>3. /\ Normal(r, q) \in BigNumbers /\ IsNumber(Normal(r, q), Signed(Number(r), q))
        /\ Len(Normal(r, q).limbs) <= Len(r)
    BY <1>1, <2>1, NormalWorks
  <2>. HIDE DEF x, y, c
  <2>4. Signed(Number(r), q) = i
    BY <1>1, <1>6, <2>1 DEF Signed
  <2>5. Len(Normal(r, q).limbs) \in Nat
    BY <2>3, BigNumberFields, MagnitudeFields DEF Places
  <2>6. Longer(s, t) \in Nat /\ Longer(s, t) >= Len(t)
    BY <1>3 DEF Longer
  <2>7. Right(Normal(r, q))
    BY <1>3, <2>1, <2>3, <2>4, <2>5, <2>6
  <2>8. Sum(a, b) = Normal(r, q)
    BY <1>2, <1>6 DEF r
  <2>. QED BY <2>7, <2>8
<1>7. CASE p # q
  <2>1. Right(Sum(a, b))
    BY <1>5, <1>6, <1>7
  <2>. QED BY <2>1 DEF s, t
<1>. QED BY <1>4, <1>7

(* bigint_sub, likewise.                                                   *)
THEOREM DifferenceIsExact ==
  ASSUME NEW a \in BigNumbers, NEW b \in BigNumbers
  PROVE  /\ Difference(a, b) \in BigNumbers
         /\ IsNumber(Difference(a, b), ValueOf(a) - ValueOf(b))
         /\ Len(Difference(a, b).limbs) <= Longer(a.limbs, b.limbs) + 1
<1>. DEFINE n == Negated(b)
<1>1. n \in BigNumbers /\ ValueOf(n) = -ValueOf(b) /\ n.limbs = b.limbs
  BY NegatedWorks
<1>2. Difference(a, b) = Sum(a, n)
  BY DEF Difference
<1>. HIDE DEF n
<1>3. /\ Sum(a, n) \in BigNumbers
      /\ IsNumber(Sum(a, n), ValueOf(a) + ValueOf(n))
      /\ Len(Sum(a, n).limbs) <= Longer(a.limbs, n.limbs) + 1
  BY <1>1, SumIsExact
<1>4. ValueOf(a) \in Int /\ ValueOf(b) \in Int
  BY ValueIsInt
<1>5. ValueOf(a) + ValueOf(n) = ValueOf(a) - ValueOf(b)
  BY <1>1, <1>4
<1>. QED BY <1>1, <1>2, <1>3, <1>5

-------------------------------------------------------------------------------
(* Products. *)

(* Limbs moved down stand for what the others stand for from there on.     *)
LEMMA Shifted ==
  ASSUME NEW u \in Seq(Int), NEW v \in Seq(Int), NEW f, NEW g, Denotes(f, u), Denotes(g, v),
         NEW i \in Places, \A j \in Places : Limb(v, j) = Limb(u, i + j - 1)
  PROVE  g[1] = f[i]
<1>. DEFINE N == Len(u) + Len(v)
            S == {j \in Places : g[j] = f[i + j - 1]}
<1>1. N \in Nat /\ Len(u) <= N /\ Len(v) <= N /\ Len(u) \in Nat
  OBVIOUS
<1>. HIDE DEF N
<1>2. N + 1 \in S
  <2>. DEFINE p == N + 1
              q == i + (N + 1) - 1
  <2>1. p \in Places /\ p > Len(v) /\ q \in Places /\ q > Len(u)
    BY <1>1 DEF Places
  <2>. HIDE DEF p, q
  <2>2. g[p] = 0 /\ f[q] = 0
    BY <2>1, AtPlace
  <2>. QED BY <2>1, <2>2 DEF p, q
<1>3. \A j \in 1 .. N : j + 1 \in S => j \in S
  <2>. TAKE j \in 1 .. N
  <2>. HAVE j + 1 \in S
  <2>. DEFINE k == i + j - 1
  <2>1. j \in Places /\ k \in Places /\ k + 1 = i + (j + 1) - 1
    BY DEF Places
  <2>2. g[j + 1] = f[k + 1] /\ Limb(v, j) = Limb(u, k)
    BY <2>1
  <2>3. g[j] = Limb(v, j) + Base * g[j + 1]
    BY <2>1, AtPlace
  <2>4. f[k] = Limb(u, k) + Base * f[k + 1]
    <3>. HIDE DEF k
    <3>. QED BY <2>1, AtPlace
  <2>. QED BY <2>1, <2>2, <2>3, <2>4
<1>4. \A j \in 1 .. N + 1 : j \in S
  <2>. HIDE DEF S
  <2>. QED BY <1>1, <1>2, <1>3, Downwards
<1>5. 1 \in S /\ i + 1 - 1 = i
  BY <1>1, <1>4 DEF Places
<1>. QED BY <1>5

Proportional(k, a, b, c, d) == a - b = k * (c - d)

Alike(u, v, i) == \A j \in Places : j < i => Limb(u, j) = Limb(v, j)

(* Below limb i the differences grow alike.                                *)
LEMMA SameBelow ==
  ASSUME NEW u \in Seq(Int), NEW v \in Seq(Int), NEW x \in Seq(Int), NEW y \in Seq(Int),
         NEW e, NEW f, NEW g, NEW h,
         Denotes(e, u), Denotes(f, v), Denotes(g, x), Denotes(h, y),
         NEW i \in Places, NEW k \in Int,
         Alike(u, v, i), Alike(x, y, i),
         Proportional(k, e[i], f[i], g[i], h[i])
  PROVE  Proportional(k, e[1], f[1], g[1], h[1])
<1>. DEFINE N == i - 1
            S == {j \in Places : e[j] - f[j] = k * (g[j] - h[j])}
<1>1. N \in Nat /\ N + 1 = i
  BY DEF Places
<1>2. \A j \in 1 .. N : j + 1 \in S => j \in S
  <2>. TAKE j \in 1 .. N
  <2>. HAVE j + 1 \in S
  <2>1. j \in Places /\ j < i
    BY <1>1 DEF Places
  <2>2. /\ e[j] = Limb(u, j) + Base * e[j + 1] /\ Limb(u, j) \in Int /\ e[j + 1] \in Int
        /\ f[j] = Limb(v, j) + Base * f[j + 1] /\ f[j + 1] \in Int
        /\ g[j] = Limb(x, j) + Base * g[j + 1] /\ Limb(x, j) \in Int /\ g[j + 1] \in Int
        /\ h[j] = Limb(y, j) + Base * h[j + 1] /\ h[j + 1] \in Int
    BY <2>1, AtPlace
  <2>3. Limb(u, j) = Limb(v, j) /\ Limb(x, j) = Limb(y, j)
    BY <2>1 DEF Alike
  <2>. DEFINE p == Limb(u, j)
              q == Limb(x, j)
              ee == e[j + 1]
              ff == f[j + 1]
              gg == g[j + 1]
              hh == h[j + 1]
              b == Base
  <2>4. /\ p \in Int /\ q \in Int /\ ee \in Int /\ ff \in Int /\ gg \in Int /\ hh \in Int /\ b \in Int
        /\ e[j] = p + b * ee /\ f[j] = p + b * ff /\ g[j] = q + b * gg /\ h[j] = q + b * hh
        /\ ee - ff = k * (gg - hh)
    BY <2>2, <2>3, BaseIsLarge
  <2>. HIDE DEF p, q, ee, ff, gg, hh, b
  <2>5. e[j] - f[j] = b * (ee - ff) /\ g[j] - h[j] = b * (gg - hh)
    BY <2>4
  <2>6. b * (k * (gg - hh)) = k * (b * (gg - hh))
    <3>1. \A l, m, n \in Int : l * (m * n) = m * (l * n)
      OBVIOUS
    <3>2. gg - hh \in Int
      BY <2>4
    <3>. QED BY <2>4, <3>1, <3>2
  <2>. QED BY <2>1, <2>4, <2>5, <2>6
<1>3. i \in S
  BY DEF Proportional
<1>4. \A j \in 1 .. N + 1 : j \in S
  <2>1. N + 1 \in S
    BY <1>1, <1>3
  <2>. HIDE DEF S, N
  <2>. QED BY <1>1, <1>2, <2>1, Downwards
<1>5. 1 \in S
  BY <1>1, <1>4
<1>. QED BY <1>5 DEF Proportional

(* The limbs that a product is built in.                                   *)
Accumulators == [1 .. MaxLimbs -> Digits]

LEMMA AccumulatorFields ==
  ASSUME NEW r \in Accumulators
  PROVE  /\ MaxLimbs \in Nat /\ r \in Seq(Digits) /\ r \in Seq(Int) /\ Len(r) = MaxLimbs
         /\ DOMAIN r = 1 .. MaxLimbs
         /\ \A i \in 1 .. MaxLimbs : r[i] \in Digits /\ r[i] \in 0 .. Base - 1 /\ r[i] \in Int
<1>1. MaxLimbs \in Nat
  BY BigIntAssumption
<1>2. Digits \subseteq Int
  BY BaseIsLarge DEF Digits
<1>3. r \in [1 .. MaxLimbs -> Digits]
  BY DEF Accumulators
<1>4. r \in Seq(Digits) /\ Len(r) = MaxLimbs /\ DOMAIN r = 1 .. MaxLimbs
  BY <1>1, <1>3
<1>5. \A i \in 1 .. MaxLimbs : r[i] \in Digits
  BY <1>3
<1>6. r \in Seq(Int)
  BY <1>4, BaseIsLarge DEF Digits
<1>. QED BY <1>1, <1>2, <1>4, <1>5, <1>6 DEF Digits

(* The columns of a row when the product fits.                             *)
RowColumn(r, i, s, t) == [j \in 1 .. Len(t) |-> s[i] * t[j] + r[i + j - 1]]

LEMMA RowIs ==
  ASSUME NEW s \in Magnitudes, NEW t \in Magnitudes, Len(s) + Len(t) <= MaxLimbs,
         NEW r \in Accumulators, NEW i \in 1 .. Len(s)
  PROVE  LET row == Propagate(RowColumn(r, i, s, t)) IN
         /\ RowColumn(r, i, s, t) \in Columns
         /\ Len(RowColumn(r, i, s, t)) = Len(t)
         /\ row.digits \in Seq(Digits) /\ Len(row.digits) = Len(t)
         /\ row.carry \in Digits
         /\ AddRow(r, i, s, t) = [k \in 1 .. MaxLimbs |->
              CASE k \in i .. i + Len(t) - 1 -> row.digits[k - i + 1]
                [] k = i + Len(t)            -> (r[k] + row.carry) % Base
                [] OTHER                     -> r[k]]
<1>. DEFINE w == Len(t)
            column == RowColumn(r, i, s, t)
            row == Propagate(column)
<1>1. /\ Len(s) \in Nat /\ w \in Nat /\ MaxLimbs \in Nat /\ Len(s) + w <= MaxLimbs
      /\ s[i] \in 0 .. Base - 1
      /\ \A j \in 1 .. w : t[j] \in 0 .. Base - 1
  BY MagnitudeFields, AccumulatorFields DEF Places, Digits
<1>2. Min({w, MaxLimbs - i + 1}) = w
  <2>. DEFINE S == {w, MaxLimbs - i + 1}
  <2>1. S \in SUBSET Nat /\ S # {} /\ w \in S /\ w < MaxLimbs - i + 1
    BY <1>1
  <2>2. Min(S) \in S /\ \A y \in S : Min(S) <= y
    <3>. HIDE DEF S
    <3>. QED BY <2>1, MinIsLeast
  <2>. DEFINE m == Min(S)
  <2>3. m \in S /\ m <= w
    BY <2>1, <2>2
  <2>. HIDE DEF m, w
  <2>4. m = w
    BY <1>1, <2>1, <2>3
  <2>. QED BY <2>4 DEF m
<1>3. AddRow(r, i, s, t) = [k \in 1 .. MaxLimbs |->
              CASE k \in i .. i + w - 1 -> row.digits[k - i + 1]
                [] k = i + Len(t)        -> (r[k] + row.carry) % Base
                [] OTHER                 -> r[k]]
  <2>. DEFINE Wide(m) ==
                LET p == Propagate([j \in 1 .. m |-> s[i] * t[j] + r[i + j - 1]])
                IN  [k \in 1 .. MaxLimbs |->
                       CASE k \in i .. i + m - 1 -> p.digits[k - i + 1]
                         [] k = i + Len(t)       -> (r[k] + p.carry) % Base
                         [] OTHER                -> r[k]]
              m == Min({w, MaxLimbs - i + 1})
  <2>1. AddRow(r, i, s, t) = Wide(m)
    BY DEF AddRow
  <2>2. Wide(m) = Wide(w)
    <3>1. m = w
      BY <1>2
    <3>. HIDE DEF m, w, Wide
    <3>. QED BY <3>1
  <2>3. column = [j \in 1 .. w |-> s[i] * t[j] + r[i + j - 1]]
    BY DEF RowColumn
  <2>. QED BY <2>1, <2>2, <2>3, Zenon
<1>4. \A j \in 1 .. w : /\ column[j] = s[i] * t[j] + r[i + j - 1]
                        /\ column[j] \in 0 .. Base * (Base - 1)
  <2>. TAKE j \in 1 .. w
  <2>. DEFINE x == s[i]
              y == t[j]
              z == r[i + j - 1]
              b == Base
  <2>1. i + j - 1 \in 1 .. MaxLimbs
    BY <1>1
  <2>2. x \in 0 .. b - 1 /\ y \in 0 .. b - 1 /\ z \in 0 .. b - 1 /\ b \in Nat /\ b > 1
    BY <1>1, <2>1, BaseIsLarge, AccumulatorFields
  <2>3. column[j] = x * y + z
    BY DEF RowColumn
  <2>. HIDE DEF x, y, z, b, column
  <2>4. x * y + z \in 0 .. b * (b - 1)
    <3>1. \A l, m, n \in Nat : m <= n => l * m <= l * n
      <4>. SUFFICES ASSUME NEW l \in Nat, NEW m \in Nat, NEW n \in Nat, m <= n PROVE l * m <= l * n
        OBVIOUS
      <4>1. l * (n - m) \in Nat /\ l * n = l * m + l * (n - m) /\ l * m \in Nat
        <5>. DEFINE d == n - m
        <5>1. d \in Nat /\ n = m + d
          OBVIOUS
        <5>. HIDE DEF d
        <5>2. l * d \in Nat /\ l * n = l * m + l * d /\ l * m \in Nat
          BY <5>1
        <5>. QED BY <5>2 DEF d
      <4>. QED BY <4>1
    <3>. DEFINE c == b - 1
    <3>2. c \in Nat /\ b = c + 1 /\ x \in Nat /\ y \in Nat /\ z \in Nat /\ x <= c /\ y <= c /\ z <= c
      BY <2>2
    <3>. HIDE DEF c
    <3>3. x * y <= x * c /\ c * x <= c * c
      BY <3>1, <3>2
    <3>4. x * c = c * x /\ x * y \in Nat /\ x * c \in Nat /\ c * c \in Nat
      BY <3>2
    <3>5. b * c = c * c + c
      BY <3>2
    <3>6. x * y + z \in 0 .. b * c
      BY <3>2, <3>3, <3>4, <3>5
    <3>. QED BY <3>6 DEF c
  <2>. QED BY <2>3, <2>4 DEF b, x, y, z
<1>5. column \in Columns /\ Len(column) = w /\ DOMAIN column = 1 .. w
  <2>1. column = [j \in 1 .. w |-> column[j]]
    BY DEF RowColumn
  <2>2. \A j \in 1 .. w : column[j] \in Int
    BY <1>4, BaseIsLarge
  <2>. HIDE DEF column, w
  <2>3. column \in [1 .. w -> Int]
    BY <2>1, <2>2
  <2>. QED BY <1>1, <2>3 DEF Columns
<1>6. row.digits \in Seq(Digits) /\ Len(row.digits) = w
  <2>. HIDE DEF column, w
  <2>. QED BY <1>5, PropagateIsExact
<1>7. row.carry \in Digits
  <2>. DEFINE lo == 0
              hi == Base - 1
  <2>1. lo \in Int /\ hi \in Int /\ lo <= 0 /\ hi >= 0
    BY BaseIsLarge
  <2>2. \A j \in DOMAIN column : column[j] >= Base * lo - lo /\ column[j] <= Base * hi + Base - 1 - hi
    <3>1. Base * 0 = 0 /\ Base * (Base - 1) \in Int /\ Base \in Int
      BY BaseIsLarge
    <3>2. \A j \in 1 .. w : column[j] >= 0 /\ column[j] <= Base * (Base - 1) /\ column[j] \in Int
      BY <1>4, <3>1
    <3>. DEFINE z == Base * (Base - 1)
                b == Base
    <3>3. z + b - 1 - (b - 1) = z /\ 0 - 0 = 0
      <4>. HIDE DEF z
      <4>. QED BY <3>1 DEF z
    <3>. HIDE DEF column, w
    <3>. QED BY <1>5, <3>1, <3>2, <3>3
  <2>. HIDE DEF column, lo, hi
  <2>3. row.carry \in lo .. hi
    BY <1>5, <2>1, <2>2, CarryBetween
  <2>. QED BY <2>3 DEF lo, hi, Digits
<1>. HIDE DEF column
<1>. QED BY <1>3, <1>5, <1>6, <1>7 DEF column

LEMMA RowIsClosed ==
  ASSUME NEW s \in Magnitudes, NEW t \in Magnitudes, Len(s) + Len(t) <= MaxLimbs,
         NEW r \in Accumulators, NEW i \in 1 .. Len(s)
  PROVE  AddRow(r, i, s, t) \in Accumulators
<1>. DEFINE w == Len(t)
            row == Propagate(RowColumn(r, i, s, t))
            d == row.digits
            c == row.carry
            q == AddRow(r, i, s, t)
<1>1. /\ d \in Seq(Digits) /\ Len(d) = w /\ c \in Digits
      /\ q = [k \in 1 .. MaxLimbs |->
                CASE k \in i .. i + w - 1 -> d[k - i + 1]
                  [] k = i + w            -> (r[k] + c) % Base
                  [] OTHER                -> r[k]]
  BY RowIs
<1>2. Len(s) \in Nat /\ w \in Nat /\ \A k \in 1 .. MaxLimbs : r[k] \in Digits /\ r[k] \in Int
  BY MagnitudeFields, AccumulatorFields DEF Places
<1>. HIDE DEF w, row, d, c, q
<1>3. \A k \in 1 .. MaxLimbs : (r[k] + c) % Base \in Digits
  <2>. TAKE k \in 1 .. MaxLimbs
  <2>1. c \in Int /\ r[k] \in Int
    BY <1>1, <1>2, BaseIsLarge DEF Digits
  <2>2. r[k] + c \in Int
    BY <2>1
  <2>. QED BY <2>2, Divided DEF Digits
<1>4. \A k \in i .. i + w - 1 : d[k - i + 1] \in Digits
  <2>. TAKE k \in i .. i + w - 1
  <2>1. k - i + 1 \in 1 .. Len(d)
    BY <1>1, <1>2
  <2>. QED BY <1>1, <2>1, ElementOfSeq
<1>5. \A k \in 1 .. MaxLimbs :
        (CASE k \in i .. i + w - 1 -> d[k - i + 1]
           [] k = i + w            -> (r[k] + c) % Base
           [] OTHER                -> r[k]) \in Digits
  BY <1>2, <1>3, <1>4
<1>6. q \in [1 .. MaxLimbs -> Digits]
  BY <1>1, <1>5
<1>. QED BY <1>6 DEF q, Accumulators

(* A row adds its limb's multiple of t, from its own place on.             *)
LEMMA RowWorks ==
  ASSUME NEW s \in Magnitudes, NEW t \in Magnitudes, Len(s) + Len(t) <= MaxLimbs,
         NEW r \in Accumulators, NEW i \in 1 .. Len(s),
         \A k \in 1 .. MaxLimbs : k >= i + Len(t) => r[k] = 0
  PROVE  LET q == AddRow(r, i, s, t) IN
         /\ q \in Accumulators
         /\ \A k \in 1 .. MaxLimbs : k > i + Len(t) => q[k] = 0
         /\ \A k \in 1 .. i - 1 : q[k] = r[k]
         /\ \A e, f : Denotes(e, q) /\ Denotes(f, r) => e[i] = f[i] + s[i] * Number(t)
<1>. DEFINE w == Len(t)
            column == RowColumn(r, i, s, t)
            row == Propagate(column)
            d == row.digits
            c == row.carry
            q == AddRow(r, i, s, t)
<1>1. /\ Len(s) \in Nat /\ w \in Nat /\ w # 0 /\ MaxLimbs \in Nat /\ Len(s) + w <= MaxLimbs
      /\ s[i] \in Int /\ t \in Seq(Int) /\ DOMAIN t = 1 .. w
      /\ \A j \in Places : Limb(t, j) \in Int
      /\ r \in Seq(Int) /\ DOMAIN r = 1 .. MaxLimbs
      /\ \A k \in 1 .. MaxLimbs : r[k] \in 0 .. Base - 1 /\ r[k] \in Digits
      /\ \A j \in 1 .. w : t[j] \in Int
  <2>1. Len(s) \in Places /\ w \in Places /\ s[i] \in Nat
    BY MagnitudeFields
  <2>2. t \in Seq(Int) /\ DOMAIN t = 1 .. w /\ (\A j \in 1 .. w : t[j] \in Nat) /\ (\A j \in Places : Limb(t, j) \in Nat)
    BY MagnitudeFields
  <2>3. MaxLimbs \in Nat /\ r \in Seq(Int) /\ DOMAIN r = 1 .. MaxLimbs
    BY AccumulatorFields
  <2>4. \A k \in 1 .. MaxLimbs : r[k] \in 0 .. Base - 1 /\ r[k] \in Digits
    BY AccumulatorFields
  <2>5. Len(s) \in Nat /\ w \in Nat /\ w # 0
    BY <2>1 DEF Places
  <2>. HIDE DEF w
  <2>6. \A j \in Places : Limb(t, j) \in Int
    BY <2>2
  <2>7. Len(s) + w <= MaxLimbs
    BY DEF w
  <2>8. s[i] \in Int /\ \A j \in 1 .. w : t[j] \in Int
    BY <2>1, <2>2
  <2>. QED BY <2>2, <2>3, <2>4, <2>5, <2>6, <2>7, <2>8, Zenon
<1>0. i \in Nat /\ i # 0 /\ w \in Nat /\ w # 0 /\ MaxLimbs \in Nat /\ i + w <= MaxLimbs
  <2>1. Len(s) \in Nat /\ w \in Nat /\ w # 0 /\ MaxLimbs \in Nat /\ Len(s) + w <= MaxLimbs
    BY <1>1
  <2>. HIDE DEF w
  <2>. QED BY <2>1
<1>2. /\ column \in Seq(Int) /\ Len(column) = w /\ DOMAIN column = 1 .. w
      /\ d \in Seq(Digits) /\ Len(d) = w /\ c \in Digits
      /\ q = [k \in 1 .. MaxLimbs |->
                CASE k \in i .. i + w - 1 -> d[k - i + 1]
                  [] k = i + w            -> (r[k] + c) % Base
                  [] OTHER                -> r[k]]
  <2>1. /\ column \in Columns /\ Len(column) = w
        /\ d \in Seq(Digits) /\ Len(d) = w /\ c \in Digits
        /\ q = [k \in 1 .. MaxLimbs |->
                  CASE k \in i .. i + w - 1 -> d[k - i + 1]
                    [] k = i + w            -> (r[k] + c) % Base
                    [] OTHER                -> r[k]]
    BY RowIs
  <2>2. DOMAIN column = 1 .. w
    BY DEF RowColumn
  <2>. HIDE DEF column, w, d, c, q
  <2>. QED BY <2>1, <2>2 DEF Columns
<1>3. \A j \in 1 .. w : column[j] = s[i] * t[j] + r[i + j - 1]
  BY DEF RowColumn
<1>4. Number(Append(d, c)) = Number(column)
  <2>. HIDE DEF column
  <2>. QED BY <1>2, PropagateIsExact DEF Columns
<1>. HIDE DEF w, column, row, d, c, q
<1>5. r[i + w] = 0 /\ i + w \in 1 .. MaxLimbs /\ (r[i + w] + c) % Base = c
  <2>1. i + w \in 1 .. MaxLimbs
    BY <1>1
  <2>2. r[i + w] = 0
    BY <2>1 DEF w
  <2>. DEFINE b == Base
  <2>3. c \in 0 .. b - 1 /\ b \in Nat /\ b > 1
    BY <1>2, BaseIsLarge DEF Digits
  <2>. HIDE DEF b
  <2>4. (0 + c) % b = c
    BY <2>3
  <2>. QED BY <2>1, <2>2, <2>4 DEF b
<1>6. /\ \A k \in i .. i + w - 1 : q[k] = d[k - i + 1] /\ k - i + 1 \in 1 .. w /\ k \in 1 .. MaxLimbs
      /\ q[i + w] = c
      /\ \A k \in 1 .. MaxLimbs : k < i \/ k > i + w => q[k] = r[k]
  <2>1. ASSUME NEW k \in i .. i + w - 1
        PROVE  q[k] = d[k - i + 1] /\ k - i + 1 \in 1 .. w /\ k \in 1 .. MaxLimbs
    <3>1. k - i + 1 \in 1 .. w /\ k \in 1 .. MaxLimbs
      BY <1>0
    <3>. DEFINE Entry(x) == CASE x \in i .. i + w - 1 -> d[x - i + 1]
                              [] x = i + w            -> (r[x] + c) % Base
                              [] OTHER                -> r[x]
    <3>2. q[k] = Entry(k)
      <4>1. q = [x \in 1 .. MaxLimbs |-> Entry(x)]
        BY <1>2
      <4>. HIDE DEF Entry
      <4>. QED BY <3>1, <4>1
    <3>3. Entry(k) = d[k - i + 1]
      <4>1. k \in i .. i + w - 1 /\ k # i + w
        BY <1>0
      <4>. DEFINE x == d[k - i + 1]
                  y == (r[k] + c) % Base
                  z == r[k]
                  P == k \in i .. i + w - 1
                  Q == k = i + w
      <4>2. Entry(k) = CASE P -> x [] Q -> y [] OTHER -> z
        OBVIOUS
      <4>3. P /\ ~Q
        BY <4>1
      <4>. HIDE DEF x, y, z, P, Q, Entry
      <4>4. Entry(k) = x
        BY <4>2, <4>3
      <4>. QED BY <4>4 DEF x
    <3>. QED BY <3>1, <3>2, <3>3
  <2>2. q[i + w] = c
    <3>. DEFINE k == i + w
    <3>1. k \in 1 .. MaxLimbs /\ k \notin i .. i + w - 1 /\ k = i + w /\ (r[k] + c) % Base = c
      BY <1>1, <1>5
    <3>. HIDE DEF k
    <3>2. q[k] = (r[k] + c) % Base
      BY <1>2, <3>1
    <3>. QED BY <3>1, <3>2
  <2>3. ASSUME NEW k \in 1 .. MaxLimbs, k < i \/ k > i + w
        PROVE  q[k] = r[k]
    <3>1. k \notin i .. i + w - 1 /\ k # i + w
      BY <1>0, <2>3
    <3>. QED BY <1>2, <3>1
  <2>. QED BY <2>1, <2>2, <2>3
<1>7. \A j \in 1 .. w : d[j] \in Digits
  BY <1>2, ElementOfSeq
<1>8. q \in Accumulators
  <2>1. ASSUME NEW k \in 1 .. MaxLimbs
        PROVE  q[k] \in Digits
    <3>1. CASE k \in i .. i + w - 1
      BY <1>6, <1>7, <3>1
    <3>2. CASE k = i + w
      BY <1>2, <1>6, <3>2
    <3>3. CASE k < i \/ k > i + w
      BY <1>1, <1>6, <3>3
    <3>. QED BY <1>1, <3>1, <3>2, <3>3
  <2>2. q = [k \in 1 .. MaxLimbs |-> q[k]]
    BY <1>2
  <2>. QED BY <2>1, <2>2 DEF Accumulators
<1>9. \A k \in 1 .. MaxLimbs : k > i + w => q[k] = 0
  <2>. SUFFICES ASSUME NEW k \in 1 .. MaxLimbs, k > i + w PROVE q[k] = 0
    OBVIOUS
  <2>1. k >= i + w
    BY <1>1
  <2>2. r[k] = 0
    BY <2>1 DEF w
  <2>. QED BY <1>6, <2>2
<1>10. \A k \in 1 .. i - 1 : q[k] = r[k]
  <2>. SUFFICES ASSUME NEW k \in 1 .. i - 1 PROVE q[k] = r[k]
    OBVIOUS
  <2>1. k \in 1 .. MaxLimbs /\ k < i
    BY <1>1
  <2>. QED BY <1>6, <2>1
<1>11. ASSUME NEW e, NEW f, Denotes(e, q), Denotes(f, r)
       PROVE  e[i] = f[i] + s[i] * Number(t)
  <2>. DEFINE top == Append(d, c)
              cut == [j \in 1 .. w |-> r[i + j - 1]]
  <2>1. i \in Places
    BY DEF Places
  <2>2. /\ top \in Seq(Int) /\ Len(top) = w + 1 /\ DOMAIN top = 1 .. w + 1 /\ top[w + 1] = c
        /\ \A j \in 1 .. w : top[j] = d[j]
    <3>1. d \in Seq(Int) /\ c \in Int
      BY <1>2, BaseIsLarge DEF Digits
    <3>. HIDE DEF top
    <3>2. /\ Append(d, c) \in Seq(Int) /\ Len(Append(d, c)) = w + 1
          /\ Append(d, c)[w + 1] = c /\ \A j \in 1 .. w : Append(d, c)[j] = d[j]
      <4>. DEFINE S == Int
      <4>1. d \in Seq(S) /\ c \in S /\ Len(d) = w
        BY <1>2, <3>1
      <4>. HIDE DEF S
      <4>2. /\ Append(d, c) \in Seq(S) /\ Len(Append(d, c)) = w + 1
            /\ Append(d, c)[w + 1] = c /\ \A j \in 1 .. w : Append(d, c)[j] = d[j]
        BY <4>1, AppendProperties
      <4>. QED BY <4>2 DEF S
    <3>3. top \in Seq(Int) /\ Len(top) = w + 1 /\ top[w + 1] = c /\ \A j \in 1 .. w : top[j] = d[j]
      BY <3>2, Zenon DEF top
    <3>4. DOMAIN top = 1 .. w + 1
      BY <3>3
    <3>. QED BY <3>3, <3>4
  <2>3. q \in Seq(Int) /\ DOMAIN q = 1 .. MaxLimbs
    BY <1>8, AccumulatorFields
  <2>4. ASSUME NEW j \in Places
        PROVE  Limb(top, j) = Limb(q, i + j - 1)
    <3>. HIDE DEF top
    <3>1. CASE j \in 1 .. w
      <4>. DEFINE k == i + j - 1
      <4>1. k \in i .. i + w - 1 /\ k - i + 1 = j
        BY <1>1, <3>1
      <4>. HIDE DEF k
      <4>2. q[k] = d[j] /\ k \in 1 .. MaxLimbs
        BY <1>6, <4>1
      <4>3. Limb(q, k) = d[j]
        BY <2>3, <4>2 DEF Limb
      <4>4. Limb(top, j) = d[j]
        BY <1>1, <2>2, <3>1 DEF Limb
      <4>. QED BY <4>3, <4>4 DEF k
    <3>2. CASE j = w + 1
      <4>1. i + j - 1 = i + w
        BY <1>1, <3>2
      <4>2. Limb(q, i + w) = c
        BY <1>5, <1>6, <2>3 DEF Limb
      <4>3. Limb(top, w + 1) = c
        BY <1>1, <2>2 DEF Limb
      <4>. QED BY <3>2, <4>1, <4>2, <4>3
    <3>3. CASE j > w + 1
      <4>. DEFINE k == i + j - 1
      <4>1. k > i + w /\ k \in Places /\ j \notin 1 .. w + 1
        BY <1>1, <3>3 DEF Places
      <4>. HIDE DEF k
      <4>2. Limb(q, k) = 0
        BY <1>9, <2>3, <4>1 DEF Limb, Places
      <4>3. Limb(top, j) = 0
        BY <2>2, <4>1 DEF Limb
      <4>. QED BY <4>2, <4>3 DEF k
    <3>. QED BY <1>1, <3>1, <3>2, <3>3 DEF Places
  <2>5. e[i] = Number(column)
    <3>. HIDE DEF top
    <3>1. PICK g : Denotes(g, top) /\ Number(top) = g[1]
      BY <2>2, NumberDenotes
    <3>2. g[1] = e[i]
      BY <1>11, <2>1, <2>2, <2>3, <2>4, <3>1, Shifted
    <3>. QED BY <1>4, <3>1, <3>2 DEF top
  <2>6. \A j \in 1 .. w : cut[j] = r[i + j - 1] /\ i + j - 1 \in 1 .. MaxLimbs
    BY <1>1
  <2>7. cut \in Seq(Int) /\ DOMAIN cut = 1 .. w /\ \A j \in 1 .. w : cut[j] \in Int
    <3>1. \A j \in 1 .. w : cut[j] \in Int
      BY <1>1, <2>6, BaseIsLarge
    <3>2. cut = [j \in 1 .. w |-> cut[j]]
      OBVIOUS
    <3>. HIDE DEF cut
    <3>3. cut \in [1 .. w -> Int]
      BY <3>1, <3>2
    <3>. QED BY <1>0, <3>1, <3>3
  <2>. HIDE DEF cut
  <2>8. Number(cut) = f[i]
    <3>1. PICK g : Denotes(g, cut) /\ Number(cut) = g[1]
      BY <2>7, NumberDenotes
    <3>2. ASSUME NEW j \in Places
          PROVE  Limb(cut, j) = Limb(r, i + j - 1)
      <4>. DEFINE k == i + j - 1
      <4>1. k \in Places /\ (j \notin 1 .. w => k >= i + w)
        BY <1>0 DEF Places
      <4>2. CASE j \in 1 .. w
        <5>1. Limb(cut, j) = r[k] /\ k \in 1 .. MaxLimbs
          BY <2>6, <2>7, <4>2 DEF Limb
        <5>. HIDE DEF k
        <5>2. Limb(r, k) = r[k]
          BY <1>1, <5>1 DEF Limb
        <5>. QED BY <5>1, <5>2 DEF k
      <4>3. CASE j \notin 1 .. w
        <5>. HIDE DEF k
        <5>1. Limb(r, k) = 0
          <6>1. k \in 1 .. MaxLimbs => r[k] = 0
            BY <4>1, <4>3 DEF w
          <6>. QED BY <1>1, <6>1 DEF Limb
        <5>2. Limb(cut, j) = 0
          BY <2>7, <4>3 DEF Limb
        <5>. QED BY <5>1, <5>2 DEF k
      <4>. QED BY <4>2, <4>3
    <3>3. g[1] = f[i]
      BY <1>1, <1>11, <2>1, <2>7, <3>1, <3>2, Shifted
    <3>. QED BY <3>1, <3>3
  <2>9. Number(column) = Number(cut) + s[i] * Number(t)
    <3>1. ASSUME NEW j \in Places
          PROVE  Limb(column, j) = Limb(cut, j) + s[i] * Limb(t, j)
      <4>1. CASE j \in 1 .. w
        <5>1. Limb(column, j) = column[j] /\ Limb(cut, j) = cut[j] /\ Limb(t, j) = t[j]
          BY <1>1, <1>2, <2>7, <4>1 DEF Limb
        <5>2. column[j] = s[i] * t[j] + cut[j] /\ cut[j] \in Int /\ t[j] \in Int
          <6>1. cut[j] \in Int
            BY <2>7, <4>1
          <6>2. column[j] = s[i] * t[j] + cut[j]
            BY <1>3, <2>6, <4>1
          <6>3. t[j] \in Int
            BY <1>1, <4>1
          <6>. QED BY <6>1, <6>2, <6>3
        <5>3. s[i] * t[j] \in Int
          <6>1. s[i] \in Int
            BY <1>1
          <6>. QED BY <5>2, <6>1
        <5>. QED BY <5>1, <5>2, <5>3
      <4>2. CASE j \notin 1 .. w
        <5>1. Limb(column, j) = 0 /\ Limb(cut, j) = 0 /\ Limb(t, j) = 0
          BY <1>1, <1>2, <2>7, <4>2 DEF Limb
        <5>2. s[i] * 0 = 0
          <6>1. s[i] \in Int
            BY <1>1
          <6>. QED BY <6>1
        <5>. QED BY <5>1, <5>2
      <4>. QED BY <4>1, <4>2
    <3>. QED BY <1>1, <1>2, <2>7, <3>1, Linear
  <2>. QED BY <2>5, <2>8, <2>9
<1>. QED BY <1>8, <1>9, <1>10, <1>11 DEF q, w

(* The limbs after each row, by the recursion of the code.                 *)
RowsOf(g, s, t) ==
  /\ g[0] = [k \in 1 .. MaxLimbs |-> 0]
  /\ \A i \in 1 .. Len(s) : g[i] = AddRow(g[i - 1], i, s, t)

RowResult(g, a, b) ==
  Normal(SubSeq(g[Len(a.limbs)], 1, Min({Len(a.limbs) + Len(b.limbs), MaxLimbs})),
         a.negative # b.negative)

LEMMA RowsAre ==
  ASSUME NEW a, NEW b, a.limbs \in Magnitudes, b.limbs \in Magnitudes,
         Len(a.limbs) + Len(b.limbs) <= MaxLimbs
  PROVE  \E g : /\ RowsOf(g, a.limbs, b.limbs)
                /\ Product(a, b) = IF IsZero(a) \/ IsZero(b) THEN BigZero ELSE RowResult(g, a, b)
<1>. DEFINE s == a.limbs
            t == b.limbs
            n == Len(s)
            zeros == [k \in 1 .. MaxLimbs |-> 0]
            Rhs(f) == [i \in 0 .. n |-> IF i = 0 THEN zeros ELSE AddRow(f[i - 1], i, s, t)]
            Rows == CHOOSE f : f = Rhs(f)
            step == [i \in 1 .. n |-> [r \in Accumulators |-> AddRow(r, i, s, t)]]
<1>1. Product(a, b) = IF IsZero(a) \/ IsZero(b) THEN BigZero ELSE RowResult(Rows, a, b)
  BY DEF Product, RowResult
<1>2. n \in Nat /\ s \in Magnitudes /\ t \in Magnitudes /\ Len(s) + Len(t) <= MaxLimbs
  BY MagnitudeFields DEF Places
<1>3. zeros \in Accumulators
  BY BaseIsLarge DEF Accumulators, Digits
<1>. HIDE DEF s, t, zeros, n
<1>4. step \in [1 .. n -> [Accumulators -> Accumulators]]
  <2>1. ASSUME NEW i \in 1 .. n, NEW r \in Accumulators
        PROVE  AddRow(r, i, s, t) \in Accumulators
    BY <1>2, RowIsClosed DEF n
  <2>. QED BY <2>1
<1>5. PICK g : Iterates(g, n, Accumulators, zeros, step)
  <2>. HIDE DEF step
  <2>. QED BY <1>2, <1>3, <1>4, Iteration
<1>. DEFINE f == [i \in 0 .. n |-> g[i]]
<1>6. f = Rhs(f)
  <2>1. \A i \in 1 .. n : i - 1 \in 0 .. n /\ g[i] = AddRow(g[i - 1], i, s, t)
    <3>1. ASSUME NEW i \in 1 .. n
          PROVE  i - 1 \in 0 .. n /\ g[i - 1] \in Accumulators /\ g[i] = step[i][g[i - 1]]
      <4>. HIDE DEF step
      <4>. QED BY <1>2, <1>5 DEF Iterates
    <3>. QED BY <3>1
  <2>2. g[0] = zeros
    BY <1>5 DEF Iterates
  <2>3. \A i \in 0 .. n : i # 0 => i \in 1 .. n
    BY <1>2
  <2>4. \A i \in 0 .. n : f[i] = IF i = 0 THEN zeros ELSE AddRow(f[i - 1], i, s, t)
    BY <2>1, <2>2, <2>3
  <2>. QED BY <2>4
<1>. HIDE DEF f
<1>7. Rows = Rhs(Rows)
  <2>. HIDE DEF Rhs
  <2>. QED BY <1>6
<1>. HIDE DEF Rows
<1>8. RowsOf(Rows, s, t)
  <2>1. Rows[0] = zeros
    BY <1>2, <1>7
  <2>2. \A i \in 1 .. n : Rows[i] = AddRow(Rows[i - 1], i, s, t)
    <3>. TAKE i \in 1 .. n
    <3>1. i \in 0 .. n /\ i # 0
      BY <1>2
    <3>. QED BY <1>7, <3>1
  <2>. QED BY <2>1, <2>2 DEF RowsOf, zeros, n
<1>. QED BY <1>1, <1>8 DEF s, t

(* The rows add up to the product.                                         *)
LEMMA RowsWork ==
  ASSUME NEW s \in Magnitudes, NEW t \in Magnitudes, Len(s) + Len(t) <= MaxLimbs,
         NEW g, RowsOf(g, s, t)
  PROVE  /\ g[Len(s)] \in Accumulators
         /\ \A k \in 1 .. MaxLimbs : k > Len(s) + Len(t) => g[Len(s)][k] = 0
         /\ Number(g[Len(s)]) = Number(t) * Number(s)
<1>. DEFINE n == Len(s)
            w == Len(t)
            y == Number(t)
            Prefix(i) == SubSeq(s, 1, i)
            Good(i) == /\ g[i] \in Accumulators
                       /\ \A k \in 1 .. MaxLimbs : k > i + w => g[i][k] = 0
                       /\ Number(g[i]) = y * Number(Prefix(i))
            S == {i \in 0 .. n : Good(i)}
<1>1. /\ n \in Nat /\ w \in Nat /\ w # 0 /\ MaxLimbs \in Nat /\ n + w <= MaxLimbs
      /\ s \in Seq(Int) /\ t \in Seq(Int) /\ y \in Nat /\ \A i \in 1 .. n : s[i] \in Int
  <2>1. n \in Nat /\ w \in Nat /\ w # 0 /\ s \in Seq(Int) /\ t \in Seq(Int)
    BY MagnitudeFields DEF Places
  <2>2. y \in Nat
    BY NumberIsNat
  <2>3. MaxLimbs \in Nat
    BY BigIntAssumption
  <2>4. \A i \in 1 .. n : s[i] \in Int
    BY <2>1, ElementOfSeq
  <2>. QED BY <2>1, <2>2, <2>3, <2>4
<1>. HIDE DEF y
<1>2. \A i \in 0 .. n : /\ Prefix(i) \in Seq(Int) /\ DOMAIN Prefix(i) = 1 .. i /\ Len(Prefix(i)) = i
                        /\ \A j \in 1 .. i : Prefix(i)[j] = s[j]
  BY <1>1
<1>. HIDE DEF Prefix
<1>3. Good(0)
  <2>. DEFINE zeros == [k \in 1 .. MaxLimbs |-> 0]
              p == Prefix(0)
  <2>1. g[0] = zeros /\ zeros \in Accumulators /\ \A k \in 1 .. MaxLimbs : zeros[k] = 0
    BY BaseIsLarge DEF RowsOf, Accumulators, Digits
  <2>. HIDE DEF zeros, p
  <2>2. p \in Seq(Int) /\ DOMAIN p = {} /\ Len(p) = 0
    BY <1>1, <1>2 DEF p
  <2>3. zeros \in Seq(Int) /\ DOMAIN zeros = 1 .. MaxLimbs
    BY <2>1, AccumulatorFields
  <2>4. \A j \in Places : Limb(zeros, j) = Limb(p, j)
    BY <2>1, <2>2, <2>3 DEF Limb
  <2>5. Number(zeros) = Number(p)
    BY <2>2, <2>3, <2>4, SameLimbs
  <2>6. Number(p) = 0
    <3>1. PICK f : Denotes(f, p) /\ Number(p) = f[1]
      BY <2>2, NumberDenotes
    <3>2. 1 \in Places /\ 1 \notin DOMAIN p
      BY <2>2 DEF Places
    <3>. QED BY <3>1, <3>2 DEF Denotes
  <2>7. Number(g[0]) = y * Number(Prefix(0))
    BY <1>1, <2>1, <2>5, <2>6 DEF p
  <2>. QED BY <2>1, <2>7
<1>4. ASSUME NEW i \in 1 .. n, Good(i - 1)
      PROVE  Good(i)
  <2>. DEFINE r == g[i - 1]
              q == g[i]
              u == Prefix(i)
              v == Prefix(i - 1)
  <2>1. i \in Places /\ i - 1 \in 0 .. n /\ i \in 0 .. n
    BY <1>1 DEF Places
  <2>2. q = AddRow(r, i, s, t)
    BY DEF RowsOf
  <2>3. /\ r \in Accumulators
        /\ \A k \in 1 .. MaxLimbs : k >= i + w => r[k] = 0
        /\ Number(r) = y * Number(v)
    <3>1. r \in Accumulators /\ Number(r) = y * Number(v)
      BY <1>4
    <3>2. \A k \in 1 .. MaxLimbs : k > (i - 1) + w => r[k] = 0
      BY <1>4
    <3>3. \A k \in 1 .. MaxLimbs : k >= i + w => k > (i - 1) + w
      BY <1>1
    <3>. QED BY <3>1, <3>2, <3>3
  <2>. HIDE DEF r, q
  <2>4. /\ q \in Accumulators
        /\ \A k \in 1 .. MaxLimbs : k > i + w => q[k] = 0
        /\ \A k \in 1 .. i - 1 : q[k] = r[k]
        /\ \A e, f : Denotes(e, q) /\ Denotes(f, r) => e[i] = f[i] + s[i] * y
    <3>. DEFINE z == AddRow(r, i, s, t)
    <3>1. /\ z \in Accumulators
          /\ \A k \in 1 .. MaxLimbs : k > i + w => z[k] = 0
          /\ \A k \in 1 .. i - 1 : z[k] = r[k]
          /\ \A e, f : Denotes(e, z) /\ Denotes(f, r) => e[i] = f[i] + s[i] * y
      BY <2>3, RowWorks DEF y
    <3>. HIDE DEF z
    <3>2. q = z
      BY <2>2 DEF z
    <3>. QED BY <3>1, <3>2
  <2>5. /\ q \in Seq(Int) /\ DOMAIN q = 1 .. MaxLimbs
        /\ r \in Seq(Int) /\ DOMAIN r = 1 .. MaxLimbs
    BY <2>3, <2>4, AccumulatorFields
  <2>6. /\ u \in Seq(Int) /\ DOMAIN u = 1 .. i /\ Len(u) = i /\ \A j \in 1 .. i : u[j] = s[j]
        /\ v \in Seq(Int) /\ DOMAIN v = 1 .. i - 1 /\ Len(v) = i - 1 /\ \A j \in 1 .. i - 1 : v[j] = s[j]
    BY <1>2, <2>1
  <2>. HIDE DEF u, v
  <2>7. PICK e : Denotes(e, q) /\ Number(q) = e[1]
    BY <2>5, NumberDenotes
  <2>8. PICK f : Denotes(f, r) /\ Number(r) = f[1]
    BY <2>5, NumberDenotes
  <2>9. PICK x : Denotes(x, u) /\ Number(u) = x[1]
    BY <2>6, NumberDenotes
  <2>10. PICK z : Denotes(z, v) /\ Number(v) = z[1]
    BY <2>6, NumberDenotes
  <2>11. e[i] = f[i] + s[i] * y
    BY <2>4, <2>7, <2>8
  <2>12. x[i] = s[i] /\ z[i] = 0 /\ f[i] \in Int /\ e[i] \in Int /\ s[i] \in Int
    <3>1. x[i] = Limb(u, i) + Base * x[i + 1] /\ Limb(u, i) = s[i]
      <4>1. x[i] = Limb(u, i) + Base * x[i + 1]
        <5>1. u \in Seq(Int) /\ Denotes(x, u) /\ i \in Places
          BY <2>1, <2>6, <2>9
        <5>. QED BY <5>1, AtPlace
      <4>2. i \in 1 .. i
        BY <2>1 DEF Places
      <4>. QED BY <2>6, <4>1, <4>2 DEF Limb
    <3>2. x[i + 1] = 0
      <4>. DEFINE k == i + 1
      <4>1. k \in Places /\ k > Len(u)
        BY <2>1, <2>6 DEF Places
      <4>2. u \in Seq(Int) /\ Denotes(x, u)
        BY <2>6, <2>9
      <4>. HIDE DEF k
      <4>3. x[k] = 0
        BY <4>1, <4>2, AtPlace
      <4>. QED BY <4>3 DEF k
    <3>3. z[i] = 0
      <4>1. i > Len(v)
        BY <2>1, <2>6 DEF Places
      <4>. QED BY <2>1, <2>6, <2>10, <4>1, AtPlace
    <3>4. f[i] \in Int /\ e[i] \in Int
      BY <2>1, <2>7, <2>8 DEF Denotes
    <3>5. s[i] \in Int /\ Base * 0 = 0
      BY <1>1, BaseIsLarge
    <3>. QED BY <3>1, <3>2, <3>3, <3>4, <3>5
  <2>13. e[i] - f[i] = y * (x[i] - z[i])
    <3>1. \A a, b, c, d \in Int : a = b + c * d => a - b = d * (c - 0)
      OBVIOUS
    <3>2. y \in Int
      BY <1>1
    <3>3. e[i] - f[i] = y * (s[i] - 0)
      BY <2>11, <2>12, <3>1, <3>2
    <3>. QED BY <2>12, <3>3
  <2>14. ASSUME NEW j \in Places, j < i
         PROVE  Limb(q, j) = Limb(r, j) /\ Limb(u, j) = Limb(v, j)
    <3>1. j \in 1 .. i - 1 /\ j \in 1 .. i /\ j \in 1 .. MaxLimbs
      BY <1>1, <2>1, <2>14 DEF Places
    <3>2. Limb(q, j) = Limb(r, j)
      BY <2>4, <2>5, <3>1 DEF Limb
    <3>3. Limb(u, j) = Limb(v, j)
      BY <2>6, <3>1 DEF Limb
    <3>. QED BY <3>2, <3>3
  <2>15. e[1] - f[1] = y * (x[1] - z[1])
    <3>1. y \in Int /\ i \in Places
      BY <1>1, <2>1
    <3>2. q \in Seq(Int) /\ r \in Seq(Int) /\ u \in Seq(Int) /\ v \in Seq(Int)
      BY <2>5, <2>6
    <3>3. Denotes(e, q) /\ Denotes(f, r) /\ Denotes(x, u) /\ Denotes(z, v)
      BY <2>7, <2>8, <2>9, <2>10
    <3>4. Alike(q, r, i) /\ Alike(u, v, i)
      BY <2>14 DEF Alike
    <3>5. Proportional(y, e[i], f[i], x[i], z[i])
      BY <2>13 DEF Proportional
    <3>6. Proportional(y, e[1], f[1], x[1], z[1])
      BY <3>1, <3>2, <3>3, <3>4, <3>5, SameBelow
    <3>. QED BY <3>6 DEF Proportional
  <2>16. Number(q) = y * Number(u)
    <3>1. e[1] \in Int /\ f[1] \in Int /\ x[1] \in Int /\ z[1] \in Int
      BY <2>7, <2>8, <2>9, <2>10 DEF Denotes, Places
    <3>2. \A a, b, c, d, k \in Int : a - b = k * (c - d) /\ b = k * d => a = k * c
      OBVIOUS
    <3>3. y \in Int /\ f[1] = y * z[1]
      BY <1>1, <2>3, <2>8, <2>10
    <3>4. e[1] = y * x[1]
      BY <2>15, <3>1, <3>2, <3>3
    <3>. QED BY <2>7, <2>9, <3>4
  <2>. QED BY <2>4, <2>16 DEF q, u
<1>5. \A i \in 0 .. n : i \in S
  <2>1. 0 \in S
    BY <1>1, <1>3
  <2>2. \A i \in 1 .. n : i - 1 \in S => i \in S
    <3>. TAKE i \in 1 .. n
    <3>. HAVE i - 1 \in S
    <3>1. Good(i - 1)
      OBVIOUS
    <3>2. Good(i)
      <4>. HIDE DEF Good
      <4>. QED BY <1>4, <3>1
    <3>3. i \in 0 .. n
      BY <1>1
    <3>. QED BY <3>2, <3>3
  <2>. HIDE DEF S, n
  <2>. QED BY <1>1, <2>1, <2>2, BoundedInduction
<1>6. Good(n)
  <2>1. n \in S
    <3>1. n \in 0 .. n
      BY <1>1
    <3>. QED BY <1>5, <3>1
  <2>. QED BY <2>1
<1>7. Prefix(n) = s
  BY <1>1 DEF Prefix
<1>. QED BY <1>6, <1>7 DEF y

(* bigint_mul is exact for limbs of every width whenever its array holds   *)
(* as many limbs as the two together have: every row is added at its       *)
(* place, no carry is lost, and the sign is that of the product.           *)
THEOREM ProductIsExact ==
  ASSUME NEW a \in BigNumbers, NEW b \in BigNumbers, Len(a.limbs) + Len(b.limbs) <= MaxLimbs
  PROVE  /\ Product(a, b) \in BigNumbers
         /\ IsNumber(Product(a, b), ValueOf(a) * ValueOf(b))
         /\ Len(Product(a, b).limbs) <= Len(a.limbs) + Len(b.limbs)
<1>. DEFINE s == a.limbs
            t == b.limbs
            x == Number(s)
            y == Number(t)
            p == a.negative
            q == b.negative
            n == Len(s) + Len(t)
<1>1. /\ s \in Magnitudes /\ t \in Magnitudes /\ p \in BOOLEAN /\ q \in BOOLEAN
      /\ x \in Nat /\ y \in Nat
      /\ ValueOf(a) = Signed(x, p) /\ ValueOf(b) = Signed(y, q)
  BY BigNumberFields
<1>2. PICK g : /\ RowsOf(g, s, t)
               /\ Product(a, b) = IF IsZero(a) \/ IsZero(b) THEN BigZero ELSE RowResult(g, a, b)
  BY <1>1, RowsAre
<1>3. n \in Nat /\ n # 0 /\ MaxLimbs \in Nat /\ n <= MaxLimbs /\ Len(s) \in Nat \ {0} /\ Len(t) \in Nat \ {0}
  <2>1. MaxLimbs \in Nat
    BY BigIntAssumption
  <2>2. Len(s) \in Nat /\ Len(s) # 0 /\ Len(t) \in Nat /\ Len(t) # 0
    BY <1>1, MagnitudeFields DEF Places
  <2>3. n = Len(s) + Len(t) /\ n <= MaxLimbs
    OBVIOUS
  <2>. HIDE DEF s, t, n
  <2>. QED BY <2>1, <2>2, <2>3
<1>4. RowResult(g, a, b) = Normal(SubSeq(g[Len(s)], 1, n), p # q)
  <2>1. Min({n, MaxLimbs}) = n
    <3>. DEFINE S == {n, MaxLimbs}
                m == Min(S)
    <3>1. S \in SUBSET Nat /\ S # {}
      BY <1>3
    <3>2. m \in S /\ \A z \in S : m <= z
      <4>. HIDE DEF S
      <4>. QED BY <3>1, MinIsLeast
    <3>3. m \in {n, MaxLimbs} /\ m <= n
      BY <3>2
    <3>. HIDE DEF m, n
    <3>4. m = n
      BY <1>3, <3>3
    <3>. QED BY <3>4 DEF m
  <2>. QED BY <2>1 DEF RowResult
<1>. HIDE DEF s, t, p, q, n
<1>5. CASE IsZero(a) \/ IsZero(b)
  <2>1. x = 0 \/ y = 0
    BY <1>5, ZeroIsZero DEF IsZero, s, t
  <2>. HIDE DEF x, y
  <2>2. ValueOf(a) * ValueOf(b) = 0
    <3>1. Signed(x, p) \in Int /\ Signed(y, q) \in Int
      BY <1>1 DEF Signed
    <3>2. Signed(0, p) = 0 /\ Signed(0, q) = 0
      BY SignedZero
    <3>3. \A z \in Int : z * 0 = 0 /\ 0 * z = 0
      OBVIOUS
    <3>. QED BY <1>1, <2>1, <3>1, <3>2, <3>3
  <2>3. Product(a, b) = BigZero
    BY <1>2, <1>5
  <2>4. BigZero.limbs = <<0>> /\ BigZero.negative = FALSE /\ BigZero = [limbs |-> <<0>>, negative |-> FALSE]
    BY DEF BigZero, Word
  <2>5. Trim(<<0>>) = <<0>> /\ <<0>> \in Magnitudes /\ Number(<<0>>) = 0
    BY ZeroIsZero, TrimWorks
  <2>6. IsCanonical(BigZero)
    BY <2>4, <2>5 DEF IsCanonical
  <2>7. BigZero \in BigNumbers
    BY <2>4, <2>5, <2>6 DEF BigNumbers
  <2>8. ValueOf(BigZero) = 0
    BY <2>4, <2>5 DEF ValueOf
  <2>9. IsNumber(BigZero, ValueOf(a) * ValueOf(b))
    BY <2>2, <2>6, <2>8 DEF IsNumber
  <2>10. Len(BigZero.limbs) = 1 /\ 1 <= Len(s) + Len(t)
    BY <1>3, <2>4
  <2>. QED BY <2>3, <2>7, <2>9, <2>10 DEF s, t
<1>6. CASE ~(IsZero(a) \/ IsZero(b))
  <2>. DEFINE r == g[Len(s)]
              m == SubSeq(r, 1, n)
  <2>1. r \in Accumulators /\ (\A k \in 1 .. MaxLimbs : k > n => r[k] = 0) /\ Number(r) = y * x
    <3>1. Len(s) + Len(t) <= MaxLimbs
      BY <1>3 DEF n
    <3>. QED BY <1>1, <1>2, <3>1, RowsWork DEF n
  <2>. HIDE DEF r
  <2>2. r \in Seq(Int) /\ r \in Seq(Digits) /\ DOMAIN r = 1 .. MaxLimbs /\ Len(r) = MaxLimbs
    BY <2>1, AccumulatorFields
  <2>3. /\ m \in Seq(Digits) /\ Len(m) = n /\ DOMAIN m = 1 .. n /\ \A i \in 1 .. n : m[i] = r[i]
    BY <1>3, <2>2
  <2>. HIDE DEF m
  <2>4. m \in Magnitudes
    BY <1>3, <2>3, EmptySeq DEF Magnitudes
  <2>5. ASSUME NEW j \in Places
        PROVE  Limb(m, j) = Limb(r, j)
    <3>1. CASE j \in 1 .. n
      <4>1. j \in 1 .. MaxLimbs
        BY <1>3, <3>1
      <4>. QED BY <2>2, <2>3, <3>1, <4>1 DEF Limb
    <3>2. CASE j \notin 1 .. n
      <4>1. j \in 1 .. MaxLimbs => r[j] = 0
        BY <1>3, <2>1, <3>2 DEF Places
      <4>. QED BY <2>2, <2>3, <3>2, <4>1 DEF Limb
    <3>. QED BY <3>1, <3>2
  <2>6. Number(m) = y * x
    <3>1. m \in Seq(Int)
      BY <2>4, MagnitudeFields
    <3>2. Number(m) = Number(r)
      BY <2>2, <2>5, <3>1, SameLimbs
    <3>. QED BY <2>1, <3>2
  <2>. DEFINE neg == p # q
  <2>7. neg \in BOOLEAN /\ Product(a, b) = Normal(m, neg)
    BY <1>2, <1>4, <1>6 DEF m, r
  <2>8. Signed(y * x, neg) = ValueOf(a) * ValueOf(b)
    <3>. HIDE DEF x, y
    <3>1. \A i, j \in Nat : /\ j * i = i * j /\ (-i) * (-j) = i * j
                            /\ (-i) * j = -(j * i) /\ i * (-j) = -(j * i)
      OBVIOUS
    <3>2. CASE p = TRUE /\ q = TRUE
      BY <1>1, <3>1, <3>2 DEF Signed
    <3>3. CASE p = TRUE /\ q = FALSE
      BY <1>1, <3>1, <3>3 DEF Signed
    <3>4. CASE p = FALSE /\ q = TRUE
      BY <1>1, <3>1, <3>4 DEF Signed
    <3>5. CASE p = FALSE /\ q = FALSE
      BY <1>1, <3>1, <3>5 DEF Signed
    <3>. QED BY <1>1, <3>2, <3>3, <3>4, <3>5
  <2>. HIDE DEF neg
  <2>9. /\ Normal(m, neg) \in BigNumbers
        /\ IsNumber(Normal(m, neg), Signed(Number(m), neg))
        /\ Len(Normal(m, neg).limbs) <= Len(m)
    BY <2>4, <2>7, NormalWorks
  <2>. QED BY <2>3, <2>6, <2>7, <2>8, <2>9 DEF n, s, t
<1>. QED BY <1>5, <1>6

-----------------------------------------------------------------------------
(* Kernels.  The blocks that a count is split into.                        *)

(* f[n] is the number of elements in the first n blocks.                   *)
Covers(f, blocks, count) ==
  /\ f \in [0 .. Len(blocks) -> Nat]
  /\ f[0] = 0
  /\ \A n \in 1 .. Len(blocks) : blocks[n] \in Nat \ {0} /\ f[n] = f[n - 1] + blocks[n]
  /\ f[Len(blocks)] = count
Fills(blocks, count) ==
  blocks \in Seq(Nat \ {0}) /\ \E f : Covers(f, blocks, count)

LEMMA RepeatFills ==
  ASSUME NEW w \in Nat \ {0}, NEW n \in Nat
  PROVE  Fills(Repeat(w, n), w * n)
<1>. DEFINE s == Repeat(w, n)
            f == [i \in 0 .. n |-> w * i]
<1>1. s \in Seq(Nat \ {0}) /\ Len(s) = n /\ \A i \in 1 .. n : s[i] = w
  BY DEF Repeat
<1>2. \A i \in 0 .. n : w * i \in Nat
  OBVIOUS
<1>3. \A i \in 1 .. n : w * i = w * (i - 1) + w
  OBVIOUS
<1>4. w * 0 = 0
  OBVIOUS
<1>5. f \in [0 .. n -> Nat] /\ f[0] = 0 /\ f[n] = w * n
  BY <1>2, <1>4
<1>6. \A i \in 1 .. n : f[i] = f[i - 1] + w
  BY <1>3
<1>. HIDE DEF s, f
<1>7. Covers(f, s, w * n)
  BY <1>1, <1>5, <1>6 DEF Covers
<1>. QED BY <1>1, <1>7 DEF Fills, s

LEMMA JoinFills ==
  ASSUME NEW s, NEW t, NEW p, NEW q, Fills(s, p), Fills(t, q)
  PROVE  Fills(s \o t, p + q)
<1>1. PICK f : Covers(f, s, p)
  BY DEF Fills
<1>2. PICK g : Covers(g, t, q)
  BY DEF Fills
<1>. DEFINE m == Len(s)
            n == Len(t)
            u == s \o t
            h == [i \in 0 .. m + n |-> IF i <= m THEN f[i] ELSE p + g[i - m]]
<1>3. s \in Seq(Nat \ {0}) /\ t \in Seq(Nat \ {0}) /\ m \in Nat /\ n \in Nat
  BY DEF Fills
<1>4. /\ u \in Seq(Nat \ {0})
      /\ Len(u) = m + n
      /\ \A i \in 1 .. m + n : u[i] = IF i <= m THEN s[i] ELSE t[i - m]
  BY <1>3
<1>5. /\ f \in [0 .. m -> Nat] /\ f[0] = 0 /\ f[m] = p
      /\ \A i \in 1 .. m : s[i] \in Nat \ {0} /\ f[i] = f[i - 1] + s[i]
  BY <1>1 DEF Covers
<1>6. /\ g \in [0 .. n -> Nat] /\ g[0] = 0 /\ g[n] = q
      /\ \A i \in 1 .. n : t[i] \in Nat \ {0} /\ g[i] = g[i - 1] + t[i]
  BY <1>2 DEF Covers
<1>. HIDE DEF m, n, u
<1>7. p \in Nat /\ q \in Nat
  BY <1>3, <1>5, <1>6
<1>8. h \in [0 .. m + n -> Nat]
  <2>1. ASSUME NEW i \in 0 .. m + n PROVE (IF i <= m THEN f[i] ELSE p + g[i - m]) \in Nat
    <3>1. CASE i <= m
      BY <3>1, <1>3, <1>5
    <3>2. CASE ~(i <= m)
      <4>1. i - m \in 0 .. n
        BY <3>2, <1>3
      <4>. QED BY <3>2, <4>1, <1>6, <1>7
    <3>. QED BY <3>1, <3>2
  <2>. QED BY <2>1
<1>9. \A i \in 0 .. m + n : h[i] = IF i <= m THEN f[i] ELSE p + g[i - m]
  OBVIOUS
<1>. HIDE DEF h
<1>10. h[0] = 0
  BY <1>3, <1>5, <1>9
<1>11. h[m + n] = p + q
  <2>1. CASE n = 0
    <3>1. m + n = m /\ m <= m /\ m \in 0 .. m + n
      BY <2>1, <1>3
    <3>2. h[m] = p
      BY <3>1, <1>5, <1>9
    <3>3. q = 0
      BY <2>1, <1>6
    <3>4. p + q = p
      BY <3>3, <1>7
    <3>. QED BY <3>1, <3>2, <3>4, Zenon
  <2>2. CASE n # 0
    <3>1. ~(m + n <= m) /\ m + n - m = n /\ m + n \in 0 .. m + n
      BY <2>2, <1>3
    <3>. DEFINE e == m + n
    <3>2. e \in 0 .. m + n /\ ~(e <= m) /\ e - m = n
      BY <3>1, <1>3
    <3>. HIDE DEF e
    <3>3. h[e] = p + g[e - m]
      BY <3>2, <1>9
    <3>. QED BY <3>2, <3>3, <1>6 DEF e
  <2>. QED BY <2>1, <2>2
<1>12. ASSUME NEW i \in 1 .. m + n
       PROVE  u[i] \in Nat \ {0} /\ h[i] = h[i - 1] + u[i]
  <2>1. i \in 0 .. m + n /\ i - 1 \in 0 .. m + n
    BY <1>3
  <2>2. CASE i <= m
    <3>1. i \in 1 .. m /\ i - 1 <= m
      BY <2>2, <1>3
    <3>. QED BY <2>1, <2>2, <3>1, <1>4, <1>5, <1>9
  <2>3. CASE ~(i <= m)
    <3>. DEFINE j == i - m
    <3>1. j \in 1 .. n /\ j - 1 \in 0 .. n
      BY <2>3, <1>3
    <3>2. i - 1 - m = j - 1
      BY <1>3
    <3>3. h[i] = p + g[j] /\ u[i] = t[j]
      BY <2>1, <2>3, <1>4, <1>9
    <3>4. h[i - 1] = p + g[j - 1]
      <4>1. CASE j = 1
        <5>1. i - 1 = m /\ j - 1 = 0
          BY <4>1, <1>3
        <5>. QED BY <5>1, <2>1, <1>3, <1>5, <1>6, <1>7, <1>9
      <4>2. CASE j # 1
        <5>1. ~(i - 1 <= m)
          BY <4>2, <3>1, <1>3
        <5>. QED BY <5>1, <2>1, <3>2, <1>9
      <4>. QED BY <4>1, <4>2
    <3>. HIDE DEF j
    <3>5. t[j] \in Nat \ {0} /\ g[j] = g[j - 1] + t[j] /\ g[j] \in Nat /\ g[j - 1] \in Nat
      <4>1. j \in 0 .. n
        BY <3>1, <1>3
      <4>. QED BY <4>1, <3>1, <1>6
    <3>. QED BY <3>3, <3>4, <3>5, <1>7
  <2>. QED BY <2>2, <2>3
<1>13. Covers(h, u, p + q)
  BY <1>4, <1>8, <1>10, <1>11, <1>12 DEF Covers
<1>. QED BY <1>4, <1>13 DEF Fills, u

(* The blocks of every version take each element once.                     *)
LEMMA BlocksFill ==
  ASSUME NEW version \in {"scalar", "sse2", "neon", "avx2"}, NEW op, NEW count \in Nat
  PROVE  Fills(Blocks(version, op, count), count)
<1>1. ASSUME NEW c \in Nat PROVE Fills(Singles(c), c)
  <2>1. 1 * c = c
    OBVIOUS
  <2>. QED BY <2>1, RepeatFills DEF Singles
<1>2. ASSUME NEW c \in Nat PROVE Fills(Pairs(c), c)
  <2>. DEFINE h == c \div 2
              r == c % 2
  <2>1. h \in Nat /\ r \in Nat /\ 2 * h + r = c
    OBVIOUS
  <2>. HIDE DEF h, r
  <2>2. Fills(Repeat(2, h), 2 * h) /\ Fills(Singles(r), r)
    BY <2>1, <1>1, RepeatFills
  <2>3. Fills(Repeat(2, h) \o Singles(r), 2 * h + r)
    BY <2>2, JoinFills
  <2>. QED BY <2>1, <2>3 DEF Pairs, h, r
<1>3. Fills(ArithmeticFours(count), count) /\ Fills(BitwiseFours(count), count)
  <2>. DEFINE h == count \div 4
              r == count % 4
  <2>1. h \in Nat /\ r \in Nat /\ 4 * h + r = count
    OBVIOUS
  <2>. HIDE DEF h, r
  <2>2. Fills(Repeat(4, h), 4 * h) /\ Fills(Singles(r), r) /\ Fills(Pairs(r), r)
    BY <2>1, <1>1, <1>2, RepeatFills
  <2>3. Fills(Repeat(4, h) \o Singles(r), 4 * h + r) /\ Fills(Repeat(4, h) \o Pairs(r), 4 * h + r)
    BY <2>2, JoinFills
  <2>. QED BY <2>1, <2>3 DEF ArithmeticFours, BitwiseFours, h, r
<1>. QED BY <1>1, <1>2, <1>3 DEF Blocks

LEMMA CompiledIs ==
  ASSUME NEW features, NEW op, NEW build
  PROVE  Compiled(Version(op, features), op, build) \in {"scalar", "sse2", "neon", "avx2"}
<1>1. Version(op, features) \in {"scalar", "sse2", "neon", "avx2"}
  BY DEF Version
<1>. QED BY <1>1 DEF Compiled

(* What a kernel is called with: arrays that lie in the memory.            *)
Lies(k, x) == x \in Int /\ \A i \in 0 .. k.count - 1 : x + i \in DOMAIN k.mem
IsCall(k) ==
  /\ DOMAIN k.mem \subseteq Int /\ k.mem = [x \in DOMAIN k.mem |-> k.mem[x]]
  /\ k.count \in Nat
  /\ Lies(k, k.a) /\ Lies(k, k.b) /\ Lies(k, k.result)

(* The loop after the first i elements.                                    *)
Closed(op, k, i) ==
  [i      |-> i,
   mem    |-> [x \in DOMAIN k.mem |->
                 IF x - k.result \in 0 .. i - 1
                 THEN Lane(op, k.mem[k.a + x - k.result], k.mem[k.b + x - k.result])
                 ELSE k.mem[x]],
   zeroes |-> \E j \in 0 .. i - 1 : k.mem[k.b + j] = ZeroValue]

(* An operand that is still to be read is as it was.                       *)
Stays(op, k, y) ==
  \A i \in 0 .. k.count : \A j \in i .. k.count - 1 : Closed(op, k, i).mem[y + j] = k.mem[y + j]

LEMMA StillThere ==
  ASSUME NEW op, NEW k, IsCall(k), NEW y, Lies(k, y), Separate(k, y)
  PROVE  Stays(op, k, y)
<1>. SUFFICES ASSUME NEW i \in 0 .. k.count, NEW j \in i .. k.count - 1
              PROVE  Closed(op, k, i).mem[y + j] = k.mem[y + j]
  BY DEF Stays
<1>1. y \in Int /\ k.result \in Int /\ k.count \in Nat /\ i \in Nat /\ j \in Nat /\ y + j \in DOMAIN k.mem
  BY DEF IsCall, Lies
<1>2. y + j - k.result \notin 0 .. i - 1
  BY <1>1 DEF Separate
<1>. QED BY <1>1, <1>2 DEF Closed

LEMMA BlockWorks ==
  ASSUME NEW op, NEW k, IsCall(k), Separate(k, k.a), Separate(k, k.b),
         NEW i \in Nat, NEW w \in Nat \ {0}, i + w <= k.count
  PROVE  Block(Closed(op, k, i), op, k.a, k.b, k.result, w) = Closed(op, k, i + w)
<1>. DEFINE s == Closed(op, k, i)
            D == DOMAIN k.mem
<1>1. /\ k.a \in Int /\ k.b \in Int /\ k.result \in Int /\ k.count \in Nat /\ D \subseteq Int
      /\ i \in 0 .. k.count
  <2>1. k.a \in Int /\ k.b \in Int /\ k.result \in Int /\ k.count \in Nat /\ D \subseteq Int
    BY DEF IsCall, Lies
  <2>2. i \in 0 .. k.count
    BY <2>1
  <2>. QED BY <2>1, <2>2
<1>2. \A j \in i .. i + w - 1 : /\ s.mem[k.a + j] = k.mem[k.a + j]
                               /\ s.mem[k.b + j] = k.mem[k.b + j]
  <2>. TAKE j \in i .. i + w - 1
  <2>1. j \in i .. k.count - 1
    BY <1>1
  <2>2. Lies(k, k.a) /\ Lies(k, k.b)
    BY DEF IsCall
  <2>. HIDE DEF s, D
  <2>3. Stays(op, k, k.a) /\ Stays(op, k, k.b)
    BY <2>2, StillThere
  <2>4. Closed(op, k, i).mem[k.a + j] = k.mem[k.a + j] /\ Closed(op, k, i).mem[k.b + j] = k.mem[k.b + j]
    BY <2>1, <2>3, <1>1, Zenon DEF Stays
  <2>. QED BY <2>4 DEF s
<1>3. s.i = i /\ DOMAIN s.mem = D /\ s.zeroes = (\E j \in 0 .. i - 1 : k.mem[k.b + j] = ZeroValue)
  BY DEF Closed
<1>4. ASSUME NEW x \in D
      PROVE  (IF x - k.result \in i .. i + w - 1
              THEN Lane(op, s.mem[k.a + x - k.result], s.mem[k.b + x - k.result])
              ELSE s.mem[x])
           = (IF x - k.result \in 0 .. (i + w) - 1
              THEN Lane(op, k.mem[k.a + x - k.result], k.mem[k.b + x - k.result])
              ELSE k.mem[x])
  <2>. DEFINE j == x - k.result
  <2>1. j \in Int /\ k.a + x - k.result = k.a + j /\ k.b + x - k.result = k.b + j
    BY <1>1
  <2>2. s.mem[x] = IF j \in 0 .. i - 1
                   THEN Lane(op, k.mem[k.a + x - k.result], k.mem[k.b + x - k.result]) ELSE k.mem[x]
    BY DEF Closed
  <2>. HIDE DEF s
  <2>3. CASE j \in i .. i + w - 1
    <3>1. s.mem[k.a + j] = k.mem[k.a + j] /\ s.mem[k.b + j] = k.mem[k.b + j]
      BY <2>3, <1>2
    <3>2. j \in 0 .. (i + w) - 1
      BY <2>3
    <3>. QED BY <2>1, <2>3, <3>1, <3>2
  <2>4. CASE j \notin i .. i + w - 1
    <3>1. j \in 0 .. (i + w) - 1 <=> j \in 0 .. i - 1
      BY <2>1, <2>4
    <3>. QED BY <2>2, <2>4, <3>1
  <2>. QED BY <2>3, <2>4
<1>5. (s.zeroes \/ \E j \in i .. i + w - 1 : s.mem[k.b + j] = ZeroValue)
      = (\E j \in 0 .. (i + w) - 1 : k.mem[k.b + j] = ZeroValue)
  <2>. HIDE DEF s
  <2>2. \A j \in i .. i + w - 1 : s.mem[k.b + j] = k.mem[k.b + j]
    BY <1>2
  <2>3. (\E j \in i .. i + w - 1 : s.mem[k.b + j] = ZeroValue)
          <=> \E j \in i .. i + w - 1 : k.mem[k.b + j] = ZeroValue
    BY <2>2, Zenon
  <2>. DEFINE A == 0 .. i - 1
              B == i .. i + w - 1
              C == 0 .. (i + w) - 1
  <2>4. \A j : j \in C <=> (j \in A \/ j \in B)
    OBVIOUS
  <2>. HIDE DEF A, B, C
  <2>5. ((\E j \in A : k.mem[k.b + j] = ZeroValue) \/ \E j \in B : k.mem[k.b + j] = ZeroValue)
          <=> \E j \in C : k.mem[k.b + j] = ZeroValue
    BY <2>4, Zenon
  <2>6. s.zeroes = \E j \in A : k.mem[k.b + j] = ZeroValue
    BY <1>3 DEF A
  <2>7. (\E j \in B : s.mem[k.b + j] = ZeroValue) <=> \E j \in B : k.mem[k.b + j] = ZeroValue
    BY <2>3 DEF B
  <2>8. (s.zeroes \/ \E j \in B : s.mem[k.b + j] = ZeroValue) = \E j \in C : k.mem[k.b + j] = ZeroValue
    BY <2>5, <2>6, <2>7, Zenon
  <2>. QED BY <2>8 DEF B, C
<1>. HIDE DEF s
<1>6. [x \in D |->
         IF x - k.result \in i .. i + w - 1
         THEN Lane(op, s.mem[k.a + x - k.result], s.mem[k.b + x - k.result])
         ELSE s.mem[x]]
    = Closed(op, k, i + w).mem
  BY <1>4 DEF Closed
<1>7. Block(s, op, k.a, k.b, k.result, w)
    = [i |-> i + w, mem |-> Closed(op, k, i + w).mem,
       zeroes |-> \E j \in 0 .. (i + w) - 1 : k.mem[k.b + j] = ZeroValue]
  BY <1>3, <1>5, <1>6, Zenon DEF Block
<1>. QED BY <1>7 DEF Closed, s

(* Every kernel computes each element from the operands as they were       *)
(* before the call, in place or not, and raises the division flag exactly  *)
(* when a divisor is zero: in every build, on every processor, for arrays  *)
(* of every length (the files of Arithmetic and Bitwise).          *)
THEOREM KernelsAreElementwise ==
  ASSUME NEW op, NEW k, IsCall(k), Separate(k, k.a), Separate(k, k.b)
  PROVE  IsElementwise(op, k, Kernel(op, k))
<1>. DEFINE version == Compiled(Version(op, k.features), op, k.build)
            blocks == Blocks(version, op, k.count)
            N == Len(blocks)
            D == DOMAIN k.mem
            start == [i |-> 0, mem |-> k.mem, zeroes |-> FALSE]
            Rhs(g) == [n \in 0 .. N |->
                         IF n = 0 THEN start ELSE Block(g[n - 1], op, k.a, k.b, k.result, blocks[n])]
            After == CHOOSE g : g = Rhs(g)
<1>1. k.count \in Nat /\ D \subseteq Int /\ k.mem = [x \in D |-> k.mem[x]] /\ k.a \in Int /\ k.b \in Int /\ k.result \in Int
  BY DEF IsCall, Lies
<1>2. Fills(blocks, k.count)
  <2>1. version \in {"scalar", "sse2", "neon", "avx2"}
    BY CompiledIs
  <2>. HIDE DEF version
  <2>. QED BY <2>1, <1>1, BlocksFill
<1>. HIDE DEF version, blocks
<1>3. PICK f : Covers(f, blocks, k.count)
  BY <1>2 DEF Fills
<1>4. /\ N \in Nat /\ f \in [0 .. N -> Nat] /\ f[0] = 0 /\ f[N] = k.count
      /\ \A n \in 1 .. N : blocks[n] \in Nat \ {0} /\ f[n] = f[n - 1] + blocks[n]
  BY <1>2, <1>3 DEF Fills, Covers
<1>. HIDE DEF N
<1>5. \A n \in 0 .. N : f[n] <= k.count
  <2>. DEFINE T == {n \in 0 .. N : f[N - n] <= k.count}
  <2>1. 0 \in T
    <3>1. N - 0 = N /\ 0 \in 0 .. N
      BY <1>4
    <3>. QED BY <3>1, <1>1, <1>4
  <2>2. ASSUME NEW n \in 1 .. N, n - 1 \in T PROVE n \in T
    <3>. DEFINE m == N - (n - 1)
    <3>1. m \in 1 .. N /\ m - 1 = N - n /\ n \in 0 .. N /\ m - 1 \in 0 .. N /\ m \in 0 .. N
      BY <1>4
    <3>2. f[m] <= k.count
      BY <2>2
    <3>. HIDE DEF m, T
    <3>3. f[m] = f[m - 1] + blocks[m] /\ blocks[m] \in Nat /\ f[m - 1] \in Nat /\ f[m] \in Nat
      BY <3>1, <1>4
    <3>4. f[m - 1] <= k.count
      BY <3>2, <3>3, <1>1
    <3>5. f[N - n] <= k.count
      BY <3>1, <3>4
    <3>. QED BY <3>1, <3>5 DEF T
  <2>. HIDE DEF T
  <2>3. \A n \in 0 .. N : n \in T
    BY <2>1, <2>2, <1>4, BoundedInduction
  <2>4. ASSUME NEW n \in 0 .. N PROVE f[n] <= k.count
    <3>1. N - n \in 0 .. N /\ N - (N - n) = n
      BY <1>4
    <3>2. N - n \in T
      BY <3>1, <2>3
    <3>3. f[N - (N - n)] <= k.count
      BY <3>2 DEF T
    <3>. QED BY <3>1, <3>3
  <2>. QED BY <2>4
<1>6. Closed(op, k, 0) = start
  <2>1. \A y \in Int : y \notin 0 .. 0 - 1
    OBVIOUS
  <2>2. \A x \in D : x - k.result \notin 0 .. 0 - 1
    BY <1>1, <2>1
  <2>3. [x \in D |->
          IF x - k.result \in 0 .. 0 - 1
          THEN Lane(op, k.mem[k.a + x - k.result], k.mem[k.b + x - k.result])
          ELSE k.mem[x]] = [x \in D |-> k.mem[x]]
    BY <2>2
  <2>4. [x \in D |-> k.mem[x]] = k.mem
    BY <1>1
  <2>5. (\E j \in 0 .. 0 - 1 : k.mem[k.b + j] = ZeroValue) = FALSE
    BY <2>1
  <2>. QED BY <2>3, <2>4, <2>5 DEF Closed
<1>7. ASSUME NEW n \in 1 .. N
      PROVE  Block(Closed(op, k, f[n - 1]), op, k.a, k.b, k.result, blocks[n]) = Closed(op, k, f[n])
  <2>1. /\ n \in 0 .. N /\ n - 1 \in 0 .. N /\ f[n - 1] \in Nat /\ blocks[n] \in Nat \ {0}
        /\ f[n] = f[n - 1] + blocks[n]
    BY <1>4
  <2>2. f[n - 1] + blocks[n] <= k.count
    BY <2>1, <1>5
  <2>. DEFINE i == f[n - 1]
              w == blocks[n]
  <2>. HIDE DEF i, w
  <2>3. i \in Nat /\ w \in Nat \ {0} /\ i + w <= k.count
    BY <2>1, <2>2 DEF i, w
  <2>4. Block(Closed(op, k, i), op, k.a, k.b, k.result, w) = Closed(op, k, i + w)
    BY <2>3, BlockWorks
  <2>5. Block(Closed(op, k, f[n - 1]), op, k.a, k.b, k.result, blocks[n]) = Closed(op, k, f[n - 1] + blocks[n])
    BY <2>4 DEF i, w
  <2>. QED BY <2>1, <2>5, Zenon
<1>8. After = Rhs(After)
  <2>. DEFINE h == [n \in 0 .. N |-> Closed(op, k, f[n])]
  <2>1. ASSUME NEW n \in 0 .. N
        PROVE  Closed(op, k, f[n])
             = IF n = 0 THEN start ELSE Block(h[n - 1], op, k.a, k.b, k.result, blocks[n])
    <3>1. CASE n = 0
      BY <3>1, <1>4, <1>6
    <3>2. CASE n # 0
      <4>1. n \in 1 .. N /\ n - 1 \in 0 .. N
        BY <3>2, <1>4
      <4>2. h[n - 1] = Closed(op, k, f[n - 1])
        BY <4>1
      <4>. HIDE DEF h
      <4>. QED BY <3>2, <4>1, <4>2, <1>7
    <3>. QED BY <3>1, <3>2
  <2>. DEFINE hh == h
  <2>2. h = Rhs(h)
    BY <2>1
  <2>. HIDE DEF h, Rhs
  <2>. QED BY <2>2
<1>. HIDE DEF After, start
<1>9. /\ After[0] = start
      /\ \A n \in 1 .. N : After[n] = Block(After[n - 1], op, k.a, k.b, k.result, blocks[n])
  <2>1. \A n \in 0 .. N : After[n] = IF n = 0 THEN start
                                    ELSE Block(After[n - 1], op, k.a, k.b, k.result, blocks[n])
    <3>. TAKE n \in 0 .. N
    <3>1. Rhs(After)[n] = IF n = 0 THEN start
                          ELSE Block(After[n - 1], op, k.a, k.b, k.result, blocks[n])
      OBVIOUS
    <3>. HIDE DEF Rhs
    <3>. QED BY <3>1, <1>8
  <2>2. 0 \in 0 .. N /\ \A n \in 1 .. N : n \in 0 .. N /\ n # 0
    BY <1>4
  <2>. HIDE DEF Rhs
  <2>. QED BY <2>1, <2>2
<1>10. After[N] = Closed(op, k, k.count)
  <2>. DEFINE T == {n \in 0 .. N : After[n] = Closed(op, k, f[n])}
  <2>1. 0 \in T
    BY <1>4, <1>6, <1>9
  <2>2. ASSUME NEW n \in 1 .. N, n - 1 \in T PROVE n \in T
    <3>1. n \in 0 .. N /\ After[n - 1] = Closed(op, k, f[n - 1])
      BY <2>2, <1>4
    <3>2. After[n] = Closed(op, k, f[n])
      BY <3>1, <1>7, <1>9
    <3>. QED BY <3>1, <3>2
  <2>. HIDE DEF T
  <2>3. \A n \in 0 .. N : n \in T
    BY <2>1, <2>2, <1>4, BoundedInduction
  <2>4. N \in T
    BY <2>3, <1>4
  <2>. QED BY <2>4, <1>4 DEF T
<1>11. Kernel(op, k) = [mem   |-> After[N].mem,
                        flags |-> k.flags \cup (IF op = "division" /\ After[N].zeroes THEN {DivZeroFlag} ELSE {})]
  BY DEF Kernel, Execute, After, N, blocks, version, start
<1>. QED BY <1>10, <1>11 DEF IsElementwise, Expected, DividesByNothing, Closed

-----------------------------------------------------------------------------
(* Random numbers. *)

(* The generator with the samples given so far, and how it goes on: with a *)
(* number for the call in progress, or with the next call of the tape.     *)
At(w, s, t, out) == [words |-> w, spare |-> s, task |-> t, out |-> out]

Used(m, w, s, z) ==
  IF m.task.op # "gamma" THEN At(w, s, Idle, Append(m.out, z))
  ELSE At(w, s, [m.task EXCEPT !.phase = IF CubeIsPositive(m.task.arg, z) THEN "accept" ELSE "normal",
                               !.z = IF CubeIsPositive(m.task.arg, z) THEN z ELSE <<>>], m.out)

Single(t, d) ==
  IF t.op = "bernoulli" THEN <<IF d * Unit < t.arg * 2 ^ (RngBits - Dropped) THEN 1 ELSE 0>> ELSE <<d>>

Multiplied(m, w, d) ==
  IF Above(Append(m.task.kept, d), m.task.arg)
  THEN At(w, m.spare, [m.task EXCEPT !.kept = Append(m.task.kept, d)], m.out)
  ELSE At(w, m.spare, Idle, Append(m.out, <<Len(Append(m.task.kept, d)) - 1>>))

Judged(m, w, d) ==
  IF Accepted(m.task.arg, m.task.z, d)
  THEN At(w, m.spare, Idle, Append(m.out, m.task.kept \o m.task.z))
  ELSE At(w, m.spare, [m.task EXCEPT !.phase = "normal", !.z = <<>>], m.out)

Drawing(m) ==
  LET t == m.task
      d == Drawn(m.words)
      w == Following(m.words)
  IN  IF t.phase = "normal" /\ m.spare # NoSpare THEN Used(m, m.words, NoSpare, m.spare)
      ELSE IF t.phase \in {"open", "boost", "product", "accept", "normal"} /\ d = 0
      THEN At(w, m.spare, t, m.out)
      ELSE CASE t.phase \in {"closed", "open"} -> At(w, m.spare, Idle, Append(m.out, Single(t, d)))
             [] t.phase = "product"            -> Multiplied(m, w, d)
             [] t.phase = "boost"              -> At(w, m.spare, [t EXCEPT !.phase = "normal", !.arg = @ + Unit,
                                                                           !.kept = <<d>>], m.out)
             [] t.phase = "normal"             -> At(w, m.spare, [t EXCEPT !.phase = "second", !.z = <<d>>], m.out)
             [] t.phase = "second"             -> Used(m, w, <<"sin", t.z[1], d>>, <<"cos", t.z[1], d>>)
             [] t.phase = "accept"             -> Judged(m, w, d)

Started(m, r) ==
  IF Phase(r) = "done"
  THEN At(m.words, m.spare, Idle, Append(m.out, <<IF r.op = "bernoulli" /\ r.arg > 0 THEN 1 ELSE 0>>))
  ELSE At(m.words, m.spare,
          [phase |-> Phase(r), op |-> r.op, arg |-> r.arg, kept |-> <<>>, z |-> <<>>], m.out)

TaskShape == task = Idle \/ DOMAIN task = {"phase", "op", "arg", "kept", "z"}

(* The samples after a step. *)
Told(out) == IF task' # Idle THEN out ELSE Append(out, sample')

LEMMA KeepsGoing ==
  ASSUME NEW t, DOMAIN t = {"phase", "op", "arg", "kept", "z"}, NEW u, DOMAIN u = DOMAIN t
  PROVE  u # Idle
<1>1. "op" \in DOMAIN u /\ "op" \notin DOMAIN Idle
  BY DEF Idle
<1>. QED BY <1>1

LEMMA NormalUsed ==
  ASSUME NEW z, NEW w, NEW s, NEW out, TaskShape, task # Idle,
         UseNormal(z), words' = w, spare' = s
  PROVE  /\ At(words', spare', task', Told(out)) = Used(At(words, spare, task, out), w, s, z)
         /\ TaskShape'
<1>. DEFINE u == [task EXCEPT !.phase = IF CubeIsPositive(task.arg, z) THEN "accept" ELSE "normal",
                              !.z = IF CubeIsPositive(task.arg, z) THEN z ELSE <<>>]
<1>1. DOMAIN task = {"phase", "op", "arg", "kept", "z"}
  BY DEF TaskShape
<1>2. DOMAIN u = DOMAIN task
  OBVIOUS
<1>3. CASE task.op # "gamma"
  <2>1. task' = Idle /\ sample' = z
    BY <1>3 DEF UseNormal, Finish
  <2>. QED BY <2>1, <1>3 DEF Told, Used, At, TaskShape
<1>4. CASE task.op = "gamma"
  <2>1. task' = u
    BY <1>4 DEF UseNormal, GoOn
  <2>. HIDE DEF u
  <2>2. task' # Idle
    BY <2>1, <1>1, <1>2, KeepsGoing
  <2>. QED BY <2>1, <2>2, <1>1, <1>2, <1>4 DEF Told, Used, At, TaskShape, u
<1>. QED BY <1>3, <1>4

Steps(out) ==
  /\ At(words', spare', task', Told(out)) = Drawing(At(words, spare, task, out))
  /\ TaskShape'

LEMMA DrawsAreDetermined ==
  ASSUME NEW out, TaskShape, DrawNext
  PROVE  task # Idle /\ Steps(out)
<1>. DEFINE m == At(words, spare, task, out)
<1>1. m.words = words /\ m.spare = spare /\ m.task = task /\ m.out = out
  BY DEF At
<1>2. task # Idle
  BY DEF DrawNext, DrawZero, DrawOnly, DrawFactor, DrawBoost, TakeSpare, DrawFirst, DrawSecond, DrawAccept, Idle
<1>3. DOMAIN task = {"phase", "op", "arg", "kept", "z"}
  BY <1>2 DEF TaskShape
<1>4. ASSUME DrawZero PROVE Steps(out)
  <2>1. /\ task.phase \in {"open", "boost", "product", "accept", "normal"}
        /\ ~(task.phase = "normal" /\ spare # NoSpare)
        /\ Drawn(words) = 0 /\ words' = Following(words) /\ spare' = spare /\ task' = task
    BY <1>4 DEF DrawZero, drawn, Draw
  <2>2. Told(out) = out
    BY <2>1, <1>2 DEF Told
  <2>3. Drawing(m) = At(Following(words), spare, task, out)
    BY <2>1, <1>1 DEF Drawing
  <2>4. TaskShape'
    BY <2>1 DEF TaskShape
  <2>. QED BY <2>1, <2>2, <2>3, <2>4 DEF Steps
<1>5. ASSUME DrawOnly PROVE Steps(out)
  <2>1. /\ task.phase = "closed" \/ (task.phase = "open" /\ Drawn(words) # 0)
        /\ words' = Following(words) /\ spare' = spare /\ task' = Idle
        /\ sample' = Single(task, Drawn(words))
    BY <1>5 DEF DrawOnly, drawn, Draw, Finish, Single
  <2>2. Told(out) = Append(out, Single(task, Drawn(words)))
    BY <2>1 DEF Told
  <2>3. Drawing(m) = At(Following(words), spare, Idle, Append(out, Single(task, Drawn(words))))
    BY <2>1, <1>1 DEF Drawing
  <2>4. TaskShape'
    BY <2>1 DEF TaskShape
  <2>. QED BY <2>1, <2>2, <2>3, <2>4 DEF Steps
<1>6. ASSUME DrawFactor PROVE Steps(out)
  <2>1. task.phase = "product" /\ Drawn(words) # 0 /\ words' = Following(words) /\ spare' = spare
    BY <1>6 DEF DrawFactor, drawn, Draw
  <2>2. Drawing(m) = Multiplied(m, Following(words), Drawn(words))
    BY <2>1, <1>1 DEF Drawing
  <2>. DEFINE factors == Append(task.kept, Drawn(words))
              u == [task EXCEPT !.kept = factors]
  <2>3. CASE Above(factors, task.arg)
    <3>1. task' = u
      BY <2>3, <1>6 DEF DrawFactor, drawn, GoOn
    <3>2. DOMAIN u = DOMAIN task
      OBVIOUS
    <3>. HIDE DEF u
    <3>3. task' # Idle
      BY <3>1, <3>2, <1>3, KeepsGoing
    <3>4. Told(out) = out /\ TaskShape'
      BY <3>1, <3>2, <3>3, <1>3 DEF Told, TaskShape
    <3>5. Multiplied(m, Following(words), Drawn(words)) = At(Following(words), spare, u, out)
      BY <2>3, <1>1 DEF Multiplied, u
    <3>. QED BY <2>1, <2>2, <3>1, <3>4, <3>5 DEF Steps
  <2>4. CASE ~Above(factors, task.arg)
    <3>1. task' = Idle /\ sample' = <<Len(factors) - 1>>
      BY <2>4, <1>6 DEF DrawFactor, drawn, Finish
    <3>2. Told(out) = Append(out, <<Len(factors) - 1>>) /\ TaskShape'
      BY <3>1 DEF Told, TaskShape
    <3>3. Multiplied(m, Following(words), Drawn(words))
        = At(Following(words), spare, Idle, Append(out, <<Len(factors) - 1>>))
      BY <2>4, <1>1 DEF Multiplied
    <3>. QED BY <2>1, <2>2, <3>1, <3>2, <3>3 DEF Steps
  <2>. QED BY <2>3, <2>4
<1>7. ASSUME DrawBoost PROVE Steps(out)
  <2>. DEFINE u == [task EXCEPT !.phase = "normal", !.arg = @ + Unit, !.kept = <<Drawn(words)>>]
  <2>1. /\ task.phase = "boost" /\ Drawn(words) # 0 /\ words' = Following(words) /\ spare' = spare
        /\ task' = u
    BY <1>7 DEF DrawBoost, drawn, Draw, GoOn
  <2>2. DOMAIN u = DOMAIN task
    OBVIOUS
  <2>3. Drawing(m) = At(Following(words), spare, u, out)
    BY <2>1, <1>1 DEF Drawing
  <2>. HIDE DEF u
  <2>4. task' # Idle
    BY <2>1, <2>2, <1>3, KeepsGoing
  <2>5. Told(out) = out /\ TaskShape'
    BY <2>1, <2>2, <2>4, <1>3 DEF Told, TaskShape
  <2>. QED BY <2>1, <2>3, <2>5 DEF Steps
<1>8. ASSUME TakeSpare PROVE Steps(out)
  <2>1. task.phase = "normal" /\ spare # NoSpare /\ UseNormal(spare) /\ words' = words /\ spare' = NoSpare
    BY <1>8 DEF TakeSpare
  <2>2. Drawing(m) = Used(m, words, NoSpare, spare)
    BY <2>1, <1>1 DEF Drawing
  <2>. HIDE DEF m
  <2>3. At(words', spare', task', Told(out)) = Used(At(words, spare, task, out), words, NoSpare, spare) /\ TaskShape'
    BY <2>1, <1>2, NormalUsed
  <2>. QED BY <2>2, <2>3 DEF Steps, m
<1>9. ASSUME DrawFirst PROVE Steps(out)
  <2>. DEFINE u == [task EXCEPT !.phase = "second", !.z = <<Drawn(words)>>]
  <2>1. /\ task.phase = "normal" /\ spare = NoSpare /\ Drawn(words) # 0
        /\ words' = Following(words) /\ spare' = spare /\ task' = u
    BY <1>9 DEF DrawFirst, drawn, Draw, GoOn
  <2>2. DOMAIN u = DOMAIN task
    OBVIOUS
  <2>3. Drawing(m) = At(Following(words), spare, u, out)
    BY <2>1, <1>1 DEF Drawing
  <2>. HIDE DEF u
  <2>4. task' # Idle
    BY <2>1, <2>2, <1>3, KeepsGoing
  <2>5. Told(out) = out /\ TaskShape'
    BY <2>1, <2>2, <2>4, <1>3 DEF Told, TaskShape
  <2>. QED BY <2>1, <2>3, <2>5 DEF Steps
<1>10. ASSUME DrawSecond PROVE Steps(out)
  <2>. DEFINE s == <<"sin", task.z[1], Drawn(words)>>
              z == <<"cos", task.z[1], Drawn(words)>>
  <2>1. task.phase = "second" /\ UseNormal(z) /\ words' = Following(words) /\ spare' = s
    BY <1>10 DEF DrawSecond, drawn, Draw
  <2>2. Drawing(m) = Used(m, Following(words), s, z)
    BY <2>1, <1>1 DEF Drawing
  <2>. HIDE DEF m, s, z
  <2>. DEFINE w == Following(words)
  <2>3. words' = w
    BY <2>1
  <2>. HIDE DEF w
  <2>4. At(words', spare', task', Told(out)) = Used(At(words, spare, task, out), w, s, z) /\ TaskShape'
    BY <2>1, <2>3, <1>2, NormalUsed
  <2>. QED BY <2>2, <2>4 DEF Steps, m, w
<1>11. ASSUME DrawAccept PROVE Steps(out)
  <2>1. task.phase = "accept" /\ Drawn(words) # 0 /\ words' = Following(words) /\ spare' = spare
    BY <1>11 DEF DrawAccept, drawn, Draw
  <2>2. Drawing(m) = Judged(m, Following(words), Drawn(words))
    BY <2>1, <1>1 DEF Drawing
  <2>. DEFINE u == [task EXCEPT !.phase = "normal", !.z = <<>>]
  <2>3. CASE Accepted(task.arg, task.z, Drawn(words))
    <3>1. task' = Idle /\ sample' = task.kept \o task.z
      BY <2>3, <1>11 DEF DrawAccept, drawn, Finish
    <3>2. Told(out) = Append(out, task.kept \o task.z) /\ TaskShape'
      BY <3>1 DEF Told, TaskShape
    <3>3. Judged(m, Following(words), Drawn(words))
        = At(Following(words), spare, Idle, Append(out, task.kept \o task.z))
      BY <2>3, <1>1 DEF Judged
    <3>. QED BY <2>1, <2>2, <3>1, <3>2, <3>3 DEF Steps
  <2>4. CASE ~Accepted(task.arg, task.z, Drawn(words))
    <3>1. task' = u
      BY <2>4, <1>11 DEF DrawAccept, drawn, GoOn
    <3>2. DOMAIN u = DOMAIN task
      OBVIOUS
    <3>3. Judged(m, Following(words), Drawn(words)) = At(Following(words), spare, u, out)
      BY <2>4, <1>1 DEF Judged
    <3>. HIDE DEF u
    <3>4. task' # Idle
      BY <3>1, <3>2, <1>3, KeepsGoing
    <3>5. Told(out) = out /\ TaskShape'
      BY <3>1, <3>2, <3>4, <1>3 DEF Told, TaskShape
    <3>. QED BY <2>1, <2>2, <3>1, <3>3, <3>5 DEF Steps
  <2>. QED BY <2>3, <2>4
<1>. QED BY <1>2, <1>4, <1>5, <1>6, <1>7, <1>8, <1>9, <1>10, <1>11 DEF DrawNext

LEMMA BeginningsAreDetermined ==
  ASSUME NEW out, NEW r, Begin(r)
  PROVE  /\ task = Idle
         /\ At(words', spare', task', Told(out)) = Started(At(words, spare, task, out), r)
         /\ TaskShape'
<1>. DEFINE m == At(words, spare, task, out)
            u == [phase |-> Phase(r), op |-> r.op, arg |-> r.arg, kept |-> <<>>, z |-> <<>>]
<1>1. m.words = words /\ m.spare = spare /\ m.out = out
  BY DEF At
<1>2. task = Idle /\ words' = words /\ spare' = spare
  BY DEF Begin
<1>3. CASE Phase(r) = "done"
  <2>1. task' = Idle /\ sample' = <<IF r.op = "bernoulli" /\ r.arg > 0 THEN 1 ELSE 0>>
    BY <1>2, <1>3 DEF Begin
  <2>. QED BY <2>1, <1>1, <1>2, <1>3 DEF Told, Started, TaskShape
<1>4. CASE Phase(r) # "done"
  <2>1. task' = u
    BY <1>4 DEF Begin
  <2>2. DOMAIN u = {"phase", "op", "arg", "kept", "z"}
    OBVIOUS
  <2>3. Started(m, r) = At(words, spare, u, out)
    BY <1>1, <1>4 DEF Started
  <2>. HIDE DEF u
  <2>4. task' # Idle
    BY <2>1, <2>2, KeepsGoing
  <2>. QED BY <2>1, <2>2, <2>3, <2>4, <1>2 DEF Told, TaskShape
<1>. QED BY <1>2, <1>3, <1>4

Follows(m, n, calls) ==
  \/ m.task # Idle /\ n = Drawing(m)
  \/ m.task = Idle /\ Len(m.out) < Len(calls) /\ n = Started(m, calls[Len(m.out) + 1])

Precedes(m, n) == Len(m.out) <= Len(n.out) /\ \A i \in 1 .. Len(m.out) : m.out[i] = n.out[i]

(* T is how the generator comes from one state to another.                 *)
Trace(T, N, S, first, last, calls) ==
  /\ N \in Nat /\ T[0] = first /\ T[N] = last
  /\ \A i \in 0 .. N : T[i].out \in Seq(S) /\ Precedes(T[i], last)
  /\ \A i \in 1 .. N : Follows(T[i - 1], T[i], calls)

(* One sample more, or none.                                               *)
OneMore(out, new) == new = out \/ \E x : new = Append(out, x)

LEMMA TraceStarts ==
  ASSUME NEW m, m.out = <<>>, NEW calls
  PROVE  \E T, N, S : Trace(T, N, S, m, m, calls)
<1>. DEFINE T == [i \in 0 .. 0 |-> m]
            N == 0
            S == {}
<1>1. N \in Nat /\ T[0] = m /\ T[N] = m
  OBVIOUS
<1>2. ASSUME NEW i \in 0 .. N PROVE T[i].out \in Seq(S) /\ Precedes(T[i], m)
  <2>1. T[i] = m /\ Len(m.out) = 0 /\ m.out \in Seq(S)
    OBVIOUS
  <2>2. Precedes(m, m)
    BY <2>1 DEF Precedes
  <2>. HIDE DEF T, S
  <2>. QED BY <2>1, <2>2
<1>3. ASSUME NEW i \in 1 .. N PROVE Follows(T[i - 1], T[i], calls)
  OBVIOUS
<1>. HIDE DEF T, N, S
<1>4. Trace(T, N, S, m, m, calls)
  BY <1>1, <1>2, <1>3 DEF Trace
<1>. QED BY <1>4

Extends(longer, calls) ==
  /\ Len(calls) \in Nat /\ Len(longer) \in Nat /\ Len(calls) <= Len(longer)
  /\ \A i \in 1 .. Len(calls) : longer[i] = calls[i]

LEMMA TraceGrows ==
  ASSUME NEW T, NEW N, NEW S, NEW first, NEW last, NEW calls, Trace(T, N, S, first, last, calls),
         NEW longer, Extends(longer, calls), NEW next, Follows(last, next, longer),
         OneMore(last.out, next.out)
  PROVE  \E U, M, R : Trace(U, M, R, first, next, longer)
<1>1. /\ N \in Nat /\ T[0] = first /\ T[N] = last
      /\ \A i \in 0 .. N : T[i].out \in Seq(S) /\ Precedes(T[i], last)
      /\ \A i \in 1 .. N : Follows(T[i - 1], T[i], calls)
  BY DEF Trace
<1>. DEFINE M == N + 1
            U == [i \in 0 .. M |-> IF i = M THEN next ELSE T[i]]
<1>2. last.out \in Seq(S) /\ Len(last.out) \in Nat
  <2>1. N \in 0 .. N
    BY <1>1
  <2>2. last.out \in Seq(S)
    BY <2>1, <1>1
  <2>. QED BY <2>2
<1>3. PICK R : S \subseteq R /\ next.out \in Seq(R) /\ Precedes(last, next)
  <2>1. CASE next.out = last.out
    BY <2>1, <1>2 DEF Precedes
  <2>2. CASE \E x : next.out = Append(last.out, x)
    <3>1. PICK x : next.out = Append(last.out, x)
      BY <2>2
    <3>. DEFINE R == S \cup {x}
                s == last.out
    <3>2. S \subseteq R /\ x \in R
      OBVIOUS
    <3>. HIDE DEF R, s
    <3>3. s \in Seq(R)
      <4>1. s \in Seq(S)
        BY <1>2 DEF s
      <4>. QED BY <3>2, <4>1
    <3>4. /\ Append(s, x) \in Seq(R) /\ Len(Append(s, x)) = Len(s) + 1
          /\ \A i \in 1 .. Len(s) : Append(s, x)[i] = s[i]
      BY <3>2, <3>3
    <3>5. Len(s) <= Len(s) + 1
      BY <1>2 DEF s
    <3>6. Precedes(last, next)
      BY <3>1, <3>4, <3>5 DEF Precedes, s
    <3>. QED BY <3>1, <3>2, <3>4, <3>6 DEF s
  <2>. QED BY <2>1, <2>2 DEF OneMore
<1>4. M \in Nat /\ U[0] = first /\ U[M] = next
  <2>1. M \in Nat /\ M # 0 /\ 0 \in 0 .. M /\ M \in 0 .. M
    BY <1>1
  <2>2. U[M] = next /\ U[0] = T[0]
    BY <2>1
  <2>. HIDE DEF M, U
  <2>. QED BY <2>1, <2>2, <1>1
<1>5. \A i \in 0 .. N : U[i] = T[i]
  BY <1>1
<1>6. \A i \in 0 .. M : i \in 0 .. N \/ i = M
  BY <1>1
<1>. HIDE DEF U
<1>7. ASSUME NEW i \in 0 .. M PROVE U[i].out \in Seq(R) /\ Precedes(U[i], next)
  <2>1. CASE i = M
    <3>1. U[i] = next
      BY <2>1, <1>4
    <3>2. Len(next.out) \in Nat
      BY <1>3
    <3>3. Precedes(next, next)
      BY <3>2 DEF Precedes
    <3>. QED BY <3>1, <3>3, <1>3
  <2>2. CASE i \in 0 .. N
    <3>. DEFINE m == T[i]
                s == m.out
    <3>1. U[i] = m /\ s \in Seq(S) /\ Precedes(m, last)
      BY <2>2, <1>1, <1>5
    <3>. HIDE DEF m
    <3>2. s \in Seq(R)
      BY <3>1, <1>3
    <3>3. Len(s) \in Nat /\ Len(next.out) \in Nat
      BY <3>2, <1>3
    <3>4. Precedes(m, next)
      BY <3>1, <3>3, <1>2, <1>3 DEF Precedes
    <3>. QED BY <3>1, <3>2, <3>4
  <2>. QED BY <2>1, <2>2, <1>6
<1>8. ASSUME NEW i \in 1 .. M PROVE Follows(U[i - 1], U[i], longer)
  <2>1. CASE i = M
    <3>1. i - 1 = N /\ N \in 0 .. N
      BY <2>1, <1>1
    <3>2. U[i - 1] = last /\ U[i] = next
      BY <2>1, <3>1, <1>1, <1>4, <1>5
    <3>. QED BY <3>2
  <2>2. CASE i # M
    <3>1. i \in 1 .. N /\ i \in 0 .. N /\ i - 1 \in 0 .. N
      BY <2>2, <1>1
    <3>. DEFINE m == T[i - 1]
                n == T[i]
                s == m.out
    <3>2. Follows(m, n, calls) /\ s \in Seq(S) /\ U[i - 1] = m /\ U[i] = n
      BY <3>1, <1>1, <1>5
    <3>. HIDE DEF m, n
    <3>3. Follows(m, n, longer)
      <4>1. CASE m.task # Idle
        BY <4>1, <3>2 DEF Follows
      <4>2. CASE m.task = Idle
        <5>1. Len(s) \in Nat /\ Len(s) < Len(calls) /\ n = Started(m, calls[Len(s) + 1])
          BY <4>2, <3>2 DEF Follows
        <5>2. Len(s) < Len(longer) /\ Len(s) + 1 \in 1 .. Len(calls)
          BY <5>1 DEF Extends
        <5>3. longer[Len(s) + 1] = calls[Len(s) + 1]
          BY <5>2 DEF Extends
        <5>. QED BY <4>2, <5>1, <5>2, <5>3 DEF Follows
      <4>. QED BY <4>1, <4>2
    <3>. QED BY <3>2, <3>3
  <2>. QED BY <2>1, <2>2
<1>. HIDE DEF M
<1>9. Trace(U, M, R, first, next, longer)
  BY <1>4, <1>7, <1>8 DEF Trace
<1>. QED BY <1>9

-----------------------------------------------------------------------------
(* The generator as it was saved.                                          *)
Start == At(saved, NoSpare, Idle, <<>>)

(* The samples given since are those of a trace of the tape.               *)
Recorded ==
  /\ \E T, N, S : Trace(T, N, S, Start, At(words, spare, task, given), tape)
  /\ Len(given) \in Nat
  /\ IF task = Idle THEN Len(given) = Len(tape) ELSE Len(given) + 1 = Len(tape)

(* The generator is somewhere on the trace that answered the whole tape.   *)
Replayed ==
  \E T, N, S, last : /\ Trace(T, N, S, Start, last, tape)
                     /\ last.out = given /\ last.task = Idle /\ Len(given) = Len(tape)
                     /\ \E j \in 0 .. N : T[j] = At(words, spare, task, heard)

ReplayInvariant ==
  /\ TaskShape /\ tape \in Seq(Requests) /\ clean \in BOOLEAN /\ replaying \in BOOLEAN
  /\ saved = Zeros => tape = <<>> /\ given = <<>> /\ ~replaying
  /\ ~replaying => heard = <<>>
  /\ saved # Zeros /\ clean => IF replaying THEN Replayed ELSE Recorded

LEMMA AtFields ==
  ASSUME NEW w, NEW s, NEW t, NEW out
  PROVE  /\ At(w, s, t, out).words = w /\ At(w, s, t, out).spare = s
         /\ At(w, s, t, out).task = t /\ At(w, s, t, out).out = out
BY DEF At

LEMMA SameExtends ==
  ASSUME NEW calls \in Seq(Requests)
  PROVE  /\ Extends(calls, calls)
         /\ \A r \in Requests : /\ Extends(Append(calls, r), calls) /\ Append(calls, r) \in Seq(Requests)
                               /\ Len(Append(calls, r)) = Len(calls) + 1
                               /\ Append(calls, r)[Len(calls) + 1] = r
<1>1. Len(calls) \in Nat
  OBVIOUS
<1>2. Extends(calls, calls)
  BY <1>1 DEF Extends
<1>3. ASSUME NEW r \in Requests
      PROVE  /\ Extends(Append(calls, r), calls) /\ Append(calls, r) \in Seq(Requests)
             /\ Len(Append(calls, r)) = Len(calls) + 1
             /\ Append(calls, r)[Len(calls) + 1] = r
  <2>1. /\ Append(calls, r) \in Seq(Requests) /\ Len(Append(calls, r)) = Len(calls) + 1
        /\ Append(calls, r)[Len(calls) + 1] = r
        /\ \A i \in 1 .. Len(calls) : Append(calls, r)[i] = calls[i]
    OBVIOUS
  <2>2. Len(Append(calls, r)) \in Nat /\ Len(calls) <= Len(Append(calls, r))
    BY <2>1, <1>1
  <2>. QED BY <2>1, <2>2, <1>1 DEF Extends
<1>. QED BY <1>2, <1>3

LEMMA SavingRecords ==
  ASSUME ReplayInvariant, Save, saved' # Zeros, clean'
  PROVE  Recorded'
<1>1. /\ task = Idle /\ saved = Zeros /\ saved' = words /\ spare = NoSpare /\ words' = words /\ spare' = spare
      /\ task' = task /\ tape' = tape /\ given' = given
  BY DEF Save, randomVars
<1>2. tape = <<>> /\ given = <<>>
  BY <1>1 DEF ReplayInvariant
<1>3. Start' = At(words', spare', task', given')
  BY <1>1, <1>2 DEF Start
<1>. DEFINE m == At(words', spare', task', given')
            calls == tape'
<1>4. m.out = <<>>
  BY <1>1, <1>2, AtFields
<1>. HIDE DEF m, calls
<1>5. \E T, N, S : Trace(T, N, S, m, m, calls)
  BY <1>4, TraceStarts
<1>6. Len(<<>>) = 0
  OBVIOUS
<1>. QED BY <1>1, <1>2, <1>3, <1>5, <1>6 DEF Recorded, m, calls

(* A step before the state is restored.                                    *)
LEMMA RecordingGoesOn ==
  ASSUME ReplayInvariant, Recorded, saved # Zeros, ~replaying, saved' = saved,
         Extends(tape', tape), given' = Told(given),
         Follows(At(words, spare, task, given), At(words', spare', task', given'), tape'),
         IF task = Idle THEN Len(tape') = Len(tape) + 1 ELSE tape' = tape
  PROVE  Recorded'
<1>1. PICK T, N, S : Trace(T, N, S, Start, At(words, spare, task, given), tape)
  BY DEF Recorded
<1>. DEFINE m == At(words, spare, task, given)
            n == At(words', spare', task', given')
            longer == tape'
            first == Start
<1>2. m.out = given /\ n.out = given'
  BY AtFields
<1>3. given' = given \/ \E x : given' = Append(given, x)
  BY DEF Told
<1>4. OneMore(m.out, n.out)
  BY <1>2, <1>3 DEF OneMore
<1>5. Follows(m, n, longer) /\ Extends(longer, tape) /\ Trace(T, N, S, first, m, tape)
  BY <1>1
<1>. HIDE DEF m, n, longer, first
<1>6. \E U, M, R : Trace(U, M, R, first, n, longer)
  BY <1>4, <1>5, TraceGrows
<1>7. Start' = Start
  BY DEF Start
<1>8. given \in Seq(S)
  <2>1. N \in 0 .. N /\ T[N] = m /\ T[N].out \in Seq(S)
    BY <1>5 DEF Trace
  <2>. QED BY <2>1, <1>2
<1>9. Len(given') = IF task' = Idle THEN Len(given) + 1 ELSE Len(given)
  <2>1. ASSUME NEW x PROVE Len(Append(given, x)) = Len(given) + 1
    <3>. DEFINE R == S \cup {x}
    <3>1. S \subseteq R /\ x \in R
      OBVIOUS
    <3>. HIDE DEF R
    <3>2. given \in Seq(R)
      BY <3>1, <1>8
    <3>. QED BY <3>1, <3>2
  <2>. QED BY <2>1 DEF Told
<1>10. Len(given) \in Nat /\ IF task = Idle THEN Len(given) = Len(tape) ELSE Len(given) + 1 = Len(tape)
  BY DEF Recorded
<1>11. /\ Len(given') \in Nat
       /\ IF task' = Idle THEN Len(given') = Len(longer) ELSE Len(given') + 1 = Len(longer)
  BY <1>9, <1>10 DEF longer
<1>. QED BY <1>6, <1>7, <1>11 DEF Recorded, first, n, longer

LEMMA RestoringReplays ==
  ASSUME ReplayInvariant, Recorded, Restore, clean'
  PROVE  Replayed'
<1>1. /\ task = Idle /\ words' = saved /\ spare = NoSpare /\ spare' = spare /\ task' = task
      /\ saved' = saved /\ tape' = tape /\ given' = given /\ heard' = heard /\ ~replaying
  BY DEF Restore, SetState
<1>2. heard = <<>>
  BY <1>1 DEF ReplayInvariant
<1>. DEFINE last == At(words, spare, task, given)
<1>3. last.out = given /\ last.task = Idle
  BY <1>1, AtFields
<1>. HIDE DEF last
<1>4. PICK T, N, S : Trace(T, N, S, Start, last, tape)
  BY DEF Recorded, last
<1>5. Len(given) = Len(tape)
  BY <1>1 DEF Recorded
<1>6. Start' = Start /\ Start = At(words', spare', task', heard')
  BY <1>1, <1>2 DEF Start
<1>7. 0 \in 0 .. N /\ T[0] = At(words', spare', task', heard')
  BY <1>4, <1>6 DEF Trace
<1>8. /\ Trace(T, N, S, Start', last, tape')
      /\ last.out = given' /\ last.task = Idle /\ Len(given') = Len(tape')
      /\ \E j \in 0 .. N : T[j] = At(words', spare', task', heard')
  BY <1>1, <1>3, <1>4, <1>5, <1>6, <1>7
<1>. QED BY <1>8 DEF Replayed

(* A step after the state was restored: from where the trace was, there is *)
(* no other way on.                                                        *)
LEMMA ReplayingGoesOn ==
  ASSUME Replayed, saved' = saved, tape' = tape, given' = given,
         Follows(At(words, spare, task, heard), At(words', spare', task', heard'), tape)
  PROVE  Replayed'
<1>. DEFINE m == At(words, spare, task, heard)
            n == At(words', spare', task', heard')
<1>. HIDE DEF m, n
<1>1. PICK T, N, S, last :
        /\ Trace(T, N, S, Start, last, tape)
        /\ last.out = given /\ last.task = Idle /\ Len(given) = Len(tape)
        /\ \E j \in 0 .. N : T[j] = m
  BY DEF Replayed, m
<1>2. PICK j \in 0 .. N : T[j] = m
  BY <1>1
<1>3. Follows(m, n, tape)
  BY DEF m, n
<1>4. N \in Nat /\ T[N] = last /\ N \in 0 .. N /\ T[N].out \in Seq(S)
      /\ \A i \in 1 .. N : Follows(T[i - 1], T[i], tape)
  <2>1. N \in Nat
    BY <1>1 DEF Trace
  <2>2. N \in 0 .. N
    BY <2>1
  <2>. QED BY <2>1, <2>2, <1>1 DEF Trace
<1>5. j # N
  <2>. SUFFICES ASSUME j = N PROVE FALSE
    OBVIOUS
  <2>1. m = last
    BY <1>2, <1>4
  <2>2. Len(last.out) \in Nat
    BY <1>4
  <2>3. Len(last.out) < Len(tape) /\ Len(last.out) = Len(tape)
    BY <2>1, <1>1, <1>3 DEF Follows
  <2>. QED BY <2>2, <2>3
<1>6. j + 1 \in 1 .. N /\ j + 1 \in 0 .. N /\ (j + 1) - 1 = j
  BY <1>4, <1>5
<1>. DEFINE next == T[j + 1]
<1>7. Follows(m, next, tape)
  <2>. DEFINE e == j + 1
  <2>1. e \in 1 .. N /\ e - 1 = j
    BY <1>6
  <2>. HIDE DEF e
  <2>2. Follows(T[e - 1], T[e], tape)
    BY <2>1, <1>4
  <2>. QED BY <2>1, <2>2, <1>2 DEF e
<1>8. next = n
  BY <1>3, <1>7 DEF Follows
<1>9. Start' = Start
  BY DEF Start
<1>10. \E i \in 0 .. N : T[i] = n
  BY <1>6, <1>8
<1>. HIDE DEF next
<1>11. /\ Trace(T, N, S, Start', last, tape')
       /\ last.out = given' /\ last.task = Idle /\ Len(given') = Len(tape')
       /\ \E i \in 0 .. N : T[i] = At(words', spare', task', heard')
  BY <1>1, <1>9, <1>10 DEF n
<1>. QED BY <1>11 DEF Replayed

LEMMA ReplayStarts == ReplayInit => ReplayInvariant
<1>. SUFFICES ASSUME ReplayInit PROVE ReplayInvariant
  OBVIOUS
<1>1. /\ task = Idle /\ saved = Zeros /\ clean = TRUE /\ tape = <<>> /\ given = <<>> /\ replaying = FALSE
      /\ heard = <<>>
  BY DEF ReplayInit, RandomInit
<1>2. tape \in Seq(Requests) /\ clean \in BOOLEAN /\ replaying \in BOOLEAN /\ ~replaying
  <2>1. <<>> \in Seq(Requests) /\ TRUE \in BOOLEAN /\ FALSE \in BOOLEAN
    OBVIOUS
  <2>. QED BY <2>1, <1>1, Zenon
<1>3. TaskShape
  BY <1>1 DEF TaskShape
<1>. HIDE DEF TaskShape, Zeros
<1>. QED BY <1>1, <1>2, <1>3, Zenon DEF ReplayInvariant

LEMMA ReplayContinues ==
  ASSUME ReplayInvariant, Continue
  PROVE  ReplayInvariant'
<1>1. DrawNext /\ Hear /\ saved' = saved /\ clean' = clean /\ tape' = tape /\ replaying' = replaying
  BY DEF Continue
<1>2. TaskShape /\ tape \in Seq(Requests) /\ clean \in BOOLEAN /\ replaying \in BOOLEAN
  BY DEF ReplayInvariant
<1>3. task # Idle /\ Steps(given) /\ Steps(heard)
  BY <1>1, <1>2, DrawsAreDetermined
<1>4. CASE saved = Zeros
  <2>1. given' = given /\ heard' = heard
    BY <1>1, <1>4 DEF Hear
  <2>. QED BY <2>1, <1>1, <1>2, <1>3, <1>4 DEF ReplayInvariant, Steps
<1>5. CASE saved # Zeros /\ ~replaying
  <2>1. given' = Told(given) /\ heard' = heard
    BY <1>1, <1>5 DEF Hear, Told
  <2>2. Extends(tape', tape)
    BY <1>1, <1>2, SameExtends
  <2>3. Follows(At(words, spare, task, given), At(words', spare', task', given'), tape')
    BY <2>1, <1>3, AtFields DEF Steps, Follows
  <2>4. clean => Recorded'
    <3>. SUFFICES ASSUME clean PROVE Recorded'
      OBVIOUS
    <3>1. Recorded
      BY <1>5 DEF ReplayInvariant
    <3>. QED BY <3>1, <2>1, <2>2, <2>3, <1>1, <1>3, <1>5, RecordingGoesOn
  <2>5. heard' = <<>>
    BY <2>1, <1>5 DEF ReplayInvariant
  <2>. QED BY <2>4, <2>5, <1>1, <1>2, <1>3, <1>5 DEF ReplayInvariant, Steps
<1>6. CASE saved # Zeros /\ replaying
  <2>1. heard' = Told(heard) /\ given' = given
    BY <1>1, <1>6 DEF Hear, Told
  <2>2. Follows(At(words, spare, task, heard), At(words', spare', task', heard'), tape)
    BY <2>1, <1>3, AtFields DEF Steps, Follows
  <2>3. clean => Replayed'
    <3>. SUFFICES ASSUME clean PROVE Replayed'
      OBVIOUS
    <3>1. Replayed
      BY <1>6 DEF ReplayInvariant
    <3>. QED BY <3>1, <2>1, <2>2, <1>1, ReplayingGoesOn
  <2>. QED BY <2>3, <1>1, <1>2, <1>3, <1>6 DEF ReplayInvariant, Steps
<1>. QED BY <1>4, <1>5, <1>6

LEMMA ReplayAsks ==
  ASSUME ReplayInvariant, NEW r \in Requests, Ask(r)
  PROVE  ReplayInvariant'
<1>1. Begin(r) /\ Hear /\ saved' = saved /\ clean' = clean /\ replaying' = replaying
  BY DEF Ask
<1>2. TaskShape /\ tape \in Seq(Requests) /\ clean \in BOOLEAN /\ replaying \in BOOLEAN
  BY DEF ReplayInvariant
<1>3. task = Idle /\ TaskShape'
  BY <1>1, BeginningsAreDetermined
<1>4. CASE saved = Zeros
  <2>1. given' = given /\ heard' = heard /\ ~replaying
    BY <1>1, <1>4 DEF Hear, ReplayInvariant
  <2>2. tape' = tape
    BY <2>1, <1>4 DEF Ask
  <2>. QED BY <2>1, <2>2, <1>1, <1>2, <1>3, <1>4 DEF ReplayInvariant
<1>5. CASE saved # Zeros /\ ~replaying
  <2>1. given' = Told(given) /\ heard' = heard /\ tape' = Append(tape, r)
    BY <1>1, <1>5 DEF Hear, Told, Ask
  <2>2. /\ Extends(tape', tape) /\ tape' \in Seq(Requests) /\ Len(tape') = Len(tape) + 1
        /\ tape'[Len(tape) + 1] = r
    BY <2>1, <1>2, SameExtends
  <2>3. At(words', spare', task', given') = Started(At(words, spare, task, given), r)
    BY <2>1, <1>1, BeginningsAreDetermined
  <2>4. clean => Recorded'
    <3>. SUFFICES ASSUME clean PROVE Recorded'
      OBVIOUS
    <3>1. Recorded
      BY <1>5 DEF ReplayInvariant
    <3>2. Len(given) = Len(tape) /\ Len(given) \in Nat
      BY <3>1, <1>3 DEF Recorded
    <3>3. Len(given) < Len(tape') /\ tape'[Len(given) + 1] = r
      BY <3>2, <2>2
    <3>4. Follows(At(words, spare, task, given), At(words', spare', task', given'), tape')
      BY <3>3, <2>3, <1>3, AtFields DEF Follows
    <3>. QED BY <3>1, <3>4, <2>1, <2>2, <1>1, <1>3, <1>5, RecordingGoesOn
  <2>5. heard' = <<>>
    BY <2>1, <1>5 DEF ReplayInvariant
  <2>. QED BY <2>2, <2>4, <2>5, <1>1, <1>2, <1>3, <1>5 DEF ReplayInvariant
<1>6. CASE saved # Zeros /\ replaying
  <2>1. /\ heard' = Told(heard) /\ given' = given /\ tape' = tape
        /\ Len(heard) < Len(tape) /\ r = tape[Len(heard) + 1]
    BY <1>1, <1>6 DEF Hear, Told, Ask
  <2>2. At(words', spare', task', heard') = Started(At(words, spare, task, heard), r)
    BY <2>1, <1>1, BeginningsAreDetermined
  <2>3. Follows(At(words, spare, task, heard), At(words', spare', task', heard'), tape)
    BY <2>1, <2>2, <1>3, AtFields DEF Follows
  <2>4. clean => Replayed'
    <3>. SUFFICES ASSUME clean PROVE Replayed'
      OBVIOUS
    <3>1. Replayed
      BY <1>6 DEF ReplayInvariant
    <3>. QED BY <3>1, <2>1, <2>3, <1>1, ReplayingGoesOn
  <2>. QED BY <2>1, <2>4, <1>1, <1>2, <1>3, <1>6 DEF ReplayInvariant
<1>. QED BY <1>4, <1>5, <1>6

LEMMA ReplayInductive == ReplayInvariant /\ [CallRandom]_<<randomVars, replayVars>> => ReplayInvariant'
<1>. SUFFICES ASSUME ReplayInvariant, [CallRandom]_<<randomVars, replayVars>> PROVE ReplayInvariant'
  OBVIOUS
<1>1. CASE CallSeed
  <2>1. /\ saved = Zeros /\ saved' = saved /\ task' = task /\ tape' = tape /\ given' = given /\ heard' = heard
        /\ clean' = clean /\ replaying' = replaying
    BY <1>1 DEF CallSeed, Seed
  <2>. QED BY <2>1 DEF ReplayInvariant, TaskShape
<1>2. CASE Save
  <2>1. /\ saved = Zeros /\ task' = task /\ tape' = tape /\ given' = given /\ heard' = heard
        /\ clean' = (spare = NoSpare) /\ replaying' = replaying
    BY <1>2 DEF Save, randomVars
  <2>2. saved' # Zeros /\ clean' => Recorded'
    BY <1>2, SavingRecords
  <2>. QED BY <2>1, <2>2 DEF ReplayInvariant, TaskShape
<1>3. CASE Restore
  <2>1. /\ ~replaying /\ replaying' = TRUE /\ saved' = saved /\ saved # Zeros /\ task' = task /\ tape' = tape
        /\ clean' = (clean /\ spare = NoSpare)
    BY <1>3 DEF Restore, SetState
  <2>2. clean' => Replayed'
    <3>. SUFFICES ASSUME clean' PROVE Replayed'
      OBVIOUS
    <3>1. Recorded
      BY <2>1 DEF ReplayInvariant
    <3>. QED BY <3>1, <1>3, RestoringReplays
  <2>. QED BY <2>1, <2>2 DEF ReplayInvariant, TaskShape
<1>4. CASE Continue
  BY <1>4, ReplayContinues
<1>5. CASE Rerun
  <2>1. /\ saved' = Zeros /\ clean' = TRUE /\ tape' = <<>> /\ given' = <<>> /\ replaying' = FALSE /\ heard' = <<>>
        /\ task' = task
    BY <1>5 DEF Rerun
  <2>2. tape' \in Seq(Requests) /\ clean' \in BOOLEAN /\ replaying' \in BOOLEAN /\ ~replaying'
    <3>1. <<>> \in Seq(Requests) /\ TRUE \in BOOLEAN /\ FALSE \in BOOLEAN
      OBVIOUS
    <3>. QED BY <3>1, <2>1, Zenon
  <2>3. TaskShape'
    BY <2>1 DEF ReplayInvariant, TaskShape
  <2>. QED BY <2>1, <2>2, <2>3, Zenon DEF ReplayInvariant
<1>6. ASSUME NEW r \in Requests, Ask(r) PROVE ReplayInvariant'
  BY <1>6, ReplayAsks
<1>7. CASE UNCHANGED <<randomVars, replayVars>>
  <2>1. /\ saved' = saved /\ task' = task /\ tape' = tape /\ given' = given /\ heard' = heard
        /\ clean' = clean /\ replaying' = replaying /\ words' = words /\ spare' = spare
    BY <1>7 DEF randomVars, replayVars
  <2>2. Start' = Start
    BY <2>1 DEF Start
  <2>. QED BY <2>1, <2>2 DEF ReplayInvariant, TaskShape, Recorded, Replayed
<1>. QED BY <1>1, <1>2, <1>3, <1>4, <1>5, <1>6, <1>7 DEF CallRandom

(* A saved state replays the samples that followed it, call by call,       *)
(* when no spare sample waits at either end: for words of every width,     *)
(* every number of calls and whatever the distributions reject             *)
(* (RNG.c:125-150, 295-442).                                               *)
THEOREM SavedStatesReplay == ReplaySpec => []ReplayRepeats
<1>1. ASSUME ReplayInvariant PROVE ReplayRepeats
  <2>. SUFFICES ASSUME replaying, clean, NEW i \in DOMAIN heard PROVE heard[i] = given[i]
    BY DEF ReplayRepeats
  <2>1. Replayed
    BY <1>1 DEF ReplayInvariant
  <2>2. PICK T, N, S, last :
          /\ Trace(T, N, S, Start, last, tape) /\ last.out = given
          /\ \E j \in 0 .. N : T[j] = At(words, spare, task, heard)
    BY <2>1 DEF Replayed
  <2>3. PICK j \in 0 .. N : T[j] = At(words, spare, task, heard)
    BY <2>2
  <2>4. T[j].out = heard
    BY <2>3, AtFields
  <2>5. heard \in Seq(S) /\ Precedes(T[j], last)
    BY <2>2, <2>3, <2>4 DEF Trace
  <2>6. i \in 1 .. Len(heard)
    BY <2>5
  <2>. QED BY <2>2, <2>4, <2>5, <2>6 DEF Precedes
<1>. QED BY <1>1, ReplayStarts, ReplayInductive, PTL DEF ReplaySpec
=============================================================================
