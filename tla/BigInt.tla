-------------------------------- MODULE BigInt --------------------------------
(***************************************************************************)
(* Arbitrary-precision integers (Kernel/Operations/BigInt/BigInt.c) on     *)
(* limbs of LimbBits bits, least significant first, with a sign.  A value  *)
(* is the record [limbs, negative]; len is the length of limbs.  Loops     *)
(* over limbs that hand on a carry are Propagate.  Of the two builds of    *)
(* each loop this is the one with 128-bit integers.                        *)
(*                                                                         *)
(* Not modelled: writing past the array.  The caller of Sum and DivMod     *)
(* keeps their results within MaxLimbs limbs.                              *)
(***************************************************************************)
EXTENDS Integers, Sequences, SequencesExt, FiniteSetsExt

CONSTANTS
  LimbBits,   (* 64 *)
  MaxLimbs,   (* BIGINT_MAX_LIMBS: 64, or 4 *)
  Radix       (* of the texts: 10 *)

ASSUME BigIntAssumption ==
  /\ {LimbBits, MaxLimbs} \subseteq Nat \ {0}
  /\ Radix \in 2 .. 2 ^ LimbBits - 1

Base == 2 ^ LimbBits

Limbs(n) == [1 .. n -> 0 .. Base - 1]
BigInts == [limbs : UNION {Limbs(n) : n \in 1 .. MaxLimbs}, negative : BOOLEAN]

(* The number that limbs stand for, and that a value stands for. *)
Number(s) ==
  LET From[i \in Nat \ {0}] == IF i \in DOMAIN s THEN s[i] + Base * From[i + 1] ELSE 0
  IN  From[1]
ValueOf(a) == IF a.negative THEN -Number(a.limbs) ELSE Number(a.limbs)

(* A limb beyond the length counts as zero. *)
Limb(s, i) == IF i \in DOMAIN s THEN s[i] ELSE 0

Trim(s) == SubSeq(s, 1, Max({1} \cup {i \in DOMAIN s : s[i] # 0}))

(* Mutant: zero keeps its sign. *)
MutNormal(s, negative) == [limbs |-> Trim(s), negative |-> negative]

(* bigint_normalize: zero is never negative. *)
Normal(s, negative) == [limbs |-> Trim(s), negative |-> negative /\ Trim(s) # <<0>>]

Word(w) == [limbs |-> <<w>>, negative |-> FALSE]
BigZero == Word(0)
IsZero(a) == a.limbs = <<0>>
Absolute(a) == [a EXCEPT !.negative = FALSE]
Negated(a) == IF IsZero(a) THEN a ELSE [a EXCEPT !.negative = ~@]

(* What a result should be: trimmed, without a negative zero, and the      *)
(* number i.                                                               *)
IsCanonical(a) == a.limbs = Trim(a.limbs) /\ (IsZero(a) => ~a.negative)
IsNumber(a, i) == IsCanonical(a) /\ ValueOf(a) = i

-------------------------------------------------------------------------------
(* Comparison: 1, 0 or -1. *)

Sign(larger) == IF larger THEN 1 ELSE -1

CompareMagnitude(s, t) ==
  LET differ == {i \in DOMAIN s : s[i] # Limb(t, i)} IN
  IF Len(s) # Len(t) THEN Sign(Len(s) > Len(t))
  ELSE IF differ = {} THEN 0
  ELSE Sign(s[Max(differ)] > t[Max(differ)])

Compare(a, b) ==
  IF a.negative # b.negative THEN Sign(b.negative)
  ELSE IF a.negative THEN -CompareMagnitude(a.limbs, b.limbs)
  ELSE CompareMagnitude(a.limbs, b.limbs)

-------------------------------------------------------------------------------
(* Sums and products. *)

(* Columns from the least significant one; what a column has beyond a limb, *)
(* or lacks, goes to the next.                                             *)
Propagate(column) ==
  LET Carry[i \in 0 .. Len(column)] ==
        IF i = 0 THEN 0 ELSE (column[i] + Carry[i - 1]) \div Base
  IN  [digits |-> [i \in DOMAIN column |-> (column[i] + Carry[i - 1]) % Base],
       carry  |-> Carry[Len(column)]]

(* One limb more for a carry that is left. *)
Carried(sum) == IF sum.carry = 0 THEN sum.digits ELSE Append(sum.digits, sum.carry)

AddMagnitude(s, t) ==
  Carried(Propagate([i \in 1 .. Max({Len(s), Len(t)}) |-> Limb(s, i) + Limb(t, i)]))

(* The magnitude s is not below t. *)
SubMagnitude(s, t) == Propagate([i \in DOMAIN s |-> s[i] - Limb(t, i)]).digits

Sum(a, b) ==
  IF a.negative = b.negative THEN Normal(AddMagnitude(a.limbs, b.limbs), a.negative)
  ELSE IF CompareMagnitude(a.limbs, b.limbs) >= 0
  THEN Normal(SubMagnitude(a.limbs, b.limbs), a.negative)
  ELSE Normal(SubMagnitude(b.limbs, a.limbs), b.negative)

Difference(a, b) == Sum(a, Negated(b))

(* Row i of the schoolbook product s * t, added to the limbs r.  What goes *)
(* beyond MaxLimbs limbs is dropped.                                       *)
AddRow(r, i, s, t) ==
  LET width == Min({Len(t), MaxLimbs - i + 1})
      row   == Propagate([j \in 1 .. width |-> s[i] * t[j] + r[i + j - 1]])
  IN  [k \in 1 .. MaxLimbs |->
         CASE k \in i .. i + width - 1 -> row.digits[k - i + 1]
           [] k = i + Len(t)           -> (r[k] + row.carry) % Base
           [] OTHER                    -> r[k]]

Product(a, b) ==
  LET Rows[n \in 0 .. Len(a.limbs)] ==
        IF n = 0 THEN [k \in 1 .. MaxLimbs |-> 0] ELSE AddRow(Rows[n - 1], n, a.limbs, b.limbs)
  IN  IF IsZero(a) \/ IsZero(b) THEN BigZero
      ELSE Normal(SubSeq(Rows[Len(a.limbs)], 1, Min({Len(a.limbs) + Len(b.limbs), MaxLimbs})),
                  a.negative # b.negative)

(* bigint_pow, by squaring from the lowest bit of e. *)
Power(a, e) ==
  LET Loop[base \in BigInts, k \in Nat, r \in BigInts] ==
        IF k = 0 THEN r
        ELSE Loop[Product(base, base), k \div 2, IF k % 2 = 1 THEN Product(r, base) ELSE r]
  IN  IF e = 1 THEN a ELSE Loop[a, e, Word(1)]

Factorial(n) == FoldLeft(Product, Word(1), [i \in 1 .. n - 1 |-> Word(i + 1)])

-------------------------------------------------------------------------------
(* Knuth's algorithm D. *)

LeadingZeros(w) == Min({k \in 0 .. LimbBits : w * 2 ^ k >= Base \div 2})

ShiftLeft(s, k) ==
  Carried(Propagate([i \in DOMAIN s |-> s[i] * 2 ^ k]))

ShiftRight(s, k) ==
  [i \in DOMAIN s |-> (s[i] \div 2 ^ k) + ((Limb(s, i + 1) * 2 ^ (LimbBits - k)) % Base)]

(* The digit estimated from the top of the dividend, cut to a limb, and    *)
(* corrected up to three times.                                            *)
Estimate(u, v, j) ==
  LET n   == Len(v)
      top == Limb(u, j + n + 1) * Base + Limb(u, j + n)
      Correct[k \in 0 .. 3, q \in Int, r \in Nat] ==
        IF k = 0 \/ q * Limb(v, n - 1) <= r * Base + Limb(u, j + n - 1) THEN q
        ELSE IF (r + v[n]) % Base < v[n] THEN q - 1
        ELSE Correct[k - 1, q - 1, (r + v[n]) % Base]
  IN  Correct[3, (top \div v[n]) % Base, top % v[n]]

(* The limbs of u from j + 1 on, replaced. *)
Replaced(u, j, digits) ==
  [i \in DOMAIN u |-> IF i - j \in DOMAIN digits THEN digits[i - j] ELSE u[i]]

(* Mutant: the carry is lost. *)
MutAddBack(u, v, j) ==
  Replaced(u, j, [i \in 1 .. Len(v) + 1 |-> (u[j + i] + Limb(v, i)) % Base])

(* v added back to u; the carry out of a limb is guessed from the sum.     *)
AddBack(u, v, j) ==
  LET Digit(st, s, i) == [digits |-> Append(st.digits, s), carry |-> IF s < v[i] THEN 1 ELSE 0]
      Add(st, i) == Digit(st, (u[j + i] + v[i] + st.carry) % Base, i)
      sum == FoldLeft(Add, [digits |-> <<>>, carry |-> 0], [i \in DOMAIN v |-> i])
  IN  Replaced(u, j, Append(sum.digits, (u[j + Len(v) + 1] + sum.carry) % Base))

(* One digit q of the quotient: u less q * v, shifted by j limbs. *)
Step(st, v, j, q) ==
  LET diff == Propagate([i \in 1 .. Len(v) + 1 |-> st.u[j + i] - q * Limb(v, i)])
      u    == Replaced(st.u, j, diff.digits)
  IN  IF diff.carry < 0 THEN [u |-> AddBack(u, v, j), q |-> <<(q - 1) % Base>> \o st.q]
      ELSE [u |-> u, q |-> <<q>> \o st.q]

(* The dividend, shifted like the divisor, has a limb more than it at least. *)
Dividend(s, t) ==
  LET Widened(u) == IF Len(u) <= Len(t) THEN Append(u, 0) ELSE u
  IN  Widened(ShiftLeft(s, LeadingZeros(Last(t))))

LongDivision(s, t) ==
  LET Divided(u, v, m) == FoldLeft(LAMBDA st, j : Step(st, v, j, Estimate(st.u, v, j)),
                                   [u |-> u, q |-> <<>>], [k \in 1 .. m |-> m - k])
      ByShifted(u, v) == Divided(u, v, Len(u) - Len(v))
  IN  ByShifted(Dividend(s, t), ShiftLeft(t, LeadingZeros(Last(t))))

(* bigint_div_mod on the memory mem: from the values at a and b to those   *)
(* at q and r, in the order of the assignments; places may coincide.       *)
DivMod(mem, a, b, q, r) ==
  LET s == mem[a].limbs
      t == mem[b].limbs
      negative == mem[a].negative # mem[b].negative
      zeroed   == [mem EXCEPT ![q] = BigZero]
      one      == [limbs |-> <<1>>, negative |-> negative]
      Long(st) ==
        [[mem EXCEPT ![q] = Normal(st.q, negative)] EXCEPT
           ![r] = Normal(ShiftRight(SubSeq(st.u, 1, Len(t)), LeadingZeros(Last(t))), FALSE)]
  IN  IF IsZero(mem[b]) THEN mem
      ELSE IF CompareMagnitude(s, t) < 0
      THEN [zeroed EXCEPT ![r] = Normal(zeroed[a].limbs, zeroed[a].negative)]
      ELSE IF CompareMagnitude(s, t) = 0 THEN [[mem EXCEPT ![q] = one] EXCEPT ![r] = BigZero]
      ELSE Long(LongDivision(s, t))

-------------------------------------------------------------------------------
(* Texts: digits from the most significant one, and the sign. *)

ToText(a) ==
  LET Loop[m \in [{"temp", "ten", "rem"} -> BigInts], digits \in Seq(Nat)] ==
        LET Onward(d) == Loop[d, <<d["rem"].limbs[1]>> \o digits]
        IN  IF IsZero(m["temp"]) THEN digits ELSE Onward(DivMod(m, "temp", "ten", "temp", "rem"))
      start == [x \in {"temp", "ten", "rem"} |-> IF x = "temp" THEN Absolute(a) ELSE Word(Radix)]
  IN  [digits |-> IF IsZero(a) THEN <<0>> ELSE Loop[start, <<>>], negative |-> a.negative]

FromText(text) ==
  LET read == FoldLeft(LAMBDA r, d : Sum(Product(r, Word(Radix)), Word(d)), BigZero, text.digits)
  IN  Normal(read.limbs, text.negative)

-------------------------------------------------------------------------------
(* bigint_gcd: powers of two apart, by remainders. *)

IsEven(s) == s[1] % 2 = 0
Halved(s) == Trim(ShiftRight(s, 1))
Odd[s \in Seq(Nat)] == IF IsEven(s) THEN Odd[Halved(s)] ELSE s
CommonTwos[s \in Seq(Nat), t \in Seq(Nat)] ==
  IF IsEven(s) /\ IsEven(t) THEN 1 + CommonTwos[Halved(s), Halved(t)] ELSE 0

(* Quotient and remainder have one place; the remainder is written last. *)
Euclid[a \in BigInts, b \in BigInts] ==
  IF IsZero(b) THEN a
  ELSE LET m == DivMod([x \in {"a", "b", "rem"} |-> IF x = "a" THEN a ELSE b],
                       "a", "b", "rem", "rem")
       IN  Euclid[b, m["rem"]]

GcdOf(a, b) ==
  LET Doubled(r, i) == Product(r, Word(2))
      g == Euclid[[limbs |-> Odd[a.limbs], negative |-> FALSE],
                  [limbs |-> Odd[b.limbs], negative |-> FALSE]]
  IN  IF IsZero(a) THEN Absolute(b)
      ELSE IF IsZero(b) THEN Absolute(a)
      ELSE Absolute(FoldLeft(Doubled, g, [i \in 1 .. CommonTwos[a.limbs, b.limbs] |-> i]))
===============================================================================
