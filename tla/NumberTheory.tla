----------------------------- MODULE NumberTheory -----------------------------
(***************************************************************************)
(* Number theory on words of WordBits bits                                 *)
(* (Kernel/Operations/NumberTheory/NumberTheory.c) and the fractions that  *)
(* use its gcd (Operations/Rational, State/NumericValue.c).  Unsigned      *)
(* arithmetic wraps; the signed arithmetic of extended_gcd is unbounded,   *)
(* and exact for words below half the range.                               *)
(***************************************************************************)
EXTENDS Integers, Sequences, SequencesExt, FiniteSets

CONSTANTS
  WordBits,     (* 64 *)
  TrialLimit,   (* of the trial division: 65536, a quarter of the bits *)
  MaxCount      (* congruences: 8 *)

ASSUME NumberTheoryAssumption == {WordBits, TrialLimit, MaxCount} \subseteq Nat \ {0}

WordRange == 2 ^ WordBits
Words == 0 .. WordRange - 1

-------------------------------------------------------------------------------
(* Stein's gcd. *)

OddPart[n \in Nat \ {0}] == IF n % 2 = 1 THEN n ELSE OddPart[n \div 2]
Twos[n \in Nat \ {0}] == IF n % 2 = 1 THEN 0 ELSE 1 + Twos[n \div 2]
Smaller(a, b) == IF a <= b THEN a ELSE b
Larger(a, b) == IF a <= b THEN b ELSE a

(* The loop: a is odd. *)
Subtract[a \in Nat \ {0}, b \in Nat \ {0}] ==
  LET c == OddPart[b] IN IF a = c THEN a ELSE Subtract[Smaller(a, c), Larger(a, c) - Smaller(a, c)]

Gcd(a, b) ==
  IF a = 0 THEN b
  ELSE IF b = 0 THEN a
  ELSE Subtract[OddPart[a], b] * 2 ^ Smaller(Twos[a], Twos[b])

Lcm(a, b) == IF a = 0 \/ b = 0 THEN 0 ELSE ((a \div Gcd(a, b)) * b) % WordRange

-------------------------------------------------------------------------------
(* Powers and primes. *)

MulMod(a, b, m) == (a * b) % m

ModExp(base, exp, m) ==
  LET Loop[b \in Nat, e \in Nat, r \in Nat] ==
        IF e = 0 THEN r
        ELSE Loop[MulMod(b, b, m), e \div 2, IF e % 2 = 1 THEN MulMod(r, b, m) ELSE r]
  IN  IF m = 1 THEN 0 ELSE Loop[base % m, exp, 1]

(* a shows that n, with n - 1 = d * 2^s, is composite. *)
IsWitness(a, d, s, n) ==
  LET Squared[r \in Nat] == IF r = 0 THEN ModExp(a, d, n) ELSE MulMod(Squared[r - 1], Squared[r - 1], n)
  IN  Squared[0] # 1 /\ \A r \in 0 .. s - 1 : Squared[r] # n - 1

Bases == {2, 3, 5, 7, 11, 13, 17, 19, 23, 29, 31, 37}

(* Some number 6 k - 1 or 6 k + 1 of the trial division divides n. *)
TrialDivides(n) ==
  \E i \in {j \in 5 .. TrialLimit : j % 6 = 5 /\ j * j <= n} : n % i = 0 \/ n % (i + 2) = 0

IsPrime(n) ==
  CASE n <= 1                                   -> FALSE
    [] n \in {2, 3}                             -> TRUE
    [] n > 3 /\ (n % 2 = 0 \/ n % 3 = 0 \/ TrialDivides(n)) -> FALSE
    [] OTHER -> \/ n < TrialLimit * TrialLimit
                \/ \A a \in {b \in Bases : b < n} : ~IsWitness(a, OddPart[n - 1], Twos[n - 1], n)

(* From an odd candidate on; zero when the words end. *)
NextPrime(n) ==
  LET From[c \in Nat] ==
        IF c >= WordRange THEN 0
        ELSE IF IsPrime(c) THEN c
        ELSE From[c + 2]
  IN  IF n < 2 THEN 2 ELSE From[IF n % 2 = 0 THEN n + 1 ELSE n + 2]

(* n without its factors p, and Euler's function by trial division: the    *)
(* square of p wraps.                                                      *)
Without[n \in Nat \ {0}, p \in Nat] == IF n % p = 0 THEN Without[n \div p, p] ELSE n

Totient(n) ==
  LET Loop[k \in Nat, p \in Nat, r \in Nat] ==
        IF (p * p) % WordRange > k THEN IF k > 1 THEN (r \div k) * (k - 1) ELSE r
        ELSE IF k % p = 0 THEN Loop[Without[k, p], p + 2, (r \div p) * (p - 1)]
        ELSE Loop[k, p + 2, r]
  IN  IF n <= 1 THEN n
      ELSE IF n % 2 = 0 THEN Loop[Without[n, 2], 3, n \div 2]
      ELSE Loop[n, 3, n]

-------------------------------------------------------------------------------
(* Congruences. *)

Magnitude(i) == IF i < 0 THEN -i ELSE i

(* The signed quotient of C, which rounds towards zero. *)
Quotient(a, b) ==
  IF (a < 0) = (b < 0) THEN Magnitude(a) \div Magnitude(b) ELSE -(Magnitude(a) \div Magnitude(b))

(* old = [r, s, t] and new: remainder and coefficients of this step and    *)
(* of the next.                                                            *)
Remainders == [{"r", "s", "t"} -> Int]
Bezout[old \in Remainders, new \in Remainders] ==
  IF new["r"] = 0 THEN old
  ELSE Bezout[new, [k \in {"r", "s", "t"} |-> old[k] - Quotient(old["r"], new["r"]) * new[k]]]

(* extended_gcd, where a and b are not both zero. *)
ExtendedGcd(a, b) ==
  Bezout[[r |-> a, s |-> 1, t |-> 0], [r |-> b, s |-> 0, t |-> 1]]

(* The call answers false. *)
None == -1

(* Mutant: a negative coefficient is not brought into range. *)
MutModInverse(a, m) ==
  LET e == ExtendedGcd(a, m) IN IF m <= 1 \/ e["r"] # 1 THEN None ELSE e["s"]

ModInverse(a, m) ==
  LET e == ExtendedGcd(a, m) IN IF m <= 1 \/ e["r"] # 1 THEN None ELSE e["s"] % m

(* The solution x modulo m meets one more congruence r modulo mi. *)
Folded(sol, r, mi) ==
  LET inverse == ModInverse(sol.m % mi, mi)
      k == ((((r - sol.x) % mi) * inverse) % WordRange) % mi
      m == (sol.m * mi) % WordRange
  IN  IF sol.x = None \/ Gcd(sol.m, mi) # 1 \/ inverse = None THEN [sol EXCEPT !.x = None]
      ELSE [x |-> ((sol.x + sol.m * k) % WordRange) % m, m |-> m]

(* chinese_remainder, where no modulus is zero. *)
ChineseRemainder(remainders, moduli) ==
  LET Solve[n \in Nat] ==
        IF n = 1 THEN [x |-> remainders[1] % moduli[1], m |-> moduli[1]]
        ELSE Folded(Solve[n - 1], remainders[n], moduli[n])
  IN  IF Len(moduli) \notin 1 .. MaxCount THEN None ELSE Solve[Len(moduli)].x

-------------------------------------------------------------------------------
(* Rationals [num, den].  A denominator of zero marks a division by zero;  *)
(* Trap stands for the processor's own division by zero.                   *)

Trap == [num |-> 0, den |-> -1]

(* Mutant: the sign stays in the denominator. *)
MutSimplified(num, den) ==
  LET g == Gcd(Magnitude(num), Magnitude(den))
  IN  IF den = 0 THEN [num |-> num, den |-> den]
      ELSE IF num = 0 THEN [num |-> 0, den |-> 1]
      ELSE [num |-> Quotient(num, g), den |-> Quotient(den, g)]

(* numeric_simplify_rational *)
Simplified(num, den) ==
  LET g == Gcd(Magnitude(num), Magnitude(den))
      sign == IF den < 0 THEN -1 ELSE 1
  IN  IF den = 0 THEN [num |-> num, den |-> den]
      ELSE IF num = 0 THEN [num |-> 0, den |-> 1]
      ELSE [num |-> sign * Quotient(num, g), den |-> sign * Quotient(den, g)]

SignedGcd(a, b) == Gcd(Magnitude(a), Magnitude(b))

(* a + b, or a - b where sign = -1. *)
RationalSum(a, b, sign) ==
  LET g == SignedGcd(a.den, b.den) IN
  IF g = 0 THEN Trap
  ELSE Simplified(a.num * Quotient(b.den, g) + sign * b.num * Quotient(a.den, g),
                  a.den * Quotient(b.den, g))

(* (n1 / d1) * (n2 / d2), n1 reduced against d2 and n2 against d1. *)
CrossProduct(n1, d1, n2, d2) ==
  LET g1 == SignedGcd(n1, d2)
      g2 == SignedGcd(n2, d1)
  IN  IF g1 = 0 \/ g2 = 0 THEN Trap
      ELSE Simplified(Quotient(n1, g1) * Quotient(n2, g2), Quotient(d1, g2) * Quotient(d2, g1))

RationalProduct(a, b) == CrossProduct(a.num, a.den, b.num, b.den)
RationalRatio(a, b) == CrossProduct(a.num, a.den, b.den, b.num)
===============================================================================
