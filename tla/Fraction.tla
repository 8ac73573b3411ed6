------------------------------- MODULE Fraction -------------------------------
(***************************************************************************)
(* The numbers the expression parser computes with.  A double of the code  *)
(* is a fraction in lowest terms as long as both its parts stay small;     *)
(* every other value (a root, a logarithm, pi, a value out of range, NaN)  *)
(* is Inexact.  Arithmetic with Inexact is Inexact, a comparison with it   *)
(* is FALSE.  Rounding is not modelled: the inputs checked are exact.      *)
(***************************************************************************)
EXTENDS Integers

(* Products of two numbers up to Small fit the integers of TLC. *)
Small == 32767

Inexact == [n |-> 0, d |-> 0]

Fractions == [n : -Small .. Small, d : 0 .. Small]

LOCAL Magnitude(i) == IF i < 0 THEN -i ELSE i

CommonFactor[a \in Nat, b \in Nat] == IF b = 0 THEN a ELSE CommonFactor[b, a % b]

Capped(q) == IF q \in Fractions THEN q ELSE Inexact
Reduced(n, d, g) ==
  Capped([n |-> (IF d < 0 THEN -n ELSE n) \div g, d |-> Magnitude(d) \div g])

(* n / d in lowest terms with a positive denominator. *)
Fraction(n, d) == IF d = 0 THEN Inexact ELSE Reduced(n, d, CommonFactor[Magnitude(n), Magnitude(d)])

Num(i) == Capped([n |-> i, d |-> 1])
Zero == [n |-> 0, d |-> 1]
One == [n |-> 1, d |-> 1]

Exact(x) == x.d # 0
Negative(x) == Exact(x) /\ x.n < 0
Positive(x) == Exact(x) /\ x.n > 0
IsWhole(x) == x.d = 1

Plus(x, y) == Fraction(x.n * y.d + y.n * x.d, x.d * y.d)
Neg(x) == [x EXCEPT !.n = -@]
Minus(x, y) == Plus(x, Neg(y))
Times(x, y) == Fraction(x.n * y.n, x.d * y.d)
Over(x, y) == Fraction(x.n * y.d, x.d * y.n)
Less(x, y) == Exact(x) /\ Exact(y) /\ x.n * y.d < y.n * x.d
Greater(x, y) == Less(y, x)
AtMost(x, y) == x = y \/ Less(x, y)

(* The cast to int64_t: towards zero. *)
Truncated(x) == IF x.n < 0 THEN -((-x.n) \div x.d) ELSE x.n \div x.d

(* A root that is not a fraction is Inexact. *)
SquareRoot(x) ==
  LET Roots(i) == {r \in 0 .. 181 : r * r = i}
  IN  IF ~Exact(x) \/ Roots(x.n) = {} \/ Roots(x.d) = {} THEN Inexact
      ELSE [n |-> CHOOSE r \in Roots(x.n) : TRUE, d |-> CHOOSE r \in Roots(x.d) : TRUE]

(* x to the power of the natural number e: RaisedTo[e][x]. *)
RaisedTo[e \in Nat] == [x \in Fractions |->
  CASE e = 0      -> One
    [] e % 2 = 1  -> Times(x, RaisedTo[e - 1][x])
    [] OTHER      -> LET h == RaisedTo[e \div 2][x] IN Times(h, h)]
===============================================================================
