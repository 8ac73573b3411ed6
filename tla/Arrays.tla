-------------------------------- MODULE Arrays --------------------------------
(***************************************************************************)
(* Arrays of numbers.  Statistics of arrays of doubles                     *)
(* (Kernel/Operations/Statistics/Statistics.c) are over sequences of       *)
(* fractions, where NaN is Inexact.  The sums are taken in lanes: 1 for    *)
(* the scalar code, 2 for SSE2, 4 for AVX2.                                *)
(***************************************************************************)
EXTENDS Fraction, Sequences, SequencesExt

CONSTANT BufferLen  (* up to this length a copy is sorted: 256 *)

ASSUME StatisticsAssumption == BufferLen \in Nat

-------------------------------------------------------------------------------
(* Quicksort. *)

(* NaN is greater than every number. *)
NanSafeLess(x, y) == IF Exact(x) /\ Exact(y) THEN Less(x, y) ELSE Exact(x)

Exchange(a, i, j) == [a EXCEPT ![i] = a[j], ![j] = a[i]]
InOrder(a, i, j) == IF NanSafeLess(a[j], a[i]) THEN Exchange(a, i, j) ELSE a

(* The median of the first, the middle and the last element comes last. *)
MedianLast(a, left, right) ==
  LET mid == left + (right - left) \div 2
  IN  InOrder(InOrder(InOrder(a, left, mid), left, right), right, mid)

(* Mutant: the last element is skipped. *)
MutPartition(a, left, right) ==
  LET Move(st, j) ==
        IF NanSafeLess(st.a[j], a[right]) THEN [a |-> Exchange(st.a, st.i, j), i |-> st.i + 1]
        ELSE st
  IN  FoldLeft(Move, [a |-> a, i |-> left], [k \in 1 .. right - left |-> left + k - 1])

(* The elements below the last one come first, then the last one, at i. *)
Partition(a, left, right) ==
  LET Move(st, j) ==
        IF NanSafeLess(st.a[j], a[right]) THEN [a |-> Exchange(st.a, st.i, j), i |-> st.i + 1]
        ELSE st
      st == FoldLeft(Move, [a |-> a, i |-> left], [k \in 1 .. right - left |-> left + k - 1])
  IN  [st EXCEPT !.a = Exchange(@, st.i, right)]

(* The smaller part first. *)
Quicksort[a \in Seq(Fractions), left \in Int, right \in Int] ==
  LET p == Partition(MedianLast(a, left, right), left, right) IN
  IF left >= right THEN a
  ELSE IF p.i - left < right - p.i
  THEN Quicksort[Quicksort[p.a, left, p.i - 1], p.i + 1, right]
  ELSE Quicksort[Quicksort[p.a, p.i + 1, right], left, p.i - 1]

Sorted(a) == Quicksort[a, 1, Len(a)]

(* The caller's array after the call: a long one is sorted in place. *)
Left(a) == IF Len(a) <= BufferLen THEN a ELSE Sorted(a)

Half == Fraction(1, 2)

LOCAL MiddleOf(s) ==
  LET m == Len(s) \div 2
  IN  IF Len(s) % 2 = 1 THEN s[m + 1] ELSE Times(Plus(s[m], s[m + 1]), Half)
Median(a) == IF a = <<>> THEN Zero ELSE MiddleOf(Sorted(a))

Clamped(p) == IF Negative(p) THEN Zero ELSE IF Less(Num(100), p) THEN Num(100) ELSE p

LOCAL AtIndex(s, index) ==
  LET lo == Truncated(index)
  IN  IF lo + 1 >= Len(s) THEN s[Len(s)]
      ELSE Plus(s[lo + 1], Times(Minus(index, Num(lo)), Minus(s[lo + 2], s[lo + 1])))
Percentile(a, p) ==
  IF a = <<>> THEN Zero
  ELSE AtIndex(Sorted(a), Times(Over(Clamped(p), Num(100)), Num(Len(a) - 1)))

-------------------------------------------------------------------------------
(* Moments.  Each sum is taken in lanes, the rest of the array after them. *)

Total(terms, lanes) ==
  LET whole == (Len(terms) \div lanes) * lanes
      Of(js) == FoldLeft(LAMBDA s, j : Plus(s, terms[j]), Zero, js)
      Lane(l) == Of([k \in 1 .. whole \div lanes |-> (k - 1) * lanes + l])
  IN  Plus(FoldLeft(LAMBDA s, l : Plus(s, Lane(l)), Zero, [l \in 1 .. lanes |-> l]),
           Of([k \in 1 .. Len(terms) - whole |-> whole + k]))

Mean(a, lanes) == IF a = <<>> THEN Zero ELSE Over(Total(a, lanes), Num(Len(a)))

Deviations(a, mean) == [i \in DOMAIN a |-> Minus(a[i], mean)]
Products(x, y) == [i \in DOMAIN x |-> Times(x[i], y[i])]

CovarianceWithMeans(x, y, mx, my, lanes) ==
  Over(Total(Products(Deviations(x, mx), Deviations(y, my)), lanes), Num(Len(x) - 1))

Covariance(x, y, lanes) ==
  IF Len(x) <= 1 THEN Zero
  ELSE CovarianceWithMeans(x, y, Mean(x, lanes), Mean(y, lanes), lanes)

Variance(a, lanes) == Covariance(a, a, lanes)

(* Of the combined variances and covariance; also where one is zero. *)
Correlation(x, y, lanes) ==
  IF ~Positive(Variance(x, lanes)) \/ ~Positive(Variance(y, lanes)) THEN Zero
  ELSE Over(Covariance(x, y, lanes),
            Times(SquareRoot(Variance(x, lanes)), SquareRoot(Variance(y, lanes))))

Skewness(a, lanes) ==
  LET d == Deviations(a, Mean(a, lanes))
      sigma == SquareRoot(Variance(a, lanes))
  IN  IF Len(a) < 3 THEN Inexact
      ELSE IF ~Positive(Variance(a, lanes)) THEN Zero
      ELSE Over(Over(Total(Products(d, Products(d, d)), lanes), Num(Len(a))),
                Times(sigma, Times(sigma, sigma)))

Kurtosis(a, lanes) ==
  LET d == Deviations(a, Mean(a, lanes))
      d2 == Products(d, d)
      var == Variance(a, lanes)
  IN  IF Len(a) < 4 THEN Inexact
      ELSE IF ~Positive(var) THEN Zero
      ELSE Minus(Over(Over(Total(Products(d2, d2), lanes), Num(Len(a))), Times(var, var)), Num(3))

(* calc_linear_regression; of one point the variance is 0 / 0. *)
LinearRegression(x, y, lanes) ==
  LET mx == Mean(x, lanes)
      my == Mean(y, lanes)
      Line(s) == [slope |-> s, intercept |-> Minus(my, Times(s, mx))]
      var == CovarianceWithMeans(x, x, mx, mx, lanes)
  IN  IF x = <<>> THEN [slope |-> Zero, intercept |-> Zero]
      ELSE IF var = Zero THEN [slope |-> Zero, intercept |-> my]
      ELSE Line(Over(CovarianceWithMeans(x, y, mx, my, lanes), var))

-------------------------------------------------------------------------------
(***************************************************************************)
(* Element-wise kernels on arrays of doubles (Kernel/Operations/Arithmetic *)
(* and Bitwise): for each operation a scalar, an SSE2, an AVX2 and a NEON  *)
(* version, chosen by the features of the processor.  A memory mem maps    *)
(* addresses to values; a, b and result are the addresses of the arrays.   *)
(***************************************************************************)

CONSTANTS
  Apply(_, _, _),  (* the operation, on two values *)
  NaN,
  ZeroValue

Arithmetic == {"addition", "subtraction", "multiplication", "division"}
Bitwise == {"and", "or", "xor"}
Operations == Arithmetic \cup Bitwise \cup {"shift"}

Features == [{"neon", "avx2", "sse2"} -> BOOLEAN]
Builds == {"x86", "arm"}

DivZeroFlag == 2

(* A lane with a zero divisor is NaN. *)
Lane(op, x, y) == IF op = "division" /\ y = ZeroValue THEN NaN ELSE Apply(op, x, y)

(* The version called; addition has none for NEON. *)
Version(op, features) ==
  CASE features["neon"] /\ op # "addition" -> "neon"
    [] features["avx2"] /\ ~(features["neon"] /\ op # "addition") -> "avx2"
    [] features["sse2"] /\ ~features["avx2"] /\ ~(features["neon"] /\ op # "addition") -> "sse2"
    [] OTHER -> "scalar"

(* Each version is the scalar one in a build for another processor. *)
Compiled(version, op, build) ==
  IF op = "shift" \/ (version = "neon") # (build = "arm") THEN "scalar" ELSE version

Repeat(w, n) == [k \in 1 .. n |-> w]

(* The widths of the blocks of elements loaded and stored together: single *)
(* ones, pairs with a single one left, and fours, after which the          *)
(* arithmetic kernels take a pair before the single one.                   *)
Singles(count) == Repeat(1, count)
Pairs(count) == Repeat(2, count \div 2) \o Singles(count % 2)
ArithmeticFours(count) == Repeat(4, count \div 4) \o Pairs(count % 4)

(* Mutant: after the fours at most one element is left. *)
MutBitwiseFours(count) == Repeat(4, count \div 4) \o Singles(count % 2)

BitwiseFours(count) == Repeat(4, count \div 4) \o Singles(count % 4)

Blocks(version, op, count) ==
  CASE version = "scalar"                            -> Singles(count)
    [] version \in {"sse2", "neon"}                  -> Pairs(count)
    [] version = "avx2" /\ op \in Arithmetic         -> ArithmeticFours(count)
    [] version = "avx2" /\ op \notin Arithmetic      -> BitwiseFours(count)

(* One block from element st.i on: all loads, then all stores. *)
Block(st, op, a, b, result, width) ==
  LET lanes == st.i .. st.i + width - 1
  IN  [i      |-> st.i + width,
       mem    |-> [x \in DOMAIN st.mem |->
                     IF x - result \in lanes
                     THEN Lane(op, st.mem[a + x - result], st.mem[b + x - result])
                     ELSE st.mem[x]],
       zeroes |-> st.zeroes \/ \E k \in lanes : st.mem[b + k] = ZeroValue]

(* The memory and the flags after the call. *)
Execute(op, build, features, mem, flags, a, b, result, count) ==
  LET blocks == Blocks(Compiled(Version(op, features), op, build), op, count)
      After[n \in 0 .. Len(blocks)] ==
        IF n = 0 THEN [i |-> 0, mem |-> mem, zeroes |-> FALSE]
        ELSE Block(After[n - 1], op, a, b, result, blocks[n])
      st == After[Len(blocks)]
  IN  [mem   |-> st.mem,
       flags |-> flags \cup (IF op = "division" /\ st.zeroes THEN {DivZeroFlag} ELSE {})]

(* The kernels, one for each file, as they are called with a record of     *)
(* arguments.                                                              *)
Kernel(op, k) ==
  Execute(op, k.build, k.features, k.mem, k.flags, k.a, k.b, k.result, k.count)
ExecuteAddition(k) == Kernel("addition", k)
ExecuteSubtraction(k) == Kernel("subtraction", k)
ExecuteMultiplication(k) == Kernel("multiplication", k)
ExecuteDivision(k) == Kernel("division", k)
ExecuteAnd(k) == Kernel("and", k)
ExecuteOr(k) == Kernel("or", k)
ExecuteXor(k) == Kernel("xor", k)
ExecuteShift(k) == Kernel("shift", k)

-------------------------------------------------------------------------------
(* What a kernel promises. *)

(* An operand is the result's array or has no element in common with it. *)
Separate(k, x) == x = k.result \/ x + k.count <= k.result \/ k.result + k.count <= x

Expected(op, k, x) ==
  IF x - k.result \in 0 .. k.count - 1
  THEN Lane(op, k.mem[k.a + x - k.result], k.mem[k.b + x - k.result])
  ELSE k.mem[x]

DividesByNothing(op, k) == op = "division" /\ \E i \in 0 .. k.count - 1 : k.mem[k.b + i] = ZeroValue

(* The loop over single elements, from the arrays as they were.            *)
IsElementwise(op, k, answer) ==
  /\ \A x \in DOMAIN k.mem : answer.mem[x] = Expected(op, k, x)
  /\ answer.flags = k.flags \cup (IF DividesByNothing(op, k) THEN {DivZeroFlag} ELSE {})
===============================================================================
