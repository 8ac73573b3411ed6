------------------------------ MODULE NumberLaws ------------------------------
(***************************************************************************)
(* What the number libraries should answer, by the definitions of          *)
(* mathematics, and what the texts of numbers, the configuration and the   *)
(* plotter should be: the laws that the answers of Numbers are checked     *)
(* against.                                                                *)
(***************************************************************************)
EXTENDS Numbers

CONSTANT KnownConversions  (* conversions known beforehand *)

-------------------------------------------------------------------------------
(* Texts. *)

NumeralValue(c) == CHOOSE d \in 0 .. 35 : c \in {LowerNumerals[d + 1], UpperNumerals[d + 1]}
Denoted(numerals, base) == FoldLeft(LAMBDA n, c : n * base + NumeralValue(c), 0, numerals)
Unsign(text) == IF text[1] = "-" THEN Tail(text) ELSE text
SignOf(text) == IF text[1] = "-" THEN -1 ELSE 1
Without0(text, chars) == SelectSeq(text, LAMBDA c : c \notin chars)

DenotesInteger(n, base, text) ==
  /\ Denoted(Unsign(text), base) * SignOf(text) = (IF base = 10 THEN n ELSE n % LongRange)
  /\ Len(Unsign(text)) > 1 => Unsign(text)[1] # "0"

(* The text, mantissa and exponent, is off by half a unit of its last      *)
(* decimal at most, and a mantissa has one numeral that is not 0 in front. *)
DenotesReal(x, p, text) ==
  LET e == SelectInSeq(text, LAMBDA c : c = "e")
      mantissa == IF e = 0 THEN text ELSE SubSeq(text, 1, e - 1)
      exponent == IF e = 0 THEN 0
                  ELSE Denoted(SubSeq(text, e + 2, Len(text)), 10) * (IF text[e + 1] = "-" THEN -1 ELSE 1)
      units == Denoted(Without0(Unsign(mantissa), {"."}), 10) * SignOf(text)
      unit == Times(PowerOfTen(exponent), Fraction(1, 10 ^ p))
  IN  /\ ~Less(unit, Times(Num(2), Abs(Minus(Times(Num(units), unit), x))))
      /\ e # 0 => mantissa[IF text[1] = "-" THEN 2 ELSE 1] # "0"
                    /\ Len(Unsign(mantissa)) = (IF p = 0 THEN 1 ELSE p + 2)
      /\ p # 0 => mantissa[Len(mantissa) - p] = "."

(* A comma in front of every third numeral from the right, nowhere else.   *)
GroupedByThree(text) ==
  LET n == Len(Unsign(text))
  IN  \A i \in 1 .. n : (Unsign(text)[i] = ",") = (i # n /\ (n - i) % 4 = 3)

(* A format is its pieces one behind the other, as far as they fit.        *)
OutputLaws ==
  LET arg == call.args[1]
      room == call.args[2] - 1
      AsMuch(whole) == SubSeq(whole, 1, IF Len(whole) < room THEN Len(whole) ELSE room)
      SaysInteger(i, text) == GroupedByThree(text) /\ DenotesInteger(i, 10, Without0(text, {","}))
  IN CASE Called({"print_int"}) ->
            IF call.args[2] \in 2 .. 36 THEN DenotesInteger(arg, call.args[2], Answer) ELSE Answer = <<>>
       [] Called({"print_float"}) -> Exact(arg) => DenotesReal(arg, call.args[2], Answer)
       [] Called({"format_string"}) ->
            \A texts \in {[i \in DOMAIN arg |-> FormatString(1000, arg[i].fmt, arg[i].args)]} :
              /\ Answer = AsMuch(FlattenSeq(texts))
              /\ \A i \in DOMAIN arg :
                   arg[i].fmt = <<"%", "d">> => SaysInteger(arg[i].args[1].int, texts[i])
       [] OTHER -> TRUE

(* What a line says: a key and a number, up to its comment; nothing if it  *)
(* is a header or lacks one of them.                                       *)
Says(line) ==
  LET comment == SelectInSeq(line, LAMBDA c : c = "#")
      text == Trimmed(IF comment = 0 THEN line ELSE SubSeq(line, 1, comment - 1))
      eq == SelectInSeq(text, LAMBDA c : c = "=")
  IN  IF eq = 0 \/ text[1] = "[" THEN [key |-> <<>>, val |-> <<>>]
      ELSE [key |-> Trimmed(SubSeq(text, 1, eq - 1)), val |-> Trimmed(SubSeq(text, eq + 1, Len(text)))]
Assigns(line, field) ==
  LET s == Says(line) IN s.val # <<>> /\ s.key \in DOMAIN FieldOf /\ FieldOf[s.key] = field

(* Each field has the number of the last line that assigns it one, within  *)
(* its range, from the numerals in it.                                     *)
ConfigLaws ==
  Called({"parse_config"}) =>
    LET text == call.args[1]
        breaks == {0, Len(text) + 1} \cup {i \in DOMAIN text : text[i] \in Ends}
        LineFrom(i) == SubSeq(text, i + 1, (CHOOSE j \in breaks : j > i /\ \A k \in breaks : k <= i \/ j <= k) - 1)
        starts == {i \in breaks : i <= Len(text)}
        Assigning(f) == {i \in starts : Assigns(LineFrom(i), f)}
        Final(f) == LineFrom(CHOOSE i \in Assigning(f) : \A j \in Assigning(f) : j <= i)
        Numerals(line) == SelectSeq(Says(line).val, LAMBDA c : c \in Decimals)
    IN  \A f \in DOMAIN FieldRange :
          Answer[f] = IF Assigning(f) = {} THEN DefaultConfig[f]
                      ELSE Denoted(Numerals(Final(f)), 10) % FieldRange[f]

-------------------------------------------------------------------------------
(* Plots. *)

Neighbours(p, q) == p[1] - q[1] \in -1 .. 1 /\ p[2] - q[2] \in -1 .. 1
Longer(p, q) ==
  LET dx == Magnitude(q[1] - p[1])
      dy == Magnitude(q[2] - p[2])
  IN  IF dx > dy THEN dx ELSE dy

(* As few pixels as join the two ends, each half a pixel from the line.    *)
IsLine(p, q, pixels) ==
  /\ {p, q} \subseteq pixels
  /\ Cardinality(pixels) = Longer(p, q) + 1
  /\ \A r \in pixels :
       /\ r # p => \E s \in pixels : Neighbours(r, s) /\ Longer(p, s) = Longer(p, r) - 1
       /\ 2 * Magnitude((q[1] - p[1]) * (r[2] - p[2]) - (q[2] - p[2]) * (r[1] - p[1])) <= Longer(p, q)

Frame(cfg) == (cfg.x .. cfg.x + cfg.w) \X (cfg.y .. cfg.y + cfg.h)

Inside(cfg, wx, wy) ==
  ~Less(wx, cfg.xMin) /\ ~Less(cfg.xMax, wx) /\ ~Less(wy, cfg.yMin) /\ ~Less(cfg.yMax, wy)
PixelOf(cfg, d) == <<ScreenX(cfg, d[1]), ScreenY(cfg, d[2])>>

(* Grid lines are apart by a nice number that suits the size of the area.  *)
SuitsTicks(lines, ticks) == 4 * lines <= 7 * ticks + 4 /\ 10 * lines + 20 >= 7 * ticks
IsGrid(cfg, pixels) ==
  /\ pixels \subseteq Frame(cfg)
  /\ SuitsTicks(Cardinality({x \in Columns(cfg) : \A y \in Rows(cfg) : <<x, y>> \in pixels}),
                cfg.w \div TickWidth)
  /\ SuitsTicks(Cardinality({y \in Rows(cfg) : \A x \in Columns(cfg) : <<x, y>> \in pixels}),
                cfg.h \div TickHeight)

(* The pixels of the axes are those within half a pixel of them.           *)
NearZero(cfg, p) ==
  LET w == ScreenToWorld(cfg, p[1], p[2])
  IN  \/ ~Less(Minus(cfg.xMax, cfg.xMin), Times(Num(2 * cfg.w), Abs(w[1])))
      \/ ~Less(Minus(cfg.yMax, cfg.yMin), Times(Num(2 * cfg.h), Abs(w[2])))

(* A curve is shown between neighbouring samples that are both numbers, in *)
(* every column between the first and the last that are; a straight one    *)
(* within the area is shown where it is, and from end to end if there are  *)
(* not more samples than the maximum.                                      *)
IsPlotted(cfg, curve, samples, pixels) ==
  LET n == IF samples = 0 THEN cfg.w ELSE samples
      X(i) == SamplePlace(cfg, i, n)
      Joined(i) == Exact(CurveAt(curve, X(i - 1))) /\ Exact(CurveAt(curve, X(i)))
      Slope == Abs(Times(Minus(CurveAt(curve, cfg.xMax), CurveAt(curve, cfg.xMin)),
                         Times(Num(cfg.h), cfg.invY)))
      straight == /\ Len(curve.over) <= 2 /\ Len(curve.under) = 1
                  /\ \A x \in {cfg.xMin, cfg.xMax} : Inside(cfg, x, CurveAt(curve, x))
      shown == {p[1] : p \in pixels}
      Distance2(p) == Abs(Minus(Num(p[2] - cfg.y), Times(Times(Minus(cfg.yMax, CurveAt(curve,
                         ScreenToWorld(cfg, p[1], p[2])[1])), Num(cfg.h)), cfg.invY)))
  IN  /\ pixels \subseteq Frame(cfg) /\ shown \subseteq Columns(cfg)
      /\ \A x \in shown : \E i \in 1 .. n - 1 :
           Joined(i) /\ ScreenX(cfg, X(i - 1)) <= x /\ x <= ScreenX(cfg, X(i))
      /\ straight =>
           /\ \A p \in pixels : ~Less(Plus(One, Over(Slope, Num(cfg.w))), Distance2(p))
           /\ n <= MaxSamples =>
                \A i \in 1 .. n - 1 :
                  ScreenX(cfg, X(i)) \in Columns(cfg) => cfg.x .. ScreenX(cfg, X(i)) \subseteq shown

(* The bars stand side by side, each as high as its share of the data; a   *)
(* bin has the values from its lower bound up to the next.                 *)
IsHistogram(cfg, data, bins, pixels) ==
  LET n == IF bins > MaxBins THEN MaxBins ELSE bins
      low == Lowest(data, DOMAIN data)
      high == Highest(data, DOMAIN data)
      Part(x) == Times(Over(Minus(x, low), Minus(high, low)), Num(n))
      InBin(b) == Cardinality({i \in DOMAIN data :
                    ~Less(Part(data[i]), Num(b)) /\ (Less(Part(data[i]), Num(b + 1)) \/ b = n - 1)})
      counts == {InBin(b) : b \in 0 .. n - 1}
      most == CHOOSE m \in counts : \A k \in counts : k <= m
      HeightAt(x) == Cardinality({y \in Rows(cfg) : <<x, y>> \in pixels})
      heights == {(InBin(b) * cfg.h) \div most : b \in 0 .. n - 1}
  IN  /\ pixels \subseteq ClearArea(cfg)
      /\ \A p \in pixels : p[2] + 1 \in Rows(cfg) => <<p[1], p[2] + 1>> \in pixels
      /\ data # <<>> /\ bins # 0 /\ low # high =>
           /\ \A x \in Columns(cfg) : HeightAt(x) \in heights
           /\ n <= cfg.w => \A k \in heights : \E x \in Columns(cfg) : HeightAt(x) = k
           /\ \A b \in 0 .. n - 1 : n = cfg.w => HeightAt(cfg.x + b) = (InBin(b) * cfg.h) \div most

(* Every number of the data, if the first is one, is within the new scale. *)
IsScaled(cfg, data, scaled) ==
  /\ [scaled EXCEPT !.yMin = cfg.yMin, !.yMax = cfg.yMax, !.invX = cfg.invX, !.invY = cfg.invY] = cfg
  /\ data # <<>> /\ Exact(data[1]) =>
       \A i \in DOMAIN data :
         Exact(data[i]) =>
           /\ Less(scaled.yMin, data[i]) /\ Less(data[i], scaled.yMax)
           /\ ScreenY(scaled, data[i]) \in cfg.y .. cfg.y + cfg.h

PlotLaws ==
  LET cfg == call.args[1]
      data == call.args[2]
      within == \A i \in DOMAIN data : Inside(cfg, data[i][1], data[i][2]) /\ Exact(data[i][2])
  IN CASE Called({"plot_draw_grid"}) -> IsGrid(cfg, Answer)
       [] Called({"plot_draw_axes"}) -> \A p \in Answer : p \in Frame(cfg) /\ NearZero(cfg, p)
       [] Called({"plot_screen_to_world"}) ->
            PixelOf(cfg, Answer) = <<data, call.args[3]>>
       [] Called({"plot_function"}) -> IsPlotted(cfg, data, call.args[3], Answer)
       [] Called({"plot_scatter"}) ->
            /\ Answer \subseteq ClearArea(cfg)
            /\ \A p \in Answer : \E i \in DOMAIN data : Longer(p, PixelOf(cfg, data[i])) <= call.args[3]
            /\ \A i \in DOMAIN data :
                 PixelOf(cfg, data[i]) \in ClearArea(cfg) => PixelOf(cfg, data[i]) \in Answer
       [] Called({"plot_line_graph"}) ->
            /\ within => Answer \subseteq Frame(cfg)
            /\ within /\ Len(data) = 2 => IsLine(PixelOf(cfg, data[1]), PixelOf(cfg, data[2]), Answer)
            /\ within /\ Len(data) > 1 => \A i \in DOMAIN data : PixelOf(cfg, data[i]) \in Answer
       [] Called({"plot_histogram"}) -> IsHistogram(cfg, data, call.args[3], Answer)
       [] Called({"plot_auto_scale_y"}) -> IsScaled(cfg, data, Answer)
       [] OTHER -> TRUE

-------------------------------------------------------------------------------
(* What big integers should be, from the integers they stand for. *)

Cut(i) == IF i < 0 THEN -(Magnitude(i) % Base ^ MaxLimbs) ELSE i % Base ^ MaxLimbs

(* Of the shifted dividend u, what digit j of the quotient by v is taken   *)
(* from: the limbs from j + 1 on, less what the digits before have taken.  *)
Window(u, v, j) == (Number(u) \div Base ^ j) % (Number(v) * Base)

(* Every digit has a limb: the leading one, and those first tried for it   *)
(* and for the others, for which the top limb has to be below that of v.   *)
DigitsFit(u, v) ==
  /\ Number(u) < Number(v) * Base ^ (Len(u) - Len(v))
  /\ \A j \in 0 .. Len(u) - Len(v) - 1 : Window(u, v, j) \div Base ^ Len(v) < Last(v)

(* If too much was taken, and v is added back, no carry meets a full limb. *)
CarriesKept(u, v) ==
  \A j \in 0 .. Len(u) - Len(v) - 1, i \in 1 .. Len(v) - 1 :
    LET below == Base ^ (Len(v) + 1) + (Window(u, v, j) % Number(v)) - Number(v)
    IN  (below \div Base ^ i) % Base = Base - 1
          => (below % Base ^ i) + (Number(v) % Base ^ i) < Base ^ i

(* The cases in which the division is exact.  A smaller dividend is the    *)
(* remainder unless the quotient has overwritten it.                       *)
Divides(a, b, q) ==
  LET s == a.limbs
      t == b.limbs
      u == Dividend(s, t)
      v == ShiftLeft(t, LeadingZeros(Last(t)))
  IN  CASE CompareMagnitude(s, t) < 0 -> q # "a"
        [] CompareMagnitude(s, t) = 0 -> TRUE
        [] OTHER                      -> DigitsFit(u, v) /\ CarriesKept(u, v)

IsQuotient(mem, a, b, q, r) ==
  /\ IsCanonical(mem[q]) /\ IsCanonical(mem[r])
  /\ Magnitude(ValueOf(mem[q])) = Magnitude(ValueOf(a)) \div Magnitude(ValueOf(b))
  /\ Magnitude(ValueOf(mem[r])) = Magnitude(ValueOf(a)) % Magnitude(ValueOf(b))
  /\ ~IsZero(mem[q]) => mem[q].negative = (a.negative # b.negative)

Remainder(a, b) == DivMod(Places(a, b), "a", "b", "remainder", "remainder")["remainder"]

WithoutTwos(a) == [limbs |-> Odd[a.limbs], negative |-> FALSE]

(* Every division on the way to the greatest common divisor is exact. *)
DividesDown[a \in BigInts, b \in BigInts] ==
  IsZero(b) \/ (Divides(a, b, "remainder") /\ DividesDown[b, Remainder(a, b)])

CommonDivisors(a, b) == {d \in 1 .. Larger(a, b) : a % d = 0 /\ b % d = 0}
GreatestCommonDivisor(a, b) == IF a = b THEN a ELSE Max(CommonDivisors(a, b))

TextValue(text) ==
  LET number == FoldLeft(LAMBDA n, d : n * Radix + d, 0, text.digits)
  IN  IF text.negative THEN -number ELSE number

(* Sums, differences and comparisons of big integers are those of the      *)
(* integers they stand for, products and powers up to the limbs there are, *)
(* and every result is normalised; quotient and remainder, in any places,  *)
(* are exact where Divides says so, and the greatest common divisor where  *)
(* Divides says so of each division that it takes.                         *)
BigIntLaws ==
  LET x == call.args[1]
      y == call.args[2]
  IN CASE Called({"bigint_add"}) -> IsNumber(Answer, ValueOf(x) + ValueOf(y))
       [] Called({"bigint_sub"}) -> IsNumber(Answer, ValueOf(x) - ValueOf(y))
       [] Called({"bigint_mul"}) -> IsNumber(Answer, Cut(ValueOf(x) * ValueOf(y)))
       [] Called({"bigint_compare"}) -> (Answer > 0) = (ValueOf(x) > ValueOf(y))
                                        /\ (Answer = 0) = (ValueOf(x) = ValueOf(y))
       [] Called({"bigint_div_mod"}) ->
            IF IsZero(y) THEN Answer = Places(x, y)
            ELSE Divides(x, y, call.args[3])
                   => IsQuotient(Answer, x, y, call.args[3], call.args[4])
       [] Called({"bigint_gcd"}) ->
            IsZero(x) \/ IsZero(y) \/ DividesDown[WithoutTwos(x), WithoutTwos(y)]
              => IsNumber(Answer, GreatestCommonDivisor(Number(x.limbs), Number(y.limbs)))
       [] Called({"bigint_pow"}) -> IsNumber(Answer, Cut(IF y = 0 THEN 1 ELSE ValueOf(x) ^ y))
       [] Called({"bigint_factorial"}) ->
            IsNumber(Answer, Cut(FoldLeft(LAMBDA n, i : n * i, 1, [i \in 1 .. x |-> i])))
       [] Called({"bigint_from_string"}) -> IsNumber(Answer, TextValue(x))
       [] OTHER -> TRUE

(* A number printed in decimal and read back is the same number: "Convert  *)
(* BigInt to decimal string", BigInt.h.                                    *)
TextRoundTrips == Called({"bigint_to_string"}) => FromText(Answer) = call.args[1]

-------------------------------------------------------------------------------
(* What number theory should be, from divisibility. *)

PrimeNumber(n) == n >= 2 /\ \A d \in 2 .. n - 1 : n % d # 0
Coprime(a, b) == CommonDivisors(a, b) = {1}

(* Signed arithmetic is exact below half the range; the products that the  *)
(* remainder theorem forms have to fit.                                    *)
Signed(a) == a < WordRange \div 2
ModuliProduct(ms) == FoldLeft(LAMBDA n, m : n * m, 1, ms)
PairwiseCoprime(ms) == \A i, j \in DOMAIN ms : i # j => Coprime(ms[i], ms[j])
Solvable(ms) ==
  Len(ms) \in 1 .. MaxCount /\ PairwiseCoprime(ms) /\ \A i \in 2 .. Len(ms) : ms[i] > 1
Solutions(rs, ms) ==
  {x \in 0 .. ModuliProduct(ms) - 1 : \A i \in DOMAIN ms : x % ms[i] = rs[i] % ms[i]}

(* gcd, lcm, extended_gcd, mod_exp, mod_inverse, chinese_remainder,        *)
(* is_prime (trial division and Miller-Rabin), next_prime and the totient  *)
(* answer what their definitions say, for words whose signed copies and    *)
(* products fit.                                                           *)
NumberTheoryLaws ==
  LET a == call.args[1]
      b == call.args[2]
  IN CASE Called({"gcd"}) -> Answer = GreatestCommonDivisor(a, b)
       [] Called({"lcm"}) ->
            IF 0 \in {a, b} THEN Answer = 0
            ELSE Answer = ((a * b) \div GreatestCommonDivisor(a, b)) % WordRange
       [] Called({"extended_gcd"}) ->
            Signed(a) /\ Signed(b)
              => /\ Answer["r"] = GreatestCommonDivisor(a, b)
                 /\ a * Answer["s"] + b * Answer["t"] = Answer["r"]
       [] Called({"mod_exp"}) ->
            Answer = FoldLeft(LAMBDA r, i : (r * a) % call.args[3], 1 % call.args[3],
                              [i \in 1 .. b |-> i])
       [] Called({"mod_inverse"}) ->
            Signed(a) /\ Signed(b)
              => IF b > 1 /\ Coprime(a, b) THEN Answer \in 0 .. b - 1 /\ (a * Answer) % b = 1
                 ELSE Answer = None
       [] Called({"chinese_remainder"}) ->
            (\A i \in DOMAIN b : b[i] * b[i] < WordRange) /\ Signed(ModuliProduct(b))
              => IF Solvable(b) THEN Solutions(a, b) = {Answer} ELSE Answer = None
       [] Called({"is_prime"}) -> Answer = PrimeNumber(a)
       [] Called({"next_prime"}) ->
            LET larger == {n \in a + 1 .. WordRange - 1 : PrimeNumber(n)}
            IN  Answer = IF larger = {} THEN 0 ELSE Min(larger)
       [] Called({"euler_totient"}) ->
            Answer = IF a = 0 THEN 0 ELSE Cardinality({k \in 1 .. a : Coprime(k, a)})
       [] OTHER -> TRUE

LowestTerms(q) ==
  q.den > 0 /\ IF q.num = 0 THEN q.den = 1 ELSE Coprime(Magnitude(q.num), q.den)
Valid(q) == q.den > 0

(* A power with a whole exponent, by the power one nearer to zero. *)
IsPower(a, e, answer) ==
  e.im = Zero /\ IsWhole(e.re) /\ a # CZero =>
    CASE e.re.n \in 1 .. 15    -> answer = CTimes(CPower(a, Real(Minus(e.re, One))), a)
      [] e.re.n \in -15 .. -1  -> CTimes(answer, a) = CPower(a, Real(Plus(e.re, One)))
      [] e.re.n = 0            -> answer = COne
      [] OTHER                 -> ~CExact(answer)

(* Rational arithmetic is exact and in lowest terms.  A denominator of     *)
(* zero comes from a division by zero and only from it, and addition and   *)
(* multiplication keep it; the processor traps only where zero is divided  *)
(* by zero, or two such denominators meet.  Complex division undoes        *)
(* multiplication, powers are repeated products and the root is the        *)
(* principal one.                                                          *)
FieldLaws ==
  LET a == call.args[1]
      b == call.args[2]
      IsRatio(num, den) == LowestTerms(Answer) /\ Answer.num * den = Answer.den * num
      Invalid == Answer.den = 0 \/ Answer = Trap
  IN CASE Called({"rational_add"}) ->
            IF Valid(a) /\ Valid(b) THEN IsRatio(a.num * b.den + b.num * a.den, a.den * b.den)
            ELSE Invalid
       [] Called({"rational_sub"}) ->
            IF Valid(a) /\ Valid(b) THEN IsRatio(a.num * b.den - b.num * a.den, a.den * b.den)
            ELSE Invalid
       [] Called({"rational_mul"}) ->
            IF Valid(a) /\ Valid(b) THEN IsRatio(a.num * b.num, a.den * b.den) ELSE Invalid
       [] Called({"rational_div"}) ->
            IF Valid(a) /\ Valid(b) /\ b.num # 0 THEN IsRatio(a.num * b.den, a.den * b.num)
            ELSE Valid(b) => Invalid
       [] Called({"complex_mul"}) ->
            /\ Norm(Answer) = Times(Norm(a), Norm(b))
            /\ CTimes(a, CPlus(b, COne)) = CPlus(Answer, a)
       [] Called({"complex_div"}) ->
            IF b = CZero THEN Answer = CNaN ELSE CTimes(Answer, b) = a
       [] Called({"complex_pow"}) -> IsPower(a, b, Answer)
       [] Called({"complex_sqrt"}) ->
            CExact(Answer) => /\ CTimes(Answer, Answer) = a
                              /\ ~Negative(Answer.re)
                              /\ Answer.re = Zero => ~Negative(Answer.im)
       [] Called({"complex_modulus"}) -> Exact(Answer) => Times(Answer, Answer) = Norm(a)
       [] OTHER -> TRUE

-------------------------------------------------------------------------------
(* What linear algebra should be, from the definitions of the determinant, *)
(* of the rank and of a solution.                                          *)

Permutation(n) == {p \in [1 .. n -> 1 .. n] : IsInjective(p)}
Inversions(p) == {ij \in (DOMAIN p) \X (DOMAIN p) : ij[1] < ij[2] /\ p[ij[1]] > p[ij[2]]}
Term(A, p) ==
  FoldLeft(Times, IF Cardinality(Inversions(p)) % 2 = 0 THEN One ELSE Neg(One),
           [i \in DOMAIN A |-> A[i][p[i]]])
Leibniz(A) == FoldSet(LAMBDA p, sum : Plus(Term(A, p), sum), Zero, Permutation(Len(A)))

Parts(n, k) == {p \in [1 .. k -> 1 .. n] : \A i, j \in 1 .. k : i < j => p[i] < p[j]}
Rank(A) ==
  LET minors(k) == {Leibniz([i \in 1 .. k |-> [j \in 1 .. k |-> A[rs[i]][cs[j]]]]) :
                      rs \in Parts(Len(A), k), cs \in Parts(Width(A), k)}
  IN  Max({0} \cup {k \in 1 .. Larger(Len(A), Width(A)) : minors(k) \ {Zero} # {}})

MatrixProduct(A, B) == [r \in DOMAIN A |-> [c \in 1 .. Width(B) |-> Dot(A[r], Column(B, c))]]
Transposed(A) == [c \in 1 .. Width(A) |-> Column(A, c)]
Image(A, x) == [r \in DOMAIN A |-> Dot(A[r], x)]

(* The columns of the leading ones of a reduced matrix. *)
LeadOf(row) == IF \A c \in DOMAIN row : row[c] = Zero THEN 0
               ELSE Min({c \in DOMAIN row : row[c] # Zero})
IsReduced(C) ==
  \A r \in DOMAIN C :
    /\ LeadOf(C[r]) # 0 => /\ C[r][LeadOf(C[r])] = One
                           /\ \A q \in DOMAIN C \ {r} : C[q][LeadOf(C[r])] = Zero
    /\ \A q \in DOMAIN C : q > r /\ LeadOf(C[q]) # 0 => LeadOf(C[r]) \in 1 .. LeadOf(C[q]) - 1

(* A row is the combination of the rows of C that its entries in the       *)
(* leading columns name.                                                   *)
IsCombination(row, C) ==
  \A c \in DOMAIN row :
    row[c] = Dot([r \in DOMAIN C |-> IF LeadOf(C[r]) = 0 THEN Zero ELSE row[LeadOf(C[r])]],
                 Column(C, c))

IsFactored(A, lu) ==
  /\ MatrixProduct(lu.L, lu.U) = [i \in DOMAIN A |-> A[lu.P[i]]]
  /\ IsInjective(lu.P)
  /\ \A i, j \in DOMAIN A :
       /\ i > j => lu.U[i][j] = Zero /\ AtMost(Abs(lu.L[i][j]), One)
       /\ i = j => lu.L[i][j] = One
       /\ i < j => lu.L[i][j] = Zero

AllExact(A) == \A r \in DOMAIN A : \A c \in DOMAIN A[r] : Exact(A[r][c])

(* What the determinant of the identity gains for a small multiple of A:   *)
(* the linear term of det (I + t A), of a degree of up to three.           *)
LinearTerm(A) ==
  LET Near(t) == Leibniz([r \in DOMAIN A |-> [c \in DOMAIN A |->
                            Plus(IF r = c THEN One ELSE Zero, Times(t, A[r][c]))]])
      odd == Over(Minus(Near(One), Near(Num(-1))), Num(2))
  IN  IF Len(A) = 3 THEN Minus(odd, Leibniz(A)) ELSE odd

(* A sum maps a vector to the sum of its images, and a transpose is the    *)
(* adjoint; the trace is the linear term of the determinant about the      *)
(* identity, and the determinant is that of Leibniz, and multiplies; the   *)
(* inverse and the solution exist exactly where it is not zero, and are    *)
(* ones; L U is P A with no factor above one; the reduced form is reduced  *)
(* and has the row space; where the roots are fractions, Q R is A with     *)
(* orthonormal columns and a least-squares solution solves the normal      *)
(* equations; a call with the wrong dimensions raises the flag and changes *)
(* nothing.                                                                *)
MatrixLaws ==
  LET A == call.args[1]
      B == call.args[2]
      X == Answer.value
      Small3 == ~Oversize(A)
  IN CASE Called({"matrix_transpose", "matrix_trace"}) ->
            /\ Answer.ok = Small3
            /\ Answer.ok /\ Called({"matrix_trace"}) => X = LinearTerm(A)
            /\ Answer.ok /\ Called({"matrix_transpose"})
                 => \A i \in 1 .. Width(A), j \in DOMAIN A :
                      LET x == Identity(Width(A))[i]
                          y == Identity(Len(A))[j]
                      IN  Dot(Image(A, x), y) = Dot(x, Image(X, y))
       [] Called({"matrix_add"}) ->
            /\ Answer.ok = (Small3 /\ ~Oversize(B) /\ Len(A) = Len(B) /\ Width(A) = Width(B))
            /\ Answer.ok =>
                 \A i \in 1 .. Width(A), r \in DOMAIN A :
                   LET x == Identity(Width(A))[i]
                   IN  Image(X, x)[r] = Plus(Image(A, x)[r], Image(B, x)[r])
       [] Called({"matrix_mul"}) ->
            /\ Answer.ok = (Small3 /\ ~Oversize(B) /\ Width(A) = Len(B))
            /\ Answer.ok /\ IsSquare(A) /\ IsSquare(B)
                 => /\ Leibniz(X) = Times(Leibniz(A), Leibniz(B))
                    /\ Transposed(X) = MatrixProduct(Transposed(B), Transposed(A))
       [] Called({"matrix_determinant"}) ->
            IF Small3 THEN Answer = Done(Leibniz(A)) ELSE Answer = Failed(InvalidFlag)
       [] Called({"matrix_inverse"}) ->
            IF ~Small3 THEN Answer = Failed(InvalidFlag)
            ELSE IF Leibniz(A) = Zero THEN Answer = Failed(SingularFlag)
            ELSE Answer.ok /\ MatrixProduct(A, X) = Identity(Len(A))
       [] Called({"matrix_lu"}) ->
            IF Small3 /\ Leibniz(A) # Zero THEN Answer.ok /\ IsFactored(A, X) ELSE ~Answer.ok
       [] Called({"solve_linear"}) ->
            IF Small3 /\ Leibniz(A) # Zero THEN Answer.ok /\ Image(A, X) = B ELSE ~Answer.ok
       [] Called({"matrix_rref"}) ->
            IF ~Small3 THEN Answer = Failed(InvalidFlag)
            ELSE /\ IsReduced(X) /\ \A r \in DOMAIN A : IsCombination(A[r], X)
                 /\ Cardinality({r \in DOMAIN X : LeadOf(X[r]) # 0}) = Rank(A)
       [] Called({"matrix_qr"}) ->
            Answer.ok /\ AllExact(X.Q) /\ AllExact(X.R)
              => /\ MatrixProduct(Transposed(X.Q), X.R) = A
                 /\ MatrixProduct(X.Q, Transposed(X.Q)) = Identity(Width(A))
       [] Called({"least_squares"}) ->
            Answer.ok /\ (\A i \in DOMAIN X : Exact(X[i]))
              => Image(Transposed(A), Image(A, X)) = Image(Transposed(A), B)
       [] OTHER -> TRUE

-------------------------------------------------------------------------------
(* What statistics should be. *)

Count(a, x) == Cardinality({i \in DOMAIN a : a[i] = x})
NanLast(a) == \A i \in 1 .. Len(a) - 1 : ~NanSafeLess(a[i + 1], a[i])
SumOf(a) == FoldLeft(Plus, Zero, a)

(* The value below which the share p of the places of a sorted array lies, *)
(* interpolated.                                                           *)
Interpolated(a, p) ==
  LET place == Times(Over(p, Num(100)), Num(Len(a) - 1))
      Near(i) == Less(Abs(Minus(place, Num(i))), One)
      Weight(i) == IF Near(i) THEN Minus(One, Abs(Minus(place, Num(i)))) ELSE Zero
  IN  Dot([i \in DOMAIN a |-> Weight(i - 1)], a)

Numeric(a) == \A i \in DOMAIN a : Exact(a[i])

(* The residuals of a line: they add up to zero and are orthogonal to x.   *)
Fitted(x, y, line) ==
  LET residuals == [i \in DOMAIN x |->
                      Minus(y[i], Plus(Times(line.slope, x[i]), line.intercept))]
  IN  SumOf(residuals) = Zero /\ (Dot(residuals, x) = Zero \/ line.slope = Zero)

(* The sort puts every NaN after the numbers and loses nothing; a short    *)
(* array is left as it was; median and percentile interpolate the sorted   *)
(* array, the median being the percentile of 50; the lanes of the sums do  *)
(* not change the moments, the correlation is at most one, and the fitted  *)
(* line leaves residuals that add up to zero and do not depend on x.       *)
StatisticsLaws ==
  LET a == call.args[1]
      b == call.args[2]
  IN CASE Called({"median", "percentile"}) ->
            LET s == Sorted(a) IN
            /\ NanLast(s) /\ \A i \in DOMAIN a : Count(s, a[i]) = Count(a, a[i])
            /\ Answer[2] = IF Len(a) <= BufferLen THEN a ELSE s
            /\ a # <<>> /\ Numeric(a)
                 => Answer[1] = Interpolated(s, IF Called({"median"}) THEN Num(50) ELSE Clamped(b))
       [] Called({"mean"}) -> a # <<>> => Times(Answer, Num(Len(a))) = SumOf(a)
       [] Called({"variance"}) ->
            Times(Answer, Num(Len(a) * (Len(a) - 1))) =
              Minus(Times(Num(Len(a)), Dot(a, a)), Times(SumOf(a), SumOf(a)))
       [] Called({"skewness"}) ->
            Exact(Answer) => Skewness([i \in DOMAIN a |-> Neg(a[i])], 1) = Neg(Answer)
       [] Called({"kurtosis"}) ->
            Exact(Answer) => Kurtosis([i \in DOMAIN a |-> Minus(One, a[i])], 1) = Answer
       [] Called({"correlation"}) -> Exact(Answer) => AtMost(Abs(Answer), One)
       [] Called({"linear_regression"}) -> Len(a) # 1 => Fitted(a, b, Answer)
       [] OTHER -> TRUE

-------------------------------------------------------------------------------
(* The vector kernels against the loop they stand for. *)

(* Whatever the processor and the build, a kernel writes the result of its *)
(* operation for each element and nothing else, from the arrays as they    *)
(* were before the call, in place or not, and raises the division flag     *)
(* exactly when a divisor is zero.                                         *)
KernelLaws ==
  Called(Operations) /\ Separate(call.args, call.args.a) /\ Separate(call.args, call.args.b)
    => IsElementwise(call.op, call.args, Answer)

-------------------------------------------------------------------------------
(* Expressions, numerical methods, units. *)

Waits(text) == Quantify(DOMAIN text, LAMBDA i : text[i].kind \notin {"number", ")"})
Plugins(text) == Quantify(DOMAIN text, LAMBDA i : text[i].kind = "name" /\ text[i].fn \in DOMAIN Custom)

(* Constants as a decimal with an optional exponent, every dot followed by *)
(* a digit.                                                                *)
Digital(s) == s # <<>> /\ \A i \in DOMAIN s : IsDigit(s[i])
Dots(s) == {i \in DOMAIN s : s[i] = "."}
Unmarked(s) == SelectSeq(s, IsDigit)
IsMantissa(s) ==
  /\ s # <<>> /\ IsDigit(Last(s))
  /\ Cardinality(Dots(s)) < 2 /\ \A i \in DOMAIN s \ Dots(s) : IsDigit(s[i])
IsExponent(s) ==
  /\ Len(s) > 1 /\ s[1] \in {"e", "E"}
  /\ \/ Digital(Tail(s))
     \/ s[2] \in {"+", "-"} /\ Digital(SubSeq(s, 3, Len(s)))
MantissaLengths(s) ==
  {i \in DOMAIN s : /\ IsMantissa(SubSeq(s, 1, i))
                    /\ i = Len(s) \/ IsExponent(SubSeq(s, i + 1, Len(s)))}
IsConstant(s) == MantissaLengths(s) # {}

DigitsNumber(s) == FoldLeft(LAMBDA n, c : n * 10 + Digits[c], 0, Unmarked(s))
ConstantValue(s) ==
  LET cut == Max(MantissaLengths(s))
      mantissa == SubSeq(s, 1, cut)
      exponent == SubSeq(s, cut + 1, Len(s))
      power == DigitsNumber(exponent) * (IF "-" \in ToSet(exponent) THEN -1 ELSE 1)
      decimals == IF Dots(mantissa) = {} THEN 0 ELSE cut - Max(Dots(mantissa))
      scale == power - decimals
      Ten(k) == RaisedTo[k][Num(10)]
  IN  IF scale < 0 THEN Over(Num(DigitsNumber(mantissa)), Ten(-scale))
      ELSE Times(Num(DigitsNumber(mantissa)), Ten(scale))

(* A number reaches as far as the longest constant there, and further only *)
(* behind an exponent; its value is that of the constant.                  *)
ReadsConstant(text, t) ==
  LET rest == SubSeq(text, t.start, Len(text))
      long == Max({0} \cup {i \in DOMAIN rest : IsConstant(SubSeq(rest, 1, i))})
      constant == SubSeq(rest, 1, long)
  IN  /\ long \in 1 .. t.length
      /\ IsMantissa(constant) => t.length = long
      /\ DigitsNumber(SelectSeq(constant, LAMBDA c : c \notin {"-", "+"})) < IntRange
           => Inexact \in {t.value, ConstantValue(constant)} \/ t.value = ConstantValue(constant)

(* The tokens of a text: what lies between them is blank, the last is the  *)
(* end or a dot without a digit, and each reads the same when it stands    *)
(* alone; two names or numbers side by side would not make one together.   *)
TokensCover(text, tokens) ==
  LET To(t) == t.start + t.length
      Part(from, to) == SubSeq(text, from, to - 1)
      Same(t, s) == s.kind = t.kind /\ s.length = t.length /\ s.value = t.value
      Alone(s) == NextToken(s, 1)
      stuck == Last(tokens)
  IN  /\ \A i \in DOMAIN tokens :
           LET t == tokens[i]
               before == IF i = 1 THEN 1 ELSE To(tokens[i - 1])
           IN  /\ before <= t.start /\ ToSet(Part(before, t.start)) \subseteq Blanks
               /\ t.kind = "error" /\ text[t.start] = "." => i = Len(tokens)
               /\ t.kind # "name" => Same(t, Alone(Part(t.start, To(t))))
               /\ t.kind = "number" /\ text[t.start] # "CF" => ReadsConstant(text, t)
               /\ before = t.start /\ i > 1 /\ t.kind \in {"name", "number"}
                    => Alone(Part(tokens[i - 1].start, To(t))).length = tokens[i - 1].length
      /\ \/ stuck.kind = "eof" /\ stuck.start = Len(text) + 1
         \/ stuck.kind = "error" /\ text[stuck.start] = "." /\ ~IsDigit(CharAt(text, stuck.start + 1))

(* The evaluator on a stack gives a tree, printed with only the            *)
(* parentheses it needs, its meaning, and the flag exactly when it divides *)
(* by zero; the same tree in reverse Polish notation has the same value.   *)
(* A text is refused only when it is too long, when a stack is full or     *)
(* when it calls too many functions of plugins.  The lexer reads the       *)
(* tokens of a text one behind the other, and numbers by their constants.  *)
ExpressionLaws ==
  LET t == call.args[1]
      infix == Called({"infix_to_rpn"})
      meaning == Meaning(t)
  IN  /\ Called({"lexer_next_token"}) => TokensCover(t, Answer)
      /\ infix \/ Called({"parse_rpn"}) =>
        /\ Answer.ok =>
             /\ CExact(meaning) => Answer.result = [value |-> meaning, flag |-> 0]
             /\ (Answer.result.flag = 2) = DividesByZero(t)
        /\ ~Answer.ok =>
             IF infix THEN \/ Waits(Infix(t)) > MaxOps
                           \/ Len(Infix(t)) > MaxRpn
                           \/ Plugins(Infix(t)) > MaxCustom
             ELSE Len(Postfix(t)) > MaxRpn

IntegralOf(f, a, b) == Minus(PolyAt(Primitive(f), b), PolyAt(Primitive(f), a))

(* Widths of the interval around an answer of the bisection: it has been   *)
(* halved as often as allowed, or until it was below the tolerance.        *)
Widths(a, b, n, tolerance) ==
  LET Width2(k) == Over(Minus(b, a), Num(2 ^ k))
  IN  {Width2(n)} \cup {Width2(k) : k \in {i \in 1 .. n : Less(Width2(i), tolerance)}}
Brackets(f, x, w) == ~SameSign(PolyAt(f, Minus(x, w)), PolyAt(f, Plus(x, w)))

(* The solution of y' = forcing(t) + rate y where one of the two is zero;  *)
(* of the exponential, the method of order four computes the first terms.  *)
Growth(z) ==
  LET z2 == Times(z, z)
  IN  Plus(Plus(One, z), Plus(Times(Fraction(1, 2), z2),
        Plus(Times(Fraction(1, 6), Times(z2, z)), Times(Fraction(1, 24), Times(z2, z2)))))
SolutionAt(e, j, i) ==
  LET t == Plus(e.t0, Times(Num(i), e.dt))
  IN  IF e.rate = Zero THEN Plus(e.y0[j], IntegralOf(e.forcing, e.t0, t))
      ELSE Times(e.y0[j], RaisedTo[i][Growth(Times(e.rate, e.dt))])
Elementary(e) == (e.rate = Zero /\ Len(e.forcing) <= 4) \/ e.forcing = <<>>

(* The trajectory: as many equations as fit, each state the exact one, and *)
(* the same when the time is an unknown of an autonomous system.           *)
FollowsEquation(e, answer) ==
  LET clock == RkSystem(ClockSlopes(e), e.t0, <<e.t0, e.y0[1]>>, e.dt, e.steps)
  IN  /\ Len(answer.value) = e.steps + 1
      /\ answer.flag = (IF Len(e.y0) > MaxVars THEN 1 ELSE 0)
      /\ \A i \in 0 .. e.steps :
           /\ Elementary(e) =>
                \A j \in DOMAIN answer.value[i + 1] :
                  SolutionAt(e, j, i) \in {answer.value[i + 1][j], Inexact}
           /\ clock.value[i + 1] = <<Plus(e.t0, Times(Num(i), e.dt)), answer.value[i + 1][1]>>

(* Accepted times grow by no less than the smallest step and never pass    *)
(* the end; the solver stops short of it only when it says so, when there  *)
(* is no more room or when the steps tried were not enough.                *)
StaysInSpan(r, answer) ==
  LET times == answer.times
      n == Len(times)
      room == CountOr(r.maxSteps, "adaptive")
  IN  /\ times[1] = r.t0
      /\ n <= room
      /\ \A i \in 2 .. n : ~Less(Minus(times[i], times[i - 1]), MinStep) /\ ~Less(r.tEnd, times[i])
      /\ answer.flag = 4 => Less(times[n], r.tEnd) /\ n < room
      /\ Less(r.t0, r.tEnd) /\ (\A i \in DOMAIN r.attempts : r.attempts[i].accepted)
           => \/ times[n] = r.tEnd
              \/ n = room
              \/ answer.flag = 4
              \/ n = Len(r.attempts) + 1

(* A conversion is refused exactly when a unit is not one of its type; it  *)
(* agrees with what is known of the units, and converting on to a third    *)
(* unit is converting to it at once.                                       *)
IsConversion(x, type, from, to, answer) ==
  /\ answer.ok = (Listed(type, from) /\ Listed(type, to))
  /\ answer.ok =>
       /\ \A k \in KnownConversions :
            k.type = type /\ k.from = from /\ k.to = to /\ k.x = x => k.y = answer.value
       /\ \A third \in DOMAIN UnitTables[type] :
            ConvertUnits(answer.value, type, to, third) = ConvertUnits(x, type, from, third)

(* Newton's method stops at a root, or after as many steps as allowed, or  *)
(* with a flag where the slope is too small to divide by: at that place,   *)
(* or with zero if there is no slope at all.  It finds the root of a line  *)
(* from anywhere unless the line is that flat.                             *)
StopsAtRoot(f, df, x0, tolerance, answer) ==
  LET Near(x) == Less(Abs(PolyAt(f, x)), tolerance)
      Flat(x) == Less(Abs(PolyAt(df, x)), TinySlope)
  IN  /\ answer.flag \in {0, 2}
      /\ answer.flag = 2 /\ answer.value # Zero
           => ~Near(answer.value) /\ Flat(answer.value) /\ PolyAt(df, answer.value) # Zero
      /\ Flat(x0) => answer = IF Near(x0) THEN Answered(x0, 0)
                              ELSE Answered(IF PolyAt(df, x0) = Zero THEN Zero ELSE x0, 2)
      /\ Len(f) = 2 /\ ~Flat(x0) => answer.flag = 0 /\ Near(answer.value)

(* The central difference is exact for polynomials of degree two, also by  *)
(* each variable, and no number, said so only by derivative, where twice   *)
(* the step is flushed to zero; Simpson's rule is exact for degree three   *)
(* and any number of steps that does not overflow; Newton's method stops   *)
(* where it may, however the slope is found; a bisection encloses a        *)
(* change of sign; Runge-Kutta follows the equation and the adaptive       *)
(* solver stays within its span; units convert one by way of another.      *)
MethodLaws ==
  LET f == call.args[1]
      x == call.args[2]
      Vanishes(h) == h # Zero /\ Less(Times(Num(2), Abs(h)), FlushedBelow)
  IN CASE Called({"derivative"}) ->
            IF Vanishes(call.args[3]) THEN Answer = Answered(Inexact, 2)
            ELSE Answer.flag = 0 /\ (Len(f) <= 3 => Answer.value = PolyAt(Derived(f), x))
       [] Called({"integral"}) ->
            Len(f) <= 4 /\ call.args[4] < StepRange - 1 => Answer = IntegralOf(f, x, call.args[3])
       [] Called({"newton_raphson"}) ->
            LET df == call.args[2]
            IN  /\ df # <<>> => StopsAtRoot(f, df, call.args[3], ToleranceOr(call.args[5]), Answer)
                /\ Len(f) \in 2 .. 3 /\ df = <<>>
                     => LET analytic == NewtonRaphson(f, Derived(f), call.args[3], call.args[4],
                                                      call.args[5])
                        IN  Exact(Answer.value) /\ Exact(analytic.value) => Answer = analytic
       [] Called({"bisection"}) ->
            LET b == call.args[3]
                n == CountOr(call.args[4], "roots")
                tolerance == ToleranceOr(call.args[5])
            IN  IF SameSign(PolyAt(f, x), PolyAt(f, b)) THEN Answer = Answered(Inexact, 4)
                ELSE /\ Answer.flag = 0
                     /\ ~Less(Answer.value, x) /\ ~Less(b, Answer.value)
                     /\ \/ Less(Abs(PolyAt(f, Answer.value)), tolerance)
                        \/ \E w \in Widths(x, b, n, tolerance) : Brackets(f, Answer.value, w)
       [] Called({"calc_gradient", "calc_jacobian"}) ->
            LET s == call.args[1]
                Row(i) == [j \in DOMAIN s.point |->
                             IF Vanishes(x) THEN Inexact ELSE PartialOf(s.form, i, s.point, j)]
                fits == Len(s.point) \in 1 .. MaxVars /\ (Called({"calc_gradient"}) \/ s.m \in 1 .. MaxVars)
            IN  IF ~fits THEN Answer = Answered(<<>>, 4)
                ELSE IF Called({"calc_gradient"}) THEN Answer = Answered(Row(1), 0)
                ELSE Answer = Answered([i \in 1 .. s.m |-> Row(i)], 0)
       [] Called({"calc_ode_rk4"}) -> FollowsEquation(call.args[1], Answer)
       [] Called({"calc_ode_rk45"}) -> StaysInSpan(call.args[1], Answer)
       [] Called({"convert_units"}) ->
            IsConversion(call.args[1], call.args[2], call.args[3], call.args[4], Answer)
       [] OTHER -> TRUE

-------------------------------------------------------------------------------
(* The integers: BigInt.c and NumberTheory.c answer what their definitions *)
(* say.  Divisions, by one limb or by more, through the correction of a    *)
(* trial digit and its adding back, with results in places of their own or *)
(* over the operands, as far as Divides goes; words whose signed copies    *)
(* and products fit.                                                       *)
IntegersAreExact == BigIntLaws /\ NumberTheoryLaws

(* Rationals, complex numbers and matrices (RationalOps.c, ComplexOps.c,   *)
(* LinearAlgebra.c) obey the laws of their algebra.                        *)
AlgebraIsExact == FieldLaws /\ MatrixLaws

(* Statistics.c, and the vector kernels of Arithmetic and Bitwise, treat   *)
(* every element of an array once, in whatever blocks and lanes.           *)
ArraysAreExact == StatisticsLaws /\ KernelLaws

(* Lexer.c and ShuntingYard.c read a text as the symbols and the           *)
(* expression it stands for; Application/Output writes a number as a text  *)
(* that denotes it, and ConfigParser.c reads each line as what it says.    *)
TextsAgree == ExpressionLaws /\ OutputLaws /\ ConfigLaws

(* Calculus.c, ODE.c and Convert.c compute what their methods promise, and *)
(* Plotter.c draws a curve, a graph, a histogram where they are, within    *)
(* the frame of the plot.                                                  *)
MethodsAreExact == MethodLaws /\ PlotLaws
===============================================================================
