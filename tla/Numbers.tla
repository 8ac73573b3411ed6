------------------------------- MODULE Numbers --------------------------------
(***************************************************************************)
(* The number libraries of Kernel/Operations under a caller that makes one *)
(* call after the other: big integers, number theory, rational and complex *)
(* numbers, linear algebra, statistics, numerical methods, units, the      *)
(* vector kernels, the lexer and the evaluator on a stack.  None of them   *)
(* keeps a state between calls, so a caller of each can be looked at by    *)
(* itself: library is the one it uses, call the call just made, with its   *)
(* answer.  The random numbers keep one, and have a caller of their own.   *)
(***************************************************************************)
EXTENDS BigInt, NumberTheory, LinearAlgebra, Arrays, ShuntingYard, Methods,
        Lexer, Plotting, RandomNumbers

(* Conversion of units (Kernel/Operations/Units): a table for each type of *)
(* unit, with the factor and the offset that lead to the base unit.        *)

CONSTANT UnitTables  (* the rows of each type, the base unit first *)

UnitTypes == DOMAIN UnitTables
UnitRow == [factor : Fractions, offset : Fractions]

ASSUME UnitsAssumption == \A type \in UnitTypes : UnitTables[type] \in Seq(UnitRow)

Listed(type, idx) == type \in UnitTypes /\ idx \in DOMAIN UnitTables[type]

(* Only temperatures have an offset that is not zero. *)
ToBase(x, from) == Plus(Times(x, from.factor), from.offset)
FromBase(x, to) == Over(Minus(x, to.offset), to.factor)

ConvertUnits(x, type, from, to) ==
  IF ~Listed(type, from) \/ ~Listed(type, to) THEN [ok |-> FALSE]
  ELSE [ok    |-> TRUE,
        value |-> FromBase(ToBase(x, UnitTables[type][from]), UnitTables[type][to])]

-------------------------------------------------------------------------------
CONSTANTS
  BigInputs, Exponents, Texts,          (* big integers, and texts of such *)
  SingleWords, PairedWords,             (* arguments of number theory *)
  Congruences, RationalInputs, ComplexInputs, Powers,
  Matrices, MatrixPairs, Systems,       (* Systems: pairs of a matrix and a vector *)
  Arrays, SortedArrays, ArrayPairs, Percents,
  KernelCalls,                          (* records of the arguments of a kernel *)
  Trees, Lines,                         (* expressions, and texts for the lexer *)
  Polynomials, Points, Steps, Differences,  (* numerical methods *)
  Forms,                                (* triples of quadratic forms, a point, a count *)
  Equations,                            (* records of the arguments of rk4 *)
  Adaptations,                          (* records of the arguments of rk45 *)
  Quantities,                           (* to convert *)
  IntegersShown, Radixes, RealsShown, DecimalPlaces, (* to print *)
  Pieces, Sizes,                        (* of a format: texts of pieces, and of buffers *)
  ConfigTexts,
  Areas, Curves, Graphs, Counts         (* to plot; Graphs: sequences of pairs *)

VARIABLES library, call

NoCall == [op |-> "none"]
Call(op, args, answer) == call' = [op |-> op, args |-> args, answer |-> answer]
Called(ops) == call.op \in ops
Answer == call.answer

-------------------------------------------------------------------------------
(* Big integers.  A result that does not fit is left out where the code    *)
(* would write past the limbs.                                             *)

Fits(i) == Magnitude(i) < Base ^ MaxLimbs
Places(a, b) == [p \in {"a", "b", "quotient", "remainder"} |-> IF p = "a" THEN a ELSE b]
Room(a, b) == ~IsZero(b) => Len(Dividend(a.limbs, b.limbs)) <= MaxLimbs

CallBigInt ==
  \/ \E a, b \in BigInputs :
       \/ Fits(ValueOf(a) + ValueOf(b)) /\ Call("bigint_add", <<a, b>>, Sum(a, b))
       \/ Fits(ValueOf(a) - ValueOf(b)) /\ Call("bigint_sub", <<a, b>>, Difference(a, b))
       \/ Call("bigint_mul", <<a, b>>, Product(a, b))
       \/ Call("bigint_compare", <<a, b>>, Compare(a, b))
       \/ /\ Room(a, b)
          /\ \E q \in {"a", "quotient"}, r \in {"b", "remainder"} :
               Call("bigint_div_mod", <<a, b, q, r>>, DivMod(Places(a, b), "a", "b", q, r))
       \/ /\ Len(a.limbs) < MaxLimbs /\ Len(b.limbs) < MaxLimbs
          /\ Call("bigint_gcd", <<a, b>>, GcdOf(a, b))
  \/ \E a \in BigInputs, e \in Exponents : Call("bigint_pow", <<a, e>>, Power(a, e))
  \/ \E n \in Exponents : Call("bigint_factorial", <<n, n>>, Factorial(n))
  \/ \E a \in BigInputs : Call("bigint_to_string", <<a, a>>, ToText(a))
  \/ \E text \in Texts : Call("bigint_from_string", <<text, text>>, FromText(text))

-------------------------------------------------------------------------------
(* Number theory and rationals. *)

CallNumberTheory ==
  \/ \E n \in SingleWords :
       \/ Call("is_prime", <<n>>, IsPrime(n))
       \/ Call("next_prime", <<n>>, NextPrime(n))
       \/ Call("euler_totient", <<n>>, Totient(n))
  \/ \E a, b \in PairedWords :
       \/ Call("gcd", <<a, b>>, Gcd(a, b))
       \/ Call("lcm", <<a, b>>, Lcm(a, b))
       \/ Call("mod_inverse", <<a, b>>, ModInverse(a, b))
       \/ {a, b} # {0} /\ Call("extended_gcd", <<a, b>>, ExtendedGcd(a, b))
       \/ \E e \in Exponents : b # 0 /\ Call("mod_exp", <<a, e, b>>, ModExp(a, e, b))
  \/ \E c \in Congruences : Call("chinese_remainder", c, ChineseRemainder(c[1], c[2]))

CallComplex ==
  \E a \in ComplexInputs :
    \/ \E b \in ComplexInputs :
         \/ Call("complex_mul", <<a, b>>, CTimes(a, b))
         \/ Call("complex_div", <<a, b>>, COver(a, b))
    \/ \E e \in Powers : Call("complex_pow", <<a, e>>, CPower(a, e))
    \/ Call("complex_sqrt", <<a>>, CSquareRoot(a))
    \/ Call("complex_modulus", <<a>>, Modulus(a))

CallRational ==
  \E a, b \in RationalInputs :
    \/ Call("rational_add", <<a, b>>, RationalSum(a, b, 1))
    \/ Call("rational_sub", <<a, b>>, RationalSum(a, b, -1))
    \/ Call("rational_mul", <<a, b>>, RationalProduct(a, b))
    \/ Call("rational_div", <<a, b>>, RationalRatio(a, b))

-------------------------------------------------------------------------------
(* Linear algebra. *)

IsSquare(A) == Len(A) = Width(A)

CallLinearAlgebra ==
  \/ \E A \in Matrices :
       \/ Call("matrix_transpose", <<A>>, MatrixTranspose(A))
       \/ Call("matrix_rref", <<A>>, MatrixRref(A))
       \/ Call("matrix_qr", <<A>>, MatrixQR(A))
       \/ /\ IsSquare(A)
          /\ \/ Call("matrix_trace", <<A>>, MatrixTrace(A))
             \/ Call("matrix_determinant", <<A>>, MatrixDeterminant(A))
             \/ Call("matrix_inverse", <<A>>, MatrixInverse(A))
             \/ Call("matrix_lu", <<A>>, MatrixLU(A))
  \/ \E p \in MatrixPairs :
       \/ Call("matrix_add", p, MatrixAdd(p[1], p[2]))
       \/ Call("matrix_mul", p, MatrixMul(p[1], p[2]))
  \/ \E s \in Systems :
       \/ IsSquare(s[1]) /\ Call("solve_linear", s, SolveLinear(s[1], s[2]))
       \/ Call("least_squares", s, LeastSquares(s[1], s[2]))

-------------------------------------------------------------------------------
(* Statistics, and the vector kernels. *)

CallStatistics ==
  \/ \E a \in SortedArrays : \E left \in {Left(a)} :
       \/ Call("median", <<a>>, <<Median(a), left>>)
       \/ \E p \in Percents : Call("percentile", <<a, p>>, <<Percentile(a, p), left>>)
  \/ \E lanes \in {1, 2, 4} :
       \/ \E a \in Arrays :
            \/ Call("mean", <<a>>, Mean(a, lanes))
            \/ Call("variance", <<a>>, Variance(a, lanes))
            \/ Call("skewness", <<a>>, Skewness(a, lanes))
            \/ Call("kurtosis", <<a>>, Kurtosis(a, lanes))
       \/ \E p \in ArrayPairs :
            \/ Call("correlation", p, Correlation(p[1], p[2], lanes))
            \/ Call("linear_regression", p, LinearRegression(p[1], p[2], lanes))

CallKernel ==
  \E k \in KernelCalls :
    \/ Call("addition", k, ExecuteAddition(k))
    \/ Call("subtraction", k, ExecuteSubtraction(k))
    \/ Call("multiplication", k, ExecuteMultiplication(k))
    \/ Call("division", k, ExecuteDivision(k))
    \/ Call("and", k, ExecuteAnd(k))
    \/ Call("or", k, ExecuteOr(k))
    \/ Call("xor", k, ExecuteXor(k))
    \/ Call("shift", k, ExecuteShift(k))

-------------------------------------------------------------------------------
(* Expressions, numerical methods, units. *)

CallExpression ==
  \E tree \in Trees :
    \E parsed \in {<<"infix_to_rpn", InfixToRpn(Infix(tree))>>, <<"parse_rpn", ParseRpn(Postfix(tree))>>} :
      Call(parsed[1], <<tree>>, [ok |-> parsed[2].ok, result |-> EvaluateRpn(parsed[2].out)])

CallLexer == \E line \in Lines : Call("lexer_next_token", <<line>>, TokensFrom(line, 1))

CallCalculus ==
  \E f \in Polynomials, x \in Points :
    \/ \E h \in Differences : Call("derivative", <<f, x, h>>, Derivative(f, x, h))
    \/ \E b \in Points, n \in 0 .. StepRange - 1 :
         Call("integral", <<f, x, b, n>>, Integral(f, x, b, n))
    \/ \E n \in Steps, tolerance \in Points :
         ~Negative(tolerance) /\
         \/ \E df \in {<<>>, Derived(f)} :
              Call("newton_raphson", <<f, df, x, n, tolerance>>, NewtonRaphson(f, df, x, n, tolerance))
         \/ \E b \in Points :
              Less(x, b) /\
              Call("bisection", <<f, x, b, n, tolerance>>, RootBisection(f, x, b, n, tolerance))

CallVectorCalculus ==
  \E s \in Forms, h \in Differences :
    LET F == [x \in Seq(Fractions) |-> [i \in 1 .. s.m |-> QuadraticAt(s.form, i, x)]]
        First == [x \in Seq(Fractions) |-> QuadraticAt(s.form, 1, x)]
    IN  \/ Call("calc_gradient", <<s, h>>, Gradient(First, s.point, h))
        \/ Call("calc_jacobian", <<s, h>>, Jacobian(F, s.m, s.point, h))

(* Equations that do not depend on each other, with a forcing term; and    *)
(* the same for one of them, with the time as an unknown of its own.       *)
SlopesOf(e) ==
  [t \in Fractions, y \in Seq(Fractions) |->
     [j \in DOMAIN y |-> Plus(PolyAt(e.forcing, t), Times(e.rate, y[j]))]]
ClockSlopes(e) ==
  [t \in Fractions, y \in Seq(Fractions) |->
     <<One, Plus(PolyAt(e.forcing, y[1]), Times(e.rate, y[2]))>>]

CallODE ==
  \/ \E e \in Equations :
       Call("calc_ode_rk4", <<e>>,
            RkSystem(SlopesOf(e), e.t0, e.y0, e.dt, e.steps))
  \/ \E r \in Adaptations :
       Call("calc_ode_rk45", <<r>>, Adaptive(r.t0, r.tEnd, r.dtInit, r.attempts, r.maxSteps))

CallUnits ==
  \E type \in UnitTypes \cup {"none"}, x \in Quantities, from, to \in 0 .. 4 :
    Call("convert_units", <<x, type, from, to>>, ConvertUnits(x, type, from, to))

-------------------------------------------------------------------------------
(* Texts of numbers and settings; the plotter. *)

(* A format is put together from pieces, each a text with its arguments.   *)
FormatOf(pieces) == FlattenSeq([i \in DOMAIN pieces |-> pieces[i].fmt])
ArgumentsOf(pieces) == FlattenSeq([i \in DOMAIN pieces |-> pieces[i].args])

DefaultConfig == [f \in DOMAIN FieldRange |-> 1]

CallOutput ==
  \/ \E n \in IntegersShown, base \in Radixes, upper \in BOOLEAN :
       Call("print_int", <<n, base, upper>>, PrintInt(n, base, upper))
  \/ \E x \in RealsShown, p \in DecimalPlaces :
       Call("print_float", <<x, p>>, PrintFloat(x, p))
  \/ \E pieces \in Pieces, size \in Sizes :
       Call("format_string", <<pieces, size>>,
            FormatString(size, FormatOf(pieces), ArgumentsOf(pieces)))

CallConfig == \E text \in ConfigTexts :
  Call("parse_config", <<text>>, ParseConfig(DefaultConfig, text))

CallPlotter ==
  \E cfg \in Areas :
    \/ Call("plot_clear_area", <<cfg>>, ClearArea(cfg))
    \/ Call("plot_draw_grid", <<cfg>>, DrawGrid(cfg))
    \/ Call("plot_draw_axes", <<cfg>>, DrawAxes(cfg))
    \/ Call("plot_draw_labels", <<cfg>>, DrawLabels(cfg))
    \/ \E x \in Columns(cfg), y \in Rows(cfg) :
         Call("plot_screen_to_world", <<cfg, x, y>>, ScreenToWorld(cfg, x, y))
    \/ \E curve \in Curves, n \in Counts :
         Call("plot_function", <<cfg, curve, n>>, PlotFunction(cfg, curve, n))
    \/ \E one, other \in Curves \cup {NoCurve} :
         Call("plot_functions_overlay", <<cfg, <<one, other, one>>>>,
              PlotFunctionsOverlay(cfg, <<one, other, one>>, 0))
    \/ \E data \in Graphs :
         \/ Call("plot_line_graph", <<cfg, data>>, PlotLineGraph(cfg, data))
         \/ \E radius \in 0 .. 1 : Call("plot_scatter", <<cfg, data, radius>>, PlotScatter(cfg, data, radius))
         \/ \E n \in Counts :
              LET values == [i \in DOMAIN data |-> data[i][2]]
              IN  \/ /\ \A i \in DOMAIN data : Exact(values[i])
                     /\ Call("plot_histogram", <<cfg, values, n>>, PlotHistogram(cfg, values, n))
                  \/ Call("plot_auto_scale_y", <<cfg, values, n>>, AutoScaleY(cfg, values, Num(n)))

Libraries ==
  {"BigInt", "NumberTheory", "Complex", "Rational", "LinearAlgebra", "Statistics", "Vectors",
   "ShuntingYard", "Lexer", "Calculus", "VectorCalculus", "ODE", "Units", "Output", "Config", "Plotter", "Random"}

Using(lib) == call = NoCall /\ library = lib /\ UNCHANGED library

Return == call # NoCall /\ call' = NoCall /\ UNCHANGED library

Init == library \in Libraries /\ call = NoCall /\ ReplayInit

PureCall ==
  \/ Using("BigInt") /\ CallBigInt
  \/ Using("NumberTheory") /\ CallNumberTheory
  \/ Using("Complex") /\ CallComplex
  \/ Using("Rational") /\ CallRational
  \/ Using("LinearAlgebra") /\ CallLinearAlgebra
  \/ Using("Statistics") /\ CallStatistics
  \/ Using("Vectors") /\ CallKernel
  \/ Using("ShuntingYard") /\ CallExpression
  \/ Using("Lexer") /\ CallLexer
  \/ Using("Calculus") /\ CallCalculus
  \/ Using("VectorCalculus") /\ CallVectorCalculus
  \/ Using("ODE") /\ CallODE
  \/ Using("Units") /\ CallUnits
  \/ Using("Output") /\ CallOutput
  \/ Using("Config") /\ CallConfig
  \/ Using("Plotter") /\ CallPlotter
  \/ Return

Next ==
  \/ PureCall /\ UNCHANGED <<randomVars, replayVars>>
  \/ Using("Random") /\ CallRandom /\ UNCHANGED call

vars == <<library, call, randomVars, replayVars>>

(* A call of the generator that has begun goes on. *)
Spec == Init /\ [][Next]_vars /\ WF_vars(library = "Random" /\ Continue /\ UNCHANGED <<library, call>>)
===============================================================================
