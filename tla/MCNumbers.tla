------------------------------ MODULE MCNumbers -------------------------------
(* A small instance of Numbers: big integers of up to three limbs of two   *)
(* bits, words of eight bits, and matrices of up to three rows.            *)
EXTENDS NumberLaws

MCBigInputs ==
  {a \in [limbs : Limbs(1) \cup Limbs(2) \cup ({0, 3} \X {0, 3} \X {1, 2, 3}) \cup {<<1, 0, 1>>},
          negative : BOOLEAN] : IsCanonical(a)}
MCTexts == [digits : UNION {[1 .. n -> 0 .. Radix - 1] : n \in 1 .. 3}, negative : BOOLEAN]

MCSingleWords == 0 .. WordRange - 1
MCPairedWords == 0 .. 20 \cup {63, 64, 119, 120, 127, 250, 255}
MCCongruences ==
  UNION {[1 .. n -> {0, 1, 4}] \X [1 .. n -> {1, 2, 3, 5, 8}] : n \in 1 .. 2}
    \cup ([1 .. 3 -> {2}] \X [1 .. 3 -> {2, 3, 5}])
MCRationals == {Simplified(n, d) : n \in -4 .. 4, d \in -2 .. 4}

Of(i) == Num(i)
Square(n, values) == [1 .. n -> [1 .. n -> values]]
MCMatrices ==
  Square(3, {Of(0), Of(1)}) \cup Square(2, {Of(i) : i \in -1 .. 2})
    \cup [1 .. 3 -> [1 .. 2 -> {Of(0), Of(3), Of(4)}]] \cup [1 .. 2 -> [1 .. 3 -> {Of(0), Of(2)}]]
    \cup {Identity(4), [r \in 1 .. 4 |-> <<One>>], <<[c \in 1 .. 4 |-> One]>>}
MCMatrixPairs ==
  (Square(2, {Of(0), Of(1), Of(3)}) \X Square(2, {Of(-1), Of(2)}))
    \cup ({<<<<One, Of(2)>>>>, Identity(2), Identity(3), Identity(4)} \X
          {<<<<One>>, <<Of(2)>>>>, Identity(2), Identity(3), Identity(4)})
MCSystems ==
  (Square(3, {Of(0), Of(1)}) \X {<<One, Of(2), Of(3)>>})
    \cup (Square(2, {Of(i) : i \in -1 .. 2}) \X {<<One, Zero>>, <<Of(2), Of(-1)>>})
    \cup ([1 .. 3 -> [1 .. 2 -> {Of(0), Of(3), Of(4)}]] \X {<<One, Of(2), Zero>>})
    \cup {<<Identity(4), <<One, One, One, One>>>>}

Tuples(lengths, values) == UNION {[1 .. n -> values] : n \in lengths}
MCSortedArrays ==
  Tuples(0 .. 4, {Of(0), Of(1), Of(3), Inexact}) \cup Tuples({5}, {Of(1), Of(3), Inexact})
MCArrays == Tuples(0 .. 5, {Of(-1), Of(0), Of(2)}) \cup Tuples({7}, {Of(0), Of(3)})
MCArrayPairs ==
  {p \in Tuples(0 .. 3, {Of(0), Of(1), Of(3)}) \X Tuples(0 .. 3, {Of(0), Of(1), Of(3)}) :
     Len(p[1]) = Len(p[2])}
    \cup ({[i \in 1 .. 6 |-> Of(i)]} \X Tuples({6}, {Of(0), Of(1)}))
MCPercents == {Of(-5), Of(0), Of(25), Of(50), Of(60), Of(100), Of(120)}

(* The result of an operation keeps its operands apart. *)
MCApply(op, x, y) == 1000 + 40 * x + y
MCMemory == [x \in 0 .. 29 |-> IF x \in {9, 13, 15, 16} THEN 0 ELSE x + 1]
MCKernelCalls ==
  [build : Builds, features : Features, mem : {MCMemory}, flags : {{InvalidFlag}},
   a : {0}, b : {0, 9}, result : {0, 2, 20}, count : 0 .. 8]

MCComplexes ==
  {Pair(x, y) : x, y \in {Of(-2), Of(0), Of(1), Of(3), Fraction(1, 2)}}
MCPowers == {Real(x) : x \in {Of(-2), Of(-1), Of(0), Of(1), Of(2), Of(3), Fraction(1, 2)}} \cup {Pair(Zero, One)}

(* Trees of up to two levels; of the second level, those with one operand  *)
(* of no more than one level and the other a number.                       *)
MCCustom == [twice |-> Of(2)]
MCLeaves == {Leaf(Real(Of(4))), Leaf(CZero), Leaf(Pair(Zero, Of(3)))}
Grown(ts, us) ==
  {Negation(t) : t \in ts} \cup {FunctionOf(fn, t) : fn \in {"sqrt", "fact", "twice"}, t \in ts}
    \cup {Operation(sign, t, u) : sign \in {"+", "-", "*", "/"}, t \in ts, u \in us}
    \cup {Operation(sign, u, t) : sign \in {"+", "-", "*", "/"}, t \in ts, u \in us}
MCShallow == MCLeaves \cup Grown(MCLeaves, MCLeaves)
MCTrees ==
  MCShallow \cup Grown(MCShallow, {Leaf(Real(Of(4)))})
    \cup Grown(Grown(Grown({Leaf(Real(Of(2)))}, {Leaf(Pair(Zero, Of(3)))}), {Leaf(CZero)}), {Negation(Leaf(COne))})

MCDigits == [c \in {"0", "1", "2"} |-> CASE c = "0" -> 0 [] c = "1" -> 1 [] c = "2" -> 2]
MCLetters == {"e", "x", "p"}
MCLines ==
  Tuples(0 .. 4, {"0", "2", ".", "e", "-", "x", " "})
    \cup [1 .. 6 -> {"1", ".", "e"}] \cup {<<"1", "e", s, c, d>> : s \in {"+", "-"}, c \in {"0", "1", "."}, d \in {"1", "2"}}
    \cup {<<"e", "x", "p">> \o s : s \in Tuples(0 .. 2, {" ", "(", "tab", "p", "2"})}
    \cup Tuples({3}, {"CF", "80", "E2", "88", "9A"})

MCPolynomials ==
  Tuples({1, 2}, {Of(-2), Of(0), Of(1)}) \cup {<<Of(-2), Zero, One>>, <<Of(-1), Of(3), Of(2)>>,
    <<Zero, Zero, Of(-1)>>, <<One, Of(-2), Zero, Of(4)>>,
    <<Of(-2), Fraction(1, 8)>>, <<One, Fraction(-1, 8), Fraction(1, 8)>>}
MCPoints == {Of(-1), Of(0), Fraction(1, 2), Of(2)}
MCForms ==
  [form : [linear : {Of(0), Of(3)}, mixed : {Of(-1), Of(2)}], m : 0 .. 3,
   point : Tuples(0 .. 3, {Of(-1), Of(2)})]
MCEquations ==
  [forcing : {<<>>, <<One>>, <<Of(-1), Of(2)>>, <<Zero, One, Zero, Of(4)>>}, rate : {Of(-1), Of(0), Of(2)},
   t0 : {Of(0), Of(1)}, y0 : Tuples(1 .. 3, {Of(0), Of(3)}), dt : {Of(1), Fraction(1, 2)}, steps : 0 .. 2]
MCAttempts ==
  {[accepted |-> TRUE, factor |-> One], [accepted |-> TRUE, factor |-> Of(5)],
   [accepted |-> FALSE, factor |-> Fraction(1, 2)], [accepted |-> FALSE, factor |-> One]}
MCAdaptations ==
  [t0 : {Of(0)}, tEnd : {Of(-1), Of(1), Of(3)}, dtInit : {Of(0), Fraction(1, 3), Of(2)},
   attempts : Tuples({3}, MCAttempts), maxSteps : {0, 2, 3}]

(* Kilometres, pounds of half a kilogram, and temperatures with the zero   *)
(* of the Celsius scale at 273 K.                                          *)
UnitOf(factor, offset) == [factor |-> factor, offset |-> offset]
MCUnitTables ==
  [length |-> <<UnitOf(One, Zero), UnitOf(Of(1000), Zero)>>,
   mass   |-> <<UnitOf(One, Zero), UnitOf(Of(1000), Zero), UnitOf(Of(500), Zero)>>,
   temp   |-> <<UnitOf(One, Zero), UnitOf(One, Of(273)), UnitOf(Fraction(5, 9), Fraction(2297, 9))>>]
MCQuantities == {Of(-40), Of(0), Of(3), Of(32), Of(100)}
Known(type, from, x, to, y) == [type |-> type, from |-> from, x |-> x, to |-> to, y |-> y]
MCKnownConversions ==
  {Known("length", 2, Of(3), 1, Of(3000)), Known("mass", 2, Of(3), 3, Of(6)),
   Known("temp", 2, Of(0), 1, Of(273)), Known("temp", 3, Of(32), 2, Of(0)),
   Known("temp", 2, Of(100), 3, Of(212)), Known("temp", 2, Of(-40), 3, Of(-40))}
MCDefaults == [integral |-> 4, adaptive |-> 4, roots |-> 3, tolerance |-> Fraction(1, 8)]
MCDefaultStep == Fraction(1, 4)
MCMinStep == Fraction(1, 8)
MCTinySlope == Fraction(1, 4)
MCFlushedBelow == Fraction(1, 8)
MCDifferences == MCPoints \cup {Fraction(1, 32), Fraction(-1, 20)}

(* Words of three bits; a normal sample is <<"cos", x, y>> or <<"sin", x, y>>. *)
Asked(op, args) == [op : {op}, arg : args]
MCRequests ==
  Asked("uniform", {0}) \cup Asked("normal", {0}) \cup Asked("exponential", {0, 1})
    \cup Asked("bernoulli", {0, 1, 2}) \cup Asked("poisson", {-1, 1, 4}) \cup Asked("gamma", {0, 1, 2})
MCAbove(us, lambda) ==
  LET p[i \in 0 .. Len(us)] == IF i = 0 THEN 1 ELSE p[i - 1] * us[i]
  IN  p[Len(us)] * 3 > 4 ^ Len(us)
MCCubeIsPositive(shape, z) == z[1] = "sin" \/ z[3] # 2
MCAccepted(shape, z, n) == n # 1 \/ z[2] = 3
MCMixShifts == <<2, 1, 2>>
MCMixFactors == <<5, 3>>
MCFallbackWords == <<1, 2, 5, 6>>

(* Words of twelve bits; two pieces to a format. *)
MCIntegersShown == {-2048, -1234, -1000, -999, -64, -1, 0, 5, 9, 10, 99, 100, 999, 1000, 1001, 2047}
MCLargeFrom == Of(1600)
MCSmallBelow == Fraction(1, 50)
MCReals ==
  {Of(0), Of(1), Of(-7), Of(999), Of(1234), Of(1599), Of(1600), Of(-1650), Of(1995), Of(-2000), Of(3000),
   Fraction(1, 2), Fraction(-1, 3), Fraction(19, 20), Fraction(-1999, 2), Fraction(1, 40), Fraction(1, 50),
   Fraction(1, 51), Fraction(-1, 101), Fraction(1, 200), Inexact, Infinite(1), Infinite(-1)}
Piece(fmt, args) == [fmt |-> fmt, args |-> args]
Given(i, text, x) == [int |-> i, text |-> text, real |-> x]
MCPiece ==
  {Piece(<<"%", "d">>, <<Given(i, <<>>, Zero)>>) : i \in {-2048, -64, 0, 999, 1000}}
    \cup {Piece(<<"%", "l", "l", d>>, <<Given(i, <<>>, Zero)>>) : d \in {"u", "X"}, i \in {100, 1234}}
    \cup {Piece(<<"%", "x">>, <<Given(-1, <<>>, Zero)>>), Piece(<<"%", "s">>, <<Given(0, <<"a", "b">>, Zero)>>),
          Piece(<<"%", "c">>, <<Given(0, <<"c">>, Zero)>>), Piece(<<"%", "f">>, <<Given(0, <<>>, Of(1234))>>),
          Piece(<<"%", "f">>, <<Given(0, <<>>, Infinite(-1))>>), Piece(<<"%", "l", "l", "q">>, <<>>),
          Piece(<<"%", "%">>, <<>>), Piece(<<"%", ".", "1", "f">>, <<>>), Piece(<<"o", "k">>, <<>>)}
MCPieces == Tuples(0 .. 2, MCPiece)

(* A key of a word and one of a byte of two bits. *)
MCFieldOf == (<<"k">> :> "frequency") @@ (<<"k", "2">> :> "switch")
MCFieldRange == [frequency |-> 64, switch |-> 4]
MCConfigTexts ==
  Tuples(0 .. 4, {"k", "2", "=", "#", "newline", " ", "["})
    \cup {<<"k", "=", "1">> \o s : s \in Tuples({1, 2, 3}, {"k", "2", "=", "#", "return", "tab"})}
    \cup {<<"k", "2">> \o s : s \in Tuples({4}, {"=", "1", "9", " "})}

MCAreas ==
  {[x |-> 3, y |-> 2, w |-> w, h |-> 4, xMin |-> xs[1], xMax |-> xs[2], yMin |-> ys[1], yMax |-> ys[2],
    invX |-> Reciprocal(Minus(xs[2], xs[1])), invY |-> Reciprocal(Minus(ys[2], ys[1])), casts |-> casts] :
      w \in {2, 7}, xs \in {<<Of(-1), Of(2)>>, <<Of(0), Of(14)>>},
      ys \in {<<Of(-2), Of(2)>>, <<Of(1), Of(3)>>}, casts \in Casts}
Curve(over, under) == [over |-> over, under |-> under]
MCCurves ==
  {Curve(<<One>>, <<One>>), Curve(<<One, Fraction(1, 7)>>, <<One>>), Curve(<<Zero, Of(-1)>>, <<One>>),
   Curve(<<Of(-1), Zero, One>>, <<One>>), Curve(<<One>>, <<Zero, One>>)}
MCPlace == {<<Of(-1), Of(2)>>, <<Of(0), Of(1)>>, <<Of(1), Of(3)>>, <<Of(2), Of(-2)>>, <<Of(5), Inexact>>}
MCGraphs == Tuples(0 .. 2, MCPlace) \cup Tuples({3}, {<<Of(0), Of(1)>>, <<Of(2), Of(2)>>, <<Of(1), Inexact>>})
===============================================================================
