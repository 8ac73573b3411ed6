-------------------------------- MODULE Parser --------------------------------
(***************************************************************************)
(* The expression parser (Application/Input/Parser.c): a Pratt parser that *)
(* evaluates while it reads, with a table of variables that outlives the   *)
(* line, assignments anywhere in an expression, and the calls solve() and  *)
(* rk4() that evaluate their first argument over and over.                 *)
(*                                                                         *)
(* A line is a sequence of tokens, as the lexer makes them.  The parser is *)
(* Parse[n], for texts of which at most n tokens are left: its argument    *)
(* and its result are the state of a parse, a record of                    *)
(*   toks, pos  the tokens and the next one to read                        *)
(*   ok, val    *success and the value returned                            *)
(*   table      the symbol table, divZero bit 2 of state->flags            *)
(*   trap       the processor stopped at an integer division by zero       *)
(*   depth      g_parse_depth; outer: the depths of the parses around this *)
(*              one; deepest: the most calls of a prefix function at once  *)
(* The functions of Parser.c take as their argument P the parser for the   *)
(* tokens left to what they parse.                                         *)
(***************************************************************************)
EXTENDS Fraction, Sequences, SequencesExt, FiniteSets

CONSTANTS
  Names,        (* identifiers                                             *)
  MaxSymbols,   (* MAX_SYMBOLS: 128                                        *)
  MaxDepth,     (* MAX_PARSE_DEPTH: 256                                    *)
  MaxExpr,      (* PARSER_EXPR_STR_SIZE: 512, here in tokens               *)
  MaxArgs,      (* arguments of a statistical function: 256                *)
  Iterations,   (* of the root finders: 100                                *)
  Tolerance,    (* 1e-9                                                    *)
  NewtonStep,   (* 1e-5                                                    *)
  Uint,         (* the values of a uint32_t: 2^32                          *)
  Cut,          (* a name, cut to the 31 characters solve and rk4 keep     *)
  Plugged       (* the functions of plugins, each with a factor            *)

ASSUME ParserAssumption ==
  /\ {MaxSymbols, MaxDepth, MaxExpr, MaxArgs, Iterations, Uint} \subseteq Nat \ {0}
  /\ {Tolerance, NewtonStep} \subseteq Fractions
  /\ Cut \in [Names -> Names]
  /\ DOMAIN Plugged \subseteq Names

VARIABLES
  symbols,      (* symbol_table[0 .. symbol_count)                         *)
  divZero,      (* state->flags & 2                                        *)
  answer,       (* state->operands[0]; zero while op_count is 0            *)
  last          (* the last line and what came of it                       *)

vars == <<symbols, divZero, answer, last>>

Types == {"NUMBER", "PLUS", "MINUS", "STAR", "SLASH", "PERCENT", "POWER", "LPAREN",
          "RPAREN", "IDENTIFIER", "COMMA", "EQUALS", "FACTORIAL", "SQRT", "EXP_OP",
          "ERROR", "EOF"}
Tokens == [type : Types \ {"IDENTIFIER"}, name : {""}, num : Fractions]
            \cup [type : {"IDENTIFIER"}, name : Names, num : {Zero}]
Token(type) == [type |-> type, name |-> "", num |-> Zero]
Symbol == [name : Names, value : Fractions]

ParseState ==
  [toks : Seq(Tokens), pos : Nat \ {0}, ok : BOOLEAN, val : Fractions, table : Seq(Symbol),
   divZero : BOOLEAN, trap : BOOLEAN, depth : Nat, outer : Nat, deepest : Nat]

-------------------------------------------------------------------------------
(* The tokenizer, and the ways a function of the parser returns. *)

Peek(s) == IF s.pos > Len(s.toks) THEN Token("EOF") ELSE s.toks[s.pos]
Sees(s, type) == Peek(s).type = type

(* tokenizer_consume: the end of the line is never passed. *)
Consume(s) == IF Sees(s, "EOF") THEN s ELSE [s EXCEPT !.pos = @ + 1]

Value(s, x) == [s EXCEPT !.val = x]
Fail(s) == [s EXCEPT !.ok = FALSE, !.val = Zero]
FailDivZero(s) == [Fail(s) EXCEPT !.divZero = TRUE]
Trap(s) == [Fail(s) EXCEPT !.trap = TRUE]

(* if (tokenizer_consume(tok).type != type) fail. *)
Expect(s, type) ==
  IF Sees(s, type) THEN Consume(s) ELSE Fail(Consume(s))

(* A step that is taken only while nothing has failed; the two differ in   *)
(* what is returned otherwise, the value so far or zero.                   *)
Then(s, Step(_)) == IF s.ok THEN Step(s) ELSE s
Checked(s, Step(_)) == IF s.ok THEN Step(s) ELSE Fail(s)

-------------------------------------------------------------------------------
(* The symbol table. *)

SlotOf(table, x) == SelectInSeq(table, LAMBDA sym : sym.name = x)
Defined(table, x) == SlotOf(table, x) # 0
ValueOf(table, x) == table[SlotOf(table, x)].value

HasRoom(table) == Len(table) < MaxSymbols

(* Mutant: a second symbol of the same name. *)
MutSetVariable(table, x, v) ==
  IF HasRoom(table) THEN Append(table, [name |-> x, value |-> v]) ELSE table

(* set_variable: dropped silently when the table is full. *)
SetVariable(table, x, v) ==
  IF Defined(table, x) THEN [table EXCEPT ![SlotOf(table, x)].value = v]
  ELSE IF HasRoom(table) THEN Append(table, [name |-> x, value |-> v])
  ELSE table

RemoveVariable(table, x) ==
  IF Defined(table, x) THEN RemoveAt(table, SlotOf(table, x)) ELSE table

(* Mutant: a loop variable that did not exist stays behind. *)
MutRestored(old, table, x) ==
  IF Defined(old, x) THEN SetVariable(table, x, ValueOf(old, x)) ELSE table

(* The loop variable x as it was in the table old. *)
Restored(old, table, x) ==
  IF Defined(old, x) THEN SetVariable(table, x, ValueOf(old, x)) ELSE RemoveVariable(table, x)

-------------------------------------------------------------------------------
(* The rules of the Pratt parser. *)

NONE == 0
TERM == 1
FACTOR == 2
UNARY == 3

(* Mutant: subtraction binds like multiplication. *)
MutPrecedence(type) ==
  CASE type = "PLUS"                                                      -> TERM
    [] type \in {"MINUS", "STAR", "SLASH", "PERCENT", "LPAREN", "IDENTIFIER"} -> FACTOR
    [] type \in {"POWER", "FACTORIAL", "SQRT", "EXP_OP"}                  -> UNARY
    [] OTHER                                                              -> NONE

PrecedenceOf(type) ==
  CASE type \in {"PLUS", "MINUS"}                                         -> TERM
    [] type \in {"STAR", "SLASH", "PERCENT", "LPAREN", "IDENTIFIER"}      -> FACTOR
    [] type \in {"POWER", "FACTORIAL", "SQRT", "EXP_OP"}                  -> UNARY
    [] OTHER                                                              -> NONE

PrefixTypes == {"NUMBER", "MINUS", "LPAREN", "IDENTIFIER", "SQRT"}
InfixTypes == {"PLUS", "MINUS", "STAR", "SLASH", "PERCENT", "POWER", "LPAREN", "IDENTIFIER",
            "FACTORIAL", "EXP_OP"}

-------------------------------------------------------------------------------
(* Operators. *)

(* local_pow: exact for whole exponents. *)
Power(x, y) ==
  IF y = Zero THEN One
  ELSE IF x = Zero THEN Zero
  ELSE IF ~IsWhole(y) THEN Inexact
  ELSE IF y.n >= 0 THEN RaisedTo[y.n][x]
  ELSE Over(One, RaisedTo[-y.n][x])

(* The C remainder: the quotient is cut towards zero. *)
Remainder(i, j) == i - j * Truncated(Fraction(i, j))

(* parse_binary after its right operand, whose parse is r. *)
Operation(type, x, r) ==
  LET y == r.val IN
  CASE type = "PLUS"    -> Value(r, Plus(x, y))
    [] type = "MINUS"   -> Value(r, Minus(x, y))
    [] type = "STAR"    -> Value(r, Times(x, y))
    [] type = "SLASH"   -> IF y = Zero THEN FailDivZero(r) ELSE Value(r, Over(x, y))
    [] type = "POWER"   -> Value(r, Power(x, y))
    [] type = "EXP_OP"  -> Value(r, Times(x, Power(Num(10), y)))
    [] type = "PERCENT" ->
         IF y = Zero THEN FailDivZero(r)
         ELSE IF ~Exact(x) \/ ~Exact(y) THEN Value(r, Inexact)
         ELSE IF Truncated(y) = 0 THEN Trap(r)
         ELSE Value(r, Num(Remainder(Truncated(x), Truncated(y))))

Binary(P, s) ==
  Checked(P[PrecedenceOf(Peek(s).type) + 1][Consume(s)],
          LAMBDA r : Operation(Peek(s).type, s.val, r))

ImplicitMul(P, s) == Checked(P[UNARY][s], LAMBDA r : Value(r, Times(s.val, r.val)))

FactorialArgument(x) == IsWhole(x) /\ x.n \in 0 .. 170
FactorialOf(x) ==
  LET F[i \in Nat] == IF i = 0 THEN One ELSE Times(F[i - 1], Num(i))
  IN  F[x.n]

Factorial(s) ==
  IF FactorialArgument(s.val) THEN Value(Consume(s), FactorialOf(s.val))
  ELSE Fail(Consume(s))

Infix(P, s) ==
  CASE Peek(s).type \in {"LPAREN", "IDENTIFIER"} -> ImplicitMul(P, s)
    [] Sees(s, "FACTORIAL")                      -> Factorial(s)
    [] OTHER                                     -> Binary(P, s)

Number(s) == Value(Consume(s), Peek(s).num)

Unary(P, s) == LET r == P[UNARY][Consume(s)] IN Value(r, Neg(r.val))

Grouping(P, s) ==
  LET r == P[NONE][Consume(s)]
  IN  [Consume(r) EXCEPT !.ok = @ /\ Sees(r, "RPAREN")]

(* The root of a number, followed when it is a whole square. *)
Root(x) ==
  LET roots == {i \in 0 .. 181 : i * i = x.n}
  IN  IF IsWhole(x) /\ roots # {} THEN Num(CHOOSE i \in roots : TRUE) ELSE Inexact

UnarySqrt(P, s) ==
  LET r == P[UNARY][Consume(s)]
  IN  IF Negative(r.val) THEN Fail(r) ELSE Value(r, Root(r.val))

-------------------------------------------------------------------------------
(* Parses inside a parse: solve(expr, x, guess), solve(expr, x, low, high), *)
(* rk4(expr, x, y, x0, y0, x1, steps).                                     *)

(* parse_expression: the depth counts from zero and is restored after. *)
ParseExpression(P, toks, s) ==
  LET r == P[NONE][[s EXCEPT !.toks = toks, !.pos = 1, !.ok = TRUE, !.depth = 0,
                             !.outer = @ + s.depth]]
  IN  [r EXCEPT !.ok = @ /\ Sees(r, "EOF"), !.toks = s.toks, !.pos = s.pos,
                !.depth = s.depth, !.outer = s.outer]

(* evaluate_expr_1var: a trap never comes back to the restoring part. *)
Evaluated(P, expr, x, v, s) ==
  LET r == ParseExpression(P, expr, [s EXCEPT !.table = SetVariable(@, x, v)])
  IN  IF r.trap THEN r ELSE [r EXCEPT !.table = Restored(s.table, @, x)]

(* evaluate_expr_2vars: the same for x and y; both values are read first. *)
Evaluated2(P, expr, x, v, y, w, s) ==
  LET r == ParseExpression(P, expr,
             [s EXCEPT !.table = SetVariable(SetVariable(@, x, v), y, w)])
  IN  IF r.trap THEN r
      ELSE [r EXCEPT !.table = Restored(s.table, Restored(s.table, @, x), y)]

Half(x, y) == Over(Plus(x, y), Num(2))

(* The loop of solve_bisection between z.a, where the value is z.fa, and    *)
(* z.b, with the middle found last as the value so far.                    *)
Bracket == [a : Fractions, b : Fractions, fa : Fractions, s : ParseState]
Halve(P, expr, x, lo, hi, fLo, from) ==
  LET Loop[left \in Nat] == [z \in Bracket |->
        LET m == Half(z.a, z.b)
            f == Evaluated(P, expr, x, m, z.s)
        IN  IF left = 0 THEN z.s
            ELSE IF Less(Minus(z.b, z.a), Tolerance) THEN Value(z.s, m)
            ELSE IF ~f.ok THEN Fail(f)
            ELSE IF f.val = Zero THEN Value(f, m)
            ELSE IF Negative(Times(z.fa, f.val))
              THEN Loop[left - 1][[z EXCEPT !.b = m, !.s = Value(f, m)]]
            ELSE Loop[left - 1][[z EXCEPT !.a = m, !.fa = f.val, !.s = Value(f, m)]]]
  IN  Loop[Iterations][[a |-> lo, b |-> hi, fa |-> fLo, s |-> Value(from, lo)]]

(* Mutant: the sign at the upper end takes the place of that at the lower. *)
MutSides(P, expr, x, low, high, s) ==
  Checked(Evaluated(P, expr, x, low, s), LAMBDA l :
    Checked(Evaluated(P, expr, x, high, l), LAMBDA h :
      IF Positive(Times(l.val, h.val)) THEN Fail(h)
      ELSE Halve(P, expr, x, low, high, h.val, h)))

(* Mutant: a failure in the first evaluations is forgotten. *)
MutBisection(P, expr, x, low, high, s) ==
  LET l == Evaluated(P, expr, x, low, s)
      h == Evaluated(P, expr, x, high, l)
  IN  IF Positive(Times(l.val, h.val)) THEN Fail(h)
      ELSE Halve(P, expr, x, low, high, l.val, h)

Bisection(P, expr, x, low, high, s) ==
  Checked(Evaluated(P, expr, x, low, s), LAMBDA l :
    Checked(Evaluated(P, expr, x, high, l), LAMBDA h :
      IF Positive(Times(l.val, h.val)) THEN Fail(h)
      ELSE Halve(P, expr, x, low, high, l.val, h)))

(* solve_newton: a value, then one a small step ahead, for each estimate;  *)
(* the estimate is the value so far.                                       *)
Newton(P, expr, x, guess, start) ==
  LET Near(y) == Less(y, Tolerance) /\ Less(Neg(Tolerance), y)
      Slope(y, yh) == Over(Minus(yh, y), NewtonStep)
      Loop[left \in Nat] == [s \in ParseState |->
        IF left = 0 THEN s
        ELSE Checked(Evaluated(P, expr, x, s.val, s), LAMBDA y :
          IF Near(y.val) THEN Value(y, s.val)
          ELSE Checked(Evaluated(P, expr, x, Plus(s.val, NewtonStep), y), LAMBDA yh :
            IF Slope(y.val, yh.val) = Zero THEN Value(yh, s.val)
            ELSE Loop[left - 1][Value(yh, Minus(s.val, Over(y.val, Slope(y.val, yh.val))))]))]
  IN  Loop[Iterations][Value(start, guess)]

(* rk4_solve: the four slopes of each step in turn; y is the value so far.  *)
Rk4(P, expr, xn, yn, x0, y0, x1, steps, start) ==
  LET h == Over(Minus(x1, x0), Num(steps))
      half == Fraction(1, 2)
      Slope(x, y, s) == Evaluated2(P, expr, xn, x, yn, y, s)
      Ahead(y, c, k) == Plus(y, Times(Times(c, h), k))
      Sum(k1, k2, k3, k4) == Plus(Plus(k1, k4), Times(Num(2), Plus(k2, k3)))
      Advance(x, y, s) ==
        Checked(Slope(x, y, s), LAMBDA k1 :
        Checked(Slope(Ahead(x, half, One), Ahead(y, half, k1.val), k1), LAMBDA k2 :
        Checked(Slope(Ahead(x, half, One), Ahead(y, half, k2.val), k2), LAMBDA k3 :
        Checked(Slope(Plus(x, h), Ahead(y, One, k3.val), k3), LAMBDA k4 :
          Value(k4, Ahead(y, Fraction(1, 6), Sum(k1.val, k2.val, k3.val, k4.val)))))))
      Step[left \in Nat] == [s \in ParseState |->
        IF left = 0 THEN s
        ELSE Checked(Advance(Plus(x0, Times(Num(steps - left), h)), s.val, s),
                     LAMBDA r : Step[left - 1][r])]
  IN  Step[steps][Value(start, y0)]

-------------------------------------------------------------------------------
(* The arguments of solve and rk4. *)

(* The end of the expression: the first comma or closing parenthesis that  *)
(* no parenthesis of the expression encloses, found by counting.           *)
Count(toks, type, i, j) == Cardinality({k \in i .. j : toks[k].type = type})
Ends(s) ==
  {p \in s.pos .. Len(s.toks) :
     /\ s.toks[p].type \in {"COMMA", "RPAREN"}
     /\ Count(s.toks, "LPAREN", s.pos, p - 1) = Count(s.toks, "RPAREN", s.pos, p - 1)}
EndOf(s) == CHOOSE p \in Ends(s) : \A q \in Ends(s) : p <= q

(* Mutant: a text that does not fit is accepted. *)
MutFits(s) == Ends(s) # {} /\ s.toks[EndOf(s)].type = "COMMA"

Fits(s) ==
  /\ Ends(s) # {}
  /\ s.toks[EndOf(s)].type = "COMMA"
  /\ EndOf(s) - s.pos < MaxExpr

(* An expression, then a token of the given type. *)
Argument(P, s, type) == Then(P[NONE][s], LAMBDA r : Expect(r, type))

(* A name, then a comma. *)
NameArgument(s) == Then(Expect(s, "IDENTIFIER"), LAMBDA t : Expect(t, "COMMA"))

(* What follows the expression, and the name it begins with. *)
Rest(s) == [s EXCEPT !.pos = EndOf(s) + 1]
Copied(s) == SubSeq(s.toks, s.pos, EndOf(s) - 1)
CutName(s) == Cut[Peek(s).name]

SolveCall(P, s) ==
  IF ~Fits(s) THEN Fail(s)
  ELSE Then(NameArgument(Rest(s)), LAMBDA n :
    Checked(P[NONE][n], LAMBDA third :
      IF Sees(third, "COMMA")
      THEN Then(Argument(P, Consume(third), "RPAREN"), LAMBDA fourth :
             Bisection(P, Copied(s), CutName(Rest(s)), third.val, fourth.val, fourth))
      ELSE Then(Expect(third, "RPAREN"), LAMBDA t :
             Newton(P, Copied(s), CutName(Rest(s)), third.val, t))))

(* Mutant: zero steps stay zero. *)
MutStepCount(x) == IF Exact(x) THEN Truncated(x) ELSE 1

(* The cast to uint32_t: a negative count wraps around, and Inexact is     *)
(* some count.                                                             *)
Unsigned(x) == IF Exact(x) THEN Truncated(x) % Uint ELSE CHOOSE k \in 0 .. Uint - 1 : TRUE

(* A count of steps that is zero as an integer is one. *)
StepCount(x) == IF Unsigned(x) = 0 THEN 1 ELSE Unsigned(x)

Rk4Call(P, s) ==
  IF ~Fits(s) THEN Fail(s)
  ELSE Then(NameArgument(Rest(s)), LAMBDA n :
       Then(NameArgument(n), LAMBDA m :
       Then(Argument(P, m, "COMMA"), LAMBDA x0 :
       Then(Argument(P, x0, "COMMA"), LAMBDA y0 :
       Then(Argument(P, y0, "COMMA"), LAMBDA x1 :
       Then(Argument(P, x1, "RPAREN"), LAMBDA k :
         Rk4(P, Copied(s), CutName(Rest(s)), CutName(n), x0.val, y0.val, x1.val,
             StepCount(k.val), k)))))))

-------------------------------------------------------------------------------
(* The other calls.  The state is the one after the opening parenthesis.   *)

Statistics == {"mean", "median", "var", "std", "min", "max", "cov", "corr"}

SumOf(xs) == FoldLeft(Plus, Zero, xs)
Mean(xs) == Over(SumOf(xs), Num(Len(xs)))
Deviations(xs) == [i \in DOMAIN xs |-> Minus(xs[i], Mean(xs))]
Products(xs, ys) == SumOf([i \in DOMAIN xs |-> Times(xs[i], ys[i])])
Covariation(xs, ys) == Products(Deviations(xs), Deviations(ys))
Sample(xs) == Over(Covariation(xs, xs), Num(Len(xs) - 1))
Best(xs, Better(_, _)) ==
  LET B[i \in Nat] ==
        IF i <= 1 THEN xs[1] ELSE IF Better(xs[i], B[i - 1]) THEN xs[i] ELSE B[i - 1]
  IN  B[Len(xs)]

(* The k-th smallest argument; how Inexact is sorted is not modelled. *)
Ranked(xs, k) ==
  LET Those(Before(_, _), x) == {j \in DOMAIN xs : Before(xs[j], x)}
      there == {i \in DOMAIN xs : /\ Cardinality(Those(Less, xs[i])) < k
                                  /\ Cardinality(Those(AtMost, xs[i])) >= k}
  IN  IF (\E i \in DOMAIN xs : ~Exact(xs[i])) \/ there = {} THEN Inexact
      ELSE xs[CHOOSE i \in there : TRUE]
Median(xs) ==
  LET mid == Len(xs) \div 2
  IN  IF Len(xs) % 2 = 1 THEN Ranked(xs, mid + 1) ELSE Half(Ranked(xs, mid), Ranked(xs, mid + 1))

(* cov and corr take pairs; at least two of them. *)
Firsts(xs) == [i \in 1 .. Len(xs) \div 2 |-> xs[2 * i - 1]]
Seconds(xs) == [i \in 1 .. Len(xs) \div 2 |-> xs[2 * i]]
Correlation(xs, ys) ==
  LET square == Times(Covariation(xs, xs), Covariation(ys, ys))
  IN  IF square = Zero THEN Zero ELSE Over(Covariation(xs, ys), Root(square))

Statistic(f, xs, s) ==
  CASE f \in {"cov", "corr"} /\ (Len(xs) < 4 \/ Len(xs) % 2 # 0)  -> Fail(s)
    [] f = "cov"  /\ Len(xs) >= 4 /\ Len(xs) % 2 = 0 ->
         Value(s, Over(Covariation(Firsts(xs), Seconds(xs)), Num(Len(xs) \div 2 - 1)))
    [] f = "corr" /\ Len(xs) >= 4 /\ Len(xs) % 2 = 0 ->
         Value(s, Correlation(Firsts(xs), Seconds(xs)))
    [] f \in {"var", "std"} /\ Len(xs) <= 1 -> Value(s, Zero)
    [] f = "var" /\ Len(xs) > 1  -> Value(s, Sample(xs))
    [] f = "std" /\ Len(xs) > 1  -> Value(s, Root(Sample(xs)))
    [] f \in {"mean", "median", "min", "max"} /\ xs = <<>> -> Value(s, Zero)
    [] f = "mean" /\ xs # <<>>   -> Value(s, Mean(xs))
    [] f = "median" /\ xs # <<>> -> Value(s, Median(xs))
    [] f = "min" /\ xs # <<>>    -> Value(s, Best(xs, Less))
    [] f = "max" /\ xs # <<>>    -> Value(s, Best(xs, Greater))

(* Arguments up to the closing parenthesis; a comma may end the list.  z.xs *)
(* are those so far, and there may be left more.                           *)
StatisticCall(P, f, start) ==
  LET Collect[left \in Nat] == [z \in [s : ParseState, xs : Seq(Fractions)] |->
        IF Sees(z.s, "RPAREN") THEN Statistic(f, z.xs, Consume(z.s))
        ELSE Checked(P[NONE][z.s], LAMBDA r :
          IF left = 0 THEN Fail(r)
          ELSE IF Sees(r, "COMMA")
            THEN Collect[left - 1][[s |-> Consume(r), xs |-> Append(z.xs, r.val)]]
          ELSE Then(Expect(r, "RPAREN"), LAMBDA t : Statistic(f, Append(z.xs, r.val), t)))]
  IN  Collect[MaxArgs][[s |-> start, xs |-> <<>>]]

RandomCall(s) == Then(Expect(s, "RPAREN"), LAMBDA r : Value(r, Inexact))

Logarithms == {"ln", "log", "log10"}
Builtins == Logarithms \cup
  {"sin", "cos", "tan", "asin", "arcsin", "acos", "arccos", "atan", "arctan", "sqrt",
   "abs", "floor", "ceil", "fact", "factorial"}

Floor(x) == Num(x.n \div x.d)

(* The exact values of the functions; any other value is Inexact. *)
BuiltinValue(f, x) ==
  CASE f \in {"sin", "tan", "asin", "arcsin", "atan", "arctan"} ->
         IF x = Zero THEN Zero ELSE Inexact
    [] f = "cos"                   -> IF x = Zero THEN One ELSE Inexact
    [] f \in {"acos", "arccos"} \cup Logarithms -> IF x = One THEN Zero ELSE Inexact
    [] f = "sqrt"                  -> Root(x)
    [] f \in {"fact", "factorial"} -> FactorialOf(x)
    [] f = "abs"                   -> IF Negative(x) THEN Neg(x) ELSE x
    [] f = "floor"                 -> IF Exact(x) THEN Floor(x) ELSE Inexact
    [] f = "ceil"                  -> IF Exact(x) THEN Neg(Floor(Neg(x))) ELSE Inexact

(* A failed argument has the value zero, and only then is the domain       *)
(* checked: ln of an unknown name raises the flag of a division by zero.   *)
BuiltinCall(P, f, s) ==
  LET r == P[NONE][s]
      t == Consume(r)
      x == r.val
  IN  IF ~Sees(r, "RPAREN") THEN Fail(t)
      ELSE IF f \in Logarithms /\ (x = Zero \/ Negative(x)) THEN FailDivZero(t)
      ELSE IF f = "sqrt" /\ Negative(x) THEN Fail(t)
      ELSE IF f \in {"fact", "factorial"} /\ ~FactorialArgument(x) THEN Fail(t)
      ELSE Value(t, BuiltinValue(f, x))

(* A function of a plugin: here it multiplies by a number. *)
PluggedCall(P, f, s) ==
  LET r == P[NONE][s]
  IN  IF Sees(r, "RPAREN") THEN Value(Consume(r), Times(r.val, Plugged[f]))
      ELSE Fail(Consume(r))

Call(P, f, s) ==
  CASE f = "solve"             -> SolveCall(P, s)
    [] f = "rk4"               -> Rk4Call(P, s)
    [] f \in {"rand", "randn"} -> RandomCall(s)
    [] f \in Statistics        -> StatisticCall(P, f, s)
    [] f \in Builtins          -> BuiltinCall(P, f, s)
    [] f \in DOMAIN Plugged \ ({"solve", "rk4", "rand", "randn"} \cup Statistics \cup Builtins)
                               -> PluggedCall(P, f, s)
    [] OTHER                   -> Fail(s)

-------------------------------------------------------------------------------
(* Names. *)

(* A variable hides the constants and Ans. *)
Reference(x, s) ==
  CASE Defined(s.table, x)                  -> Value(s, ValueOf(s.table, x))
    [] ~Defined(s.table, x) /\ x \in {"pi", "phi", "e"} -> Value(s, Inexact)
    [] ~Defined(s.table, x) /\ x = "Ans"    -> Value(s, answer)
    [] OTHER                                -> Fail(s)

(* An assignment takes effect at once, wherever it stands. *)
Assignment(P, x, s) ==
  Then(P[NONE][s], LAMBDA r : [r EXCEPT !.table = SetVariable(@, x, r.val)])

Identifier(P, s) ==
  LET x == Peek(s).name
      t == Consume(s)
  IN  CASE Sees(t, "EQUALS") -> Assignment(P, x, Consume(t))
        [] Sees(t, "LPAREN") -> Call(P, x, Consume(t))
        [] OTHER             -> Reference(x, t)

Prefix(P, s) ==
  CASE Sees(s, "NUMBER")     -> Number(s)
    [] Sees(s, "MINUS")      -> Unary(P, s)
    [] Sees(s, "LPAREN")     -> Grouping(P, s)
    [] Sees(s, "SQRT")       -> UnarySqrt(P, s)
    [] Sees(s, "IDENTIFIER") -> Identifier(P, s)

Enter(s) == [s EXCEPT !.depth = @ + 1,
                      !.deepest = IF s.outer + s.depth + 1 > @ THEN s.outer + s.depth + 1 ELSE @]
Leave(s) == [s EXCEPT !.depth = @ - 1]

(* The operators after the operand first that bind tightly enough. *)
Infixes(P, prec, first) ==
  LET Continue[left \in ParseState] ==
        IF ~left.ok THEN Fail(left)
        ELSE IF /\ prec <= PrecedenceOf(Peek(left).type)
                /\ Peek(left).type \in InfixTypes
             THEN Continue[Infix(P, left)]
        ELSE left
  IN  Continue[first]

(* parse_precedence: a prefix, then the operators.  The prefix takes a      *)
(* token, so a parse inside has fewer left; without tokens there is none.  *)
Parse[n \in Nat] ==
  [prec \in 0 .. 4 |-> [s \in ParseState |->
     IF n = 0 \/ s.depth + 1 > MaxDepth \/ Peek(s).type \notin PrefixTypes THEN Fail(s)
     ELSE Infixes(Parse[n - 1], prec, Leave(Prefix(Parse[n - 1], Enter(s))))]]

-------------------------------------------------------------------------------
(* The session: lines one after the other. *)

NoLine == [line |-> <<>>, ok |-> TRUE, val |-> Zero, trap |-> FALSE, deepest |-> 0]

Init ==
  /\ symbols = <<>>
  /\ divZero = FALSE
  /\ answer = Zero
  /\ last = NoLine

(* The parse of a line, by parse_expression with the flags as they are. *)
Parsed(line, flag) ==
  ParseExpression(Parse[Len(line)], line,
    [toks |-> <<>>, pos |-> 1, ok |-> TRUE, val |-> Zero, table |-> symbols,
     divZero |-> flag, trap |-> FALSE, depth |-> 0, outer |-> 0, deepest |-> 0])

Outcome(line, r) ==
  /\ symbols' = r.table
  /\ divZero' = r.divZero
  /\ last' = [line |-> line, ok |-> r.ok, val |-> r.val, trap |-> r.trap,
              deepest |-> r.deepest]

(* calc_evaluate: a program that embeds the calculator; flags accumulate. *)
Evaluate(line) ==
  /\ ~last.trap
  /\ Outcome(line, Parsed(line, divZero))
  /\ UNCHANGED answer

(* ENTER in the user interface: flags cleared, a good result becomes Ans. *)
EnterLine(line) ==
  /\ ~last.trap
  /\ Outcome(line, Parsed(line, FALSE))
  /\ answer' = IF last'.ok THEN last'.val ELSE answer

(* calc_clear_flags. *)
ClearFlags ==
  /\ ~last.trap
  /\ divZero
  /\ divZero' = FALSE
  /\ UNCHANGED <<symbols, answer, last>>

(* A trap stops the machine or the process; the next start is a fresh one. *)
Restart ==
  /\ last.trap
  /\ symbols' = <<>>
  /\ divZero' = FALSE
  /\ answer' = Zero
  /\ last' = NoLine

Next(Lines, Entered) ==
  \/ \E line \in Lines : Evaluate(line)
  \/ \E line \in Entered : EnterLine(line)
  \/ ClearFlags
  \/ Restart

Spec == Init /\ [][Next(Seq(Tokens), Seq(Tokens))]_vars

-------------------------------------------------------------------------------
(* Names assigned by a line, wherever in it. *)
AssignedIn(line) ==
  {line[i].name : i \in {j \in 1 .. Len(line) - 1 :
                           line[j].type = "IDENTIFIER" /\ line[j + 1].type = "EQUALS"}}

(* What a name means in a table: its value or nothing. *)
Meaning(table, x) == IF Defined(table, x) THEN {ValueOf(table, x)} ELSE {}

(* solve and rk4 borrow their variables: after the line, good or failed at  *)
(* any of its evaluations, every name it does not assign is as before; and *)
(* after "x = ..." x has the value printed, whatever the right side did to *)
(* x.  Only a full table loses a new variable, silently (Parser.c:263-327, *)
(* 695-703).                                                               *)
OnlyAssignedChange ==
  [][LET line == last'.line IN
     /\ ~last.trap /\ ~last'.trap =>
          \A x \in Names \ AssignedIn(line) : Meaning(symbols', x) = Meaning(symbols, x)
     /\ last' # last /\ last'.ok /\ Len(line) > 1 /\ line[2].type = "EQUALS" =>
          \/ Meaning(symbols', line[1].name) = {last'.val}
          \/ Meaning(symbols, line[1].name) = {} /\ Len(symbols') = MaxSymbols]_vars

(* A line that divides by zero fails, also when the division happened in    *)
(* one of the parses of solve or rk4, each of which resets *success.        *)
ErrorsAreReported ==
  [][divZero' /\ ~divZero => ~last'.ok]_vars

(* The stack: MAX_PARSE_DEPTH counts from zero again in the parses of solve *)
(* and rk4, but those read a text of less than MaxExpr tokens.              *)
StackBudget == last.deepest <= MaxDepth + MaxExpr
===============================================================================
