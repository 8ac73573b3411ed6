------------------------------- MODULE MCParser -------------------------------
(* A small instance of Parser: lines over a few names, and all arithmetic  *)
(* lines of up to MaxTyped tokens, typed one token at a time.              *)
EXTENDS Parser, FiniteSetsExt

CONSTANT MaxTyped

-------------------------------------------------------------------------------
(* What an arithmetic line means by the table of Docs/ParserReference.md:  *)
(* factorial binds tighter than power, power associates to the right, then *)
(* come the unary minus, the product (also an implicit one), the sum.  The *)
(* definition splits a line at the operator applied last; it shares only   *)
(* the numbers with the parser.                                            *)

LOCAL Bad == [ok |-> FALSE, val |-> Zero]
LOCAL Good(x) == [ok |-> TRUE, val |-> x]

LOCAL EndsOperand(tok) == tok.type \in {"NUMBER", "RPAREN", "FACTORIAL"}
LOCAL Opened(s, i) ==
  LET Tally(type) == Quantify(1 .. i - 1, LAMBDA k : s[k].type = type)
  IN  Tally("LPAREN") - Tally("RPAREN")

(* Positions of operators of the given types outside of parentheses. *)
LOCAL Splits(s, types) ==
  {i \in 2 .. Len(s) : s[i].type \in types /\ EndsOperand(s[i - 1]) /\ Opened(s, i) = 0}

LOCAL Applied(type, l, r, Pow(_, _)) ==
  CASE ~l.ok \/ ~r.ok                                    -> Bad
    [] l.ok /\ r.ok /\ type = "PLUS"                     -> Good(Plus(l.val, r.val))
    [] l.ok /\ r.ok /\ type = "MINUS"                    -> Good(Minus(l.val, r.val))
    [] l.ok /\ r.ok /\ type \in {"STAR", "LPAREN"}       -> Good(Times(l.val, r.val))
    [] l.ok /\ r.ok /\ type = "SLASH" /\ r.val = Zero    -> Bad
    [] l.ok /\ r.ok /\ type = "SLASH" /\ r.val # Zero    -> Good(Over(l.val, r.val))
    [] l.ok /\ r.ok /\ type = "POWER"                    -> Good(Pow(l.val, r.val))

GrammarMeaning(line, Pow(_, _), Fact(_), HasFactorial(_)) ==
  LET M[s \in Seq([type : STRING, name : STRING, num : Fractions])] ==
    LET sums     == Splits(s, {"PLUS", "MINUS"})
        products == Splits(s, {"STAR", "SLASH", "LPAREN"})
        powers   == Splits(s, {"POWER"})
        n        == Len(s)
        At(i) == Applied(s[i].type, M[SubSeq(s, 1, i - 1)],
                         M[SubSeq(s, IF s[i].type = "LPAREN" THEN i ELSE i + 1, n)], Pow)
        operand  == M[SubSeq(s, 1, n - 1)]
        negated  == M[Tail(s)]
    IN  CASE n = 0 -> Bad
          [] n > 0 /\ sums # {} -> At(Max(sums))
          [] n > 0 /\ sums = {} /\ products # {} -> At(Max(products))
          [] n > 0 /\ sums \cup products = {} /\ s[1].type = "MINUS" ->
               IF negated.ok THEN Good(Neg(negated.val)) ELSE Bad
          [] n > 0 /\ sums \cup products = {} /\ s[1].type # "MINUS" ->
               IF powers # {} THEN At(Min(powers))
               ELSE IF s[n].type = "FACTORIAL" THEN
                 IF operand.ok /\ HasFactorial(operand.val) THEN Good(Fact(operand.val)) ELSE Bad
               ELSE IF n = 1 /\ s[1].type = "NUMBER" THEN Good(s[1].num)
               ELSE IF n > 2 /\ s[1].type = "LPAREN" /\ s[n].type = "RPAREN"
                 THEN M[SubSeq(s, 2, n - 1)]
               ELSE Bad
  IN  M[line]

-------------------------------------------------------------------------------
(* The instance. *)

MCNames == {"x", "y", "z", "xlong", "xl", "pi", "Ans", "foo", "dbl", "solve", "rk4", "rand"}
             \cup Statistics \cup Builtins
MCCut == [n \in MCNames |-> IF n = "xlong" THEN "xl" ELSE n]
MCPlugged == [f \in {"dbl"} |-> Num(2)]
MCTolerance == Fraction(1, 100)
MCNewtonStep == Fraction(1, 4)

Digits == [w \in {"0", "1", "2", "3", "4", "5", "9"} |->
             CHOOSE i \in 0 .. 9 : ToString(i) = w]
MarkType(w) ==
  CASE w = "+" -> "PLUS"   [] w = "-" -> "MINUS"   [] w = "*" -> "STAR"   [] w = "/" -> "SLASH"
    [] w = "%" -> "PERCENT" [] w = "^" -> "POWER"  [] w = "(" -> "LPAREN" [] w = ")" -> "RPAREN"
    [] w = "," -> "COMMA"  [] w = "=" -> "EQUALS"  [] w = "!" -> "FACTORIAL"
    [] w = "v" -> "SQRT"   [] w = "EXP" -> "EXP_OP" [] w = "." -> "ERROR"
Tok(w) ==
  IF w \in DOMAIN Digits THEN [type |-> "NUMBER", name |-> "", num |-> Num(Digits[w])]
  ELSE IF w \in MCNames THEN [type |-> "IDENTIFIER", name |-> w, num |-> Zero]
  ELSE Token(MarkType(w))
Line(ws) == [i \in DOMAIN ws |-> Tok(ws[i])]
Text(wss) == {Line(ws) : ws \in wss}

(* k tokens of the same kind. *)
Rep(k, w) == [i \in 1 .. k |-> w]

-------------------------------------------------------------------------------
(* Lines that change the table or Ans. *)
Changing == Text({
  <<"x", "=", "2">>,
  <<"y", "=", "x", "+", "1">>,
  <<"(", "x", "=", "0", ")", "2">>,
  <<"z", "=", "9">>,
  <<"x", "=", "solve", "(", "x", "-", "1", ",", "x", ",", "0", ",", "3", ")">>,
  <<"solve", "(", "y", "=", "x", ",", "x", ",", "0", ",", "1", ")">> })

(* Lines entered in the user interface. *)
MCEntered == Text({ <<"3">>, <<"Ans", "/", "0">>, <<"x", "=", "Ans">> })

(* The root finders on x - c from a to b. *)
SolveLine(c, a, b) == Line(<<"solve", "(", "x", "-", c, ",", "x", ",", a, ",", b, ")">>)
RootCases == {<<c, a, b>> \in {"0", "1", "2", "3"} \X {"0", "1"} \X {"3", "5"} : TRUE}

(* rk4 on y' = x from x = 0, y = y0 to x1, whose solution is exact. *)
Rk4Line(y0, x1, k) ==
  Line(<<"rk4", "(", "x", ",", "x", ",", "y", ",", "0", ",", y0, ",", x1, ",", k, ")">>)
Rk4Cases == {"0", "2"} \X {"1", "2"} \X {"0", "1", "2"}

(* solve in parentheses as deep as they may be, k times inside each other:  *)
(* once still fits, four times would need a deeper stack than there is.    *)
Nested[k \in Nat] ==
  IF k = 0 THEN Rep(4, "(") \o <<"x">> \o Rep(4, ")")
  ELSE Rep(3, "(") \o <<"solve", "(">> \o Nested[k - 1] \o <<",", "x", ",", "1", ")">> \o Rep(3, ")")

(* Lines that are looked at once in every state of the table. *)
Probes ==
  {SolveLine(r[1], r[2], r[3]) : r \in RootCases} \cup
  {Rk4Line(r[1], r[2], r[3]) : r \in Rk4Cases} \cup {Line(Nested[1]), Line(Nested[4])} \cup
  Text({
  <<"x">>, <<"y">>, <<"Ans">>, <<"pi">>, <<"foo", "(", "1", ")">>, <<"2", "x", "^", "2">>,
  <<"solve", "(", "1", "/", "(", "x", "-", "1", ")", ",", "x", ",", "0", ",", "2", ")">>,
  <<"solve", "(", "1", "/", "x", ",", "x", ",", "0", ",", "2", ")">>,
  <<"solve", "(", "x", "*", "x", "-", "4", ",", "x", ",", "3", ")">>,
  <<"solve", "(", "1", "/", "x", ",", "x", ",", "0", ")">>,
  <<"solve", "(", "foo", ",", "x", ",", "0", ",", "2", ")">>,
  <<"solve", "(", "xlong", ",", "xlong", ",", "0", ",", "2", ")">>,
  <<"solve", "(", "solve", "(", "y", "-", "x", ",", "y", ",", "0", ",", "4", ")", ",", "x", ",",
    "1", ")">>,
  <<"solve", "(", "x", ",", "x", ",", "1">>, <<"solve", "(", "x", "x", ")">>,
  <<"solve", "(", "x", ",", "1", ",", "1", ")">>,
  <<"rk4", "(", "1", "/", "y", ",", "x", ",", "y", ",", "0", ",", "0", ",", "1", ",", "1", ")">>,
  <<"rk4", "(", "x", ",", "x", ",", "x", ",", "0", ",", "0", ",", "1", ",", "1", ")">>,
  <<"rk4", "(", "x", ",", "x", ",", "y", ",", "0", ",", "0", ")">>,
  <<"solve", "(", "5", "%", "x", ",", "x", ",", "0", "-", "1", "/", "2", ",", "4", ")">>,
  <<"5", "%", "3">>, <<"5", "%", "0">>, <<"5", "%", "(", "1", "/", "2", ")">>,
  <<"ln", "(", "foo", ")">>, <<"ln", "(", "1", ")">>, <<"sqrt", "(", "4", ")">>,
  <<"sqrt", "(", "-", "4", ")">>, <<"v", "4">>, <<"v", "-", "4">>, <<"2", "EXP", "2">>,
  <<"mean", "(", "1", ",", "2", ",", ")">>, <<"mean", "(", ")">>,
  <<"median", "(", "3", ",", "1", ",", "2", ",", "5", ")">>,
  <<"max", "(", "1", ",", "2", ",", "3", ",", "4", ",", "5", ")">>,
  <<"min", "(", "3", ",", "1", ")">>, <<"var", "(", "1", ",", "3", ")">>,
  <<"std", "(", "2", ")">>, <<"std", "(", "1", ",", "3", ")">>,
  <<"cov", "(", "1", ",", "1", ",", "3", ",", "5", ")">>, <<"cov", "(", "1", ",", "2", ")">>,
  <<"corr", "(", "1", ",", "1", ",", "3", ",", "3", ")">>,
  <<"median", "(", "1", ",", "3", ",", "2", ")">>, <<"max", "(", "1", ",", "3", ")">>,
  <<"floor", "(", "-", "1", "/", "2", ")">>, <<"ceil", "(", "1", "/", "2", ")">>,
  <<"abs", "(", "-", "2", ")">>, <<"fact", "(", "3", ")">>, <<"fact", "(", "1", "/", "2", ")">>,
  <<"cos", "(", "0", ")">>, <<"atan", "(", "0", ")">>, <<"cos", "(", "0">>,
  <<"dbl", "(", "2", ")">>, <<"dbl", "(", "2">>, <<"rand", "(", ")">>, <<"rand", "(", "1", ")">>,
  <<".">>, <<>>, Rep(4, "(") \o <<"-", "2">> \o Rep(4, ")") })

-------------------------------------------------------------------------------
(* Arithmetic, typed one token at a time; the preview parses each prefix.  *)

Alphabet == Text({<<w>> : w \in {"2", "3", "-", "*", "/", "^", "!", "(", ")"}})
Typed(line) ==
  /\ Len(line) \in 1 .. MaxTyped
  /\ \A i \in DOMAIN line : <<line[i]>> \in Alphabet

(* After a probe or a longest arithmetic line, only the line "x" follows:  *)
(* neither left anything that other lines could see.                       *)
MCLines ==
  IF last = NoLine THEN Changing \cup Probes \cup Alphabet
  ELSE IF last.line \in Probes THEN Text({<<"x">>})
  ELSE IF Typed(last.line) /\ Len(last.line) = MaxTyped THEN Text({<<"x">>})
  ELSE IF Typed(last.line) /\ symbols = <<>> /\ answer = Zero
    THEN {last.line \o tok : tok \in Alphabet}
  ELSE Changing \cup Probes

MCEnteredNow == IF last.line \in Probes \/ Typed(last.line) THEN {} ELSE MCEntered

MCSpec == Init /\ [][Next(MCLines, MCEnteredNow)]_vars

-------------------------------------------------------------------------------
(* Every arithmetic line means what the documented precedences say, except *)
(* a line with several of ^ and !: the parser (Parser.c:463, 473) lets them *)
(* associate to the left where Docs/ParserReference.md:10-11 does not.     *)
Tight == Cardinality({i \in DOMAIN last.line : last.line[i].type \in {"POWER", "FACTORIAL"}})
AgreesWithGrammar ==
  Typed(last.line) /\ Tight <= 1 =>
    LET g == GrammarMeaning(last.line, Power, FactorialOf, FactorialArgument)
    IN  last.ok = g.ok /\ (last.ok => last.val = g.val)

(* Bisection ends near the root of x - c when c lies beyond the lower end. *)
Near(val, c, a, b) ==
  LET width == Over(Minus(Num(b), Num(a)), Num(2 ^ Iterations))
      off   == Minus(val, Num(c))
  IN  AtMost(off, width) /\ AtMost(Neg(off), width)
RootFound(Low(_, _)) ==
  \A r \in RootCases :
    LET c == Digits[r[1]]  a == Digits[r[2]]  b == Digits[r[3]] IN
    last.line = SolveLine(r[1], r[2], r[3]) /\ Low(a, c) /\ c <= b /\ symbols = <<>>
      => last.ok /\ Near(last.val, c, a, b)
FindsTheRoot == RootFound(LAMBDA a, c : a < c)

(* Docs/ParserReference.md: solve(expr, var, lo, hi) is a root finder, also *)
(* for a root at lo.                                                       *)
DocumentedRootFinder == RootFound(LAMBDA a, c : a <= c)

(* The Runge-Kutta steps are exact for y' = x, with any number of steps.   *)
IntegratesExactly ==
  \A r \in Rk4Cases :
    LET y0 == Digits[r[1]]  x1 == Digits[r[2]] IN
    last.line = Rk4Line(r[1], r[2], r[3]) /\ (symbols = <<>> \/ last.ok)
      => last.ok /\ last.val = Plus(Num(y0), Fraction(x1 * x1, 2))

(* The loops that parse their expression again and again, solve and rk4,   *)
(* answer what they compute in their exact cases (Parser.c:329-405,        *)
(* 709-900).                                                               *)
LoopsAreExact == FindsTheRoot /\ IntegratesExactly
===============================================================================
