----------------------------- MODULE ShuntingYard -----------------------------
(***************************************************************************)
(* Complex numbers (Kernel/Operations/Complex), pairs of fractions, and the *)
(* second evaluator of expressions, which computes with them.  What an     *)
(* exponential, a logarithm or a sine answers is Inexact.                  *)
(***************************************************************************)
EXTENDS Fraction, Sequences, SequencesExt, FiniteSetsExt

Complexes == [re : Fractions, im : Fractions]
Pair(x, y) == [re |-> x, im |-> y]
Real(x) == Pair(x, Zero)

CZero == Real(Zero)
COne == Real(One)
CNaN == Pair(Inexact, Inexact)

CExact(a) == Exact(a.re) /\ Exact(a.im)

CPlus(a, b) == Pair(Plus(a.re, b.re), Plus(a.im, b.im))
CMinus(a, b) == Pair(Minus(a.re, b.re), Minus(a.im, b.im))
CNeg(a) == Pair(Neg(a.re), Neg(a.im))
CTimes(a, b) ==
  Pair(Minus(Times(a.re, b.re), Times(a.im, b.im)), Plus(Times(a.re, b.im), Times(a.im, b.re)))

(* The square of the modulus, by which complex_div divides. *)
Norm(a) == Plus(Times(a.re, a.re), Times(a.im, a.im))

COver(a, b) ==
  IF Norm(b) = Zero THEN CNaN
  ELSE Pair(Over(Plus(Times(a.re, b.re), Times(a.im, b.im)), Norm(b)),
            Over(Minus(Times(a.im, b.re), Times(a.re, b.im)), Norm(b)))

Conjugate(a) == Pair(a.re, Neg(a.im))
Modulus(a) == SquareRoot(Norm(a))

(* Whole exponents up to 15 by repeated products; every other power of a   *)
(* number that is not zero is exp(e log a).                                *)
CPower(a, e) ==
  LET Product(n) == FoldLeft(CTimes, COne, [k \in 1 .. n |-> a])
      whole == e.im = Zero /\ IsWhole(e.re)
  IN  CASE a = CZero -> IF Positive(e.re) THEN CZero ELSE CNaN
        [] a # CZero /\ whole /\ e.re.n \in 0 .. 15    -> Product(e.re.n)
        [] a # CZero /\ whole /\ e.re.n \in -15 .. -1  -> COver(COne, Product(-e.re.n))
        [] OTHER -> CNaN

(* The principal root. *)
CSquareRoot(a) ==
  LET Part(x) == SquareRoot(Over(x, Num(2)))
      im == Part(Minus(Modulus(a), a.re))
  IN  CASE a.im = Zero /\ ~Negative(a.re) -> Real(SquareRoot(a.re))
        [] a.im = Zero /\ Negative(a.re)  -> Pair(Zero, SquareRoot(Neg(a.re)))
        [] a.im # Zero -> Pair(Part(Plus(Modulus(a), a.re)), IF Negative(a.im) THEN Neg(im) ELSE im)

-------------------------------------------------------------------------------
(***************************************************************************)
(* The second evaluator of expressions (Application/Input/Experimental/    *)
(* ShuntingYard.c): Dijkstra's translation into reverse Polish notation    *)
(* and a stack that evaluates it, over complex numbers.  A text is a       *)
(* sequence of symbols: numbers (a run of digits, with an i or not, or an  *)
(* i alone), the names of functions, operators and parentheses.            *)
(***************************************************************************)

CONSTANTS
  MaxOps,     (* the operators waiting: 64                                *)
  MaxRpn,     (* MAX_RPN_TOKENS: 128                                      *)
  MaxStack,   (* the operands waiting: 128                                *)
  MaxCustom,  (* functions of plugins in one text: 16                     *)
  Custom      (* the functions of plugins, each with a factor             *)

ASSUME ShuntingYardAssumption == {MaxOps, MaxRpn, MaxStack, MaxCustom} \subseteq Nat \ {0}

NumberSymbol(v) == [kind |-> "number", val |-> v]
OperatorSymbol(c) == [kind |-> "operator", op |-> c]
NameSymbol(fn) == [kind |-> "name", fn |-> fn]
LeftParen == [kind |-> "("]
RightParen == [kind |-> ")"]

(* The names end at the first digit: log10 is read as log and the number 10. *)
OwnFunctions == {"sqrt", "fact", "sin", "cos", "tan", "ln", "log"}
KnownFunctions == OwnFunctions \cup DOMAIN Custom

(* What waits on the stack of operators: "(", a sign, "_" for the unary    *)
(* minus, or a function.                                                   *)
IsFunction(w) == w \in KnownFunctions

(* Mutant: a unary minus binds like a product. *)
MutWaitingPrecedence(w) ==
  CASE IsFunction(w) -> 4
    [] w \in {"*", "/", "_"} -> 2
    [] w \in {"+", "-"} -> 1
    [] OTHER -> 0

WaitingPrecedence(w) ==
  CASE IsFunction(w) -> 4
    [] w = "_" -> 3
    [] w \in {"*", "/"} -> 2
    [] w \in {"+", "-"} -> 1
    [] OTHER -> 0

(* What goes to the output: only some places know a function as one.       *)
AsPopped(w, functions) == IF w \in functions THEN NameSymbol(w) ELSE OperatorSymbol(w)

Refused(st) == [st EXCEPT !.ok = FALSE]

Emit(st, symbols) ==
  IF Len(st.out) + Len(symbols) > MaxRpn THEN Refused(st)
  ELSE [st EXCEPT !.out = @ \o symbols]

Wait(st, w) ==
  IF Len(st.ops) >= MaxOps THEN Refused(st)
  ELSE [st EXCEPT !.ops = Append(@, w), !.expect = TRUE]

(* The stack is popped down to its last element that binds less than least: *)
(* for 1 that is a "(", as everything else that waits binds at least by 1.  *)
PopTo(st, least, functions) ==
  LET left == Max({0} \cup {i \in DOMAIN st.ops : WaitingPrecedence(st.ops[i]) < least})
      popped == Reverse(SubSeq(st.ops, left + 1, Len(st.ops)))
  IN  Emit([st EXCEPT !.ops = SubSeq(@, 1, left)],
           [i \in DOMAIN popped |-> AsPopped(popped[i], functions)])

Operand(st, v) == [Emit(st, <<NumberSymbol(v)>>) EXCEPT !.expect = FALSE]

Function(st, fn) ==
  CASE fn \in OwnFunctions -> Wait(st, fn)
    [] fn \in DOMAIN Custom /\ st.customs < MaxCustom -> Wait([st EXCEPT !.customs = @ + 1], fn)
    [] OTHER -> Refused(st)

(* The matching "(" goes, and a function in front of it. *)
Close(st) ==
  LET inner == PopTo(st, 1, {})
      outer == [inner EXCEPT !.ops = Front(@), !.expect = FALSE]
  IN  CASE ~inner.ok \/ inner.ops = <<>> -> Refused(inner)
        [] inner.ok /\ inner.ops # <<>> /\ (outer.ops = <<>> \/ ~IsFunction(Last(outer.ops))) -> outer
        [] OTHER -> Emit([outer EXCEPT !.ops = Front(@)], <<NameSymbol(Last(outer.ops))>>)

Operator(st, sign) ==
  LET c == IF sign = "-" /\ st.expect THEN "_" ELSE sign
      popped == PopTo(st, WaitingPrecedence(c), {})
  IN  IF popped.ok THEN Wait(popped, c) ELSE popped

Read(st, symbol) ==
  CASE ~st.ok -> st
    [] st.ok /\ symbol.kind = "number"   -> Operand(st, symbol.val)
    [] st.ok /\ symbol.kind = "name"     -> Function(st, symbol.fn)
    [] st.ok /\ symbol.kind = "("        -> Wait(st, "(")
    [] st.ok /\ symbol.kind = ")"        -> Close(st)
    [] st.ok /\ symbol.kind = "operator" -> Operator(st, symbol.op)

(* The end of the text, where a "(" that waits has no match. *)
Emptied(st) ==
  LET done == PopTo(st, 1, KnownFunctions)
  IN  IF ~st.ok THEN st ELSE IF done.ops # <<>> THEN Refused(done) ELSE done

InfixToRpn(text) ==
  LET start == [ok |-> TRUE, out |-> <<>>, ops |-> <<>>, expect |-> TRUE, customs |-> 0]
  IN  Emptied(FoldLeft(Read, start, text))

(* A text in reverse Polish notation is taken symbol by symbol. *)
ParseRpn(text) ==
  [ok  |-> /\ Len(text) <= MaxRpn
           /\ \A i \in DOMAIN text :
                \/ text[i].kind = "number"
                \/ text[i].kind = "operator" /\ text[i].op \in {"+", "-", "*", "/"}
                \/ text[i].kind = "name" /\ text[i].fn \in KnownFunctions,
   out |-> text]

-------------------------------------------------------------------------------
(* The evaluation. *)

FactorialOf(x) ==
  IF IsWhole(x) /\ x.n \in 0 .. 170 THEN FoldLeft(Times, One, [i \in 1 .. x.n |-> Num(i)])
  ELSE Inexact

(* fact looks at the real part only. *)
Applied(fn, v) ==
  CASE fn = "sqrt" -> CSquareRoot(v)
    [] fn = "fact" -> Real(FactorialOf(v.re))
    [] fn \in DOMAIN Custom -> CTimes(Real(Custom[fn]), v)
    [] OTHER -> CNaN

(* An operator that is none of the four, a function that was popped as an  *)
(* operator, answers zero.                                                 *)
Combined(c, v, w) ==
  CASE c = "+" -> CPlus(v, w)
    [] c = "-" -> CMinus(v, w)
    [] c = "*" -> CTimes(v, w)
    [] c = "/" -> COver(v, w)
    [] OTHER   -> CZero

(* An error answers zero and raises nothing, a division by zero answers    *)
(* NaN and raises the flag; both end the evaluation.                       *)
Stopped(st, v, flag) == [st EXCEPT !.running = FALSE, !.value = v, !.flag = flag]
Error(st) == Stopped(st, CZero, 0)
DivisionByZero(st) == Stopped(st, CNaN, 2)

EvaluateSymbol(st, symbol) ==
  LET n == Len(st.stack)
      top == st.stack[n]
      under == st.stack[n - 1]
      Put(k, v) == [st EXCEPT !.stack = Append(SubSeq(@, 1, n - k), v)]
      binary == symbol.kind = "operator" /\ symbol.op # "_"
      operands == CASE symbol.kind = "number" -> 0 [] binary -> 2 [] OTHER -> 1
  IN  CASE ~st.running -> st
        [] st.running /\ n < operands -> Error(st)
        [] st.running /\ n >= operands /\ symbol.kind = "number" ->
             IF n >= MaxStack THEN Error(st) ELSE Put(0, symbol.val)
        [] st.running /\ n >= operands /\ symbol.kind = "name" -> Put(1, Applied(symbol.fn, top))
        [] st.running /\ n >= operands /\ binary ->
             IF symbol.op = "/" /\ Norm(top) = Zero THEN DivisionByZero(st)
             ELSE Put(2, Combined(symbol.op, under, top))
        [] OTHER -> Put(1, CNeg(top))

Finished(st) ==
  IF ~st.running THEN st
  ELSE IF Len(st.stack) = 1 THEN Stopped(st, st.stack[1], 0) ELSE Error(st)
LOCAL ResultOf(st) == [value |-> st.value, flag |-> st.flag]

EvaluateRpn(queue) ==
  LET start == [running |-> TRUE, value |-> CZero, flag |-> 0, stack |-> <<>>]
  IN  ResultOf(Finished(FoldLeft(EvaluateSymbol, start, queue)))

-------------------------------------------------------------------------------
(* Expressions as trees, the texts that stand for them and what they mean: *)
(* the reference for the evaluator.  Then the functions on which the       *)
(* numerical methods are tried, and their derivatives and integrals.       *)

(* A tree is a number, a negation, a function or one of the four signs     *)
(* with its operands.                                                      *)
Leaf(v) == [node |-> "number", val |-> v, arg |-> <<>>]
Negation(t) == [node |-> "_", arg |-> <<t>>]
FunctionOf(fn, t) == [node |-> fn, arg |-> <<t>>]
Operation(sign, l, r) == [node |-> sign, arg |-> <<l, r>>]

Level(t) ==
  CASE t.node \in {"+", "-"} -> 1
    [] t.node \in {"*", "/"} -> 2
    [] t.node = "_" -> 3
    [] OTHER -> 4

LOCAL Enclosed(text) == <<LeftParen>> \o text \o <<RightParen>>

(* The text with no more parentheses than it needs: operations of a level  *)
(* are read from the left, a negation is not negated again without them,   *)
(* and the argument of a function always has them.                         *)
RECURSIVE Infix(_)
LOCAL Within(t, level) == IF Level(t) < level THEN Enclosed(Infix(t)) ELSE Infix(t)
Infix(t) ==
  CASE t.node = "number" -> <<NumberSymbol(t.val)>>
    [] t.node = "_"      -> <<OperatorSymbol("-")>> \o Within(t.arg[1], 4)
    [] Len(t.arg) = 2    -> Within(t.arg[1], Level(t)) \o <<OperatorSymbol(t.node)>>
                              \o Within(t.arg[2], Level(t) + 1)
    [] t.node \in KnownFunctions -> <<NameSymbol(t.node)>> \o Enclosed(Infix(t.arg[1]))

(* Operands first; a negation is a product with -1. *)
RECURSIVE Postfix(_)
Postfix(t) ==
  CASE t.node = "number" -> <<NumberSymbol(t.val)>>
    [] t.node = "_"      -> Postfix(t.arg[1]) \o <<NumberSymbol(CNeg(COne)), OperatorSymbol("*")>>
    [] Len(t.arg) = 2    -> Postfix(t.arg[1]) \o Postfix(t.arg[2]) \o <<OperatorSymbol(t.node)>>
    [] t.node \in KnownFunctions -> Postfix(t.arg[1]) \o <<NameSymbol(t.node)>>

(* A factorial of a number that is not real has no meaning. *)
RECURSIVE Meaning(_)
Meaning(t) ==
  LET Of(i) == Meaning(t.arg[i])
  IN  CASE t.node = "number" -> t.val
        [] t.node = "_"      -> CMinus(CZero, Of(1))
        [] t.node = "+"      -> CPlus(Of(1), Of(2))
        [] t.node = "-"      -> CPlus(Of(1), CNeg(Of(2)))
        [] t.node = "*"      -> CTimes(Of(1), Of(2))
        [] t.node = "/"      -> COver(Of(1), Of(2))
        [] t.node = "fact" /\ Of(1).im # Zero -> CNaN
        [] t.node \in KnownFunctions /\ ~(t.node = "fact" /\ Of(1).im # Zero) -> Applied(t.node, Of(1))

RECURSIVE DividesByZero(_)
DividesByZero(t) ==
  \/ \E i \in DOMAIN t.arg : DividesByZero(t.arg[i])
  \/ t.node = "/" /\ Meaning(t.arg[2]) = CZero

-------------------------------------------------------------------------------
(* Polynomials, the constant coefficient first. *)

Derived(f) == [i \in 1 .. Len(f) - 1 |-> Times(Num(i), f[i + 1])]
Primitive(f) == [i \in 1 .. Len(f) + 1 |-> IF i = 1 THEN Zero ELSE Over(f[i - 1], Num(i - 1))]

(* The form number i: i times the squares and the products of neighbours,  *)
(* and a linear part.                                                      *)
QuadraticAt(form, i, x) ==
  FoldLeft(Plus, Zero, [j \in DOMAIN x |->
    Plus(Times(x[j], Plus(form.linear, Times(Num(i), x[j]))),
         IF j = Len(x) THEN Zero ELSE Times(form.mixed, Times(x[j], x[j + 1])))])
PartialOf(form, i, x, j) ==
  Plus(Plus(form.linear, Times(Num(2 * i), x[j])),
       Times(form.mixed, Plus(IF j = 1 THEN Zero ELSE x[j - 1],
                              IF j = Len(x) THEN Zero ELSE x[j + 1])))
===============================================================================
