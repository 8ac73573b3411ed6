------------------------------- MODULE Methods --------------------------------
(***************************************************************************)
(* Numerical methods (Kernel/Operations/Calculus/Calculus.c and ODE/ODE.c) *)
(* on functions whose values are fractions.  A function of one variable is *)
(* given by its coefficients, the constant one first.  Flags: 0 for none.  *)
(***************************************************************************)
EXTENDS Fraction, Sequences, SequencesExt

CONSTANTS
  StepRange,    (* of the number of steps: 2^32                           *)
  DefaultStep,  (* of the differences: 1e-5                               *)
  Defaults,     (* for arguments that are zero: the steps of an integral, *)
                (* 1000, of the adaptive solver, 4096, the iterations of  *)
                (* a root finder, 100, and its tolerance, 1e-9            *)
  MaxVars,      (* variables of a gradient, equations of a system: 8      *)
  MinStep,      (* of the adaptive solver: 1e-10                          *)
  TinySlope,    (* that a root finder does not divide by: 1e-15           *)
  FlushedBelow  (* results this small are zero in a build that flushes    *)
                (* denormal results; zero where none does                 *)

ASSUME MethodsAssumption ==
  /\ {StepRange, MaxVars} \subseteq Nat \ {0}
  /\ {DefaultStep, MinStep, TinySlope, FlushedBelow} \subseteq Fractions
  /\ Positive(DefaultStep) /\ Positive(TinySlope) /\ ~Less(DefaultStep, FlushedBelow)

LOCAL Size(x) == IF Negative(x) THEN Neg(x) ELSE x

(* Horner's rule. *)
PolyAt(f, x) == FoldRight(LAMBDA c, v : Plus(c, Times(x, v)), f, Zero)

Answered(x, flag) == [value |-> x, flag |-> flag]
StepOr(h) == IF h = Zero THEN DefaultStep ELSE h
CountOr(n, use) == IF n = 0 THEN Defaults[use] ELSE n
ToleranceOr(x) == IF x = Zero THEN Defaults["tolerance"] ELSE x

-------------------------------------------------------------------------------
(* Calculus.c: derivative, integral, newton_raphson, bisection. *)

(* 2h as the processor has it. *)
Doubled(h) == LET d == Times(Num(2), h) IN IF Less(Size(d), FlushedBelow) THEN Zero ELSE d

Derivative(f, x, h) ==
  LET step == StepOr(h)
  IN  IF Doubled(step) = Zero THEN Answered(Inexact, 2)
      ELSE Answered(Over(Minus(PolyAt(f, Plus(x, step)), PolyAt(f, Minus(x, step))), Doubled(step)), 0)

(* Mutant: an odd number of steps is kept. *)
MutEvened(steps) == steps

(* (steps + 1) & ~1 in the width of an unsigned integer. *)
Evened(steps) == LET s == (steps + 1) % StepRange IN s - (s % 2)

(* Simpson's rule. *)
Integral(f, a, b, steps) ==
  LET n == Evened(CountOr(steps, "integral"))
      h == Over(Minus(b, a), Num(n))
      Weighted(i) == Times(Num(2 + 2 * (i % 2)), PolyAt(f, Plus(a, Times(Num(i), h))))
      sum == FoldLeft(Plus, Plus(PolyAt(f, a), PolyAt(f, b)), [i \in 1 .. n - 1 |-> Weighted(i)])
  IN  Times(sum, Over(h, Num(3)))

(* Mutant: only a slope of zero is not divided by. *)
MutTiny(slope) == slope = Zero

Tiny(slope) == Less(Size(slope), TinySlope)

(* df is a function, or <<>> for the central difference.  Where the slope  *)
(* is tiny, the answer is the best guess, or zero if there is no slope.    *)
NewtonRaphson(f, df, x0, iterations, tolerance) ==
  LET Slope(x) == IF df = <<>> THEN Derivative(f, x, Zero).value ELSE PolyAt(df, x)
      Loop[x \in Fractions, left \in Nat] ==
        IF left = 0 \/ Less(Size(PolyAt(f, x)), ToleranceOr(tolerance)) THEN Answered(x, 0)
        ELSE IF Tiny(Slope(x)) THEN Answered(IF Slope(x) = Zero THEN Zero ELSE x, 2)
        ELSE Loop[Minus(x, Over(PolyAt(f, x), Slope(x))), left - 1]
  IN  Loop[x0, CountOr(iterations, "roots")]

SameSign(x, y) == (Positive(x) /\ Positive(y)) \/ (Negative(x) /\ Negative(y))

RootBisection(f, low, high, iterations, tolerance) ==
  LET Loop[a \in Fractions, b \in Fractions, ya \in Fractions, mid \in Fractions, left \in Nat] ==
        LET half == Times(Minus(b, a), Fraction(1, 2))
            m == Plus(a, half)
            y == PolyAt(f, m)
        IN  IF left = 0 THEN mid
            ELSE IF \E d \in {Size(y), half} : Less(d, ToleranceOr(tolerance)) THEN m
            ELSE IF SameSign(y, ya) THEN Loop[m, b, y, m, left - 1]
            ELSE Loop[a, m, ya, m, left - 1]
  IN  IF SameSign(PolyAt(f, low), PolyAt(f, high)) THEN Answered(Inexact, 4)
      ELSE Answered(Loop[low, high, PolyAt(f, low), low, CountOr(iterations, "roots")], 0)

-------------------------------------------------------------------------------
(* calc_gradient, calc_jacobian.  F is a function on sequences of          *)
(* fractions; the point is moved in one place at a time and moved back.    *)
(* Neither looks at 2h before it divides by it.                            *)

Moved(x, i, d) == [x EXCEPT ![i] = Plus(@, d)]

Gradient(F, x, h) ==
  IF Len(x) \notin 1 .. MaxVars THEN Answered(<<>>, 4)
  ELSE Answered([i \in DOMAIN x |->
                   Over(Minus(F[Moved(x, i, StepOr(h))], F[Moved(x, i, Neg(StepOr(h)))]),
                        Doubled(StepOr(h)))], 0)

(* The matrix by rows, one for each of the m functions. *)
Jacobian(F, m, x, h) ==
  IF Len(x) \notin 1 .. MaxVars \/ m \notin 1 .. MaxVars THEN Answered(<<>>, 4)
  ELSE Answered([i \in 1 .. m |->
                   [j \in DOMAIN x |->
                      Over(Minus(F[Moved(x, j, StepOr(h))][i], F[Moved(x, j, Neg(StepOr(h)))][i]),
                           Doubled(StepOr(h)))]], 0)

-------------------------------------------------------------------------------
(* ODE.c: calc_ode_rk4, calc_ode_rk4_system.  F maps a time and a state, a *)
(* sequence of fractions, to the slopes.  calc_ode_rk4 is the system of    *)
(* one equation.                                                           *)

Along(y, d, k) == [j \in DOMAIN y |-> Plus(y[j], Times(d, k[j]))]

RkStep(F, t, y, dt) ==
  LET half == Times(Fraction(1, 2), dt)
      k1 == F[t, y]
      k2 == F[Plus(t, half), Along(y, half, k1)]
      k3 == F[Plus(t, half), Along(y, half, k2)]
      k4 == F[Plus(t, dt), Along(y, dt, k3)]
      Slopes(j) == Plus(Plus(k1[j], k4[j]), Times(Num(2), Plus(k2[j], k3[j])))
  IN  Along(y, Times(Fraction(1, 6), dt), [j \in DOMAIN y |-> Slopes(j)])

(* The states at t0, t0 + dt, ...; a system that is too large is cut. *)
RkSystem(F, t0, y0, dt, steps) ==
  LET n == IF Len(y0) > MaxVars THEN MaxVars ELSE Len(y0)
      From[i \in 1 .. steps + 1, t \in Fractions, y \in Seq(Fractions)] ==
        IF i > steps THEN <<y>> ELSE <<y>> \o From[i + 1, Plus(t, dt), RkStep(F, t, y, dt)]
  IN  Answered(From[1, t0, SubSeq(y0, 1, n)], IF Len(y0) > MaxVars THEN 1 ELSE 0)

(* calc_ode_rk45, by what came of each step tried: whether its error was   *)
(* within the tolerance, and the factor by which the step then changed     *)
(* (one for an error that is zero or no number).  Answers the times        *)
(* accepted and the flag.                                                  *)
Ended(st, tEnd, maxSteps) ==
  st.flag # 0 \/ ~Less(Last(st.times), tEnd) \/ Len(st.times) >= CountOr(maxSteps, "adaptive")

Adaptive(t0, tEnd, dtInit, attempts, maxSteps) ==
  LET start == IF dtInit = Zero THEN Over(Minus(tEnd, t0), Num(100)) ELSE dtInit
      span == Size(Minus(tEnd, t0))
      Shortened(t, dt) == IF Less(tEnd, Plus(t, dt)) THEN Minus(tEnd, t) ELSE dt
      Bounded(dt) == IF Less(span, dt) THEN span ELSE dt
      Try(st, attempt) ==
        LET t == Last(st.times)
            dt == Shortened(t, st.dt)
        IN  IF Ended(st, tEnd, maxSteps) THEN st
            ELSE IF Less(dt, MinStep) THEN [st EXCEPT !.flag = 4]
            ELSE [st EXCEPT !.times = IF attempt.accepted THEN Append(@, Plus(t, dt)) ELSE @,
                            !.dt = Bounded(Times(dt, attempt.factor))]
  IN  FoldLeft(Try, [times |-> <<t0>>, dt |-> start, flag |-> 0], attempts)
===============================================================================
