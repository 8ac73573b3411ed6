---------------------------- MODULE LinearAlgebra -----------------------------
(***************************************************************************)
(* Matrices (Kernel/Operations/LinearAlgebra/LinearAlgebra.c): sequences   *)
(* of rows of fractions.  Among the numbers checked only zero is below the *)
(* code's threshold 1e-12.  A call fails with a flag (0 for none) or       *)
(* answers a value.                                                        *)
(***************************************************************************)
EXTENDS Fraction, Sequences, SequencesExt, FiniteSetsExt

CONSTANT MaxDim  (* MAX_MATRIX_DIM *)

ASSUME LinearAlgebraAssumption == MaxDim \in Nat \ {0}

InvalidFlag == 4
SingularFlag == 2

Failed(flag) == [ok |-> FALSE, flag |-> flag]
Done(value) == [ok |-> TRUE, value |-> value]

Width(M) == Len(M[1])
Oversize(M) == Len(M) > MaxDim \/ Width(M) > MaxDim

Abs(x) == IF Negative(x) THEN Neg(x) ELSE x
Dot(x, y) == FoldLeft(Plus, Zero, [k \in DOMAIN x |-> Times(x[k], y[k])])
Column(M, c) == [r \in DOMAIN M |-> M[r][c]]

-------------------------------------------------------------------------------
(* Sums, products, transposition, trace. *)

MatrixAdd(A, B) ==
  IF Oversize(A) \/ Oversize(B) \/ Len(A) # Len(B) \/ Width(A) # Width(B)
  THEN Failed(InvalidFlag)
  ELSE Done([r \in DOMAIN A |-> [c \in DOMAIN A[r] |-> Plus(A[r][c], B[r][c])]])

MatrixMul(A, B) ==
  IF Oversize(A) \/ Oversize(B) \/ Width(A) # Len(B) THEN Failed(InvalidFlag)
  ELSE Done([r \in DOMAIN A |-> [c \in 1 .. Width(B) |-> Dot(A[r], Column(B, c))]])

MatrixTranspose(A) ==
  IF Oversize(A) THEN Failed(InvalidFlag) ELSE Done([c \in 1 .. Width(A) |-> Column(A, c)])

MatrixTrace(A) ==
  IF Oversize(A) THEN Failed(0)
  ELSE Done(FoldLeft(Plus, Zero, [i \in DOMAIN A |-> A[i][i]]))

-------------------------------------------------------------------------------
(* Elimination. *)

Identity(n) == [r \in 1 .. n |-> [c \in 1 .. n |-> IF r = c THEN One ELSE Zero]]
Indices(n) == [i \in 1 .. n |-> i]

(* The first row from i on with the largest entry in column i. *)
Pivot(M, i) ==
  Min({r \in i .. Len(M) : \A q \in i .. Len(M) : AtMost(Abs(M[q][i]), Abs(M[r][i]))})

Swapped(M, i, j) == [M EXCEPT ![i] = M[j], ![j] = M[i]]
Pivoted(M, i) == Swapped(M, i, Pivot(M, i))

Scaled(x, f) == [c \in DOMAIN x |-> Over(x[c], f)]
Reduce(x, f, y) == [c \in DOMAIN x |-> Minus(x[c], Times(f, y[c]))]

(* Row i, divided by its entry in column c, cleared from all other rows. *)
Cleared(M, i, c) ==
  LET unit == Scaled(M[i], M[i][c])
  IN  [r \in DOMAIN M |-> IF r = i THEN unit ELSE Reduce(M[r], M[r][c], unit)]

(* Row i cleared from the rows below it. *)
ClearedBelow(M, i) ==
  [r \in DOMAIN M |-> IF r <= i THEN M[r] ELSE Reduce(M[r], Over(M[r][i], M[i][i]), M[i])]

MatrixDeterminant(A) ==
  LET Step(st, i) ==
        LET m == Pivoted(st.m, i) IN
        IF m[i][i] = Zero THEN [st EXCEPT !.det = Zero]
        ELSE [m   |-> ClearedBelow(m, i),
              det |-> Times(m[i][i], IF Pivot(st.m, i) = i THEN st.det ELSE Neg(st.det))]
      Loop(st, i) == IF st.det = Zero THEN st ELSE Step(st, i)
  IN  IF Oversize(A) THEN Failed(InvalidFlag)
      ELSE Done(FoldLeft(Loop, [m |-> A, det |-> One], Indices(Len(A))).det)

MatrixInverse(A) ==
  LET n == Len(A)
      Loop(M, i) ==
        IF M = <<>> \/ Pivoted(M, i)[i][i] = Zero THEN <<>> ELSE Cleared(Pivoted(M, i), i, i)
      M == FoldLeft(Loop, [r \in 1 .. n |-> A[r] \o Identity(n)[r]], Indices(n))
  IN  IF Oversize(A) THEN Failed(InvalidFlag)
      ELSE IF M = <<>> THEN Failed(SingularFlag)
      ELSE Done([r \in 1 .. n |-> SubSeq(M[r], n + 1, 2 * n)])

(* The columns from lead on with an entry in a row from r on. *)
Leading(M, r, lead) ==
  {c \in lead .. Width(M) : \E i \in r .. Len(M) : M[i][c] # Zero}

MatrixRref(A) ==
  LET Step(st, r, c) ==
        LET i == Min({k \in r .. Len(A) : st.m[k][c] # Zero})
        IN  [m |-> Cleared(Swapped(st.m, r, i), r, c), lead |-> c + 1]
      Loop(st, r) ==
        IF Leading(st.m, r, st.lead) = {} THEN [st EXCEPT !.lead = Width(A) + 1]
        ELSE Step(st, r, Min(Leading(st.m, r, st.lead)))
  IN  IF Oversize(A) THEN Failed(InvalidFlag)
      ELSE Done(FoldLeft(Loop, [m |-> A, lead |-> 1], Indices(Len(A))).m)

-------------------------------------------------------------------------------
(* Factorisations and linear systems. *)

(* Mutant: the rows of L found so far are not exchanged. *)
MutExchanged(st, i, p) ==
  [st EXCEPT !.U = Swapped(@, i, p), !.P = Swapped(@, i, p)]

(* Rows i and p of U and P, and what L has of them so far. *)
Exchanged(st, i, p) ==
  LET L == Swapped(st.L, i, p)
  IN  [U |-> Swapped(st.U, i, p), P |-> Swapped(st.P, i, p),
       L |-> [r \in DOMAIN L |-> [c \in DOMAIN L[r] |-> IF c < i THEN L[r][c] ELSE st.L[r][c]]]]

(* Row r of L keeps the factor that clears column i below the diagonal. *)
Factored(st, i) ==
  [st EXCEPT
     !.U = ClearedBelow(@, i),
     !.L = [r \in DOMAIN @ |->
              IF r > i THEN [@[r] EXCEPT ![i] = Over(st.U[r][i], st.U[i][i])] ELSE @[r]]]

MatrixLU(A) ==
  LET Loop(st, i) ==
        IF st.U = <<>> \/ Pivoted(st.U, i)[i][i] = Zero THEN [st EXCEPT !.U = <<>>]
        ELSE Factored(Exchanged(st, i, Pivot(st.U, i)), i)
      lu == FoldLeft(Loop, [L |-> Identity(Len(A)), U |-> A, P |-> Indices(Len(A))],
                     Indices(Len(A)))
  IN  IF Oversize(A) \/ lu.U = <<>> THEN Failed(0) ELSE Done(lu)

(* x with U x = y, from the last row up. *)
BackSubstituted(U, y) ==
  LET n == Len(y)
      Solve(x, i) ==
        <<Over(Minus(y[i], Dot(SubSeq(U[i], i + 1, n), x)), U[i][i])>> \o x
  IN  FoldLeft(Solve, <<>>, [k \in 1 .. n |-> n + 1 - k])

SolveLinear(A, b) ==
  LET lu == MatrixLU(A)
      Forward(y, i) == Append(y, Minus(b[lu.value.P[i]], Dot(y, SubSeq(lu.value.L[i], 1, i - 1))))
  IN  IF ~lu.ok THEN Failed(0)
      ELSE Done(BackSubstituted(lu.value.U, FoldLeft(Forward, <<>>, Indices(Len(A)))))

(* Modified Gram-Schmidt on the columns, here the rows of Q; R row by row. *)
MatrixQR(A) ==
  LET cols == [c \in 1 .. Width(A) |-> Column(A, c)]
      Norm(Q, i) == SquareRoot(Dot(Q[i], Q[i]))
      Next(Q, i, q) == [j \in DOMAIN Q |->
                          IF j = i THEN q ELSE IF j > i THEN Reduce(Q[j], Dot(q, Q[j]), q) ELSE Q[j]]
      Row(Q, i, q, norm) == [j \in DOMAIN Q |->
                               IF j = i THEN norm ELSE IF j > i THEN Dot(q, Q[j]) ELSE Zero]
      Step(st, i, norm) ==
        LET q == Scaled(st.Q[i], norm)
        IN  [Q |-> Next(st.Q, i, q), R |-> Append(st.R, Row(st.Q, i, q, norm))]
      Loop(st, i) ==
        IF st.Q = <<>> \/ Norm(st.Q, i) = Zero THEN [st EXCEPT !.Q = <<>>]
        ELSE Step(st, i, Norm(st.Q, i))
      qr == FoldLeft(Loop, [Q |-> cols, R |-> <<>>], Indices(Width(A)))
  IN  IF Oversize(A) \/ qr.Q = <<>> THEN Failed(0) ELSE Done(qr)

LeastSquares(A, b) ==
  LET qr == MatrixQR(A) IN
  IF ~qr.ok THEN Failed(0)
  ELSE Done(BackSubstituted(qr.value.R, [i \in 1 .. Width(A) |-> Dot(qr.value.Q[i], b)]))
===============================================================================
