----------------------------- MODULE ParserProofs -----------------------------
(***************************************************************************)
(* The expression parser, for every line, every table and every plugin,    *)
(* and for every size of the table, of the stack and of the texts copied.  *)
(*                                                                         *)
(* There is one contract, Follows, for everything that parses: the text    *)
(* stays and is only read forwards, the depth comes back; and if the state *)
(* it began in was sound, the table changes only in the names that the     *)
(* text assigns and loses none, an error anywhere is told, and the stack   *)
(* stays within its budget.  It is proved of each function of the parser   *)
(* under the assumption that the parser P it calls keeps it, then of the   *)
(* loop over the operators, of Parse by induction over the tokens left,    *)
(* and of the lines of a session.                                          *)
(***************************************************************************)
EXTENDS Parser, Induction, SequenceTheorems, FiniteSetTheorems

(* The rounding of a fraction stays in the range of fractions.             *)
LEMMA ReducedIsClosed ==
  /\ Inexact \in Fractions /\ Zero \in Fractions /\ One \in Fractions
  /\ \A q : Capped(q) \in Fractions
  /\ \A n, d, g : Reduced(n, d, g) \in Fractions
<1>1. Inexact \in Fractions /\ Zero \in Fractions /\ One \in Fractions
  BY DEF Inexact, Zero, One, Fractions, Small
<1>2. \A q : Capped(q) \in Fractions
  BY <1>1 DEF Capped
<1>. QED BY <1>1, <1>2 DEF Reduced

(* So every quotient is a fraction, one by zero and one too large included.*)
LEMMA FractionIsClosed == \A n, d : Fraction(n, d) \in Fractions
<1>. SUFFICES ASSUME NEW n, NEW d PROVE Fraction(n, d) \in Fractions
  OBVIOUS
<1>1. \A g : (IF d = 0 THEN Inexact ELSE Reduced(n, d, g)) \in Fractions
  BY ReducedIsClosed
<1>. QED BY <1>1, Zenon DEF Fraction

(* Whatever is computed is a fraction, or Inexact.                         *)
LEMMA ArithmeticIsClosed ==
  /\ Inexact \in Fractions /\ Zero \in Fractions /\ One \in Fractions
  /\ \A i : Num(i) \in Fractions
  /\ \A x, y : /\ Plus(x, y) \in Fractions /\ Minus(x, y) \in Fractions
              /\ Times(x, y) \in Fractions /\ Over(x, y) \in Fractions
              /\ Half(x, y) \in Fractions
  /\ \A x \in Fractions : Neg(x) \in Fractions
  /\ \A x : Root(x) \in Fractions /\ Floor(x) \in Fractions
<1>. USE ReducedIsClosed, FractionIsClosed
<1>1. \A i : Num(i) \in Fractions
  BY DEF Num
<1>2. \A x, y : Plus(x, y) \in Fractions /\ Times(x, y) \in Fractions /\ Over(x, y) \in Fractions
  BY DEF Plus, Times, Over
<1>3. \A x, y : Minus(x, y) \in Fractions /\ Half(x, y) \in Fractions
  BY <1>2 DEF Minus, Half
<1>4. ASSUME NEW x \in Fractions
      PROVE  Neg(x) \in Fractions
  <2>1. x = [n |-> x.n, d |-> x.d] /\ x.n \in -Small .. Small /\ x.d \in 0 .. Small
    BY ONLY x \in Fractions DEF Fractions
  <2>2. Neg(x) = [n |-> -x.n, d |-> x.d]
    BY ONLY <2>1 DEF Neg
  <2>3. -x.n \in -Small .. Small
    <3>1. Small \in Nat
      BY DEF Small
    <3>. QED BY ONLY <2>1, <3>1
  <2>. QED BY <2>1, <2>2, <2>3 DEF Fractions
<1>5. \A x : Root(x) \in Fractions /\ Floor(x) \in Fractions
  BY <1>1 DEF Root, Floor
<1>. QED BY <1>1, <1>2, <1>3, <1>4, <1>5

-------------------------------------------------------------------------------
(* Recursion over the naturals whose values are fractions, whatever the    *)
(* value before.                                                           *)

LEMMA FactorialIsClosed == \A x : x.n \in Nat => FactorialOf(x) \in Fractions
<1>. DEFINE Rhs(f) == [i \in Nat |-> IF i = 0 THEN One ELSE Times(f[i - 1], Num(i))]
            F == CHOOSE f : f = Rhs(f)
            S == [Nat -> Fractions]
            m == [i \in Nat |-> i]
            next == [f \in S |-> Rhs(f)]
<1>1. \A f : Rhs(f) \in S
  BY ArithmeticIsClosed
<1>2. \E f : IsFixed(f, next, Nat, Fractions)
  <2>1. next \in [S -> S] /\ m \in [Nat -> Nat] /\ Fractions # {}
    BY <1>1, ArithmeticIsClosed
  <2>2. ASSUME NEW f \in S, NEW g \in S, NEW i \in Nat,
               \A e \in Nat : m[e] < m[i] => f[e] = g[e]
        PROVE  next[f][i] = next[g][i]
    <3>1. i # 0 => f[i - 1] = g[i - 1]
      BY <2>2
    <3>. QED BY <3>1
  <2>. HIDE DEF next, m, Rhs
  <2>3. Descends(next, Nat, Fractions, m)
    BY <2>1, <2>2 DEF Descends
  <2>. QED BY <2>1, <2>3, Recursion
<1>3. F = Rhs(F)
  <2>. HIDE DEF Rhs
  <2>1. \E f : f = Rhs(f)
    BY <1>1, <1>2 DEF IsFixed
  <2>. QED BY <2>1
<1>4. F \in S
  <2>. HIDE DEF F, Rhs
  <2>. QED BY <1>1, <1>3
<1>5. \A x : FactorialOf(x) = F[x.n]
  BY DEF FactorialOf
<1>. HIDE DEF F
<1>. QED BY <1>4, <1>5

(* The power by squaring is a definition, and a fraction.                  *)
LEMMA RaisedIsClosed == RaisedTo \in [Nat -> [Fractions -> Fractions]]
<1>. DEFINE R == [Fractions -> Fractions]
            Rhs(f) == [e \in Nat |-> [x \in Fractions |->
                         CASE e = 0      -> One
                           [] e % 2 = 1  -> Times(x, f[e - 1][x])
                           [] OTHER      -> LET h == f[e \div 2][x] IN Times(h, h)]]
            S == [Nat -> R]
            m == [e \in Nat |-> e]
            next == [f \in S |-> Rhs(f)]
<1>1. \A f : Rhs(f) \in S
  <2>. SUFFICES ASSUME NEW f, NEW e \in Nat, NEW x \in Fractions
                PROVE  Rhs(f)[e][x] \in Fractions
    OBVIOUS
  <2>1. CASE e = 0
    BY <2>1, ArithmeticIsClosed
  <2>2. CASE e # 0 /\ e % 2 = 1
    BY <2>2, ArithmeticIsClosed
  <2>3. CASE e # 0 /\ e % 2 # 1
    BY <2>3, ArithmeticIsClosed
  <2>. QED BY <2>1, <2>2, <2>3
<1>2. \E f : IsFixed(f, next, Nat, R)
  <2>1. next \in [S -> S] /\ m \in [Nat -> Nat] /\ R # {}
    <3>1. [x \in Fractions |-> x] \in R
      OBVIOUS
    <3>. HIDE DEF Rhs, R
    <3>. QED BY <1>1, <3>1
  <2>2. ASSUME NEW f \in S, NEW g \in S, NEW i \in Nat,
               \A e \in Nat : m[e] < m[i] => f[e] = g[e]
        PROVE  next[f][i] = next[g][i]
    <3>1. i # 0 => f[i - 1] = g[i - 1] /\ f[i \div 2] = g[i \div 2]
      <4>1. i # 0 => i - 1 \in Nat /\ i - 1 < i /\ i \div 2 \in Nat /\ i \div 2 < i
        OBVIOUS
      <4>. QED BY <2>2, <4>1
    <3>2. next[f][i] = Rhs(f)[i] /\ next[g][i] = Rhs(g)[i]
      BY <1>1
    <3>3. CASE i = 0
      BY <3>2, <3>3
    <3>4. CASE i # 0
      BY <3>1, <3>2, <3>4
    <3>. QED BY <3>3, <3>4
  <2>. HIDE DEF next, m, Rhs, R
  <2>3. Descends(next, Nat, R, m)
    BY <2>1, <2>2 DEF Descends
  <2>. QED BY <2>1, <2>3, Recursion
<1>3. RaisedTo = Rhs(RaisedTo)
  <2>. DEFINE F == CHOOSE f : f = Rhs(f)
  <2>1. F = Rhs(F)
    <3>. HIDE DEF Rhs
    <3>1. \E f : f = Rhs(f)
      BY <1>1, <1>2 DEF IsFixed
    <3>. QED BY <3>1
  <2>2. RaisedTo = F
    BY DEF RaisedTo
  <2>. HIDE DEF F, Rhs
  <2>. QED BY <2>1, <2>2
<1>. HIDE DEF Rhs
<1>. QED BY <1>1, <1>3

-------------------------------------------------------------------------------
(* The symbol table. *)

TableOK(table) ==
  /\ table \in Seq(Symbol)
  /\ Len(table) <= MaxSymbols
  /\ \A i, j \in 1 .. Len(table) : table[i].name = table[j].name => i = j

(* The fields of a symbol.                                                 *)
LEMMA SymbolFields ==
  /\ \A s \in Symbol : s.name \in Names /\ s.value \in Fractions
  /\ \A x \in Names, v \in Fractions : [name |-> x, value |-> v] \in Symbol
  /\ \A s \in Symbol, v \in Fractions :
        /\ [s EXCEPT !.value = v] \in Symbol
        /\ [s EXCEPT !.value = v].name = s.name
        /\ [s EXCEPT !.value = v].value = v
BY DEF Symbol

(* The slot of a name is the first symbol with it.                         *)
LEMMA SlotIsFound ==
  ASSUME NEW table \in Seq(Symbol), NEW x
  PROVE  /\ Defined(table, x) <=> \E i \in 1 .. Len(table) : table[i].name = x
         /\ Defined(table, x) =>
              /\ SlotOf(table, x) \in 1 .. Len(table)
              /\ table[SlotOf(table, x)].name = x
              /\ ValueOf(table, x) \in Fractions
<1>. DEFINE I == {i \in 1 .. Len(table) : table[i].name = x}
<1>1. SlotOf(table, x) = IF I # {} THEN Min(I) ELSE 0
  BY DEF SlotOf, SelectInSeq
<1>2. I # {} => Min(I) \in I
  <2>1. I \in SUBSET Nat
    OBVIOUS
  <2>. HIDE DEF I
  <2>. QED BY <2>1, MinIsLeast
<1>3. \A i \in 1 .. Len(table) : table[i].value \in Fractions
  <2>1. \A i \in 1 .. Len(table) : table[i] \in Symbol
    OBVIOUS
  <2>. QED BY <2>1, SymbolFields
<1>. DEFINE k == SlotOf(table, x)
<1>4. k # 0 <=> \E i \in 1 .. Len(table) : table[i].name = x
  BY <1>1, <1>2
<1>5. k # 0 => k \in 1 .. Len(table) /\ table[k].name = x
  BY <1>1, <1>2
<1>. HIDE DEF k
<1>. QED BY <1>3, <1>4, <1>5 DEF Defined, ValueOf, k

(* In a table without repeated names a name means what its symbol says.    *)
LEMMA MeaningIsUnique ==
  ASSUME NEW table, TableOK(table), NEW x
  PROVE  /\ \A i \in 1 .. Len(table) :
              table[i].name = x => Meaning(table, x) = {table[i].value}
         /\ (\A i \in 1 .. Len(table) : table[i].name # x) => Meaning(table, x) = {}
         /\ Defined(table, x) <=> Meaning(table, x) # {}
<1>1. table \in Seq(Symbol)
  BY DEF TableOK
<1>2. ASSUME NEW i \in 1 .. Len(table), table[i].name = x
      PROVE  Meaning(table, x) = {table[i].value}
  <2>1. Defined(table, x) /\ SlotOf(table, x) = i
    BY <1>1, <1>2, SlotIsFound DEF TableOK
  <2>. QED BY <2>1 DEF Meaning, ValueOf
<1>. QED BY <1>1, <1>2, SlotIsFound DEF Meaning

(* set_variable changes no other name, and x only to v; it fails to when   *)
(* the table is full.                                                      *)
LEMMA SetVariableWorks ==
  ASSUME NEW table \in Seq(Symbol), NEW x \in Names, NEW v \in Fractions
  PROVE  LET u == SetVariable(table, x, v) IN
         /\ u \in Seq(Symbol)
         /\ TableOK(table) =>
              /\ TableOK(u)
              /\ \A y : y # x => Meaning(u, y) = Meaning(table, y)
              /\ \/ Meaning(u, x) = {v}
                 \/ Meaning(table, x) = {} /\ u = table /\ Len(u) = MaxSymbols
<1>. DEFINE u == SetVariable(table, x, v)
            k == SlotOf(table, x)
<1>1. CASE Defined(table, x)
  <2>1. k \in 1 .. Len(table) /\ table[k].name = x
    BY <1>1, SlotIsFound
  <2>2. u = [table EXCEPT ![k].value = v]
    BY <1>1 DEF SetVariable
  <2>. HIDE DEF k, u
  <2>3. /\ u \in Seq(Symbol) /\ Len(u) = Len(table)
        /\ \A i \in 1 .. Len(table) : u[i].name = table[i].name
        /\ \A i \in 1 .. Len(table) : i # k => u[i].value = table[i].value
        /\ u[k].value = v
    <3>1. table[k] \in Symbol /\ [table[k] EXCEPT !.value = v] \in Symbol
      BY <2>1, SymbolFields
    <3>2. u = [table EXCEPT ![k] = [table[k] EXCEPT !.value = v]]
      BY <2>2
    <3>3. u \in Seq(Symbol) /\ Len(u) = Len(table)
      BY <2>1, <3>1, <3>2
    <3>4. u[k] = [table[k] EXCEPT !.value = v] /\ \A i \in 1 .. Len(table) : i # k => u[i] = table[i]
      BY <2>1, <3>2
    <3>5. u[k].value = v /\ u[k].name = table[k].name
      BY <3>1, <3>4, SymbolFields
    <3>. QED BY <3>3, <3>4, <3>5
  <2>4. ASSUME TableOK(table)
        PROVE  /\ TableOK(u)
               /\ \A y : y # x => Meaning(u, y) = Meaning(table, y)
               /\ Meaning(u, x) = {v}
    <3>1. TableOK(u)
      BY <2>3, <2>4 DEF TableOK
    <3>2. Meaning(u, x) = {v}
      BY <2>1, <2>3, <3>1, MeaningIsUnique
    <3>3. ASSUME NEW y, y # x
          PROVE  Meaning(u, y) = Meaning(table, y)
      <4>1. CASE \E i \in 1 .. Len(table) : table[i].name = y
        <5>1. PICK i \in 1 .. Len(table) : table[i].name = y
          BY <4>1
        <5>2. i # k
          BY <2>1, <3>3, <5>1
        <5>3. Meaning(table, y) = {table[i].value}
          BY <5>1, <2>4, MeaningIsUnique
        <5>4. Meaning(u, y) = {u[i].value}
          BY <5>1, <2>3, <3>1, MeaningIsUnique
        <5>. QED BY <5>1, <5>2, <5>3, <5>4, <2>3
      <4>2. CASE \A i \in 1 .. Len(table) : table[i].name # y
        <5>1. Meaning(table, y) = {}
          BY <4>2, <2>4, MeaningIsUnique
        <5>2. Meaning(u, y) = {}
          BY <4>2, <2>3, <3>1, MeaningIsUnique
        <5>. QED BY <5>1, <5>2
      <4>. QED BY <4>1, <4>2
    <3>. QED BY <3>1, <3>2, <3>3
  <2>. QED BY <2>3, <2>4 DEF u
<1>2. CASE ~Defined(table, x) /\ HasRoom(table)
  <2>. DEFINE sym == [name |-> x, value |-> v]
  <2>1. \A i \in 1 .. Len(table) : table[i].name # x
    BY <1>2, SlotIsFound
  <2>2. u = Append(table, sym) /\ sym \in Symbol
    BY <1>2 DEF SetVariable, Symbol
  <2>3. sym.name = x /\ sym.value = v
    OBVIOUS
  <2>. HIDE DEF u, sym
  <2>4. /\ u \in Seq(Symbol) /\ Len(u) = Len(table) + 1
        /\ \A i \in 1 .. Len(table) : u[i] = table[i]
        /\ u[Len(table) + 1] = sym
    BY <2>2
  <2>5. ASSUME TableOK(table)
        PROVE  /\ TableOK(u)
               /\ \A y : y # x => Meaning(u, y) = Meaning(table, y)
               /\ Meaning(u, x) = {v}
    <3>1. TableOK(u)
      <4>1. Len(u) <= MaxSymbols
        BY <1>2, <2>4, ParserAssumption DEF HasRoom
      <4>2. ASSUME NEW i \in 1 .. Len(u), NEW j \in 1 .. Len(u), u[i].name = u[j].name
            PROVE  i = j
        <5>1. CASE i = Len(table) + 1 \/ j = Len(table) + 1
          BY <5>1, <4>2, <2>1, <2>3, <2>4
        <5>2. CASE i \in 1 .. Len(table) /\ j \in 1 .. Len(table)
          BY <5>2, <4>2, <2>4, <2>5 DEF TableOK
        <5>. QED BY <5>1, <5>2, <2>4
      <4>. QED BY <4>1, <4>2, <2>4 DEF TableOK
    <3>2. Meaning(u, x) = {v}
      BY <2>3, <2>4, <3>1, MeaningIsUnique
    <3>3. ASSUME NEW y, y # x
          PROVE  Meaning(u, y) = Meaning(table, y)
      <4>1. CASE \E i \in 1 .. Len(table) : table[i].name = y
        <5>1. PICK i \in 1 .. Len(table) : table[i].name = y
          BY <4>1
        <5>2. Meaning(table, y) = {table[i].value}
          BY <5>1, <2>5, MeaningIsUnique
        <5>3. i \in 1 .. Len(u) /\ u[i] = table[i]
          BY <2>4
        <5>4. Meaning(u, y) = {u[i].value}
          BY <5>1, <5>3, <3>1, MeaningIsUnique
        <5>. QED BY <5>2, <5>3, <5>4
      <4>2. CASE \A i \in 1 .. Len(table) : table[i].name # y
        <5>1. \A i \in 1 .. Len(u) : u[i].name # y
          BY <4>2, <3>3, <2>3, <2>4
        <5>2. Meaning(table, y) = {} /\ Meaning(u, y) = {}
          BY <4>2, <5>1, <2>5, <3>1, MeaningIsUnique
        <5>. QED BY <5>2
      <4>. QED BY <4>1, <4>2
    <3>. QED BY <3>1, <3>2, <3>3
  <2>. QED BY <2>4, <2>5 DEF u
<1>3. CASE ~Defined(table, x) /\ ~HasRoom(table)
  <2>1. u = table
    BY <1>3 DEF SetVariable
  <2>2. TableOK(table) => Meaning(table, x) = {} /\ Len(table) = MaxSymbols
    BY <1>3, MeaningIsUnique, ParserAssumption DEF HasRoom, TableOK
  <2>. HIDE DEF u
  <2>. QED BY <2>1, <2>2 DEF u
<1>. QED BY <1>1, <1>2, <1>3

(* The same in a word.                                                     *)
Sets(table, x, v, u) ==
  /\ TableOK(u)
  /\ \A y : y # x => Meaning(u, y) = Meaning(table, y)
  /\ Meaning(u, x) = {v} \/ Meaning(table, x) = {}

(* The same for a table without a name twice.                              *)
LEMMA SetVariableSets ==
  ASSUME NEW table, TableOK(table), NEW x \in Names, NEW v \in Fractions
  PROVE  Sets(table, x, v, SetVariable(table, x, v))
<1>1. table \in Seq(Symbol)
  BY DEF TableOK
<1>. QED BY <1>1, SetVariableWorks DEF Sets

(* remove_variable takes away x and nothing else.                          *)
LEMMA RemoveVariableWorks ==
  ASSUME NEW table \in Seq(Symbol), NEW x
  PROVE  LET u == RemoveVariable(table, x) IN
         /\ u \in Seq(Symbol)
         /\ TableOK(table) => /\ TableOK(u)
                              /\ \A y : y # x => Meaning(u, y) = Meaning(table, y)
                              /\ Meaning(u, x) = {}
<1>. DEFINE u == RemoveVariable(table, x)
            k == SlotOf(table, x)
            n == Len(table)
<1>1. CASE Defined(table, x)
  <2>1. k \in 1 .. n /\ table[k].name = x
    BY <1>1, SlotIsFound
  <2>2. u = SubSeq(table, 1, k - 1) \o SubSeq(table, k + 1, n)
    BY <1>1 DEF RemoveVariable, RemoveAt
  <2>. HIDE DEF k, u
  <2>. DEFINE a == SubSeq(table, 1, k - 1)
              b == SubSeq(table, k + 1, n)
  <2>3. /\ a \in Seq(Symbol) /\ Len(a) = k - 1 /\ \A i \in 1 .. k - 1 : a[i] = table[i]
        /\ b \in Seq(Symbol) /\ Len(b) = n - k /\ \A i \in 1 .. n - k : b[i] = table[k + i]
    BY <2>1, SubSeqProperties
  <2>4. /\ u \in Seq(Symbol) /\ Len(u) = n - 1
        /\ \A i \in 1 .. n - 1 : u[i] = table[IF i < k THEN i ELSE i + 1]
    <3>. HIDE DEF a, b
    <3>1. u = a \o b
      BY <2>2 DEF a, b
    <3>2. /\ u \in Seq(Symbol) /\ Len(u) = Len(a) + Len(b)
          /\ \A i \in 1 .. Len(a) + Len(b) : u[i] = IF i <= Len(a) THEN a[i] ELSE b[i - Len(a)]
      BY <2>3, <3>1, ConcatProperties
    <3>. /\ k \in 1 .. n /\ n \in Nat /\ Len(a) = k - 1 /\ Len(b) = n - k
      BY <2>1, <2>3
    <3>. HIDE DEF n
    <3>3. ASSUME NEW i \in 1 .. n - 1
          PROVE  u[i] = table[IF i < k THEN i ELSE i + 1]
      <4>1. CASE i < k
        <5>1. i \in 1 .. k - 1 /\ i \in 1 .. Len(a) + Len(b) /\ i <= Len(a)
          BY ONLY <4>1, k \in 1 .. n, n \in Nat, Len(a) = k - 1, Len(b) = n - k, i \in 1 .. n - 1
        <5>. QED BY <4>1, <5>1, <2>3, <3>2
      <4>2. CASE ~(i < k)
        <5>1. /\ i - (k - 1) \in 1 .. n - k /\ k + (i - (k - 1)) = i + 1
              /\ i \in 1 .. Len(a) + Len(b) /\ ~(i <= Len(a)) /\ i - Len(a) = i - (k - 1)
          BY <4>2, <2>1, <2>3
        <5>. QED BY <4>2, <5>1, <2>3, <3>2
      <4>. QED BY <4>1, <4>2
    <3>4. Len(u) = n - 1
      BY <2>1, <2>3, <3>2
    <3>. QED BY <3>2, <3>3, <3>4
  <2>5. ASSUME TableOK(table)
        PROVE  /\ TableOK(u)
               /\ \A y : y # x => Meaning(u, y) = Meaning(table, y)
               /\ Meaning(u, x) = {}
    <3>1. TableOK(u)
      <4>. DEFINE q(i) == IF i < k THEN i ELSE i + 1
      <4>1. \A i \in 1 .. n - 1 : q(i) \in 1 .. n /\ u[i] = table[q(i)]
        BY <2>1, <2>4
      <4>2. \A i, j \in 1 .. n - 1 : q(i) = q(j) => i = j
        BY <2>1
      <4>. HIDE DEF q
      <4>3. Len(u) <= MaxSymbols
        BY <2>4, <2>5, ParserAssumption DEF TableOK
      <4>. QED BY <4>1, <4>2, <4>3, <2>4, <2>5 DEF TableOK
    <3>2. Meaning(u, x) = {}
      <4>1. \A i \in 1 .. Len(u) : u[i].name # x
        BY <2>1, <2>4, <2>5 DEF TableOK
      <4>. QED BY <3>1, <4>1, MeaningIsUnique
    <3>3. ASSUME NEW y, y # x
          PROVE  Meaning(u, y) = Meaning(table, y)
      <4>1. CASE \E i \in 1 .. n : table[i].name = y
        <5>1. PICK i \in 1 .. n : table[i].name = y
          BY <4>1
        <5>2. i # k
          BY <2>1, <3>3, <5>1
        <5>3. PICK j \in 1 .. n - 1 : u[j] = table[i]
          <6>1. CASE i < k
            <7>1. i \in 1 .. n - 1
              BY <6>1, <2>1
            <7>. QED BY <6>1, <7>1, <2>4
          <6>2. CASE i > k
            <7>1. i - 1 \in 1 .. n - 1 /\ (i - 1) + 1 = i /\ ~(i - 1 < k)
              BY <6>2, <2>1
            <7>. QED BY <7>1, <2>4
          <6>. QED BY <5>2, <6>1, <6>2, <2>1
        <5>4. Meaning(table, y) = {table[i].value}
          BY <5>1, <2>5, MeaningIsUnique
        <5>5. j \in 1 .. Len(u) /\ u[j].name = y
          BY <5>1, <5>3, <2>4
        <5>6. Meaning(u, y) = {u[j].value}
          BY <5>5, <3>1, MeaningIsUnique
        <5>. QED BY <5>3, <5>4, <5>6
      <4>2. CASE \A i \in 1 .. n : table[i].name # y
        <5>1. \A i \in 1 .. Len(u) : u[i].name # y
          BY <4>2, <2>4, <2>1
        <5>2. Meaning(table, y) = {} /\ Meaning(u, y) = {}
          BY <4>2, <5>1, <2>5, <3>1, MeaningIsUnique
        <5>. QED BY <5>2
      <4>. QED BY <4>1, <4>2
    <3>. QED BY <3>1, <3>2, <3>3
  <2>. QED BY <2>4, <2>5 DEF u
<1>2. CASE ~Defined(table, x)
  <2>1. u = table
    BY <1>2 DEF RemoveVariable
  <2>2. TableOK(table) => Meaning(table, x) = {}
    BY <1>2, MeaningIsUnique
  <2>. HIDE DEF u
  <2>. QED BY <2>1, <2>2 DEF u
<1>. QED BY <1>1, <1>2

(* A loop variable is as it was, if no name got lost since.                *)
LEMMA RestoredWorks ==
  ASSUME NEW old \in Seq(Symbol), NEW table \in Seq(Symbol), NEW x \in Names
  PROVE  LET u == Restored(old, table, x) IN
         /\ u \in Seq(Symbol)
         /\ TableOK(old) /\ TableOK(table) /\ (Defined(old, x) => Defined(table, x)) =>
              /\ TableOK(u)
              /\ \A y : y # x => Meaning(u, y) = Meaning(table, y)
              /\ Meaning(u, x) = Meaning(old, x)
<1>1. CASE Defined(old, x)
  <2>1. Restored(old, table, x) = SetVariable(table, x, ValueOf(old, x))
    BY <1>1 DEF Restored
  <2>2. ValueOf(old, x) \in Fractions /\ Meaning(old, x) = {ValueOf(old, x)}
    BY <1>1, SlotIsFound DEF Meaning
  <2>3. TableOK(table) /\ Defined(table, x) => Meaning(table, x) # {}
    BY MeaningIsUnique
  <2>. DEFINE v == ValueOf(old, x)
              u == SetVariable(table, x, v)
  <2>. HIDE DEF v
  <2>4. v \in Fractions
    BY <2>2 DEF v
  <2>5. /\ u \in Seq(Symbol)
        /\ TableOK(table) =>
              /\ TableOK(u)
              /\ \A y : y # x => Meaning(u, y) = Meaning(table, y)
              /\ Meaning(u, x) = {v} \/ Meaning(table, x) = {}
    BY <2>4, SetVariableWorks
  <2>6. Restored(old, table, x) = u /\ Meaning(old, x) = {v}
    BY <2>1, <2>2 DEF v
  <2>. HIDE DEF u
  <2>. QED BY <1>1, <2>3, <2>5, <2>6
<1>2. CASE ~Defined(old, x)
  <2>1. Restored(old, table, x) = RemoveVariable(table, x) /\ Meaning(old, x) = {}
    BY <1>2 DEF Restored, Meaning
  <2>. QED BY <2>1, RemoveVariableWorks
<1>. QED BY <1>1, <1>2

-------------------------------------------------------------------------------
(* What every function of the parser keeps. *)

Budget == MaxDepth + MaxExpr

(* The tokens that are left to read. *)
Unread(s) == Len(s.toks) + 1 - s.pos

(* What a parse of its own text may rely on while nothing has failed: inside *)
(* another parse the tokens left, and the depths of the parses around it,    *)
(* stay within the budget.                                                   *)
Sound(s) ==
  /\ s.ok
  /\ ~s.trap
  /\ TableOK(s.table)
  /\ s.pos <= Len(s.toks) + 1
  /\ s.deepest <= Budget
  /\ s.depth <= MaxDepth
  /\ s.outer = 0 \/ s.outer + s.depth + Unread(s) <= Budget

(* The same text, read further, with the depth as it was. *)
Moves(s, r) ==
  /\ r \in ParseState
  /\ r.toks = s.toks
  /\ r.pos >= s.pos
  /\ r.depth = s.depth
  /\ r.outer = s.outer

(* The results: the table differs only in the names A, and errors are told. *)
Keeps(A, s, r) ==
  /\ r.pos <= Len(r.toks) + 1
  /\ TableOK(r.table)
  /\ \A x : Defined(s.table, x) => Defined(r.table, x)
  /\ ~r.trap => \A x \in Names \ A : Meaning(r.table, x) = Meaning(s.table, x)
  /\ r.trap => ~r.ok
  /\ r.divZero => s.divZero \/ ~r.ok
  /\ r.deepest <= Budget

(* A text that may be parsed inside the parse of s. *)
Nests(s, expr) ==
  /\ s.outer + s.depth + Len(expr) <= Budget
  /\ AssignedIn(expr) \subseteq AssignedIn(s.toks)

(* r is what a function made of s, with parses of expr on its way.          *)
Follows(expr, s, r) ==
  /\ Moves(s, r)
  /\ Sound(s) /\ Nests(s, expr) => Keeps(AssignedIn(s.toks), s, r)

(* The fields of the state of a parse.                                     *)
LEMMA StateFields ==
  ASSUME NEW s \in ParseState
  PROVE  /\ s.toks \in Seq(Tokens) /\ s.pos \in Nat \ {0} /\ s.ok \in BOOLEAN
         /\ s.val \in Fractions /\ s.table \in Seq(Symbol) /\ s.divZero \in BOOLEAN
         /\ s.trap \in BOOLEAN /\ s.depth \in Nat /\ s.outer \in Nat /\ s.deepest \in Nat
         /\ Len(s.toks) \in Nat
BY DEF ParseState

(* One depth fits in the budget.                                           *)
LEMMA BudgetIsPositive == Budget \in Nat /\ MaxDepth \in Nat /\ MaxDepth <= Budget
BY ParserAssumption DEF Budget

(* To do nothing keeps the contract.                                       *)
LEMMA FollowsItself ==
  ASSUME NEW expr, NEW s \in ParseState
  PROVE  Follows(expr, s, s)
BY StateFields DEF Follows, Moves, Keeps, Sound

(* While nothing has failed, one step after the other.                     *)
LEMMA FollowsOn ==
  ASSUME NEW expr, NEW s \in ParseState, NEW r, NEW t,
         Follows(expr, s, r), s.ok => r.ok, Follows(expr, r, t)
  PROVE  Follows(expr, s, t)
<1>1. r \in ParseState /\ t \in ParseState
  BY DEF Follows, Moves
<1>2. Moves(s, t)
  BY <1>1, StateFields DEF Follows, Moves
<1>3. ASSUME Sound(s), Nests(s, expr)
      PROVE  Keeps(AssignedIn(s.toks), s, t)
  <2>1. Keeps(AssignedIn(s.toks), s, r) /\ Moves(s, r)
    BY <1>3 DEF Follows
  <2>2. Nests(r, expr) /\ AssignedIn(r.toks) = AssignedIn(s.toks)
    BY <1>3, <2>1 DEF Nests, Moves
  <2>3. Sound(r)
    <3>1. s.outer = 0 \/ s.outer + s.depth + Unread(s) <= Budget
      BY <1>3 DEF Sound
    <3>2. r.outer = 0 \/ r.outer + r.depth + Unread(r) <= Budget
      <4>1. /\ r.outer = s.outer /\ r.depth = s.depth /\ Len(r.toks) = Len(s.toks)
            /\ r.pos >= s.pos /\ r.pos \in Nat /\ s.pos \in Nat /\ Len(s.toks) \in Nat
            /\ s.outer \in Nat /\ s.depth \in Nat
        BY <2>1, <1>1, StateFields DEF Moves
      <4>2. \A o, d, n, p, q, b \in Nat :
              o + d + (n + 1 - p) <= b /\ q >= p => o + d + (n + 1 - q) <= b
        OBVIOUS
      <4>3. s.outer # 0 => s.outer + s.depth + (Len(s.toks) + 1 - r.pos) <= Budget
        BY <3>1, <4>1, <4>2, BudgetIsPositive DEF Unread
      <4>. QED BY ONLY <4>1, <4>3 DEF Unread
    <3>. QED BY <3>2, <1>3, <2>1, s.ok => r.ok DEF Sound, Keeps, Moves
  <2>4. Keeps(AssignedIn(s.toks), r, t)
    BY <2>2, <2>3 DEF Follows
  <2>. QED BY <2>1, <2>3, <2>4 DEF Keeps, Sound
<1>. QED BY <1>2, <1>3 DEF Follows

(* The ways to return from what has been read.                             *)
LEMMA Returns ==
  ASSUME NEW expr, NEW s \in ParseState, NEW r, Follows(expr, s, r)
  PROVE  /\ \A x \in Fractions : Follows(expr, s, Value(r, x))
         /\ Follows(expr, s, Fail(r))
         /\ Follows(expr, s, FailDivZero(r))
         /\ Follows(expr, s, Trap(r))
<1>1. r \in ParseState
  BY DEF Follows, Moves
<1>2. ASSUME NEW x \in Fractions
      PROVE  Follows(expr, s, Value(r, x))
  <2>1. Moves(s, Value(r, x))
    BY <1>1 DEF Follows, Moves, Value, ParseState
  <2>. QED BY <2>1, <1>1 DEF Follows, Keeps, Value, ParseState
<1>. USE <1>1 DEF Follows, Moves, Keeps, Fail, FailDivZero, Trap, ParseState
<1>3. Zero \in Fractions
  BY ArithmeticIsClosed
<1>4. Follows(expr, s, Fail(r))
  BY <1>3
<1>5. Follows(expr, s, FailDivZero(r))
  BY <1>3
<1>6. Follows(expr, s, Trap(r))
  BY <1>3
<1>. QED BY ONLY <1>2, <1>4, <1>5, <1>6

(* The next token.                                                         *)
LEMMA PeekIsToken ==
  ASSUME NEW s \in ParseState
  PROVE  /\ Peek(s) \in Tokens
         /\ Peek(s).type \in Types /\ Peek(s).num \in Fractions
         /\ Sees(s, "IDENTIFIER") => Peek(s).name \in Names
         /\ Sees(s, "EOF") \/ (s.pos \in 1 .. Len(s.toks) /\ Peek(s) = s.toks[s.pos])
<1>1. Token("EOF") \in Tokens
  BY ArithmeticIsClosed DEF Token, Tokens, Types
<1>2. Peek(s) \in Tokens
  BY <1>1, StateFields DEF Peek
<1>3. \A tok \in Tokens : /\ tok.type \in Types /\ tok.num \in Fractions
                          /\ tok.type = "IDENTIFIER" => tok.name \in Names
  <2>1. "IDENTIFIER" \in Types /\ Zero \in Fractions
    BY ArithmeticIsClosed DEF Types
  <2>. DEFINE Others == Types \ {"IDENTIFIER"}
  <2>2. Others \subseteq Types /\ "IDENTIFIER" \notin Others
    OBVIOUS
  <2>. DEFINE Blank == {""}
  <2>. HIDE DEF Others, Blank
  <2>3. \A tok \in [type : Others, name : Blank, num : Fractions] :
          tok.type \in Others /\ tok.num \in Fractions
    OBVIOUS
  <2>4. \A tok \in [type : {"IDENTIFIER"}, name : Names, num : {Zero}] :
          tok.type = "IDENTIFIER" /\ tok.num = Zero /\ tok.name \in Names
    OBVIOUS
  <2>5. \A tok \in Tokens : \/ tok \in [type : Others, name : Blank, num : Fractions]
                            \/ tok \in [type : {"IDENTIFIER"}, name : Names, num : {Zero}]
    BY Zenon DEF Tokens, Others, Blank
  <2>. QED BY <2>1, <2>2, <2>3, <2>4, <2>5
<1>4. Sees(s, "EOF") \/ (s.pos \in 1 .. Len(s.toks) /\ Peek(s) = s.toks[s.pos])
  <2>1. CASE s.pos > Len(s.toks)
    BY <2>1 DEF Sees, Peek, Token
  <2>2. CASE ~(s.pos > Len(s.toks))
    <3>1. s.pos \in 1 .. Len(s.toks)
      BY <2>2, StateFields
    <3>. QED BY <3>1, <2>2 DEF Peek
  <2>. QED BY <2>1, <2>2
<1>. QED BY <1>2, <1>3, <1>4 DEF Sees

(* Reading a token.                                                        *)
LEMMA Consumes ==
  ASSUME NEW expr, NEW s \in ParseState, NEW r, Follows(expr, s, r)
  PROVE  /\ Follows(expr, s, Consume(r))
         /\ Consume(r).ok = r.ok /\ Consume(r).val = r.val
         /\ ~Sees(r, "EOF") => Consume(r).pos = r.pos + 1
         /\ \A type : /\ Follows(expr, s, Expect(r, type))
                      /\ Expect(r, type).ok => Sees(r, type) /\ r.ok
<1>1. r \in ParseState
  BY DEF Follows, Moves
<1>4. /\ Follows(expr, s, Consume(r))
      /\ Consume(r).ok = r.ok /\ Consume(r).val = r.val
      /\ ~Sees(r, "EOF") => Consume(r).pos = r.pos + 1
  <2>1. CASE Sees(r, "EOF")
    <3>1. Consume(r) = r
      BY <2>1 DEF Consume
    <3>. QED BY <2>1, <3>1
  <2>2. CASE ~Sees(r, "EOF")
    <3>. DEFINE c == [r EXCEPT !.pos = @ + 1]
    <3>1. r.pos \in 1 .. Len(r.toks) /\ Consume(r) = c
      BY <1>1, <2>2, PeekIsToken DEF Consume
    <3>2. c \in ParseState /\ c.toks = r.toks /\ c.pos = r.pos + 1
      <4>1. r.pos + 1 \in Nat \ {0}
        BY <1>1, StateFields
      <4>. QED BY <1>1, <4>1 DEF ParseState
    <3>3. /\ c.ok = r.ok /\ c.val = r.val
          /\ c.table = r.table /\ c.divZero = r.divZero /\ c.trap = r.trap /\ c.depth = r.depth
          /\ c.outer = r.outer /\ c.deepest = r.deepest
      BY <1>1 DEF ParseState
    <3>4. Follows(expr, s, c)
      <4>. HIDE DEF c
      <4>1. Moves(s, c)
        BY <3>2, <3>3, <1>1, StateFields DEF Follows, Moves
      <4>2. c.pos <= Len(c.toks) + 1
        BY <3>1, <3>2, <1>1, StateFields
      <4>. QED BY <3>2, <3>3, <4>1, <4>2 DEF Follows, Keeps
    <3>. HIDE DEF c
    <3>. QED BY <3>1, <3>2, <3>3, <3>4
  <2>. QED BY <2>1, <2>2
<1>5. ASSUME NEW type
      PROVE  /\ Follows(expr, s, Expect(r, type))
             /\ Expect(r, type).ok => Sees(r, type) /\ r.ok
  <2>1. Consume(r) \in ParseState
    BY <1>4 DEF Follows, Moves
  <2>2. Fail(Consume(r)).ok = FALSE /\ Follows(expr, s, Fail(Consume(r)))
    <3>. DEFINE c == Consume(r)
    <3>1. c \in ParseState /\ Follows(expr, s, c)
      BY <2>1, <1>4
    <3>. HIDE DEF c
    <3>2. Follows(expr, s, Fail(c))
      BY <3>1, Returns
    <3>3. Fail(c).ok = FALSE
      BY <3>1 DEF Fail, ParseState
    <3>. QED BY <3>2, <3>3 DEF c
  <2>. QED BY <1>4, <2>2 DEF Expect
<1>. QED BY <1>4, <1>5

(* Whatever may be parsed inside, the empty text may.                      *)
LEMMA NothingNestsIn ==
  ASSUME NEW s \in ParseState, Sound(s)
  PROVE  Nests(s, <<>>)
<1>1. AssignedIn(<<>>) = {}
  BY DEF AssignedIn
<1>2. s.outer + s.depth + 0 <= Budget
  <2>1. /\ s.outer \in Nat /\ s.depth \in Nat /\ Len(s.toks) \in Nat /\ s.pos \in Nat
        /\ s.pos <= Len(s.toks) + 1 /\ s.depth <= MaxDepth
        /\ s.outer = 0 \/ s.outer + s.depth + Unread(s) <= Budget
    BY StateFields DEF Sound
  <2>2. s.outer # 0 => s.outer + s.depth + (Len(s.toks) + 1 - s.pos) <= Budget
    BY ONLY <2>1 DEF Unread
  <2>3. \A o, d, n, q, b \in Nat : o + d + (n + 1 - q) <= b /\ q <= n + 1 => o + d + 0 <= b
    OBVIOUS
  <2>4. CASE s.outer = 0
    BY ONLY <2>1, <2>4, BudgetIsPositive
  <2>5. CASE s.outer # 0
    BY ONLY <2>1, <2>2, <2>3, <2>5, BudgetIsPositive
  <2>. QED BY <2>4, <2>5
<1>. QED BY <1>1, <1>2 DEF Nests

(* So what parses no text inside keeps the contract with any.              *)
LEMMA NothingNests ==
  ASSUME NEW s \in ParseState, NEW r, Follows(<<>>, s, r), NEW expr
  PROVE  Follows(expr, s, r)
BY NothingNestsIn DEF Follows

(* The contract of parse_precedence.                                       *)
Reads(prec, s, r) ==
  /\ Follows(<<>>, s, r)
  /\ r.ok => r.pos > s.pos
  /\ prec = NONE /\ r.ok => Peek(r).type \notin InfixTypes

Parsers ==
  {P \in [0 .. 4 -> [ParseState -> ParseState]] :
     \A prec \in 0 .. 4 : \A s \in ParseState : Reads(prec, s, P[prec][s])}

(* A parse of what comes next.                                             *)
LEMMA ParsesOn ==
  ASSUME NEW P \in Parsers, NEW expr, NEW s \in ParseState, NEW r, Follows(expr, s, r),
         s.ok => r.ok, NEW prec \in 0 .. 4
  PROVE  /\ Follows(expr, s, P[prec][r])
         /\ P[prec][r].ok => P[prec][r].pos > r.pos
         /\ P[prec][r] \in ParseState
<1>1. r \in ParseState
  BY DEF Follows, Moves
<1>2. Reads(prec, r, P[prec][r]) /\ P[prec][r] \in ParseState
  BY <1>1 DEF Parsers
<1>3. Follows(expr, r, P[prec][r])
  BY <1>1, <1>2, NothingNests DEF Reads
<1>. QED BY <1>2, <1>3, FollowsOn DEF Reads

-------------------------------------------------------------------------------
(* The operators. *)

LEMMA PowerIsClosed == \A x, y \in Fractions : Power(x, y) \in Fractions
<1>. SUFFICES ASSUME NEW x \in Fractions, NEW y \in Fractions
              PROVE  Power(x, y) \in Fractions
  OBVIOUS
<1>1. y.n \in Int
  <2>1. y.n \in -Small .. Small
    BY ONLY y \in Fractions DEF Fractions
  <2>2. Small \in Nat
    BY DEF Small
  <2>. QED BY ONLY <2>1, <2>2
<1>2. y.n >= 0 => RaisedTo[y.n][x] \in Fractions
  BY <1>1, RaisedIsClosed
<1>. QED BY <1>2, ArithmeticIsClosed DEF Power

OperationTypes == {"PLUS", "MINUS", "STAR", "SLASH", "PERCENT", "POWER", "EXP_OP"}

(* The binary operators (parse_binary).                                    *)
LEMMA OperationFollows ==
  ASSUME NEW s \in ParseState, NEW r, Follows(<<>>, s, r), NEW type \in OperationTypes,
         NEW x \in Fractions
  PROVE  Follows(<<>>, s, Operation(type, x, r))
<1>1. r \in ParseState /\ r.val \in Fractions
  BY StateFields DEF Follows, Moves
<1>2. /\ \A v \in Fractions : Follows(<<>>, s, Value(r, v))
      /\ Follows(<<>>, s, FailDivZero(r)) /\ Follows(<<>>, s, Trap(r))
  BY Returns
<1>3. CASE type = "PLUS"
  BY <1>2, <1>3, ArithmeticIsClosed DEF Operation
<1>4. CASE type = "MINUS"
  BY <1>2, <1>4, ArithmeticIsClosed DEF Operation
<1>5. CASE type = "STAR"
  BY <1>2, <1>5, ArithmeticIsClosed DEF Operation
<1>6. CASE type = "SLASH"
  BY <1>2, <1>6, ArithmeticIsClosed DEF Operation
<1>7. CASE type = "POWER"
  BY <1>1, <1>2, <1>7, PowerIsClosed DEF Operation
<1>8. CASE type = "EXP_OP"
  BY <1>2, <1>8, ArithmeticIsClosed DEF Operation
<1>9. CASE type = "PERCENT"
  BY <1>2, <1>9, ArithmeticIsClosed DEF Operation
<1>. QED BY <1>3, <1>4, <1>5, <1>6, <1>7, <1>8, <1>9 DEF OperationTypes

(* An operator reads on, and takes at least a token.                       *)
LEMMA InfixFollows ==
  ASSUME NEW P \in Parsers, NEW s \in ParseState, Peek(s).type \in InfixTypes
  PROVE  /\ Follows(<<>>, s, Infix(P, s))
         /\ Infix(P, s).ok => Infix(P, s).pos > s.pos
<1>. DEFINE c == Consume(s)
            type == Peek(s).type
<1>1. Follows(<<>>, s, s)
  BY FollowsItself
<1>2. ~Sees(s, "EOF")
  BY DEF Sees, InfixTypes
<1>3. /\ Follows(<<>>, s, c) /\ c.ok = s.ok /\ c.pos = s.pos + 1 /\ c \in ParseState
  <2>1. Follows(<<>>, s, c) /\ c.ok = s.ok /\ c.pos = s.pos + 1
    BY <1>1, <1>2, Consumes
  <2>. QED BY <2>1 DEF Follows, Moves
<1>4. s.val \in Fractions /\ s.pos \in Nat
  BY StateFields
<1>. HIDE DEF c
<1>5. CASE type \in {"LPAREN", "IDENTIFIER"}
  <2>. DEFINE r == P[UNARY][s]
  <2>1. Follows(<<>>, s, r) /\ r \in ParseState /\ (r.ok => r.pos > s.pos)
    BY <1>1, ParsesOn DEF UNARY
  <2>2. Infix(P, s) = IF r.ok THEN Value(r, Times(s.val, r.val)) ELSE Fail(r)
    BY <1>5 DEF Infix, ImplicitMul, Checked, Sees
  <2>. HIDE DEF r
  <2>3. Times(s.val, r.val) \in Fractions
    BY ArithmeticIsClosed
  <2>4. Fail(r).ok = FALSE /\ Value(r, Times(s.val, r.val)).pos = r.pos
    BY <2>1 DEF Fail, Value, ParseState
  <2>. QED BY <2>1, <2>2, <2>3, <2>4, Returns
<1>6. CASE type = "FACTORIAL"
  <2>1. Infix(P, s) = IF FactorialArgument(s.val) THEN Value(c, FactorialOf(s.val)) ELSE Fail(c)
    BY <1>6 DEF Infix, Factorial, Sees, c
  <2>2. FactorialArgument(s.val) => FactorialOf(s.val) \in Fractions
    BY FactorialIsClosed DEF FactorialArgument
  <2>3. Fail(c).ok = FALSE /\ \A v : Value(c, v).pos = c.pos
    BY <1>3 DEF Fail, Value, ParseState
  <2>. QED BY <1>3, <1>4, <2>1, <2>2, <2>3, Returns
<1>7. CASE type \in OperationTypes
  <2>. DEFINE prec == PrecedenceOf(type) + 1
              r == P[prec][c]
  <2>1. prec \in 0 .. 4
    BY DEF PrecedenceOf, NONE, TERM, FACTOR, UNARY
  <2>2. Infix(P, s) = IF r.ok THEN Operation(type, s.val, r) ELSE Fail(r)
    BY <1>7 DEF Infix, Binary, Checked, OperationTypes, Sees, c
  <2>. HIDE DEF prec
  <2>3. Follows(<<>>, s, r) /\ r \in ParseState /\ (r.ok => r.pos > c.pos)
    BY <1>3, <2>1, ParsesOn
  <2>. HIDE DEF r
  <2>4. Follows(<<>>, s, Operation(type, s.val, r)) /\ Follows(<<>>, r, Operation(type, s.val, r))
    <3>1. Follows(<<>>, r, r)
      BY <2>3, FollowsItself
    <3>. QED BY <1>4, <1>7, <2>3, <3>1, OperationFollows
  <2>5. r.ok => Operation(type, s.val, r).pos > s.pos
    BY <1>3, <1>4, <2>3, <2>4, StateFields DEF Follows, Moves
  <2>6. Fail(r).ok = FALSE
    BY <2>3 DEF Fail, ParseState
  <2>. QED BY <2>2, <2>3, <2>4, <2>5, <2>6, Returns
<1>. QED BY <1>5, <1>6, <1>7 DEF InfixTypes, OperationTypes

-------------------------------------------------------------------------------
(* The functions and the names. *)

LEMMA BuiltinIsClosed ==
  ASSUME NEW f \in Builtins, NEW x \in Fractions,
         f \in {"fact", "factorial"} => FactorialArgument(x)
  PROVE  BuiltinValue(f, x) \in Fractions
<1>1. f \in {"fact", "factorial"} => FactorialOf(x) \in Fractions
  BY FactorialIsClosed DEF FactorialArgument
<1>2. Neg(Floor(Neg(x))) \in Fractions /\ Neg(x) \in Fractions /\ Floor(x) \in Fractions
  BY ArithmeticIsClosed
<1>. QED BY <1>1, <1>2, ArithmeticIsClosed DEF BuiltinValue, Builtins, Logarithms

(* The functions of one argument (parse_identifier).                       *)
LEMMA BuiltinFollows ==
  ASSUME NEW P \in Parsers, NEW s \in ParseState, NEW f \in Builtins
  PROVE  Follows(<<>>, s, BuiltinCall(P, f, s))
<1>. DEFINE r == P[NONE][s]
            t == Consume(r)
<1>1. Follows(<<>>, s, s)
  BY FollowsItself
<1>2. Follows(<<>>, s, r) /\ r \in ParseState
  BY <1>1, ParsesOn DEF NONE
<1>. HIDE DEF r
<1>3. Follows(<<>>, s, t)
  BY <1>2, Consumes
<1>. HIDE DEF t
<1>4. /\ \A x \in Fractions : Follows(<<>>, s, Value(t, x))
      /\ Follows(<<>>, s, Fail(t)) /\ Follows(<<>>, s, FailDivZero(t))
  BY <1>3, Returns
<1>5. r.val \in Fractions
  BY <1>2, StateFields
<1>6. BuiltinCall(P, f, s) =
        IF ~Sees(r, "RPAREN") THEN Fail(t)
        ELSE IF f \in Logarithms /\ (r.val = Zero \/ Negative(r.val)) THEN FailDivZero(t)
        ELSE IF f = "sqrt" /\ Negative(r.val) THEN Fail(t)
        ELSE IF f \in {"fact", "factorial"} /\ ~FactorialArgument(r.val) THEN Fail(t)
        ELSE Value(t, BuiltinValue(f, r.val))
  BY DEF BuiltinCall, r, t
<1>7. (f \in {"fact", "factorial"} => FactorialArgument(r.val))
        => Follows(<<>>, s, Value(t, BuiltinValue(f, r.val)))
  BY <1>4, <1>5, BuiltinIsClosed
<1>. QED BY <1>4, <1>6, <1>7

(* The functions of plugins.                                               *)
LEMMA PluggedFollows ==
  ASSUME NEW P \in Parsers, NEW s \in ParseState, NEW f
  PROVE  Follows(<<>>, s, PluggedCall(P, f, s))
<1>. DEFINE r == P[NONE][s]
<1>1. Follows(<<>>, s, s)
  BY FollowsItself
<1>2. Follows(<<>>, s, r)
  BY <1>1, ParsesOn DEF NONE
<1>. HIDE DEF r
<1>3. Follows(<<>>, s, Consume(r))
  BY <1>2, Consumes
<1>4. Times(r.val, Plugged[f]) \in Fractions
  BY ArithmeticIsClosed
<1>. QED BY <1>3, <1>4, Returns DEF PluggedCall, r

(* rand and randn.                                                         *)
LEMMA RandomFollows ==
  ASSUME NEW s \in ParseState
  PROVE  Follows(<<>>, s, RandomCall(s))
<1>. DEFINE r == Expect(s, "RPAREN")
<1>1. Follows(<<>>, s, s)
  BY FollowsItself
<1>2. Follows(<<>>, s, r)
  BY <1>1, Consumes
<1>. HIDE DEF r
<1>3. Follows(<<>>, s, Value(r, Inexact))
  BY <1>2, Returns, ArithmeticIsClosed
<1>. QED BY <1>2, <1>3 DEF RandomCall, Then, r

(* A variable, a constant or Ans.                                          *)
LEMMA ReferenceFollows ==
  ASSUME answer \in Fractions, NEW s \in ParseState, NEW x
  PROVE  Follows(<<>>, s, Reference(x, s))
<1>1. Follows(<<>>, s, s)
  BY FollowsItself
<1>2. /\ \A v \in Fractions : Follows(<<>>, s, Value(s, v))
      /\ Follows(<<>>, s, Fail(s))
  BY <1>1, Returns
<1>3. Defined(s.table, x) => ValueOf(s.table, x) \in Fractions
  BY StateFields, SlotIsFound
<1>. QED BY <1>2, <1>3, ArithmeticIsClosed DEF Reference

(* A new value for a name the text assigns.                                *)
LEMMA TableFollows ==
  ASSUME NEW expr, NEW s \in ParseState, NEW r, Follows(expr, s, r),
         NEW x \in Names \cap AssignedIn(s.toks), NEW v \in Fractions
  PROVE  Follows(expr, s, [r EXCEPT !.table = SetVariable(@, x, v)])
<1>. DEFINE u == SetVariable(r.table, x, v)
            q == [r EXCEPT !.table = u]
<1>1. r \in ParseState /\ r.table \in Seq(Symbol)
  BY StateFields DEF Follows, Moves
<1>2. /\ u \in Seq(Symbol)
      /\ TableOK(r.table) =>
           /\ TableOK(u)
           /\ \A y : y # x => Meaning(u, y) = Meaning(r.table, y)
           /\ Meaning(u, x) = {v} \/ Meaning(r.table, x) = {}
  BY <1>1, SetVariableWorks
<1>. HIDE DEF u
<1>3. /\ q \in ParseState
      /\ q.toks = r.toks /\ q.pos = r.pos /\ q.ok = r.ok /\ q.table = u
      /\ q.divZero = r.divZero /\ q.trap = r.trap /\ q.depth = r.depth
      /\ q.outer = r.outer /\ q.deepest = r.deepest
  BY <1>1, <1>2 DEF ParseState
<1>. HIDE DEF q
<1>4. TableOK(r.table) => \A y : Defined(r.table, y) => Defined(u, y)
  <2>. SUFFICES ASSUME TableOK(r.table), NEW y, Meaning(r.table, y) # {}
                PROVE  Meaning(u, y) # {}
    BY <1>2, MeaningIsUnique
  <2>. QED BY <1>2
<1>5. Moves(s, q)
  BY <1>3 DEF Follows, Moves
<1>6. ASSUME Keeps(AssignedIn(s.toks), s, r)
      PROVE  Keeps(AssignedIn(s.toks), s, q)
  BY <1>2, <1>3, <1>4, <1>6 DEF Keeps
<1>. QED BY <1>5, <1>6 DEF Follows, q, u

-------------------------------------------------------------------------------
(* Parses inside a parse. *)

(* One borrowed name, given back after a parse that lost no name.          *)
LEMMA BorrowedOne ==
  ASSUME NEW old, TableOK(old), NEW x \in Names, NEW v \in Fractions, NEW table, TableOK(table),
         \A y : Defined(SetVariable(old, x, v), y) => Defined(table, y)
  PROVE  LET u == Restored(old, table, x) IN
         /\ TableOK(u)
         /\ \A y : Defined(old, y) => Defined(u, y)
         /\ \A y : Meaning(table, y) = Meaning(SetVariable(old, x, v), y)
                     => Meaning(u, y) = Meaning(old, y)
<1>. DEFINE start == SetVariable(old, x, v)
            u == Restored(old, table, x)
<1>1. old \in Seq(Symbol) /\ table \in Seq(Symbol)
  BY DEF TableOK
<1>2. /\ TableOK(start)
      /\ \A y : y # x => Meaning(start, y) = Meaning(old, y)
      /\ Meaning(start, x) = {v} \/ Meaning(old, x) = {}
  BY <1>1, SetVariableWorks
<1>. HIDE DEF start
<1>3. \A y : /\ Defined(old, y) <=> Meaning(old, y) # {}
             /\ Defined(start, y) <=> Meaning(start, y) # {}
             /\ Defined(table, y) <=> Meaning(table, y) # {}
  BY <1>2, MeaningIsUnique
<1>4. \A y : Defined(old, y) => Defined(table, y)
  BY <1>2, <1>3 DEF start
<1>5. /\ TableOK(u)
      /\ \A y : y # x => Meaning(u, y) = Meaning(table, y)
      /\ Meaning(u, x) = Meaning(old, x)
  BY <1>1, <1>4, RestoredWorks
<1>. HIDE DEF u
<1>6. \A y : Defined(u, y) <=> Meaning(u, y) # {}
  BY <1>5, MeaningIsUnique
<1>7. \A y : Defined(old, y) => Defined(u, y)
  BY <1>3, <1>4, <1>5, <1>6
<1>8. ASSUME NEW y, Meaning(table, y) = Meaning(start, y)
      PROVE  Meaning(u, y) = Meaning(old, y)
  BY <1>2, <1>5, <1>8
<1>. QED BY <1>5, <1>7, <1>8 DEF u, start

(* Two borrowed names, perhaps the same.                                   *)
LEMMA BorrowedTwo ==
  ASSUME NEW old, TableOK(old), NEW x \in Names, NEW v \in Fractions, NEW z \in Names,
         NEW w \in Fractions, NEW table, TableOK(table),
         \A y : Defined(SetVariable(SetVariable(old, x, v), z, w), y) => Defined(table, y)
  PROVE  LET u == Restored(old, Restored(old, table, x), z) IN
         /\ TableOK(u)
         /\ \A y : Defined(old, y) => Defined(u, y)
         /\ \A y : Meaning(table, y) = Meaning(SetVariable(SetVariable(old, x, v), z, w), y)
                     => Meaning(u, y) = Meaning(old, y)
<1>. DEFINE one == SetVariable(old, x, v)
            two == SetVariable(one, z, w)
            back == Restored(old, table, x)
            u == Restored(old, back, z)
<1>1. old \in Seq(Symbol) /\ table \in Seq(Symbol)
  BY DEF TableOK
<1>2. /\ TableOK(one)
      /\ \A y : y # x => Meaning(one, y) = Meaning(old, y)
      /\ Meaning(one, x) = {v} \/ Meaning(old, x) = {}
  <2>1. Sets(old, x, v, one)
    BY SetVariableSets
  <2>. QED BY <2>1 DEF Sets
<1>3. one \in Seq(Symbol)
  BY <1>2 DEF TableOK
<1>. HIDE DEF one
<1>4. /\ TableOK(two)
      /\ \A y : y # z => Meaning(two, y) = Meaning(one, y)
      /\ Meaning(two, z) = {w} \/ Meaning(one, z) = {}
  <2>1. Sets(one, z, w, two)
    BY <1>2, SetVariableSets
  <2>. QED BY <2>1 DEF Sets
<1>. HIDE DEF two
<1>5. \A y : /\ Defined(old, y) <=> Meaning(old, y) # {}
             /\ Defined(two, y) <=> Meaning(two, y) # {}
             /\ Defined(table, y) <=> Meaning(table, y) # {}
  BY <1>4, MeaningIsUnique
<1>6. \A y : Defined(old, y) => Defined(table, y)
  <2>. SUFFICES ASSUME NEW y, Meaning(old, y) # {} PROVE Meaning(two, y) # {}
    BY <1>5 DEF one, two
  <2>1. Meaning(one, y) # {}
    BY <1>2
  <2>. QED BY <2>1, <1>4
<1>7. /\ TableOK(back)
      /\ \A y : y # x => Meaning(back, y) = Meaning(table, y)
      /\ Meaning(back, x) = Meaning(old, x)
  BY <1>1, <1>6, RestoredWorks
<1>8. back \in Seq(Symbol)
  BY <1>7 DEF TableOK
<1>. HIDE DEF back
<1>9. \A y : Defined(back, y) <=> Meaning(back, y) # {}
  BY <1>7, MeaningIsUnique
<1>10. \A y : Defined(old, y) => Defined(back, y)
  BY <1>5, <1>6, <1>7, <1>9
<1>11. /\ TableOK(u)
       /\ \A y : y # z => Meaning(u, y) = Meaning(back, y)
       /\ Meaning(u, z) = Meaning(old, z)
  BY <1>1, <1>7, <1>8, <1>10, RestoredWorks
<1>. HIDE DEF u
<1>12. \A y : Defined(u, y) <=> Meaning(u, y) # {}
  BY <1>11, MeaningIsUnique
<1>13. \A y : Defined(old, y) => Defined(u, y)
  BY <1>5, <1>9, <1>10, <1>11, <1>12
<1>14. ASSUME NEW y, Meaning(table, y) = Meaning(two, y)
       PROVE  Meaning(u, y) = Meaning(old, y)
  BY <1>2, <1>4, <1>7, <1>11, <1>14
<1>. QED BY <1>11, <1>13, <1>14 DEF u, back, two, one

(* The state in which the parse of another text begins.                    *)
Begun(expr, s) ==
  [s EXCEPT !.toks = expr, !.pos = 1, !.ok = TRUE, !.depth = 0, !.outer = @ + s.depth]

Begins(expr, s, i) ==
  /\ i \in ParseState
  /\ i.toks = expr /\ i.pos = 1 /\ i.ok = TRUE /\ i.depth = 0 /\ i.outer = s.outer + s.depth
  /\ i.table = s.table /\ i.divZero = s.divZero /\ i.trap = s.trap /\ i.deepest = s.deepest

(* It is a state of a parse.                                               *)
LEMMA TextBegins ==
  ASSUME NEW expr \in Seq(Tokens), NEW s \in ParseState
  PROVE  Begins(expr, s, Begun(expr, s))
<1>. DEFINE i == [s EXCEPT !.toks = expr, !.pos = 1, !.ok = TRUE, !.depth = 0,
                           !.outer = @ + s.depth]
<1>2. s.outer + s.depth \in Nat
  BY StateFields
<1>3. i \in ParseState
  <2>. DEFINE o == s.outer + s.depth
  <2>1. o \in Nat
    BY <1>2
  <2>. HIDE DEF o
  <2>2. [s EXCEPT !.toks = expr, !.pos = 1, !.ok = TRUE, !.depth = 0, !.outer = o] \in ParseState
    <3>. DEFINE a == [s EXCEPT !.toks = expr, !.pos = 1]
    <3>1. a \in ParseState
      <4>. DEFINE p == 1
                  b == [s EXCEPT !.toks = expr]
      <4>1. p \in Nat \ {0}
        OBVIOUS
      <4>2. b \in ParseState
        BY DEF ParseState
      <4>. HIDE DEF p, b
      <4>3. [b EXCEPT !.pos = p] \in ParseState
        BY <4>1, <4>2 DEF ParseState
      <4>. QED BY <4>3 DEF p, b
    <3>. HIDE DEF a
    <3>2. [a EXCEPT !.ok = TRUE, !.depth = 0, !.outer = o] \in ParseState
      BY <2>1, <3>1 DEF ParseState
    <3>. QED BY <3>2 DEF a
  <2>. QED BY <2>2 DEF o
<1>4. /\ i.toks = expr /\ i.pos = 1 /\ i.ok = TRUE /\ i.depth = 0 /\ i.outer = s.outer + s.depth
      /\ i.table = s.table /\ i.divZero = s.divZero /\ i.trap = s.trap /\ i.deepest = s.deepest
  BY DEF ParseState
<1>5. i = Begun(expr, s)
  BY DEF Begun
<1>. HIDE DEF i
<1>. QED BY <1>3, <1>4, <1>5 DEF Begins

(* A text parsed inside another one, or by itself.                         *)
LEMMA ParseExpressionKeeps ==
  ASSUME NEW P \in Parsers, NEW expr \in Seq(Tokens), NEW s \in ParseState
  PROVE  LET q == ParseExpression(P, expr, s) IN
         /\ Moves(s, q)
         /\ Sound(s) /\ (s.outer + s.depth = 0 \/ s.outer + s.depth + Len(expr) <= Budget)
              => Keeps(AssignedIn(expr), s, q)
<1>. DEFINE i == Begun(expr, s)
            r == P[NONE][i]
            q == [r EXCEPT !.ok = @ /\ Sees(r, "EOF"), !.toks = s.toks, !.pos = s.pos,
                           !.depth = s.depth, !.outer = s.outer]
<1>1. ParseExpression(P, expr, s) = q
  BY DEF ParseExpression, Begun
<1>2. s.outer + s.depth \in Nat /\ s.outer \in Nat /\ s.depth \in Nat /\ s.pos \in Nat
  BY StateFields
<1>3. i \in ParseState
  BY TextBegins DEF Begins
<1>4. /\ i.toks = expr /\ i.pos = 1 /\ i.ok = TRUE /\ i.depth = 0 /\ i.outer = s.outer + s.depth
      /\ i.table = s.table /\ i.divZero = s.divZero /\ i.trap = s.trap /\ i.deepest = s.deepest
  BY TextBegins DEF Begins
<1>5. Follows(<<>>, i, i)
  BY <1>3, FollowsItself
<1>6. Follows(<<>>, i, r) /\ r \in ParseState
  BY <1>3, <1>5, ParsesOn DEF NONE
<1>. HIDE DEF r
<1>7. Sees(r, "EOF") \in BOOLEAN
  BY DEF Sees
<1>8. /\ q \in ParseState
      /\ q.toks = s.toks /\ q.pos = s.pos /\ q.depth = s.depth /\ q.outer = s.outer
  BY <1>6, <1>7 DEF ParseState
<1>9. /\ q.ok = (r.ok /\ Sees(r, "EOF")) /\ q.table = r.table /\ q.divZero = r.divZero
      /\ q.trap = r.trap /\ q.deepest = r.deepest
  BY <1>6 DEF ParseState
<1>. HIDE DEF q
<1>10. Moves(s, q)
  BY <1>2, <1>8 DEF Moves
<1>11. ASSUME Sound(s), s.outer + s.depth = 0 \/ s.outer + s.depth + Len(expr) <= Budget
       PROVE  Keeps(AssignedIn(expr), s, q)
  <2>1. i.outer = 0 \/ i.outer + i.depth + Unread(i) <= Budget
    <3>. DEFINE o == s.outer + s.depth
                n == Len(expr)
    <3>1. i.outer = o /\ i.depth = 0 /\ Unread(i) = n + 1 - 1 /\ n \in Nat /\ o \in Nat
      BY <1>2, <1>4 DEF Unread
    <3>2. o = 0 \/ o + n <= Budget
      BY <1>11
    <3>. HIDE DEF o, n
    <3>. QED BY ONLY <3>1, <3>2, BudgetIsPositive
  <2>2. i.pos <= Len(i.toks) + 1 /\ i.depth <= MaxDepth
    <3>1. Len(expr) \in Nat
      OBVIOUS
    <3>. QED BY <1>4, <3>1, BudgetIsPositive
  <2>3. Sound(i)
    BY <1>4, <1>11, <2>1, <2>2 DEF Sound
  <2>4. Nests(i, <<>>)
    BY <1>3, <2>3, NothingNestsIn
  <2>5. Keeps(AssignedIn(expr), i, r)
    BY <1>4, <1>6, <2>3, <2>4 DEF Follows
  <2>6. s.pos <= Len(s.toks) + 1
    BY <1>11 DEF Sound
  <2>. QED BY <1>4, <1>8, <1>9, <2>5, <2>6 DEF Keeps
<1>. QED BY <1>1, <1>10, <1>11

(* What a parse that begins with the table start and leaves table, then u,  *)
(* does to the table old, from which start comes.                          *)
Borrows(old, start, table, u) ==
  /\ TableOK(old) => TableOK(start) /\ \A y : Defined(old, y) => Defined(start, y)
  /\ u \in Seq(Symbol)
  /\ TableOK(old) /\ TableOK(table) /\ (\A y : Defined(start, y) => Defined(table, y)) =>
       /\ TableOK(u)
       /\ \A y : Defined(old, y) => Defined(u, y)
       /\ \A y : Meaning(table, y) = Meaning(start, y) => Meaning(u, y) = Meaning(old, y)

(* A parse that borrows names keeps the contract of the one around it.     *)
LEMMA BorrowingFollows ==
  ASSUME NEW P \in Parsers, NEW expr \in Seq(Tokens), NEW s \in ParseState,
         NEW start \in Seq(Symbol), NEW u,
         Borrows(s.table, start, ParseExpression(P, expr, [s EXCEPT !.table = start]).table, u)
  PROVE  LET q == ParseExpression(P, expr, [s EXCEPT !.table = start]) IN
         Follows(expr, s, IF q.trap THEN q ELSE [q EXCEPT !.table = u])
<1>. DEFINE s0 == [s EXCEPT !.table = start]
            q == ParseExpression(P, expr, s0)
            w == IF q.trap THEN q ELSE [q EXCEPT !.table = u]
<1>. USE DEF Borrows
<1>3. Sound(s) => TableOK(start)
  BY DEF Sound
<1>5. /\ s0 \in ParseState /\ s0.toks = s.toks /\ s0.pos = s.pos /\ s0.depth = s.depth
      /\ s0.outer = s.outer /\ s0.table = start
  BY DEF ParseState
<1>6. /\ s0.ok = s.ok /\ s0.divZero = s.divZero /\ s0.trap = s.trap
      /\ s0.deepest = s.deepest
  BY DEF ParseState
<1>. HIDE DEF s0
<1>7. /\ Moves(s0, q)
      /\ Sound(s0) /\ (s0.outer + s0.depth = 0 \/ s0.outer + s0.depth + Len(expr) <= Budget)
           => Keeps(AssignedIn(expr), s0, q)
  BY <1>5, ParseExpressionKeeps
<1>. HIDE DEF q
<1>8. /\ w \in ParseState
      /\ w.toks = q.toks /\ w.pos = q.pos /\ w.ok = q.ok
      /\ w.divZero = q.divZero /\ w.trap = q.trap /\ w.depth = q.depth
      /\ w.outer = q.outer /\ w.deepest = q.deepest
      /\ w.table = IF q.trap THEN q.table ELSE u
  <2>1. q \in ParseState /\ q.table \in Seq(Symbol)
    BY <1>7, StateFields DEF Moves
  <2>. QED BY <2>1 DEF ParseState
<1>. HIDE DEF w
<1>9. Moves(s, w)
  BY <1>5, <1>7, <1>8 DEF Moves
<1>10. ASSUME Sound(s), Nests(s, expr)
       PROVE  Keeps(AssignedIn(s.toks), s, w)
  <2>1. Keeps(AssignedIn(expr), s0, q)
    <3>1. Sound(s0)
      BY <1>3, <1>5, <1>6, <1>10 DEF Sound, Unread
    <3>. QED BY <1>5, <1>7, <1>10, <3>1 DEF Nests
  <2>2. AssignedIn(expr) \subseteq AssignedIn(s.toks)
    BY <1>10 DEF Nests
  <2>3. TableOK(s.table) /\ TableOK(q.table) /\ \A y : Defined(start, y) => Defined(q.table, y)
    BY <1>5, <1>10, <2>1 DEF Sound, Keeps
  <2>4. /\ TableOK(u)
        /\ \A y : Defined(s.table, y) => Defined(u, y)
        /\ \A y : Meaning(q.table, y) = Meaning(start, y) => Meaning(u, y) = Meaning(s.table, y)
    BY <2>3 DEF q, s0
  <2>5. \A y : Defined(s.table, y) => Defined(w.table, y)
    <3>1. \A y : Defined(s.table, y) => Defined(start, y)
      BY <2>3
    <3>. QED BY <1>8, <2>3, <2>4, <3>1
  <2>6. ~w.trap => \A y \in Names \ AssignedIn(s.toks) : Meaning(w.table, y) = Meaning(s.table, y)
    BY <1>5, <1>8, <2>1, <2>2, <2>4 DEF Keeps
  <2>7. TableOK(w.table)
    BY <1>8, <2>3, <2>4
  <2>. QED BY <1>6, <1>8, <2>1, <2>5, <2>6, <2>7 DEF Keeps
<1>. QED BY <1>9, <1>10 DEF Follows, w, q, s0

(* One borrowed name, then two.                                            *)
LEMMA EvaluatedFollows ==
  ASSUME NEW P \in Parsers, NEW expr \in Seq(Tokens), NEW s \in ParseState,
         NEW x \in Names, NEW v \in Fractions
  PROVE  Follows(expr, s, Evaluated(P, expr, x, v, s))
<1>. DEFINE old == s.table
            start == SetVariable(old, x, v)
            q == ParseExpression(P, expr, [s EXCEPT !.table = start])
            table == q.table
            u == Restored(old, table, x)
<1>1. old \in Seq(Symbol) /\ start \in Seq(Symbol)
  BY StateFields, SetVariableWorks
<1>2. table \in Seq(Symbol)
  <2>1. [s EXCEPT !.table = start] \in ParseState
    <3>. HIDE DEF start
    <3>. QED BY <1>1 DEF ParseState
  <2>2. q \in ParseState
    BY <2>1, ParseExpressionKeeps DEF Moves
  <2>. HIDE DEF q
  <2>. QED BY <2>2, StateFields
<1>3. Evaluated(P, expr, x, v, s) = IF q.trap THEN q ELSE [q EXCEPT !.table = u]
  BY DEF Evaluated
<1>. HIDE DEF q, table, old
<1>4. Borrows(old, start, table, u)
  <2>1. TableOK(old) => Sets(old, x, v, start)
    BY SetVariableSets
  <2>2. TableOK(old) => TableOK(start) /\ \A y : Defined(old, y) => Defined(start, y)
    <3>. HIDE DEF start
    <3>. SUFFICES ASSUME TableOK(old), NEW y, Meaning(old, y) # {} PROVE Meaning(start, y) # {}
      BY <2>1, MeaningIsUnique DEF Sets
    <3>. QED BY <2>1 DEF Sets
  <2>3. u \in Seq(Symbol)
    BY <1>1, <1>2, RestoredWorks
  <2>4. TableOK(old) /\ TableOK(table) /\ (\A y : Defined(start, y) => Defined(table, y)) =>
          /\ TableOK(u)
          /\ \A y : Defined(old, y) => Defined(u, y)
          /\ \A y : Meaning(table, y) = Meaning(start, y) => Meaning(u, y) = Meaning(old, y)
    BY BorrowedOne
  <2>. HIDE DEF u, start
  <2>. QED BY <2>2, <2>3, <2>4 DEF Borrows
<1>. HIDE DEF start, u
<1>. DEFINE asked == ParseExpression(P, expr, [s EXCEPT !.table = start])
<1>8. Borrows(s.table, start, asked.table, u)
  BY <1>4 DEF q, table, old
<1>9. Follows(expr, s, IF asked.trap THEN asked ELSE [asked EXCEPT !.table = u])
  BY <1>1, <1>8, BorrowingFollows
<1>. QED BY <1>3, <1>9 DEF q

(* The same with two names.                                                *)
LEMMA Evaluated2Follows ==
  ASSUME NEW P \in Parsers, NEW expr \in Seq(Tokens), NEW s \in ParseState,
         NEW x \in Names, NEW v \in Fractions, NEW z \in Names, NEW w \in Fractions
  PROVE  Follows(expr, s, Evaluated2(P, expr, x, v, z, w, s))
<1>. DEFINE old == s.table
            one == SetVariable(old, x, v)
            start == SetVariable(one, z, w)
            q == ParseExpression(P, expr, [s EXCEPT !.table = start])
            table == q.table
            back == Restored(old, table, x)
            u == Restored(old, back, z)
<1>1. old \in Seq(Symbol) /\ one \in Seq(Symbol)
  BY StateFields, SetVariableWorks
<1>2. start \in Seq(Symbol)
  <2>. HIDE DEF one
  <2>. QED BY <1>1, SetVariableWorks
<1>3. table \in Seq(Symbol)
  <2>1. [s EXCEPT !.table = start] \in ParseState
    <3>. HIDE DEF start
    <3>. QED BY <1>2 DEF ParseState
  <2>2. q \in ParseState
    BY <2>1, ParseExpressionKeeps DEF Moves
  <2>. HIDE DEF q
  <2>. QED BY <2>2, StateFields
<1>4. Evaluated2(P, expr, x, v, z, w, s) = IF q.trap THEN q ELSE [q EXCEPT !.table = u]
  BY DEF Evaluated2
<1>. HIDE DEF q, table, old
<1>5. Borrows(old, start, table, u)
  <2>1. TableOK(old) => Sets(old, x, v, one)
    BY SetVariableSets
  <2>2. TableOK(old) => Sets(one, z, w, start)
    <3>. HIDE DEF one
    <3>. QED BY <2>1, SetVariableSets DEF Sets
  <2>3. TableOK(old) => TableOK(start) /\ \A y : Defined(old, y) => Defined(start, y)
    <3>. HIDE DEF start, one
    <3>. SUFFICES ASSUME TableOK(old), NEW y, Meaning(old, y) # {} PROVE Meaning(start, y) # {}
      BY <2>2, MeaningIsUnique DEF Sets
    <3>. QED BY <2>1, <2>2 DEF Sets
  <2>4. u \in Seq(Symbol)
    <3>1. back \in Seq(Symbol)
      BY <1>1, <1>3, RestoredWorks
    <3>. HIDE DEF back
    <3>. QED BY <1>1, <3>1, RestoredWorks
  <2>5. TableOK(old) /\ TableOK(table) /\ (\A y : Defined(start, y) => Defined(table, y)) =>
          /\ TableOK(u)
          /\ \A y : Defined(old, y) => Defined(u, y)
          /\ \A y : Meaning(table, y) = Meaning(start, y) => Meaning(u, y) = Meaning(old, y)
    BY BorrowedTwo
  <2>. HIDE DEF u, start
  <2>. QED BY <2>3, <2>4, <2>5 DEF Borrows
<1>. HIDE DEF start, u
<1>. DEFINE asked == ParseExpression(P, expr, [s EXCEPT !.table = start])
<1>8. Borrows(s.table, start, asked.table, u)
  BY <1>5 DEF q, table, old
<1>9. Follows(expr, s, IF asked.trap THEN asked ELSE [asked EXCEPT !.table = u])
  BY <1>2, <1>8, BorrowingFollows
<1>. QED BY <1>4, <1>9 DEF q

-------------------------------------------------------------------------------
(* The loops of the root finders and of rk4. *)

LEMMA HalveFollows ==
  ASSUME NEW P \in Parsers, NEW expr \in Seq(Tokens), NEW x \in Names,
         NEW lo \in Fractions, NEW hi \in Fractions, NEW fLo \in Fractions, NEW from \in ParseState
  PROVE  Follows(expr, from, Halve(P, expr, x, lo, hi, fLo, from))
<1>. DEFINE Body(g, left, z) ==
              LET m == Half(z.a, z.b)
                  f == Evaluated(P, expr, x, m, z.s)
              IN  IF left = 0 THEN z.s
                  ELSE IF Less(Minus(z.b, z.a), Tolerance) THEN Value(z.s, m)
                  ELSE IF ~f.ok THEN Fail(f)
                  ELSE IF f.val = Zero THEN Value(f, m)
                  ELSE IF Negative(Times(z.fa, f.val))
                    THEN g[[z EXCEPT !.b = m, !.s = Value(f, m)]]
                  ELSE g[[z EXCEPT !.a = m, !.fa = f.val, !.s = Value(f, m)]]
            Rhs(f) == [left \in Nat |-> [z \in Bracket |-> Body(f[left - 1], left, z)]]
            Loop == CHOOSE f : f = Rhs(f)
            R == {g \in [Bracket -> ParseState] : \A z \in Bracket : Follows(expr, z.s, g[z])}
            S == [Nat -> R]
            next == [f \in S |-> Rhs(f)]
<1>1. ASSUME NEW g, NEW left \in Nat, left = 0 \/ g \in R, NEW z \in Bracket
      PROVE  Follows(expr, z.s, Body(g, left, z))
  <2>. DEFINE m == Half(z.a, z.b)
              f == Evaluated(P, expr, x, m, z.s)
  <2>1. z.s \in ParseState /\ m \in Fractions
    BY ArithmeticIsClosed DEF Bracket
  <2>. HIDE DEF m
  <2>2. Follows(expr, z.s, z.s) /\ Follows(expr, z.s, f)
    BY <2>1, FollowsItself, EvaluatedFollows
  <2>. HIDE DEF f
  <2>3. f \in ParseState /\ f.val \in Fractions
    BY <2>2, StateFields DEF Follows, Moves
  <2>. DEFINE v == Value(f, m)
  <2>4. /\ Follows(expr, z.s, v) /\ v \in ParseState /\ v.ok = f.ok
        /\ Follows(expr, z.s, Value(z.s, m)) /\ Follows(expr, z.s, Fail(f))
    <3>1. /\ Follows(expr, z.s, v)
          /\ Follows(expr, z.s, Value(z.s, m)) /\ Follows(expr, z.s, Fail(f))
      BY <2>1, <2>2, Returns
    <3>2. v \in ParseState
      BY <3>1 DEF Follows, Moves
    <3>. QED BY <3>1, <3>2, <2>3 DEF Value, ParseState
  <2>5. ASSUME NEW y \in Bracket, y.s = v, f.ok, left # 0
        PROVE  Follows(expr, z.s, g[y])
    <3>1. Follows(expr, v, g[y])
      BY <1>1, <2>5
    <3>. HIDE DEF v
    <3>. QED BY <2>1, <2>4, <2>5, <3>1, FollowsOn
  <2>6. /\ [z EXCEPT !.b = m, !.s = v] \in Bracket
        /\ [z EXCEPT !.b = m, !.s = v].s = v
        /\ [z EXCEPT !.a = m, !.fa = f.val, !.s = v] \in Bracket
        /\ [z EXCEPT !.a = m, !.fa = f.val, !.s = v].s = v
    <3>. HIDE DEF v
    <3>. QED BY <2>1, <2>3, <2>4 DEF Bracket
  <2>7. Body(g, left, z) =
          IF left = 0 THEN z.s
          ELSE IF Less(Minus(z.b, z.a), Tolerance) THEN Value(z.s, m)
          ELSE IF ~f.ok THEN Fail(f)
          ELSE IF f.val = Zero THEN v
          ELSE IF Negative(Times(z.fa, f.val)) THEN g[[z EXCEPT !.b = m, !.s = v]]
          ELSE g[[z EXCEPT !.a = m, !.fa = f.val, !.s = v]]
    BY DEF m, f
  <2>. HIDE DEF v, Body
  <2>. QED BY <2>2, <2>4, <2>5, <2>6, <2>7
<1>2. ASSUME NEW f, NEW left \in Nat, left = 0 \/ f[left - 1] \in R
      PROVE  Rhs(f)[left] \in R
  <2>1. \A z \in Bracket : Follows(expr, z.s, Body(f[left - 1], left, z))
    <3>. HIDE DEF Body, R
    <3>. QED BY <1>1, <1>2
  <2>2. \A z \in Bracket : Rhs(f)[left][z] = Body(f[left - 1], left, z)
    <3>. HIDE DEF Body
    <3>. QED OBVIOUS
  <2>3. Rhs(f)[left] = [z \in Bracket |-> Body(f[left - 1], left, z)]
    <3>. HIDE DEF Body
    <3>. QED OBVIOUS
  <2>. HIDE DEF Body, Rhs
  <2>. QED BY <2>1, <2>2, <2>3 DEF Follows, Moves
<1>3. Loop = Rhs(Loop)
  <2>. HIDE DEF Body, R
  <2>1. ASSUME NEW f \in S
        PROVE  Rhs(f) \in S
    <3>1. \A left \in Nat : left = 0 \/ f[left - 1] \in R
      OBVIOUS
    <3>2. \A left \in Nat : Rhs(f)[left] \in R
      <4>. HIDE DEF Rhs
      <4>. QED BY <1>2, <3>1
    <3>. QED BY <3>2
  <2>2. R # {}
    <3>1. [z \in Bracket |-> z.s] \in R
      <4>1. \A z \in Bracket : z.s \in ParseState
        BY DEF Bracket
      <4>. QED BY <4>1, FollowsItself DEF R
    <3>. QED BY <3>1
  <2>3. ASSUME NEW f \in S, NEW g \in S, NEW n \in Nat, n = 0 \/ f[n - 1] = g[n - 1]
        PROVE  next[f][n] = next[g][n]
    <3>1. next[f][n] = Rhs(f)[n] /\ next[g][n] = Rhs(g)[n]
      OBVIOUS
    <3>2. Rhs(f)[n] = Rhs(g)[n]
      <4>1. CASE n = 0
        BY <4>1 DEF Body
      <4>2. CASE f[n - 1] = g[n - 1]
        BY <4>2
      <4>. QED BY <2>3, <4>1, <4>2
    <3>. QED BY <3>1, <3>2
  <2>4. \E f : IsFixed(f, next, Nat, R)
    <3>1. next \in [S -> S]
      <4>. HIDE DEF Rhs, S
      <4>. QED BY <2>1
    <3>. HIDE DEF next
    <3>2. StepsUp(next, R)
      BY <2>3, <3>1 DEF StepsUp
    <3>. QED BY <2>2, <3>2, PrimitiveRecursion
  <2>5. \E f : f = Rhs(f)
    <3>. HIDE DEF Rhs
    <3>. QED BY <2>4 DEF IsFixed
  <2>. HIDE DEF Rhs
  <2>. QED BY <2>5
<1>4. \A left \in Nat : Loop[left] \in R
  <2>. DEFINE T == {left \in Nat : Loop[left] \in R}
  <2>. HIDE DEF Loop, R
  <2>1. \A left \in Nat : left = 0 \/ Loop[left - 1] \in R => Loop[left] \in R
    <3>. HIDE DEF Rhs
    <3>. QED BY <1>2, <1>3
  <2>2. 0 \in T
    BY <2>1
  <2>3. \A n \in Nat : n \in T => n + 1 \in T
    <3>. TAKE n \in Nat
    <3>1. (n + 1) - 1 = n /\ n + 1 \in Nat
      OBVIOUS
    <3>. QED BY <2>1, <3>1
  <2>4. \A n \in Nat : n \in T
    <3>. HIDE DEF T
    <3>. QED BY <2>2, <2>3, SetInduction
  <2>. QED BY <2>4
<1>5. Halve(P, expr, x, lo, hi, fLo, from)
        = Loop[Iterations][[a |-> lo, b |-> hi, fa |-> fLo, s |-> Value(from, lo)]]
  BY DEF Halve
<1>. HIDE DEF Loop
<1>6. Follows(expr, from, Value(from, lo)) /\ Value(from, lo) \in ParseState
      /\ Value(from, lo).ok = from.ok
  <2>1. Follows(expr, from, Value(from, lo))
    BY FollowsItself, Returns
  <2>. QED BY <2>1 DEF Follows, Moves, Value, ParseState
<1>7. Iterations \in Nat
  BY ParserAssumption
<1>8. ASSUME NEW z \in Bracket, z.s = Value(from, lo)
      PROVE  Follows(expr, from, Loop[Iterations][z])
  <2>1. Follows(expr, z.s, Loop[Iterations][z])
    BY <1>4, <1>7
  <2>. QED BY <1>6, <1>8, <2>1, FollowsOn
<1>9. [a |-> lo, b |-> hi, fa |-> fLo, s |-> Value(from, lo)] \in Bracket
  BY <1>6 DEF Bracket
<1>. QED BY <1>5, <1>8, <1>9

(* solve_newton: its loop is a definition, and its estimate follows.       *)
LEMMA NewtonFollows ==
  ASSUME NEW P \in Parsers, NEW expr \in Seq(Tokens), NEW x \in Names,
         NEW guess \in Fractions, NEW start \in ParseState
  PROVE  Follows(expr, start, Newton(P, expr, x, guess, start))
<1>. DEFINE Close(y) == Less(y, Tolerance) /\ Less(Neg(Tolerance), y)
            Slope(y, yh) == Over(Minus(yh, y), NewtonStep)
            Body(g, left, s) ==
              IF left = 0 THEN s
              ELSE Checked(Evaluated(P, expr, x, s.val, s), LAMBDA y :
                IF Close(y.val) THEN Value(y, s.val)
                ELSE Checked(Evaluated(P, expr, x, Plus(s.val, NewtonStep), y), LAMBDA yh :
                  IF Slope(y.val, yh.val) = Zero THEN Value(yh, s.val)
                  ELSE g[Value(yh, Minus(s.val, Over(y.val, Slope(y.val, yh.val))))]))
            Rhs(f) == [left \in Nat |-> [z \in ParseState |-> Body(f[left - 1], left, z)]]
            Loop == CHOOSE f : f = Rhs(f)
            R == {g \in [ParseState -> ParseState] : \A z \in ParseState : Follows(expr, z, g[z])}
            S == [Nat -> R]
            next == [f \in S |-> Rhs(f)]
<1>1. ASSUME NEW g, NEW left \in Nat, left = 0 \/ g \in R, NEW z \in ParseState
      PROVE  Follows(expr, z, Body(g, left, z))
  <2>. DEFINE v == z.val
              ahead == Plus(v, NewtonStep)
              y == Evaluated(P, expr, x, v, z)
              yh == Evaluated(P, expr, x, ahead, y)
              e == Value(yh, Minus(v, Over(y.val, Slope(y.val, yh.val))))
  <2>1. v \in Fractions /\ ahead \in Fractions
    BY StateFields, ArithmeticIsClosed
  <2>. HIDE DEF ahead
  <2>2. Follows(expr, z, z) /\ Follows(expr, z, y) /\ y \in ParseState
    <3>1. Follows(expr, z, z) /\ Follows(expr, z, y)
      BY <2>1, FollowsItself, EvaluatedFollows
    <3>. QED BY <3>1 DEF Follows, Moves
  <2>. HIDE DEF y
  <2>3. Follows(expr, y, yh) /\ yh \in ParseState
    <3>1. Follows(expr, y, yh)
      BY <2>1, <2>2, EvaluatedFollows
    <3>. QED BY <3>1 DEF Follows, Moves
  <2>. HIDE DEF yh
  <2>4. y.ok => Follows(expr, z, yh)
    BY <2>2, <2>3, FollowsOn
  <2>5. /\ Follows(expr, z, Fail(y)) /\ Follows(expr, z, Value(y, v))
        /\ y.ok => /\ Follows(expr, z, Fail(yh)) /\ Follows(expr, z, Value(yh, v))
                   /\ Follows(expr, z, e)
    <3>1. Minus(v, Over(y.val, Slope(y.val, yh.val))) \in Fractions
      BY ArithmeticIsClosed
    <3>. HIDE DEF v, Slope
    <3>. QED BY <2>1, <2>2, <2>4, <3>1, Returns
  <2>6. y.ok => e \in ParseState
    BY <2>5 DEF Follows, Moves
  <2>7. e.ok = yh.ok
    BY <2>3 DEF Value, ParseState
  <2>. HIDE DEF e, Slope, Close
  <2>8. ASSUME y.ok, yh.ok, left # 0
        PROVE  Follows(expr, z, g[e])
    <3>1. Follows(expr, e, g[e])
      BY <1>1, <2>6, <2>8
    <3>. QED BY <2>5, <2>7, <2>8, <3>1, FollowsOn
  <2>9. Body(g, left, z) =
          IF left = 0 THEN z
          ELSE IF ~y.ok THEN Fail(y)
          ELSE IF Close(y.val) THEN Value(y, v)
          ELSE IF ~yh.ok THEN Fail(yh)
          ELSE IF Slope(y.val, yh.val) = Zero THEN Value(yh, v)
          ELSE g[e]
    BY DEF v, ahead, y, yh, e, Checked
  <2>. HIDE DEF Body
  <2>. QED BY <2>2, <2>5, <2>8, <2>9
<1>2. ASSUME NEW f, NEW left \in Nat, left = 0 \/ f[left - 1] \in R
      PROVE  Rhs(f)[left] \in R
  <2>1. \A z \in ParseState : Follows(expr, z, Body(f[left - 1], left, z))
    <3>. HIDE DEF Body, R
    <3>. QED BY <1>1, <1>2
  <2>2. \A z \in ParseState : Rhs(f)[left][z] = Body(f[left - 1], left, z)
    <3>. HIDE DEF Body
    <3>. QED OBVIOUS
  <2>3. Rhs(f)[left] = [z \in ParseState |-> Body(f[left - 1], left, z)]
    <3>. HIDE DEF Body
    <3>. QED OBVIOUS
  <2>. HIDE DEF Body, Rhs
  <2>. QED BY <2>1, <2>2, <2>3 DEF Follows, Moves
<1>3. Loop = Rhs(Loop)
  <2>. HIDE DEF Body, R
  <2>1. ASSUME NEW f \in S
        PROVE  Rhs(f) \in S
    <3>1. \A left \in Nat : left = 0 \/ f[left - 1] \in R
      OBVIOUS
    <3>2. \A left \in Nat : Rhs(f)[left] \in R
      <4>. HIDE DEF Rhs
      <4>. QED BY <1>2, <3>1
    <3>. QED BY <3>2
  <2>2. R # {}
    <3>1. [z \in ParseState |-> z] \in R
      <4>. QED BY FollowsItself DEF R
    <3>. QED BY <3>1
  <2>3. ASSUME NEW f \in S, NEW g \in S, NEW n \in Nat, n = 0 \/ f[n - 1] = g[n - 1]
        PROVE  next[f][n] = next[g][n]
    <3>1. next[f][n] = Rhs(f)[n] /\ next[g][n] = Rhs(g)[n]
      OBVIOUS
    <3>2. Rhs(f)[n] = Rhs(g)[n]
      <4>1. CASE n = 0
        BY <4>1 DEF Body
      <4>2. CASE f[n - 1] = g[n - 1]
        BY <4>2
      <4>. QED BY <2>3, <4>1, <4>2
    <3>. QED BY <3>1, <3>2
  <2>4. \E f : IsFixed(f, next, Nat, R)
    <3>1. next \in [S -> S]
      <4>. HIDE DEF Rhs, S
      <4>. QED BY <2>1
    <3>. HIDE DEF next
    <3>2. StepsUp(next, R)
      BY <2>3, <3>1 DEF StepsUp
    <3>. QED BY <2>2, <3>2, PrimitiveRecursion
  <2>5. \E f : f = Rhs(f)
    <3>. HIDE DEF Rhs
    <3>. QED BY <2>4 DEF IsFixed
  <2>. HIDE DEF Rhs
  <2>. QED BY <2>5
<1>4. \A left \in Nat : Loop[left] \in R
  <2>. DEFINE T == {left \in Nat : Loop[left] \in R}
  <2>. HIDE DEF Loop, R
  <2>1. \A left \in Nat : left = 0 \/ Loop[left - 1] \in R => Loop[left] \in R
    <3>. HIDE DEF Rhs
    <3>. QED BY <1>2, <1>3
  <2>2. 0 \in T
    BY <2>1
  <2>3. \A n \in Nat : n \in T => n + 1 \in T
    <3>. TAKE n \in Nat
    <3>1. (n + 1) - 1 = n /\ n + 1 \in Nat
      OBVIOUS
    <3>. QED BY <2>1, <3>1
  <2>4. \A n \in Nat : n \in T
    <3>. HIDE DEF T
    <3>. QED BY <2>2, <2>3, SetInduction
  <2>. QED BY <2>4
<1>5. Newton(P, expr, x, guess, start) = Loop[Iterations][Value(start, guess)]
  BY DEF Newton, Checked
<1>. HIDE DEF Loop
<1>. DEFINE first == Value(start, guess)
<1>6. Follows(expr, start, first) /\ first \in ParseState /\ first.ok = start.ok
  <2>1. Follows(expr, start, first)
    BY FollowsItself, Returns
  <2>. QED BY <2>1 DEF Follows, Moves, Value, ParseState
<1>. HIDE DEF first
<1>7. Follows(expr, first, Loop[Iterations][first])
  BY <1>4, <1>6, ParserAssumption
<1>8. Follows(expr, start, Loop[Iterations][first])
  BY <1>6, <1>7, FollowsOn
<1>. QED BY <1>5, <1>8 DEF first

(* An evaluation while nothing has failed, and the failure of one.         *)
LEMMA SlopeFollows ==
  ASSUME NEW P \in Parsers, NEW expr \in Seq(Tokens), NEW start \in ParseState,
         NEW xn \in Names, NEW yn \in Names, NEW x \in Fractions, NEW y \in Fractions,
         NEW s, Follows(expr, start, s), start.ok => s.ok
  PROVE  LET k == Evaluated2(P, expr, xn, x, yn, y, s) IN
         /\ Follows(expr, start, k)
         /\ Follows(expr, start, Fail(k))
         /\ k \in ParseState
<1>. DEFINE k == Evaluated2(P, expr, xn, x, yn, y, s)
<1>1. s \in ParseState
  BY DEF Follows, Moves
<1>2. Follows(expr, s, k)
  BY <1>1, Evaluated2Follows
<1>. HIDE DEF k
<1>3. Follows(expr, start, k)
  BY <1>2, FollowsOn
<1>4. Follows(expr, start, Fail(k))
  BY <1>3, Returns
<1>. QED BY <1>3, <1>4 DEF k, Follows, Moves

(* rk4_solve: the steps are a definition, each of four slopes.             *)
LEMMA Rk4Follows ==
  ASSUME NEW P \in Parsers, NEW expr \in Seq(Tokens), NEW xn \in Names, NEW yn \in Names,
         NEW x0 \in Fractions, NEW y0 \in Fractions, NEW x1 \in Fractions, NEW steps \in Nat,
         NEW start \in ParseState
  PROVE  Follows(expr, start, Rk4(P, expr, xn, yn, x0, y0, x1, steps, start))
<1>. DEFINE h == Over(Minus(x1, x0), Num(steps))
            half == Fraction(1, 2)
            Slope(x, y, s) == Evaluated2(P, expr, xn, x, yn, y, s)
            Ahead(y, c, k) == Plus(y, Times(Times(c, h), k))
            Sum(k1, k2, k3, k4) == Plus(Plus(k1, k4), Times(Num(2), Plus(k2, k3)))
            Advance(x, y, s) ==
              Checked(Slope(x, y, s), LAMBDA k1 :
              Checked(Slope(Ahead(x, half, One), Ahead(y, half, k1.val), k1), LAMBDA k2 :
              Checked(Slope(Ahead(x, half, One), Ahead(y, half, k2.val), k2), LAMBDA k3 :
              Checked(Slope(Plus(x, h), Ahead(y, One, k3.val), k3), LAMBDA k4 :
                Value(k4, Ahead(y, Fraction(1, 6), Sum(k1.val, k2.val, k3.val, k4.val)))))))
            Body(g, left, s) ==
              IF left = 0 THEN s
              ELSE Checked(Advance(Plus(x0, Times(Num(steps - left), h)), s.val, s),
                           LAMBDA r : g[r])
            Rhs(f) == [left \in Nat |-> [z \in ParseState |-> Body(f[left - 1], left, z)]]
            Loop == CHOOSE f : f = Rhs(f)
            R == {g \in [ParseState -> ParseState] : \A z \in ParseState : Follows(expr, z, g[z])}
            S == [Nat -> R]
            next == [f \in S |-> Rhs(f)]
<1>0. ASSUME NEW x \in Fractions, NEW y \in Fractions, NEW s \in ParseState
      PROVE  Follows(expr, s, Advance(x, y, s))
  <2>. DEFINE mid == Ahead(x, half, One)
              k1 == Slope(x, y, s)
              k2 == Slope(mid, Ahead(y, half, k1.val), k1)
              k3 == Slope(mid, Ahead(y, half, k2.val), k2)
              k4 == Slope(Plus(x, h), Ahead(y, One, k3.val), k3)
              done == Value(k4, Ahead(y, Fraction(1, 6), Sum(k1.val, k2.val, k3.val, k4.val)))
  <2>1. \A a, b, c : Plus(a, b) \in Fractions /\ Ahead(a, b, c) \in Fractions
    BY ArithmeticIsClosed
  <2>2. Advance(x, y, s) =
          IF k1.ok
          THEN IF k2.ok
               THEN IF k3.ok THEN IF k4.ok THEN done ELSE Fail(k4) ELSE Fail(k3)
               ELSE Fail(k2)
          ELSE Fail(k1)
    <3>. HIDE DEF Slope, Ahead, Sum, half, h
    <3>. QED BY Zenon DEF Checked
  <2>. HIDE DEF Ahead, Advance
  <2>3. mid \in Fractions /\ Plus(x, h) \in Fractions
    BY <2>1
  <2>. HIDE DEF mid, h
  <2>4. Follows(expr, s, k1) /\ Follows(expr, s, Fail(k1))
    BY FollowsItself, SlopeFollows
  <2>. HIDE DEF k1
  <2>5. k1.ok => Follows(expr, s, k2) /\ Follows(expr, s, Fail(k2))
    <3>1. Ahead(y, half, k1.val) \in Fractions
      BY <2>1
    <3>. QED BY <2>3, <2>4, <3>1, SlopeFollows
  <2>. HIDE DEF k2
  <2>6. k1.ok /\ k2.ok => Follows(expr, s, k3) /\ Follows(expr, s, Fail(k3))
    <3>1. Ahead(y, half, k2.val) \in Fractions
      BY <2>1
    <3>. QED BY <2>3, <2>5, <3>1, SlopeFollows
  <2>. HIDE DEF k3
  <2>7. k1.ok /\ k2.ok /\ k3.ok => Follows(expr, s, k4) /\ Follows(expr, s, Fail(k4))
    <3>1. Ahead(y, One, k3.val) \in Fractions
      BY <2>1
    <3>. QED BY <2>3, <2>6, <3>1, SlopeFollows
  <2>. HIDE DEF k4
  <2>8. k1.ok /\ k2.ok /\ k3.ok => Follows(expr, s, done)
    BY <2>1, <2>7, Returns
  <2>. HIDE DEF done
  <2>. QED BY <2>2, <2>4, <2>5, <2>6, <2>7, <2>8
<1>1. ASSUME NEW g, NEW left \in Nat, left = 0 \/ g \in R, NEW z \in ParseState
      PROVE  Follows(expr, z, Body(g, left, z))
  <2>. DEFINE x == Plus(x0, Times(Num(steps - left), h))
              r == Advance(x, z.val, z)
  <2>1. x \in Fractions /\ z.val \in Fractions
    BY StateFields, ArithmeticIsClosed
  <2>. HIDE DEF Advance, h
  <2>2. Body(g, left, z) = IF left = 0 THEN z ELSE IF r.ok THEN g[r] ELSE Fail(r)
    BY DEF Checked
  <2>. HIDE DEF x, Body
  <2>3. Follows(expr, z, r) /\ r \in ParseState /\ Follows(expr, z, z)
    <3>1. Follows(expr, z, r)
      BY <1>0, <2>1
    <3>. QED BY <3>1, FollowsItself DEF Follows, Moves
  <2>. HIDE DEF r
  <2>4. Follows(expr, z, Fail(r))
    BY <2>3, Returns
  <2>5. left # 0 /\ r.ok => Follows(expr, z, g[r])
    <3>1. left # 0 => Follows(expr, r, g[r])
      BY <1>1, <2>3
    <3>. QED BY <2>3, <3>1, FollowsOn
  <2>. QED BY <2>2, <2>3, <2>4, <2>5
<1>2. ASSUME NEW f, NEW left \in Nat, left = 0 \/ f[left - 1] \in R
      PROVE  Rhs(f)[left] \in R
  <2>1. \A z \in ParseState : Follows(expr, z, Body(f[left - 1], left, z))
    <3>. HIDE DEF Body, R
    <3>. QED BY <1>1, <1>2
  <2>2. \A z \in ParseState : Rhs(f)[left][z] = Body(f[left - 1], left, z)
    <3>. HIDE DEF Body
    <3>. QED OBVIOUS
  <2>3. Rhs(f)[left] = [z \in ParseState |-> Body(f[left - 1], left, z)]
    <3>. HIDE DEF Body
    <3>. QED OBVIOUS
  <2>. HIDE DEF Body, Rhs
  <2>. QED BY <2>1, <2>2, <2>3 DEF Follows, Moves
<1>3. Loop = Rhs(Loop)
  <2>. HIDE DEF Body, R
  <2>1. ASSUME NEW f \in S
        PROVE  Rhs(f) \in S
    <3>1. \A left \in Nat : left = 0 \/ f[left - 1] \in R
      OBVIOUS
    <3>2. \A left \in Nat : Rhs(f)[left] \in R
      <4>. HIDE DEF Rhs
      <4>. QED BY <1>2, <3>1
    <3>. QED BY <3>2
  <2>2. R # {}
    <3>1. [z \in ParseState |-> z] \in R
      <4>. QED BY FollowsItself DEF R
    <3>. QED BY <3>1
  <2>3. ASSUME NEW f \in S, NEW g \in S, NEW n \in Nat, n = 0 \/ f[n - 1] = g[n - 1]
        PROVE  next[f][n] = next[g][n]
    <3>1. next[f][n] = Rhs(f)[n] /\ next[g][n] = Rhs(g)[n]
      OBVIOUS
    <3>2. Rhs(f)[n] = Rhs(g)[n]
      <4>1. CASE n = 0
        BY <4>1 DEF Body
      <4>2. CASE f[n - 1] = g[n - 1]
        BY <4>2
      <4>. QED BY <2>3, <4>1, <4>2
    <3>. QED BY <3>1, <3>2
  <2>4. \E f : IsFixed(f, next, Nat, R)
    <3>1. next \in [S -> S]
      <4>. HIDE DEF Rhs, S
      <4>. QED BY <2>1
    <3>. HIDE DEF next
    <3>2. StepsUp(next, R)
      BY <2>3, <3>1 DEF StepsUp
    <3>. QED BY <2>2, <3>2, PrimitiveRecursion
  <2>5. \E f : f = Rhs(f)
    <3>. HIDE DEF Rhs
    <3>. QED BY <2>4 DEF IsFixed
  <2>. HIDE DEF Rhs
  <2>. QED BY <2>5
<1>4. \A left \in Nat : Loop[left] \in R
  <2>. DEFINE T == {left \in Nat : Loop[left] \in R}
  <2>. HIDE DEF Loop, R
  <2>1. \A left \in Nat : left = 0 \/ Loop[left - 1] \in R => Loop[left] \in R
    <3>. HIDE DEF Rhs
    <3>. QED BY <1>2, <1>3
  <2>2. 0 \in T
    BY <2>1
  <2>3. \A n \in Nat : n \in T => n + 1 \in T
    <3>. TAKE n \in Nat
    <3>1. (n + 1) - 1 = n /\ n + 1 \in Nat
      OBVIOUS
    <3>. QED BY <2>1, <3>1
  <2>4. \A n \in Nat : n \in T
    <3>. HIDE DEF T
    <3>. QED BY <2>2, <2>3, SetInduction
  <2>. QED BY <2>4
<1>5. Rk4(P, expr, xn, yn, x0, y0, x1, steps, start) = Loop[steps][Value(start, y0)]
  BY DEF Rk4
<1>. HIDE DEF Loop
<1>. DEFINE first == Value(start, y0)
<1>6. Follows(expr, start, first) /\ first \in ParseState /\ first.ok = start.ok
  <2>1. Follows(expr, start, first)
    BY FollowsItself, Returns
  <2>. QED BY <2>1 DEF Follows, Moves, Value, ParseState
<1>. HIDE DEF first
<1>7. Follows(expr, first, Loop[steps][first])
  BY <1>4, <1>6
<1>8. Follows(expr, start, Loop[steps][first])
  BY <1>6, <1>7, FollowsOn
<1>. QED BY <1>5, <1>8 DEF first

-------------------------------------------------------------------------------
(* The statistical functions. *)

LEMMA LeastIsClosed ==
  ASSUME NEW xs \in Seq(Fractions), xs # <<>>
  PROVE  Best(xs, Less) \in Fractions
<1>. DEFINE Rhs(f) == [i \in Nat |-> IF i <= 1 THEN xs[1]
                                     ELSE IF Less(xs[i], f[i - 1]) THEN xs[i] ELSE f[i - 1]]
            B == CHOOSE f : f = Rhs(f)
            V == {xs[i] : i \in Nat} \cup Fractions
            S == [Nat -> V]
            next == [f \in S |-> Rhs(f)]
<1>1. B = Rhs(B)
  <2>1. \A f \in S : Rhs(f) \in S
    OBVIOUS
  <2>2. \A f, g \in S : \A n \in Nat : n = 0 \/ f[n - 1] = g[n - 1] => next[f][n] = next[g][n]
    OBVIOUS
  <2>3. next \in [S -> S] /\ V # {}
    <3>. HIDE DEF Rhs
    <3>. QED BY <2>1, ArithmeticIsClosed
  <2>. HIDE DEF next, V
  <2>4. StepsUp(next, V)
    BY <2>2, <2>3 DEF StepsUp
  <2>5. \E f : IsFixed(f, next, Nat, V)
    BY <2>3, <2>4, PrimitiveRecursion
  <2>6. \E f : f = Rhs(f)
    <3>. HIDE DEF Rhs
    <3>. QED BY <2>5 DEF IsFixed, next
  <2>. HIDE DEF Rhs
  <2>. QED BY <2>6
<1>. HIDE DEF B
<1>2. xs[1] \in Fractions /\ Len(xs) \in Nat
  OBVIOUS
<1>. DEFINE T == {n \in Nat : n <= Len(xs) => B[n] \in Fractions}
<1>3. 0 \in T
  BY <1>1, <1>2
<1>4. \A n \in Nat : n \in T => n + 1 \in T
  <2>. SUFFICES ASSUME NEW n \in Nat, n \in T, n + 1 <= Len(xs) PROVE B[n + 1] \in Fractions
    OBVIOUS
  <2>1. B[n] \in Fractions /\ xs[n + 1] \in Fractions /\ (n + 1) - 1 = n /\ n + 1 \in Nat
    OBVIOUS
  <2>2. B[n + 1] \in {xs[1], xs[n + 1], B[n]}
    BY <1>1, <2>1
  <2>. QED BY <1>2, <2>1, <2>2
<1>5. Len(xs) \in T
  <2>1. \A n \in Nat : n \in T
    <3>. HIDE DEF T
    <3>. QED BY <1>3, <1>4, SetInduction
  <2>. QED BY <1>2, <2>1
<1>6. Best(xs, Less) = B[Len(xs)]
  BY DEF Best, B
<1>. QED BY <1>2, <1>5, <1>6

(* The greatest argument is one of them.                                   *)
LEMMA GreatestIsClosed ==
  ASSUME NEW xs \in Seq(Fractions), xs # <<>>
  PROVE  Best(xs, Greater) \in Fractions
<1>. DEFINE Rhs(f) == [i \in Nat |-> IF i <= 1 THEN xs[1]
                                     ELSE IF Greater(xs[i], f[i - 1]) THEN xs[i] ELSE f[i - 1]]
            B == CHOOSE f : f = Rhs(f)
            V == {xs[i] : i \in Nat} \cup Fractions
            S == [Nat -> V]
            next == [f \in S |-> Rhs(f)]
<1>1. B = Rhs(B)
  <2>1. \A f \in S : Rhs(f) \in S
    OBVIOUS
  <2>2. \A f, g \in S : \A n \in Nat : n = 0 \/ f[n - 1] = g[n - 1] => next[f][n] = next[g][n]
    OBVIOUS
  <2>3. next \in [S -> S] /\ V # {}
    <3>. HIDE DEF Rhs
    <3>. QED BY <2>1, ArithmeticIsClosed
  <2>. HIDE DEF next, V
  <2>4. StepsUp(next, V)
    BY <2>2, <2>3 DEF StepsUp
  <2>5. \E f : IsFixed(f, next, Nat, V)
    BY <2>3, <2>4, PrimitiveRecursion
  <2>6. \E f : f = Rhs(f)
    <3>. HIDE DEF Rhs
    <3>. QED BY <2>5 DEF IsFixed, next
  <2>. HIDE DEF Rhs
  <2>. QED BY <2>6
<1>. HIDE DEF B
<1>2. xs[1] \in Fractions /\ Len(xs) \in Nat
  OBVIOUS
<1>. DEFINE T == {n \in Nat : n <= Len(xs) => B[n] \in Fractions}
<1>3. 0 \in T
  BY <1>1, <1>2
<1>4. \A n \in Nat : n \in T => n + 1 \in T
  <2>. SUFFICES ASSUME NEW n \in Nat, n \in T, n + 1 <= Len(xs) PROVE B[n + 1] \in Fractions
    OBVIOUS
  <2>1. B[n] \in Fractions /\ xs[n + 1] \in Fractions /\ (n + 1) - 1 = n /\ n + 1 \in Nat
    OBVIOUS
  <2>2. B[n + 1] \in {xs[1], xs[n + 1], B[n]}
    BY <1>1, <2>1
  <2>. QED BY <1>2, <2>1, <2>2
<1>5. Len(xs) \in T
  <2>1. \A n \in Nat : n \in T
    <3>. HIDE DEF T
    <3>. QED BY <1>3, <1>4, SetInduction
  <2>. QED BY <1>2, <2>1
<1>6. Best(xs, Greater) = B[Len(xs)]
  BY DEF Best, B
<1>. QED BY <1>2, <1>5, <1>6

(* The median is an argument or the mean of two.                           *)
LEMMA MedianIsClosed ==
  ASSUME NEW xs \in Seq(Fractions)
  PROVE  Median(xs) \in Fractions
<1>1. ASSUME NEW k
      PROVE  Ranked(xs, k) \in Fractions
  <2>. DEFINE there == {i \in DOMAIN xs :
                          /\ Cardinality({j \in DOMAIN xs : Less(xs[j], xs[i])}) < k
                          /\ Cardinality({j \in DOMAIN xs : AtMost(xs[j], xs[i])}) >= k}
  <2>1. Ranked(xs, k) = IF (\E i \in DOMAIN xs : ~Exact(xs[i])) \/ there = {} THEN Inexact
                        ELSE xs[CHOOSE i \in there : TRUE]
    BY DEF Ranked
  <2>2. there # {} => (CHOOSE i \in there : TRUE) \in DOMAIN xs
    <3>1. there \subseteq DOMAIN xs
      OBVIOUS
    <3>. HIDE DEF there
    <3>. QED BY <3>1
  <2>. HIDE DEF there
  <2>. QED BY <2>1, <2>2, ArithmeticIsClosed
<1>. QED BY <1>1, ArithmeticIsClosed DEF Median

(* A statistical function of the arguments read.                           *)
LEMMA StatisticFollows ==
  ASSUME NEW f \in Statistics, NEW xs \in Seq(Fractions), NEW s \in ParseState, NEW r,
         Follows(<<>>, s, r)
  PROVE  Follows(<<>>, s, Statistic(f, xs, r))
<1>1. /\ \A x \in Fractions : Follows(<<>>, s, Value(r, x))
      /\ Follows(<<>>, s, Fail(r))
  BY Returns
<1>2. Len(xs) \in Nat /\ Zero \in Fractions
  BY ArithmeticIsClosed
<1>3. Mean(xs) \in Fractions /\ Sample(xs) \in Fractions
  BY ArithmeticIsClosed DEF Mean, Sample
<1>4. \A x, y : Over(x, y) \in Fractions /\ Root(x) \in Fractions
  BY ArithmeticIsClosed
<1>5. \A u, v : Correlation(u, v) \in Fractions
  BY <1>4, ArithmeticIsClosed DEF Correlation
<1>6. CASE f = "cov"
  BY <1>1, <1>2, <1>4, <1>6 DEF Statistic
<1>7. CASE f = "corr"
  BY <1>1, <1>2, <1>5, <1>7 DEF Statistic
<1>8. CASE f = "var"
  BY <1>1, <1>2, <1>3, <1>8 DEF Statistic
<1>9. CASE f = "std"
  BY <1>1, <1>2, <1>4, <1>9 DEF Statistic
<1>10. CASE f = "mean"
  BY <1>1, <1>2, <1>3, <1>10 DEF Statistic
<1>11. CASE f = "median"
  <2>1. Median(xs) \in Fractions
    BY MedianIsClosed
  <2>. QED BY <1>1, <1>2, <1>11, <2>1 DEF Statistic
<1>12. CASE f = "min"
  <2>. DEFINE best == Best(xs, Less)
  <2>1. xs # <<>> => best \in Fractions
    BY LeastIsClosed
  <2>2. Statistic(f, xs, r) = IF xs = <<>> THEN Value(r, Zero) ELSE Value(r, best)
    BY <1>12 DEF Statistic
  <2>. HIDE DEF best
  <2>. QED BY <1>1, <1>2, <2>1, <2>2
<1>13. CASE f = "max"
  <2>. DEFINE best == Best(xs, Greater)
  <2>1. xs # <<>> => best \in Fractions
    BY GreatestIsClosed
  <2>2. Statistic(f, xs, r) = IF xs = <<>> THEN Value(r, Zero) ELSE Value(r, best)
    BY <1>13 DEF Statistic
  <2>. HIDE DEF best
  <2>. QED BY <1>1, <1>2, <2>1, <2>2
<1>. QED BY <1>6, <1>7, <1>8, <1>9, <1>10, <1>11, <1>12, <1>13 DEF Statistics

(* The loop over the arguments is a definition and keeps the contract.     *)
LEMMA StatisticCallFollows ==
  ASSUME NEW P \in Parsers, NEW fn \in Statistics, NEW start \in ParseState
  PROVE  Follows(<<>>, start, StatisticCall(P, fn, start))
<1>. DEFINE Args == [s : ParseState, xs : Seq(Fractions)]
            Body(g, left, z) ==
              IF Sees(z.s, "RPAREN") THEN Statistic(fn, z.xs, Consume(z.s))
              ELSE Checked(P[NONE][z.s], LAMBDA r :
                IF left = 0 THEN Fail(r)
                ELSE IF Sees(r, "COMMA") THEN g[[s |-> Consume(r), xs |-> Append(z.xs, r.val)]]
                ELSE Then(Expect(r, "RPAREN"), LAMBDA t : Statistic(fn, Append(z.xs, r.val), t)))
            Rhs(c) == [left \in Nat |-> [z \in Args |-> Body(c[left - 1], left, z)]]
            Loop == CHOOSE c : c = Rhs(c)
            R == {g \in [Args -> ParseState] : \A z \in Args : Follows(<<>>, z.s, g[z])}
            S == [Nat -> R]
            next == [c \in S |-> Rhs(c)]
<1>1. ASSUME NEW g, NEW left \in Nat, left = 0 \/ g \in R, NEW z \in Args
      PROVE  Follows(<<>>, z.s, Body(g, left, z))
  <2>. DEFINE r == P[NONE][z.s]
              more == Append(z.xs, r.val)
              c == Consume(r)
              t == Expect(r, "RPAREN")
  <2>1. z.s \in ParseState /\ z.xs \in Seq(Fractions)
    OBVIOUS
  <2>2. Follows(<<>>, z.s, z.s)
    BY <2>1, FollowsItself
  <2>3. Follows(<<>>, z.s, r) /\ r \in ParseState
    BY <2>1, <2>2, ParsesOn DEF NONE
  <2>4. Body(g, left, z) =
          IF Sees(z.s, "RPAREN") THEN Statistic(fn, z.xs, Consume(z.s))
          ELSE IF r.ok THEN IF left = 0 THEN Fail(r)
                            ELSE IF Sees(r, "COMMA") THEN g[[s |-> c, xs |-> more]]
                            ELSE IF t.ok THEN Statistic(fn, more, t) ELSE t
          ELSE Fail(r)
    BY DEF Checked, Then
  <2>. HIDE DEF r, Body
  <2>5. more \in Seq(Fractions)
    BY <2>1, <2>3, StateFields
  <2>. HIDE DEF more
  <2>6. /\ Follows(<<>>, z.s, c) /\ c.ok = r.ok
        /\ Follows(<<>>, z.s, t) /\ Follows(<<>>, z.s, Fail(r))
        /\ Follows(<<>>, z.s, Consume(z.s))
    BY <2>1, <2>2, <2>3, Consumes, Returns
  <2>. HIDE DEF c, t
  <2>7. /\ Follows(<<>>, z.s, Statistic(fn, more, t))
        /\ Follows(<<>>, z.s, Statistic(fn, z.xs, Consume(z.s)))
    BY <2>1, <2>5, <2>6, StatisticFollows
  <2>8. left # 0 /\ r.ok => Follows(<<>>, z.s, g[[s |-> c, xs |-> more]])
    <3>. DEFINE y == [s |-> c, xs |-> more]
    <3>1. y \in Args /\ y.s = c
      BY <2>5, <2>6 DEF Follows, Moves
    <3>. HIDE DEF y, Args
    <3>2. left # 0 => Follows(<<>>, c, g[y])
      BY <1>1, <3>1
    <3>3. left # 0 /\ r.ok => Follows(<<>>, z.s, g[y])
      BY <2>1, <2>6, <3>2, FollowsOn
    <3>. QED BY <3>3 DEF y
  <2>. QED BY <2>4, <2>6, <2>7, <2>8
<1>2. ASSUME NEW f, NEW left \in Nat, left = 0 \/ f[left - 1] \in R
      PROVE  Rhs(f)[left] \in R
  <2>1. \A z \in Args : Follows(<<>>, z.s, Body(f[left - 1], left, z))
    <3>. HIDE DEF Body, R
    <3>. QED BY <1>1, <1>2
  <2>2. \A z \in Args : Rhs(f)[left][z] = Body(f[left - 1], left, z)
    <3>. HIDE DEF Body
    <3>. QED OBVIOUS
  <2>3. Rhs(f)[left] = [z \in Args |-> Body(f[left - 1], left, z)]
    <3>. HIDE DEF Body
    <3>. QED OBVIOUS
  <2>. HIDE DEF Body, Rhs
  <2>. QED BY <2>1, <2>2, <2>3 DEF Follows, Moves
<1>3. Loop = Rhs(Loop)
  <2>. HIDE DEF Body, R
  <2>1. ASSUME NEW f \in S
        PROVE  Rhs(f) \in S
    <3>1. \A left \in Nat : left = 0 \/ f[left - 1] \in R
      OBVIOUS
    <3>2. \A left \in Nat : Rhs(f)[left] \in R
      <4>. HIDE DEF Rhs
      <4>. QED BY <1>2, <3>1
    <3>. QED BY <3>2
  <2>2. R # {}
    <3>1. [z \in Args |-> z.s] \in R
      <4>1. \A z \in Args : z.s \in ParseState
        OBVIOUS
      <4>. QED BY <4>1, FollowsItself DEF R
    <3>. QED BY <3>1
  <2>3. ASSUME NEW f \in S, NEW g \in S, NEW n \in Nat, n = 0 \/ f[n - 1] = g[n - 1]
        PROVE  next[f][n] = next[g][n]
    <3>1. next[f][n] = Rhs(f)[n] /\ next[g][n] = Rhs(g)[n]
      OBVIOUS
    <3>2. Rhs(f)[n] = Rhs(g)[n]
      <4>1. CASE n = 0
        BY <4>1 DEF Body
      <4>2. CASE f[n - 1] = g[n - 1]
        BY <4>2
      <4>. QED BY <2>3, <4>1, <4>2
    <3>. QED BY <3>1, <3>2
  <2>4. \E f : IsFixed(f, next, Nat, R)
    <3>1. next \in [S -> S]
      <4>. HIDE DEF Rhs, S
      <4>. QED BY <2>1
    <3>. HIDE DEF next
    <3>2. StepsUp(next, R)
      BY <2>3, <3>1 DEF StepsUp
    <3>. QED BY <2>2, <3>2, PrimitiveRecursion
  <2>5. \E f : f = Rhs(f)
    <3>. HIDE DEF Rhs
    <3>. QED BY <2>4 DEF IsFixed
  <2>. HIDE DEF Rhs
  <2>. QED BY <2>5
<1>4. \A left \in Nat : Loop[left] \in R
  <2>. DEFINE T == {left \in Nat : Loop[left] \in R}
  <2>. HIDE DEF Loop, R
  <2>1. \A left \in Nat : left = 0 \/ Loop[left - 1] \in R => Loop[left] \in R
    <3>. HIDE DEF Rhs
    <3>. QED BY <1>2, <1>3
  <2>2. 0 \in T
    BY <2>1
  <2>3. \A n \in Nat : n \in T => n + 1 \in T
    <3>. TAKE n \in Nat
    <3>1. (n + 1) - 1 = n /\ n + 1 \in Nat
      OBVIOUS
    <3>. QED BY <2>1, <3>1
  <2>4. \A n \in Nat : n \in T
    <3>. HIDE DEF T
    <3>. QED BY <2>2, <2>3, SetInduction
  <2>. QED BY <2>4
<1>5. StatisticCall(P, fn, start) = Loop[MaxArgs][[s |-> start, xs |-> <<>>]]
  BY DEF StatisticCall
<1>. HIDE DEF Loop
<1>6. [s |-> start, xs |-> <<>>] \in Args /\ [s |-> start, xs |-> <<>>].s = start
  OBVIOUS
<1>7. MaxArgs \in Nat
  BY ParserAssumption
<1>. QED BY <1>4, <1>5, <1>6, <1>7

-------------------------------------------------------------------------------
(* solve and rk4. *)

LEMMA BisectionFollows ==
  ASSUME NEW P \in Parsers, NEW expr \in Seq(Tokens), NEW x \in Names,
         NEW low \in Fractions, NEW high \in Fractions, NEW s \in ParseState
  PROVE  Follows(expr, s, Bisection(P, expr, x, low, high, s))
<1>. DEFINE l == Evaluated(P, expr, x, low, s)
            h == Evaluated(P, expr, x, high, l)
            b == Halve(P, expr, x, low, high, l.val, h)
<1>1. Bisection(P, expr, x, low, high, s) =
        IF l.ok THEN IF h.ok THEN IF Positive(Times(l.val, h.val)) THEN Fail(h) ELSE b
                     ELSE Fail(h)
        ELSE Fail(l)
  BY DEF Bisection, Checked
<1>2. Follows(expr, s, l) /\ l \in ParseState
  <2>1. Follows(expr, s, l)
    BY EvaluatedFollows
  <2>. QED BY <2>1 DEF Follows, Moves
<1>. HIDE DEF l
<1>3. Follows(expr, l, h) /\ h \in ParseState
  <2>1. Follows(expr, l, h)
    BY <1>2, EvaluatedFollows
  <2>. QED BY <2>1 DEF Follows, Moves
<1>. HIDE DEF h
<1>4. Follows(expr, h, b)
  BY <1>2, <1>3, StateFields, HalveFollows
<1>. HIDE DEF b
<1>5. l.ok => Follows(expr, s, h)
  BY <1>2, <1>3, FollowsOn
<1>6. l.ok /\ h.ok => Follows(expr, s, b)
  BY <1>4, <1>5, FollowsOn
<1>7. Follows(expr, s, Fail(l)) /\ (l.ok => Follows(expr, s, Fail(h)))
  BY <1>2, <1>5, Returns
<1>. QED BY <1>1, <1>5, <1>6, <1>7

(* The end of the expression, and what is copied up to it.                 *)
LEMMA CopyOfExpression ==
  ASSUME NEW s \in ParseState, Fits(s)
  PROVE  /\ EndOf(s) \in s.pos .. Len(s.toks)
         /\ Copied(s) \in Seq(Tokens) /\ Len(Copied(s)) = EndOf(s) - s.pos
         /\ AssignedIn(Copied(s)) \subseteq AssignedIn(s.toks)
         /\ Sound(s) => Nests(s, Copied(s))
<1>. DEFINE e == EndOf(s)
            c == Copied(s)
            p == s.pos
<1>1. s.toks \in Seq(Tokens) /\ p \in Nat \ {0} /\ Len(s.toks) \in Nat
  BY StateFields
<1>2. e \in p .. Len(s.toks)
  <2>1. Ends(s) # {} /\ Ends(s) \in SUBSET Nat
    BY <1>1 DEF Fits, Ends
  <2>2. \E q \in Ends(s) : \A y \in Ends(s) : q <= y
    BY <2>1, MinIsLeast
  <2>3. e \in Ends(s)
    BY <2>2 DEF EndOf
  <2>. QED BY <2>3 DEF Ends
<1>3. /\ c \in Seq(Tokens) /\ Len(c) = e - p
      /\ \A i \in 1 .. e - p : c[i] = s.toks[p + i - 1]
  <2>1. c = SubSeq(s.toks, p, e - 1)
    BY DEF Copied
  <2>2. \A i \in p .. e - 1 : s.toks[i] \in Tokens
    BY <1>1, <1>2
  <2>3. /\ c \in Seq(Tokens)
        /\ Len(c) = IF p <= e - 1 THEN (e - 1) - p + 1 ELSE 0
        /\ \A i \in 1 .. (e - 1) - p + 1 : c[i] = s.toks[p + i - 1]
    <3>. HIDE DEF c, e, p
    <3>. QED BY <1>1, <1>2, <2>1, <2>2, SubSeqProperties
  <2>. HIDE DEF c, e, p
  <2>. QED BY <1>1, <1>2, <2>3
<1>. HIDE DEF e, c, p
<1>4. AssignedIn(c) \subseteq AssignedIn(s.toks)
  <2>. SUFFICES ASSUME NEW i \in 1 .. Len(c) - 1,
                       c[i].type = "IDENTIFIER", c[i + 1].type = "EQUALS"
                PROVE  c[i].name \in AssignedIn(s.toks)
    BY DEF AssignedIn
  <2>1. i \in 1 .. e - p /\ i + 1 \in 1 .. e - p
    <3>1. Len(c) = e - p /\ e \in Nat /\ p \in Nat
      BY <1>1, <1>2, <1>3
    <3>. QED BY ONLY <3>1, i \in 1 .. Len(c) - 1
  <2>. DEFINE j == p + i - 1
  <2>2. j \in 1 .. Len(s.toks) - 1 /\ p + (i + 1) - 1 = j + 1
    BY ONLY <1>1, <1>2, <2>1
  <2>3. c[i] = s.toks[j] /\ c[i + 1] = s.toks[j + 1]
    BY <1>3, <2>1, <2>2
  <2>. HIDE DEF j
  <2>. QED BY <2>2, <2>3 DEF AssignedIn
<1>5. ASSUME Sound(s)
      PROVE  s.outer + s.depth + Len(c) <= Budget
  <2>1. e - p < MaxExpr
    BY DEF Fits, e, p
  <2>2. /\ s.outer \in Nat /\ s.depth \in Nat /\ s.depth <= MaxDepth
        /\ s.outer = 0 \/ s.outer + s.depth + (Len(s.toks) + 1 - p) <= Budget
    BY <1>5, StateFields DEF Sound, Unread, p
  <2>3. MaxDepth \in Nat /\ MaxExpr \in Nat /\ Budget = MaxDepth + MaxExpr
    BY ParserAssumption DEF Budget
  <2>. DEFINE k == e - p
              m == Len(s.toks) + 1 - p
  <2>4. k \in Nat /\ m \in Int /\ k <= m /\ k <= MaxExpr
    BY ONLY <1>1, <1>2, <2>1, <2>3
  <2>5. s.outer = 0 \/ s.outer + s.depth + m <= Budget
    BY <2>2
  <2>. HIDE DEF k, m
  <2>6. s.outer + s.depth + k <= Budget
    <3>1. CASE s.outer = 0
      BY ONLY <2>2, <2>3, <2>4, <3>1
    <3>2. CASE s.outer + s.depth + m <= Budget
      BY ONLY <2>2, <2>3, <2>4, <3>2
    <3>. QED BY <2>5, <3>1, <3>2
  <2>. QED BY <1>3, <2>6 DEF k
<1>. QED BY <1>2, <1>3, <1>4, <1>5 DEF Nests, e, c, p

(* What is behind the copied expression comes later in the text.           *)
LEMMA RestFollows ==
  ASSUME NEW s \in ParseState, Fits(s), NEW expr
  PROVE  Follows(expr, s, Rest(s)) /\ Rest(s) \in ParseState /\ Rest(s).ok = s.ok
<1>. DEFINE q == EndOf(s) + 1
            r == [s EXCEPT !.pos = q]
<1>1. q \in Nat \ {0} /\ q >= s.pos /\ q <= Len(s.toks) + 1
  BY CopyOfExpression, StateFields
<1>. HIDE DEF q
<1>2. /\ r \in ParseState
      /\ r.toks = s.toks /\ r.pos = q /\ r.ok = s.ok /\ r.table = s.table
  BY <1>1 DEF ParseState
<1>3. /\ r.divZero = s.divZero /\ r.trap = s.trap /\ r.depth = s.depth
      /\ r.outer = s.outer /\ r.deepest = s.deepest
  BY DEF ParseState
<1>4. Rest(s) = r
  BY DEF Rest, q
<1>. HIDE DEF r
<1>. QED BY <1>1, <1>2, <1>3, <1>4 DEF Follows, Moves, Keeps, Sound

(* A name and a comma; the name is cut to a name.                          *)
LEMMA NameArgumentFollows ==
  ASSUME NEW expr, NEW s \in ParseState, NEW r, Follows(expr, s, r)
  PROVE  /\ Follows(expr, s, NameArgument(r))
         /\ NameArgument(r).ok => r.ok /\ CutName(r) \in Names
<1>. DEFINE t == Expect(r, "IDENTIFIER")
            u == Expect(t, "COMMA")
<1>1. r \in ParseState
  BY DEF Follows, Moves
<1>2. NameArgument(r) = IF t.ok THEN u ELSE t
  BY DEF NameArgument, Then
<1>3. Follows(expr, s, t) /\ (t.ok => Sees(r, "IDENTIFIER") /\ r.ok)
  BY Consumes
<1>. HIDE DEF t
<1>4. Follows(expr, s, u) /\ (u.ok => t.ok)
  BY <1>3, Consumes
<1>. HIDE DEF u
<1>5. Sees(r, "IDENTIFIER") => CutName(r) \in Names
  BY <1>1, PeekIsToken, ParserAssumption DEF CutName
<1>. QED BY <1>2, <1>3, <1>4, <1>5

(* An argument and what ends it.                                           *)
LEMMA ArgumentFollows ==
  ASSUME NEW P \in Parsers, NEW expr, NEW s \in ParseState, NEW r, Follows(expr, s, r),
         s.ok => r.ok, NEW type
  PROVE  /\ Follows(expr, s, Argument(P, r, type))
         /\ Argument(P, r, type).val \in Fractions
<1>. DEFINE q == P[NONE][r]
            t == Expect(q, type)
<1>1. Follows(expr, s, q)
  BY ParsesOn DEF NONE
<1>. HIDE DEF q
<1>2. Follows(expr, s, t)
  BY <1>1, Consumes
<1>. HIDE DEF t
<1>3. Argument(P, r, type) = IF q.ok THEN t ELSE q
  BY DEF Argument, Then, q, t
<1>4. Follows(expr, s, Argument(P, r, type))
  BY <1>1, <1>2, <1>3
<1>. HIDE DEF Argument
<1>. QED BY <1>4, StateFields DEF Follows, Moves

(* solve: its copied expression may be parsed inside the parse of the line.*)
LEMMA SolveFollows ==
  ASSUME NEW P \in Parsers, NEW s \in ParseState
  PROVE  Follows(<<>>, s, SolveCall(P, s))
<1>1. CASE ~Fits(s)
  <2>1. SolveCall(P, s) = Fail(s)
    BY <1>1 DEF SolveCall
  <2>. QED BY <2>1, FollowsItself, Returns
<1>2. CASE Fits(s)
  <2>. DEFINE expr == Copied(s)
              rest == Rest(s)
              x == CutName(rest)
              n == NameArgument(rest)
              third == P[NONE][n]
              comma == Consume(third)
              fourth == Argument(P, comma, "RPAREN")
              close == Expect(third, "RPAREN")
              b == Bisection(P, expr, x, third.val, fourth.val, fourth)
              w == Newton(P, expr, x, third.val, close)
  <2>1. SolveCall(P, s) =
          IF n.ok
          THEN IF third.ok
               THEN IF Sees(third, "COMMA") THEN IF fourth.ok THEN b ELSE fourth
                    ELSE IF close.ok THEN w ELSE close
               ELSE Fail(third)
          ELSE n
    BY <1>2, Zenon DEF SolveCall, Then, Checked
  <2>2. expr \in Seq(Tokens)
    BY <1>2, CopyOfExpression
  <2>3. Follows(expr, s, rest) /\ rest.ok = s.ok
    BY <1>2, RestFollows
  <2>. HIDE DEF expr, rest
  <2>4. Follows(expr, s, n) /\ (n.ok => x \in Names) /\ n \in ParseState
    <3>1. Follows(expr, s, n) /\ (n.ok => x \in Names)
      BY <2>3, NameArgumentFollows
    <3>. QED BY <3>1 DEF Follows, Moves
  <2>. HIDE DEF n, x
  <2>5. n.ok => Follows(expr, s, third) /\ third \in ParseState /\ third.val \in Fractions
    BY <2>4, ParsesOn, StateFields DEF NONE
  <2>. HIDE DEF third
  <2>6. n.ok /\ third.ok => /\ Follows(expr, s, comma) /\ comma.ok = third.ok
                            /\ Follows(expr, s, close) /\ close \in ParseState
    <3>1. n.ok => /\ Follows(expr, s, comma) /\ comma.ok = third.ok
                  /\ Follows(expr, s, close)
      BY <2>5, Consumes
    <3>. QED BY <3>1 DEF Follows, Moves
  <2>. HIDE DEF comma, close
  <2>7. n.ok /\ third.ok => /\ Follows(expr, s, fourth) /\ fourth.val \in Fractions
                            /\ fourth \in ParseState
    <3>1. n.ok /\ third.ok => Follows(expr, s, fourth) /\ fourth.val \in Fractions
      BY <2>6, ArgumentFollows
    <3>. QED BY <3>1 DEF Follows, Moves
  <2>. HIDE DEF fourth
  <2>8. n.ok /\ third.ok /\ fourth.ok => Follows(expr, s, b)
    <3>1. n.ok /\ third.ok => Follows(expr, fourth, b)
      BY <2>2, <2>4, <2>5, <2>7, BisectionFollows
    <3>. HIDE DEF b
    <3>. QED BY <2>7, <3>1, FollowsOn
  <2>9. n.ok /\ third.ok /\ close.ok => Follows(expr, s, w)
    <3>1. n.ok /\ third.ok => Follows(expr, close, w)
      BY <2>2, <2>4, <2>5, <2>6, NewtonFollows
    <3>. HIDE DEF w
    <3>. QED BY <2>6, <3>1, FollowsOn
  <2>10. n.ok => Follows(expr, s, Fail(third))
    BY <2>5, Returns
  <2>. HIDE DEF b, w
  <2>11. Follows(expr, s, SolveCall(P, s))
    BY <2>1, <2>4, <2>6, <2>7, <2>8, <2>9, <2>10
  <2>. QED BY <1>2, <2>11, CopyOfExpression DEF Follows, expr
<1>. QED BY <1>1, <1>2

(* The count of steps is one whatever is given.                            *)
LEMMA StepCountIsNatural == \A x \in Fractions : StepCount(x) \in Nat
<1>. SUFFICES ASSUME NEW x \in Fractions PROVE Unsigned(x) \in Nat
  BY DEF StepCount
<1>1. Uint \in Nat \ {0}
  BY ParserAssumption
<1>2. CASE Exact(x)
  <2>1. x.n \in -Small .. Small /\ x.d \in 0 .. Small /\ Small \in Nat
    <3>1. x.n \in -Small .. Small /\ x.d \in 0 .. Small
      BY ONLY x \in Fractions DEF Fractions
    <3>2. Small \in Nat
      BY DEF Small
    <3>. QED BY ONLY <3>1, <3>2
  <2>2. x.n \in Int /\ x.d \in Nat \ {0}
    BY ONLY <2>1, <1>2 DEF Exact
  <2>3. Truncated(x) \in Int
    BY ONLY <2>2 DEF Truncated
  <2>4. Truncated(x) % Uint \in Nat
    BY ONLY <1>1, <2>3
  <2>. QED BY <1>2, <2>4 DEF Unsigned
<1>3. CASE ~Exact(x)
  <2>1. Unsigned(x) = CHOOSE k \in 0 .. Uint - 1 : TRUE
    BY <1>3 DEF Unsigned
  <2>2. 0 \in 0 .. Uint - 1
    BY <1>1
  <2>3. Unsigned(x) \in 0 .. Uint - 1
    BY <2>1, <2>2
  <2>. QED BY <1>1, <2>3
<1>. QED BY <1>2, <1>3

(* rk4: the same with two names and four arguments.                        *)
LEMMA Rk4CallFollows ==
  ASSUME NEW P \in Parsers, NEW s \in ParseState
  PROVE  Follows(<<>>, s, Rk4Call(P, s))
<1>1. CASE ~Fits(s)
  <2>1. Rk4Call(P, s) = Fail(s)
    BY <1>1 DEF Rk4Call
  <2>. QED BY <2>1, FollowsItself, Returns
<1>2. CASE Fits(s)
  <2>. DEFINE expr == Copied(s)
              rest == Rest(s)
              x == CutName(rest)
              n == NameArgument(rest)
              y == CutName(n)
              m == NameArgument(n)
              x0 == Argument(P, m, "COMMA")
              y0 == Argument(P, x0, "COMMA")
              x1 == Argument(P, y0, "COMMA")
              k == Argument(P, x1, "RPAREN")
              w == Rk4(P, expr, x, y, x0.val, y0.val, x1.val, StepCount(k.val), k)
  <2>1. Rk4Call(P, s) =
          IF n.ok
          THEN IF m.ok
               THEN IF x0.ok
                    THEN IF y0.ok
                         THEN IF x1.ok THEN IF k.ok THEN w ELSE k ELSE x1
                         ELSE y0
                    ELSE x0
               ELSE m
          ELSE n
    BY <1>2, Zenon DEF Rk4Call, Then
  <2>2. expr \in Seq(Tokens)
    BY <1>2, CopyOfExpression
  <2>3. Follows(expr, s, rest) /\ rest.ok = s.ok
    BY <1>2, RestFollows
  <2>. HIDE DEF expr, rest
  <2>4. Follows(expr, s, n) /\ (n.ok => x \in Names)
    BY <2>3, NameArgumentFollows
  <2>. HIDE DEF n, x
  <2>5. Follows(expr, s, m) /\ (m.ok => n.ok /\ y \in Names)
    BY <2>4, NameArgumentFollows
  <2>. HIDE DEF m, y
  <2>6. m.ok => Follows(expr, s, x0) /\ x0.val \in Fractions
    BY <2>5, ArgumentFollows
  <2>. HIDE DEF x0
  <2>7. m.ok /\ x0.ok => Follows(expr, s, y0) /\ y0.val \in Fractions
    BY <2>6, ArgumentFollows
  <2>. HIDE DEF y0
  <2>8. m.ok /\ x0.ok /\ y0.ok => Follows(expr, s, x1) /\ x1.val \in Fractions
    BY <2>7, ArgumentFollows
  <2>. HIDE DEF x1
  <2>9. m.ok /\ x0.ok /\ y0.ok /\ x1.ok => Follows(expr, s, k) /\ k \in ParseState
                                            /\ k.val \in Fractions
    <3>1. m.ok /\ x0.ok /\ y0.ok /\ x1.ok => Follows(expr, s, k) /\ k.val \in Fractions
      BY <2>8, ArgumentFollows
    <3>. QED BY <3>1 DEF Follows, Moves
  <2>. HIDE DEF k
  <2>10. m.ok /\ x0.ok /\ y0.ok /\ x1.ok /\ k.ok => Follows(expr, s, w)
    <3>1. m.ok /\ x0.ok /\ y0.ok /\ x1.ok => StepCount(k.val) \in Nat
      BY <2>9, StepCountIsNatural
    <3>2. m.ok /\ x0.ok /\ y0.ok /\ x1.ok => Follows(expr, k, w)
      BY <2>2, <2>4, <2>5, <2>6, <2>7, <2>8, <2>9, <3>1, Rk4Follows
    <3>. HIDE DEF w
    <3>. QED BY <2>9, <3>2, FollowsOn
  <2>. HIDE DEF w
  <2>11. Follows(expr, s, Rk4Call(P, s))
    BY <2>1, <2>4, <2>5, <2>6, <2>7, <2>8, <2>9, <2>10
  <2>. QED BY <1>2, <2>11, CopyOfExpression DEF Follows, expr
<1>. QED BY <1>1, <1>2

-------------------------------------------------------------------------------
(* parse_precedence. *)

LEMMA CallFollows ==
  ASSUME NEW P \in Parsers, NEW s \in ParseState, NEW f
  PROVE  Follows(<<>>, s, Call(P, f, s))
<1>1. f \in Statistics => Follows(<<>>, s, StatisticCall(P, f, s))
  BY StatisticCallFollows
<1>2. f \in Builtins => Follows(<<>>, s, BuiltinCall(P, f, s))
  BY BuiltinFollows
<1>3. /\ Follows(<<>>, s, SolveCall(P, s)) /\ Follows(<<>>, s, Rk4Call(P, s))
      /\ Follows(<<>>, s, RandomCall(s)) /\ Follows(<<>>, s, PluggedCall(P, f, s))
  BY SolveFollows, Rk4CallFollows, RandomFollows, PluggedFollows
<1>4. Follows(<<>>, s, Fail(s))
  BY FollowsItself, Returns
<1>. QED BY <1>1, <1>2, <1>3, <1>4 DEF Call

(* A name in front of "=" is assigned by the text.                         *)
LEMMA AssignedNames ==
  ASSUME NEW e \in ParseState, Sees(e, "IDENTIFIER"), Sees(Consume(e), "EQUALS")
  PROVE  Peek(e).name \in Names \cap AssignedIn(e.toks)
<1>. DEFINE p == e.pos
            toks == e.toks
<1>1. Peek(e).name \in Names
  BY PeekIsToken
<1>2. p \in 1 .. Len(toks) /\ Peek(e) = toks[p]
  BY PeekIsToken DEF Sees
<1>3. Consume(e) \in ParseState /\ Consume(e).pos = p + 1 /\ Consume(e).toks = toks
  <2>1. Follows(<<>>, e, Consume(e)) /\ Consume(e).pos = p + 1
    BY FollowsItself, Consumes DEF Sees
  <2>. QED BY <2>1 DEF Follows, Moves
<1>4. p + 1 \in 1 .. Len(toks) /\ toks[p + 1].type = "EQUALS"
  BY <1>3, PeekIsToken DEF Sees
<1>5. p \in 1 .. Len(toks) - 1
  <2>1. Len(toks) \in Nat
    BY StateFields
  <2>. HIDE DEF p, toks
  <2>. QED BY <1>2, <1>4, <2>1
<1>. HIDE DEF p
<1>. QED BY <1>1, <1>2, <1>4, <1>5 DEF AssignedIn, Sees

(* An assignment, a call or a reference.                                   *)
LEMMA IdentifierFollows ==
  ASSUME answer \in Fractions, NEW P \in Parsers, NEW e \in ParseState, Sees(e, "IDENTIFIER")
  PROVE  Follows(<<>>, Consume(e), Identifier(P, e))
<1>. DEFINE x == Peek(e).name
            t == Consume(e)
            u == Consume(t)
            r == P[NONE][u]
<1>1. t \in ParseState /\ t.toks = e.toks
  <2>1. Follows(<<>>, e, t)
    BY FollowsItself, Consumes
  <2>. QED BY <2>1 DEF Follows, Moves
<1>2. Follows(<<>>, t, u) /\ u.ok = t.ok /\ u \in ParseState
  <2>1. Follows(<<>>, t, u) /\ u.ok = t.ok
    BY <1>1, FollowsItself, Consumes
  <2>. QED BY <2>1 DEF Follows, Moves
<1>. HIDE DEF t, u, r
<1>3. Follows(<<>>, t, r) /\ r.val \in Fractions
  <2>1. NONE \in 0 .. 4
    BY DEF NONE
  <2>2. Follows(<<>>, t, P[NONE][u]) /\ P[NONE][u] \in ParseState
    BY <1>1, <1>2, <2>1, ParsesOn
  <2>. QED BY <2>2, StateFields DEF r
<1>4. Sees(t, "EQUALS") => Follows(<<>>, t, Assignment(P, x, u))
  <2>1. Assignment(P, x, u) = IF r.ok THEN [r EXCEPT !.table = SetVariable(@, x, r.val)] ELSE r
    BY DEF Assignment, Then, r
  <2>2. Sees(t, "EQUALS") => x \in Names \cap AssignedIn(t.toks)
    BY <1>1, AssignedNames DEF t
  <2>. HIDE DEF x
  <2>. QED BY <1>1, <1>3, <2>1, <2>2, TableFollows
<1>5. Follows(<<>>, t, Call(P, x, u))
  BY <1>1, <1>2, CallFollows, FollowsOn
<1>6. Follows(<<>>, t, Reference(x, t))
  BY <1>1, ReferenceFollows
<1>7. Identifier(P, e) = CASE Sees(t, "EQUALS") -> Assignment(P, x, u)
                           [] Sees(t, "LPAREN") -> Call(P, x, u)
                           [] OTHER             -> Reference(x, t)
  BY DEF Identifier, t, u
<1>. HIDE DEF x
<1>. QED BY <1>4, <1>5, <1>6, <1>7 DEF t

(* The prefix functions.                                                   *)
LEMMA PrefixFollows ==
  ASSUME answer \in Fractions, NEW P \in Parsers, NEW e \in ParseState,
         Peek(e).type \in PrefixTypes
  PROVE  Follows(<<>>, Consume(e), Prefix(P, e))
<1>. DEFINE t == Consume(e)
            none == P[NONE][t]
            unary == P[UNARY][t]
<1>1. t \in ParseState
  <2>1. Follows(<<>>, e, t)
    BY FollowsItself, Consumes
  <2>. QED BY <2>1 DEF Follows, Moves
<1>2. Follows(<<>>, t, t)
  BY <1>1, FollowsItself
<1>3. /\ Follows(<<>>, t, none) /\ none \in ParseState
      /\ Follows(<<>>, t, unary) /\ unary \in ParseState
  BY <1>1, <1>2, ParsesOn DEF NONE, UNARY
<1>4. CASE Peek(e).type = "NUMBER"
  <2>1. Prefix(P, e) = Value(t, Peek(e).num)
    BY <1>4 DEF Prefix, Number, Sees
  <2>. QED BY <1>1, <1>2, <2>1, PeekIsToken, Returns
<1>5. CASE Peek(e).type = "MINUS"
  <2>1. Prefix(P, e) = Value(unary, Neg(unary.val))
    BY <1>5 DEF Prefix, Unary, Sees
  <2>. HIDE DEF unary, t
  <2>2. Neg(unary.val) \in Fractions
    BY <1>3, StateFields, ArithmeticIsClosed
  <2>. QED BY <1>1, <1>3, <2>1, <2>2, Returns DEF t
<1>6. CASE Peek(e).type = "SQRT"
  <2>1. Prefix(P, e) = IF Negative(unary.val) THEN Fail(unary) ELSE Value(unary, Root(unary.val))
    BY <1>6 DEF Prefix, UnarySqrt, Sees
  <2>. HIDE DEF unary, t
  <2>2. Root(unary.val) \in Fractions
    BY ArithmeticIsClosed
  <2>. QED BY <1>1, <1>3, <2>1, <2>2, Returns DEF t
<1>7. CASE Peek(e).type = "IDENTIFIER"
  <2>1. Prefix(P, e) = Identifier(P, e) /\ Sees(e, "IDENTIFIER")
    BY <1>7 DEF Prefix, Sees
  <2>. QED BY <2>1, IdentifierFollows
<1>8. CASE Peek(e).type = "LPAREN"
  <2>. DEFINE c == Consume(none)
              q == [c EXCEPT !.ok = @ /\ Sees(none, "RPAREN")]
  <2>1. Prefix(P, e) = q
    BY <1>8 DEF Prefix, Grouping, Sees
  <2>. HIDE DEF none, t
  <2>2. Follows(<<>>, t, c) /\ c \in ParseState
    <3>1. Follows(<<>>, t, c)
      BY <1>1, <1>3, Consumes
    <3>. QED BY <3>1 DEF Follows, Moves
  <2>3. Sees(none, "RPAREN") \in BOOLEAN
    BY DEF Sees
  <2>. HIDE DEF c
  <2>4. /\ q \in ParseState /\ q.toks = c.toks /\ q.pos = c.pos /\ q.ok = (c.ok /\ Sees(none, "RPAREN"))
        /\ q.table = c.table
    BY <2>2, <2>3 DEF ParseState
  <2>5. /\ q.divZero = c.divZero /\ q.trap = c.trap /\ q.depth = c.depth
        /\ q.outer = c.outer /\ q.deepest = c.deepest
    BY <2>2 DEF ParseState
  <2>. HIDE DEF q
  <2>6. Follows(<<>>, t, q)
    BY <2>2, <2>4, <2>5 DEF Follows, Moves, Keeps
  <2>. QED BY <2>1, <2>6 DEF t
<1>. QED BY <1>4, <1>5, <1>6, <1>7, <1>8 DEF PrefixTypes

(* One level deeper, and back.                                             *)
LEMMA OperandFollows ==
  ASSUME answer \in Fractions, NEW P \in Parsers, NEW s \in ParseState,
         s.depth + 1 <= MaxDepth, Peek(s).type \in PrefixTypes
  PROVE  LET f == Leave(Prefix(P, Enter(s))) IN
         /\ Follows(<<>>, s, f)
         /\ f.pos > s.pos
         /\ f.ok => Prefix(P, Enter(s)).ok
<1>. DEFINE level == s.outer + s.depth + 1
            deepest == IF level > s.deepest THEN level ELSE s.deepest
            e == [s EXCEPT !.depth = @ + 1, !.deepest = deepest]
            c == Consume(e)
            r == Prefix(P, e)
            f == [r EXCEPT !.depth = @ - 1]
<1>1. /\ s.outer \in Nat /\ s.depth \in Nat /\ s.deepest \in Nat /\ s.pos \in Nat \ {0}
      /\ Len(s.toks) \in Nat
  BY StateFields
<1>2. s.depth + 1 \in Nat /\ deepest \in Nat
  <2>1. \A o, d, n \in Nat : d + 1 \in Nat /\ (IF o + d + 1 > n THEN o + d + 1 ELSE n) \in Nat
    OBVIOUS
  <2>. QED BY ONLY <1>1, <2>1
<1>3. Enter(s) = e
  BY DEF Enter
<1>. HIDE DEF deepest
<1>4. /\ e \in ParseState
      /\ e.toks = s.toks /\ e.pos = s.pos /\ e.ok = s.ok /\ e.depth = s.depth + 1
      /\ e.outer = s.outer
  BY <1>2 DEF ParseState
<1>5. /\ e.table = s.table /\ e.divZero = s.divZero /\ e.trap = s.trap
      /\ e.deepest = deepest
  BY <1>4 DEF ParseState
<1>6. Peek(e) = Peek(s)
  BY <1>4 DEF Peek
<1>. HIDE DEF e
<1>7. s.pos \in 1 .. Len(s.toks)
  BY PeekIsToken DEF Sees, PrefixTypes
<1>8. c = [e EXCEPT !.pos = @ + 1]
  BY <1>6 DEF Consume, Sees, PrefixTypes
<1>9. /\ c.toks = s.toks /\ c.pos = s.pos + 1 /\ c.ok = s.ok /\ c.depth = s.depth + 1
      /\ c.outer = s.outer
  BY <1>4, <1>8 DEF ParseState
<1>10. /\ c.table = s.table /\ c.divZero = s.divZero /\ c.trap = s.trap
       /\ c.deepest = deepest
  BY <1>4, <1>5, <1>8 DEF ParseState
<1>11. c \in ParseState /\ Follows(<<>>, c, r)
  <2>1. Follows(<<>>, c, r)
    BY <1>4, <1>6, PrefixFollows
  <2>2. Follows(<<>>, e, c)
    BY <1>4, FollowsItself, Consumes
  <2>. QED BY <2>1, <2>2 DEF Follows, Moves
<1>. HIDE DEF c, r
<1>12. r \in ParseState /\ r.depth = s.depth + 1
  BY <1>9, <1>11 DEF Follows, Moves
<1>13. r.depth - 1 = s.depth
  BY <1>1, <1>12
<1>14. /\ f \in ParseState /\ f.toks = r.toks /\ f.pos = r.pos /\ f.ok = r.ok /\ f.depth = s.depth
       /\ f.outer = r.outer
  BY <1>1, <1>12, <1>13 DEF ParseState
<1>15. /\ f.table = r.table /\ f.divZero = r.divZero /\ f.trap = r.trap
       /\ f.deepest = r.deepest
  BY <1>12 DEF ParseState
<1>16. Leave(Prefix(P, Enter(s))) = f /\ Prefix(P, Enter(s)) = r
  BY <1>3 DEF Leave, r
<1>. HIDE DEF f
<1>17. f.pos >= s.pos + 1 /\ f.pos \in Nat
  BY <1>9, <1>11, <1>14, StateFields DEF Follows, Moves
<1>18. Moves(s, f)
  BY <1>1, <1>9, <1>11, <1>14, <1>17 DEF Follows, Moves
<1>19. ASSUME Sound(s)
       PROVE  Keeps(AssignedIn(s.toks), s, f)
  <2>1. s.outer = 0 \/ s.outer + s.depth + (Len(s.toks) + 1 - s.pos) <= Budget
    BY <1>19 DEF Sound, Unread
  <2>2. s.deepest <= Budget
    BY <1>19 DEF Sound
  <2>3. deepest <= Budget
    <3>1. \A o, d, n, l, q, m, b \in Nat :
             /\ d + 1 <= m /\ m <= b /\ n <= b /\ q <= l
             /\ o = 0 \/ o + d + (l + 1 - q) <= b
             => (IF o + d + 1 > n THEN o + d + 1 ELSE n) <= b
      OBVIOUS
    <3>2. s.pos <= Len(s.toks) /\ s.pos \in Nat
      BY ONLY <1>1, <1>7
    <3>3. s.depth + 1 <= MaxDepth
      OBVIOUS
    <3>. QED BY ONLY <1>1, <2>1, <2>2, <3>1, <3>2, <3>3, BudgetIsPositive DEF deepest
  <2>4. c.outer = 0 \/ c.outer + c.depth + Unread(c) <= Budget
    <3>1. s.outer + (s.depth + 1) + (Len(s.toks) + 1 - (s.pos + 1))
            = s.outer + s.depth + (Len(s.toks) + 1 - s.pos)
      <4>. DEFINE o == s.outer
                  d == s.depth
                  l == Len(s.toks)
                  q == s.pos
      <4>1. o \in Nat /\ d \in Nat /\ l \in Nat /\ q \in Nat
        BY ONLY <1>1
      <4>. HIDE DEF o, d, l, q
      <4>2. o + (d + 1) + (l + 1 - (q + 1)) = o + d + (l + 1 - q)
        BY ONLY <4>1
      <4>. QED BY ONLY <4>2 DEF o, d, l, q
    <3>. QED BY <1>9, <2>1, <3>1 DEF Unread
  <2>5. c.pos <= Len(c.toks) + 1
    BY <1>1, <1>7, <1>9
  <2>6. Sound(c)
    BY <1>9, <1>10, <1>19, <2>3, <2>4, <2>5, s.depth + 1 <= MaxDepth DEF Sound
  <2>7. Keeps(AssignedIn(c.toks), c, r)
    BY <1>11, <2>6, NothingNestsIn DEF Follows
  <2>. QED BY <1>9, <1>10, <1>14, <1>15, <2>7 DEF Keeps
<1>. QED BY <1>1, <1>14, <1>16, <1>17, <1>18, <1>19 DEF Follows

(* What the loop over the operators makes of the operand s.                *)
Continues(prec, s, r) ==
  /\ Follows(<<>>, s, r)
  /\ ~s.ok => r = Fail(s)
  /\ s.ok /\ Peek(s).type \notin InfixTypes => r = s
  /\ prec = NONE /\ r.ok => Peek(r).type \notin InfixTypes

(* The loop is a definition: every operator it takes leaves fewer tokens.  *)
(* What it returns was made of the operand, and without a precedence it    *)
(* stops at no operator.                                                   *)
LEMMA InfixesFollow ==
  ASSUME NEW P \in Parsers, NEW prec \in 0 .. 4, NEW first \in ParseState
  PROVE  Continues(prec, first, Infixes(P, prec, first))
<1>. DEFINE Body(g, left) ==
              IF ~left.ok THEN Fail(left)
              ELSE IF /\ prec <= PrecedenceOf(Peek(left).type)
                      /\ Peek(left).type \in InfixTypes
                   THEN g[Infix(P, left)]
              ELSE left
            Rhs(f) == [left \in ParseState |-> Body(f, left)]
            Continue == CHOOSE f : f = Rhs(f)
            S == [ParseState -> ParseState]
            next == [f \in S |-> Rhs(f)]
            Left(s) == IF s.ok /\ s.pos <= Len(s.toks) THEN Len(s.toks) + 1 - s.pos ELSE 0
            m == [s \in ParseState |-> Left(s)]
            Taken(s) == s.ok /\ Peek(s).type \in InfixTypes
<1>1. \A s \in ParseState : Left(s) \in Nat
  <2>1. \A p, n \in Nat : p <= n => n + 1 - p \in Nat
    OBVIOUS
  <2>2. \A s \in ParseState : s.pos \in Nat /\ Len(s.toks) \in Nat
    BY StateFields
  <2>. QED BY <2>1, <2>2
<1>2. ASSUME NEW s \in ParseState, Taken(s)
      PROVE  /\ Infix(P, s) \in ParseState
             /\ Follows(<<>>, s, Infix(P, s))
             /\ Left(Infix(P, s)) < Left(s)
  <2>. DEFINE r == Infix(P, s)
  <2>1. Follows(<<>>, s, r) /\ (r.ok => r.pos > s.pos)
    BY <1>2, InfixFollows
  <2>2. r \in ParseState /\ r.toks = s.toks
    BY <2>1 DEF Follows, Moves
  <2>3. s.pos \in 1 .. Len(s.toks)
    BY <1>2, PeekIsToken DEF Sees, InfixTypes
  <2>4. r.pos \in Nat /\ s.pos \in Nat /\ Len(s.toks) \in Nat
    BY <2>2, StateFields
  <2>. HIDE DEF r
  <2>5. Left(r) < Left(s)
    <3>1. \A p, q, n \in Nat : p <= n /\ q > p => n + 1 - q < n + 1 - p
      OBVIOUS
    <3>2. \A p, n \in Nat : p <= n => 0 < n + 1 - p
      OBVIOUS
    <3>3. Left(s) = Len(s.toks) + 1 - s.pos /\ s.pos <= Len(s.toks)
      BY <1>2, <2>3
    <3>4. Left(r) = IF r.ok /\ r.pos <= Len(s.toks) THEN Len(s.toks) + 1 - r.pos ELSE 0
      BY <2>2
    <3>. HIDE DEF Left
    <3>. QED BY ONLY <2>1, <2>4, <3>1, <3>2, <3>3, <3>4
  <2>. QED BY <2>1, <2>2, <2>5 DEF r
<1>. HIDE DEF Left
<1>3. Continue = Rhs(Continue)
  <2>1. ASSUME NEW f \in S, NEW s \in ParseState
        PROVE  Body(f, s) \in ParseState
    <3>1. Taken(s) => f[Infix(P, s)] \in ParseState
      BY <1>2
    <3>2. Fail(s) \in ParseState
      BY ArithmeticIsClosed DEF Fail, ParseState
    <3>. QED BY <3>1, <3>2
  <2>2. ASSUME NEW f \in S, NEW g \in S, NEW s \in ParseState,
               \A e \in ParseState : m[e] < m[s] => f[e] = g[e]
        PROVE  next[f][s] = next[g][s]
    <3>1. Taken(s) => f[Infix(P, s)] = g[Infix(P, s)]
      BY <1>2, <2>2
    <3>2. Body(f, s) = Body(g, s)
      BY <3>1
    <3>. HIDE DEF Body
    <3>. QED BY <3>2
  <2>3. Descends(next, ParseState, ParseState, m)
    <3>1. m \in [ParseState -> Nat]
      BY <1>1
    <3>2. next \in [S -> S]
      <4>. HIDE DEF Body
      <4>. QED BY <2>1
    <3>. HIDE DEF next, m
    <3>. QED BY <2>2, <3>1, <3>2 DEF Descends
  <2>4. \E f : IsFixed(f, next, ParseState, ParseState)
    <3>. HIDE DEF next, m
    <3>1. ParseState # {}
      OBVIOUS
    <3>. QED BY <2>3, <3>1, Recursion
  <2>5. \E f : f = Rhs(f)
    <3>. HIDE DEF Rhs
    <3>. QED BY <2>4 DEF IsFixed
  <2>. HIDE DEF Rhs
  <2>. QED BY <2>5
<1>4. ASSUME NEW g, NEW s \in ParseState,
             Taken(s) => Continues(prec, Infix(P, s), g[Infix(P, s)])
      PROVE  Continues(prec, s, Body(g, s))
  <2>1. Follows(<<>>, s, s) /\ Follows(<<>>, s, Fail(s))
    BY FollowsItself, Returns
  <2>2. CASE ~s.ok
    <3>1. Fail(s).ok = FALSE
      BY DEF Fail, ParseState
    <3>2. Body(g, s) = Fail(s)
      BY <2>2
    <3>. HIDE DEF Body
    <3>. QED BY <2>1, <2>2, <3>1, <3>2 DEF Continues
  <2>3. CASE Taken(s) /\ prec <= PrecedenceOf(Peek(s).type)
    <3>. DEFINE e == Infix(P, s)
                r == g[e]
    <3>1. Follows(<<>>, s, e) /\ e \in ParseState /\ Continues(prec, e, r)
      BY <1>2, <1>4, <2>3
    <3>2. Body(g, s) = r
      BY <2>3
    <3>. HIDE DEF e, r, Body
    <3>3. CASE e.ok
      <4>1. Follows(<<>>, s, r)
        BY <3>1, <3>3, FollowsOn DEF Continues
      <4>. QED BY <2>3, <3>1, <3>2, <4>1 DEF Continues
    <3>4. CASE ~e.ok
      <4>1. r = Fail(e) /\ Follows(<<>>, s, Fail(e))
        BY <3>1, <3>4, Returns DEF Continues
      <4>. QED BY <2>3, <3>1, <3>2, <4>1 DEF Continues
    <3>. QED BY <3>3, <3>4
  <2>4. CASE s.ok /\ ~(Taken(s) /\ prec <= PrecedenceOf(Peek(s).type))
    <3>1. Body(g, s) = s
      BY <2>4
    <3>2. prec = NONE => prec <= PrecedenceOf(Peek(s).type)
      BY DEF PrecedenceOf, NONE, TERM, FACTOR, UNARY
    <3>. HIDE DEF Body
    <3>. QED BY <2>1, <2>4, <3>1, <3>2 DEF Continues
  <2>. QED BY <2>2, <2>3, <2>4
<1>5. \A s \in ParseState : Continue[s] = Body(Continue, s)
  <2>. HIDE DEF Body, Continue
  <2>. QED BY <1>3
<1>. HIDE DEF Continue, Body
<1>6. \A n \in Nat : \A s \in ParseState : Left(s) <= n => Continues(prec, s, Continue[s])
  <2>. DEFINE T == {n \in Nat : \A s \in ParseState : Left(s) < n => Continues(prec, s, Continue[s])}
  <2>1. 0 \in T
    BY <1>1
  <2>2. ASSUME NEW n \in Nat, n \in T
        PROVE  n + 1 \in T
    <3>1. ASSUME NEW s \in ParseState, Left(s) < n + 1
          PROVE  Continues(prec, s, Continue[s])
      <4>1. ASSUME Taken(s)
            PROVE  Continues(prec, Infix(P, s), Continue[Infix(P, s)])
        <5>1. Left(Infix(P, s)) < n /\ Infix(P, s) \in ParseState
          BY <1>1, <1>2, <3>1, <4>1
        <5>. QED BY <2>2, <5>1
      <4>. QED BY <1>4, <1>5, <4>1
    <3>. QED BY <3>1
  <2>3. \A n \in Nat : n \in T
    <3>. HIDE DEF T
    <3>. QED BY <2>1, <2>2, SetInduction
  <2>4. ASSUME NEW n \in Nat, NEW s \in ParseState, Left(s) <= n
        PROVE  Continues(prec, s, Continue[s])
    <3>1. n + 1 \in T /\ Left(s) < n + 1
      BY <1>1, <2>3, <2>4
    <3>. QED BY <3>1
  <2>. QED BY <2>4
<1>7. Infixes(P, prec, first) = Continue[first]
  BY DEF Infixes, Continue, Body
<1>. QED BY <1>1, <1>6, <1>7

(* One level of the parser: it reads if the levels inside it do.           *)
Level(Q, n) ==
  [prec \in 0 .. 4 |-> [s \in ParseState |->
     IF n = 0 \/ s.depth + 1 > MaxDepth \/ Peek(s).type \notin PrefixTypes THEN Fail(s)
     ELSE Infixes(Q, prec, Leave(Prefix(Q, Enter(s))))]]

(* A level reads, without a token or with one.                             *)
LEMMA LevelReads ==
  ASSUME answer \in Fractions, NEW Q, NEW n \in Nat, n = 0 \/ Q \in Parsers
  PROVE  Level(Q, n) \in Parsers
<1>. DEFINE Result(prec, s) ==
              IF n = 0 \/ s.depth + 1 > MaxDepth \/ Peek(s).type \notin PrefixTypes THEN Fail(s)
              ELSE Infixes(Q, prec, Leave(Prefix(Q, Enter(s))))
<1>1. ASSUME NEW prec \in 0 .. 4, NEW s \in ParseState
      PROVE  Reads(prec, s, Result(prec, s))
  <2>1. CASE n = 0 \/ s.depth + 1 > MaxDepth \/ Peek(s).type \notin PrefixTypes
    <3>1. Result(prec, s) = Fail(s)
      BY <2>1
    <3>2. Follows(<<>>, s, Fail(s))
      BY FollowsItself, Returns
    <3>3. Fail(s).ok = FALSE
      BY DEF Fail, ParseState
    <3>. HIDE DEF Result
    <3>. QED BY <3>1, <3>2, <3>3 DEF Reads
  <2>2. CASE ~(n = 0 \/ s.depth + 1 > MaxDepth \/ Peek(s).type \notin PrefixTypes)
    <3>. DEFINE f == Leave(Prefix(Q, Enter(s)))
                r == Infixes(Q, prec, f)
    <3>1. Q \in Parsers /\ Peek(s).type \in PrefixTypes
      BY <2>2
    <3>2. s.depth + 1 <= MaxDepth
      <4>1. s.depth \in Nat /\ MaxDepth \in Nat /\ ~(s.depth + 1 > MaxDepth)
        BY <2>2, StateFields, BudgetIsPositive
      <4>. QED BY <4>1
    <3>3. Follows(<<>>, s, f) /\ f.pos > s.pos /\ f \in ParseState
      <4>1. Follows(<<>>, s, f) /\ f.pos > s.pos
        BY <3>1, <3>2, OperandFollows
      <4>. QED BY <4>1 DEF Follows, Moves
    <3>4. Result(prec, s) = r
      BY <2>2
    <3>. HIDE DEF f
    <3>5. Continues(prec, f, r)
      BY <3>1, <3>3, InfixesFollow
    <3>. HIDE DEF r, Result
    <3>6. CASE ~f.ok
      <4>1. r = Fail(f) /\ Follows(<<>>, s, Fail(f))
        BY <3>3, <3>5, <3>6, Returns DEF Continues
      <4>2. Fail(f).ok = FALSE
        BY <3>3 DEF Fail, ParseState
      <4>. QED BY <3>4, <4>1, <4>2 DEF Reads
    <3>7. CASE f.ok
      <4>1. Follows(<<>>, s, r)
        BY <3>3, <3>5, <3>7, FollowsOn DEF Continues
      <4>2. r.pos >= f.pos /\ r \in ParseState
        BY <3>5 DEF Continues, Follows, Moves
      <4>3. r.pos > s.pos
        <5>1. r.pos \in Nat /\ f.pos \in Nat /\ s.pos \in Nat
          BY <3>3, <4>2, StateFields
        <5>. QED BY <3>3, <4>2, <5>1
      <4>. QED BY <3>4, <3>5, <4>1, <4>3 DEF Reads, Continues
    <3>. QED BY <3>6, <3>7
  <2>. QED BY <2>1, <2>2
<1>2. Level(Q, n) = [prec \in 0 .. 4 |-> [s \in ParseState |-> Result(prec, s)]]
  BY DEF Level
<1>. HIDE DEF Result
<1>3. \A prec \in 0 .. 4 : \A s \in ParseState : Result(prec, s) \in ParseState
  BY <1>1 DEF Reads, Follows, Moves
<1>. QED BY <1>1, <1>2, <1>3 DEF Parsers

(* The parser is a definition, and each of its levels keeps the contract.  *)
LEMMA ParseIsLevels ==
  ASSUME answer \in Fractions
  PROVE  /\ Parse \in [Nat -> Parsers]
         /\ \A n \in Nat : Parse[n] = Level(Parse[n - 1], n)
<1>. DEFINE Rhs(f) == [n \in Nat |-> Level(f[n - 1], n)]
            R == Parsers
            S == [Nat -> R]
            next == [f \in S |-> Rhs(f)]
<1>1. ASSUME NEW f, NEW n \in Nat, n = 0 \/ f[n - 1] \in R
      PROVE  Rhs(f)[n] \in R
  BY <1>1, LevelReads
<1>2. \A f \in S : Rhs(f) \in S
  <2>. SUFFICES ASSUME NEW f \in S, NEW n \in Nat PROVE Rhs(f)[n] \in R
    OBVIOUS
  <2>1. n = 0 \/ f[n - 1] \in R
    <3>. HIDE DEF R
    <3>1. n # 0 => n - 1 \in Nat
      OBVIOUS
    <3>. QED BY <3>1
  <2>. HIDE DEF R
  <2>. QED BY <1>1, <2>1
<1>3. R # {}
  <2>1. Level(0, 0) \in R
    BY LevelReads
  <2>. QED BY <2>1
<1>4. \A Q : Level(Q, 0) = Level(0, 0)
  BY DEF Level
<1>. HIDE DEF R
<1>5. \E f : IsFixed(f, next, Nat, R)
  <2>1. next \in [S -> S]
    <3>. HIDE DEF Rhs
    <3>. QED BY <1>2
  <2>2. ASSUME NEW f \in S, NEW g \in S, NEW n \in Nat, n = 0 \/ f[n - 1] = g[n - 1]
        PROVE  next[f][n] = next[g][n]
    BY <1>4, <2>2
  <2>. HIDE DEF next
  <2>3. StepsUp(next, R)
    BY <2>1, <2>2 DEF StepsUp
  <2>. QED BY <1>3, <2>3, PrimitiveRecursion
<1>6. Parse = Rhs(Parse)
  <2>. DEFINE F == CHOOSE f : f = Rhs(f)
  <2>1. F = Rhs(F)
    <3>1. \E f : f = Rhs(f)
      <4>. HIDE DEF Rhs
      <4>. QED BY <1>2, <1>5 DEF IsFixed
    <3>. HIDE DEF Rhs
    <3>. QED BY <3>1
  <2>2. Parse = F
    BY DEF Parse, Level
  <2>. HIDE DEF F, Rhs
  <2>. QED BY <2>1, <2>2
<1>7. \A n \in Nat : Parse[n] = Level(Parse[n - 1], n)
  <2>. DEFINE F == Parse
  <2>1. F = Rhs(F)
    BY <1>6
  <2>. HIDE DEF F
  <2>2. \A n \in Nat : F[n] = Level(F[n - 1], n)
    BY <2>1
  <2>. QED BY <2>2 DEF F
<1>8. \A n \in Nat : Parse[n] \in R
  <2>. DEFINE F == Parse
              T == {n \in Nat : F[n] \in R}
  <2>1. F = Rhs(F)
    BY <1>6
  <2>. HIDE DEF F, Rhs
  <2>2. \A n \in Nat : n = 0 \/ F[n - 1] \in R => F[n] \in R
    BY <1>1, <2>1
  <2>3. 0 \in T
    BY <2>2
  <2>4. \A n \in Nat : n \in T => n + 1 \in T
    <3>. TAKE n \in Nat
    <3>1. (n + 1) - 1 = n /\ n + 1 \in Nat
      OBVIOUS
    <3>. QED BY <2>2, <3>1
  <2>5. \A n \in Nat : n \in T
    <3>. HIDE DEF T
    <3>. QED BY <2>3, <2>4, SetInduction
  <2>. QED BY <2>5 DEF F
<1>9. Parse \in [Nat -> R]
  <2>. DEFINE F == Parse
  <2>1. F = Rhs(F) /\ \A n \in Nat : F[n] \in R
    BY <1>6, <1>8
  <2>. HIDE DEF F
  <2>2. F \in [Nat -> R]
    BY <2>1
  <2>. QED BY <2>2 DEF F
<1>. QED BY <1>7, <1>9 DEF R

-------------------------------------------------------------------------------
(* The session. *)

Typed ==
  /\ TableOK(symbols)
  /\ divZero \in BOOLEAN
  /\ answer \in Fractions
  /\ last \in [line : Seq(Tokens), ok : BOOLEAN, val : Fractions, trap : BOOLEAN, deepest : Nat]

Started(flag) ==
  [toks |-> <<>>, pos |-> 1, ok |-> TRUE, val |-> Zero, table |-> symbols,
   divZero |-> flag, trap |-> FALSE, depth |-> 0, outer |-> 0, deepest |-> 0]

(* What the parse of a line leaves: the contract, from the line's start.   *)
LEMMA LineKeeps ==
  ASSUME Typed, NEW line \in Seq(Tokens), NEW flag \in BOOLEAN
  PROVE  /\ Parsed(line, flag) \in ParseState
         /\ Keeps(AssignedIn(line), Started(flag), Parsed(line, flag))
<1>. DEFINE s == Started(flag)
<1>1. Parse[Len(line)] \in Parsers
  <2>1. Len(line) \in Nat
    OBVIOUS
  <2>. QED BY <2>1, ParseIsLevels DEF Typed
<1>2. s \in ParseState
  <2>1. symbols \in Seq(Symbol) /\ <<>> \in Seq(Tokens) /\ Zero \in Fractions
    BY ArithmeticIsClosed DEF Typed, TableOK
  <2>. QED BY <2>1 DEF Started, ParseState
<1>3. /\ s.toks = <<>> /\ s.pos = 1 /\ s.ok = TRUE /\ s.table = symbols /\ s.trap = FALSE
      /\ s.depth = 0 /\ s.outer = 0 /\ s.deepest = 0
  BY DEF Started
<1>4. Parsed(line, flag) = ParseExpression(Parse[Len(line)], line, s)
  BY DEF Parsed, Started
<1>. HIDE DEF s
<1>5. Sound(s) /\ s.outer + s.depth = 0
  BY <1>3, BudgetIsPositive DEF Sound, Typed
<1>6. /\ Moves(s, Parsed(line, flag))
      /\ Keeps(AssignedIn(line), s, Parsed(line, flag))
  BY <1>1, <1>2, <1>4, <1>5, ParseExpressionKeeps
<1>. QED BY <1>6 DEF Moves, s

(* The same for a step of the session that parses a line.                  *)
LEMMA OutcomeKeeps ==
  ASSUME Typed, NEW line \in Seq(Tokens), NEW flag \in BOOLEAN,
         Outcome(line, Parsed(line, flag))
  PROVE  /\ TableOK(symbols') /\ divZero' \in BOOLEAN
         /\ last' \in [line : Seq(Tokens), ok : BOOLEAN, val : Fractions, trap : BOOLEAN,
                       deepest : Nat]
         /\ last'.line = line
         /\ \A x : Defined(symbols, x) => Defined(symbols', x)
         /\ ~last'.trap =>
              \A x \in Names \ AssignedIn(line) : Meaning(symbols', x) = Meaning(symbols, x)
         /\ divZero' => flag \/ ~last'.ok
         /\ last'.deepest <= Budget
<1>. DEFINE r == Parsed(line, flag)
            s == Started(flag)
<1>1. r \in ParseState /\ Keeps(AssignedIn(line), s, r)
  BY LineKeeps
<1>2. s.table = symbols /\ s.divZero = flag
  BY DEF Started
<1>3. /\ symbols' = r.table /\ divZero' = r.divZero
      /\ last' = [line |-> line, ok |-> r.ok, val |-> r.val, trap |-> r.trap,
                  deepest |-> r.deepest]
  BY DEF Outcome
<1>. HIDE DEF r, s
<1>4. /\ r.ok \in BOOLEAN /\ r.val \in Fractions /\ r.trap \in BOOLEAN /\ r.deepest \in Nat
      /\ r.divZero \in BOOLEAN
  BY <1>1, StateFields
<1>5. /\ TableOK(r.table)
      /\ \A x : Defined(s.table, x) => Defined(r.table, x)
      /\ ~r.trap => \A x \in Names \ AssignedIn(line) : Meaning(r.table, x) = Meaning(s.table, x)
      /\ r.divZero => s.divZero \/ ~r.ok
      /\ r.deepest <= Budget
  BY <1>1 DEF Keeps
<1>. QED BY <1>2, <1>3, <1>4, <1>5

Session == Typed /\ last.deepest <= Budget

(* A step parses a line or begins anew.                                    *)
LEMMA SessionSteps ==
  ASSUME Typed, [Next(Seq(Tokens), Seq(Tokens))]_vars
  PROVE  \/ /\ \E line \in Seq(Tokens), flag \in BOOLEAN :
                 Outcome(line, Parsed(line, flag)) /\ (flag => divZero)
            /\ ~last.trap
            /\ answer' = answer \/ answer' = last'.val
         \/ UNCHANGED <<symbols, answer, last>> /\ divZero' \in {FALSE, divZero}
         \/ /\ last.trap /\ symbols' = <<>> /\ ~divZero' /\ divZero' \in BOOLEAN
            /\ answer' = Zero /\ last' = NoLine
<1>1. divZero \in BOOLEAN
  BY DEF Typed
<1>2. ASSUME NEW line \in Seq(Tokens), Evaluate(line)
      PROVE  \E flag \in BOOLEAN : /\ Outcome(line, Parsed(line, flag)) /\ (flag => divZero)
                                   /\ ~last.trap /\ answer' = answer
  BY <1>1, <1>2 DEF Evaluate
<1>3. ASSUME NEW line \in Seq(Tokens), EnterLine(line)
      PROVE  \E flag \in BOOLEAN : /\ Outcome(line, Parsed(line, flag)) /\ (flag => divZero)
                                   /\ ~last.trap
                                   /\ answer' = answer \/ answer' = last'.val
  <2>1. FALSE \in BOOLEAN /\ (FALSE => divZero)
    OBVIOUS
  <2>. QED BY <1>3, <2>1 DEF EnterLine
<1>4. CASE ClearFlags
  BY <1>4 DEF ClearFlags
<1>5. CASE Restart
  BY <1>5 DEF Restart
<1>6. CASE UNCHANGED vars
  BY <1>6 DEF vars
<1>. QED BY <1>2, <1>3, <1>4, <1>5, <1>6 DEF Next

(* Type correctness, with no name twice in the table and no more symbols   *)
(* than it has room for, after any lines and restarts; and the depth that   *)
(* the last line reached (Parser.c:263-289, 1214-1255).                    *)
THEOREM SessionInvariant == Spec => []Session
<1>1. Init => Session
  <2>. SUFFICES ASSUME Init PROVE Session
    OBVIOUS
  <2>1. Zero \in Fractions /\ <<>> \in Seq(Symbol) /\ <<>> \in Seq(Tokens) /\ Len(<<>>) = 0
    BY ArithmeticIsClosed
  <2>2. TableOK(<<>>)
    BY <2>1, ParserAssumption DEF TableOK
  <2>3. /\ NoLine \in [line : Seq(Tokens), ok : BOOLEAN, val : Fractions, trap : BOOLEAN,
                       deepest : Nat]
        /\ NoLine.deepest <= Budget
    BY <2>1, BudgetIsPositive DEF NoLine
  <2>. QED BY <2>1, <2>2, <2>3 DEF Init, Session, Typed
<1>2. Session /\ [Next(Seq(Tokens), Seq(Tokens))]_vars => Session'
  <2>. SUFFICES ASSUME Session, [Next(Seq(Tokens), Seq(Tokens))]_vars PROVE Session'
    OBVIOUS
  <2>. USE DEF Session
  <2>1. ASSUME NEW line \in Seq(Tokens), NEW flag \in BOOLEAN, Outcome(line, Parsed(line, flag)),
               answer' = answer \/ answer' = last'.val
        PROVE  Session'
    <3>1. /\ TableOK(symbols') /\ divZero' \in BOOLEAN
          /\ last' \in [line : Seq(Tokens), ok : BOOLEAN, val : Fractions, trap : BOOLEAN,
                        deepest : Nat]
          /\ last'.deepest <= Budget
      BY <2>1, OutcomeKeeps
    <3>2. answer' \in Fractions
      BY <2>1, <3>1 DEF Typed
    <3>. QED BY <3>1, <3>2 DEF Typed, Budget
  <2>2. CASE UNCHANGED <<symbols, answer, last>> /\ divZero' \in {FALSE, divZero}
    BY <2>2 DEF Typed, TableOK, Budget
  <2>3. CASE /\ symbols' = <<>> /\ divZero' \in BOOLEAN
             /\ answer' = Zero /\ last' = NoLine
    <3>1. Zero \in Fractions /\ <<>> \in Seq(Symbol) /\ <<>> \in Seq(Tokens) /\ Len(<<>>) = 0
      BY ArithmeticIsClosed
    <3>2. TableOK(<<>>)
      BY <3>1, ParserAssumption DEF TableOK
    <3>. QED BY <2>3, <3>1, <3>2, BudgetIsPositive DEF Typed, NoLine, Budget
  <2>. QED BY <2>1, <2>2, <2>3, SessionSteps
<1>. QED BY <1>1, <1>2, PTL DEF Spec

(* The stack: however solve and rk4 nest in one another, the calls of a      *)
(* prefix function that are active at once stay within the budget of one   *)
(* parse and one copied text.                                              *)
THEOREM StackIsBounded == Spec => []StackBudget
<1>1. Session => StackBudget
  BY DEF Session, StackBudget, Budget
<1>. QED BY <1>1, SessionInvariant, PTL

(* A division by zero anywhere, in a parse of solve or rk4 too, makes the   *)
(* line fail.                                                              *)
THEOREM ErrorsReported == Spec => ErrorsAreReported
<1>1. Session /\ [Next(Seq(Tokens), Seq(Tokens))]_vars
        => [divZero' /\ ~divZero => ~last'.ok]_vars
  <2>. SUFFICES ASSUME Session, [Next(Seq(Tokens), Seq(Tokens))]_vars, divZero', ~divZero
                PROVE  ~last'.ok
    OBVIOUS
  <2>1. Typed
    BY DEF Session
  <2>2. ASSUME NEW line \in Seq(Tokens), NEW flag \in BOOLEAN, Outcome(line, Parsed(line, flag)),
               flag => divZero
        PROVE  ~last'.ok
    BY <2>1, <2>2, OutcomeKeeps
  <2>. QED BY <2>1, <2>2, SessionSteps
<1>. QED BY <1>1, SessionInvariant, PTL DEF Spec, ErrorsAreReported

(* Where no prefix may stand there is nothing to read.                     *)
LEMMA NothingToRead ==
  ASSUME answer \in Fractions, NEW n \in Nat, NEW prec \in 0 .. 4, NEW s \in ParseState,
         Peek(s).type \notin PrefixTypes
  PROVE  Parse[n][prec][s] = Fail(s)
<1>. DEFINE Q == Parse[n - 1]
<1>1. Parse[n] = Level(Q, n)
  BY ParseIsLevels
<1>. HIDE DEF Q
<1>2. Level(Q, n)[prec][s] = Fail(s)
  BY DEF Level
<1>. QED BY <1>1, <1>2

(* The state before the "=" of a text that begins with "x =".              *)
Second(line, t) ==
  /\ t \in ParseState /\ t.toks = line /\ t.pos = 2 /\ t.outer = 0
  /\ Sound(t)

(* The operand of such a text: it ends there, or is an assignment of the    *)
(* value of its right side.                                                *)
FirstIs(line, w) ==
  \/ w.toks = line /\ w.pos = 2
  \/ \E r \in ParseState :
       /\ w = [r EXCEPT !.table = SetVariable(@, line[1].name, r.val)]
       /\ r.ok /\ Peek(r).type \notin InfixTypes
       /\ TableOK(r.table) /\ line[1].name \in Names

(* No other text that begins so has a prefix that succeeds.                *)
LEMMA FirstOperand ==
  ASSUME answer \in Fractions, NEW line \in Seq(Tokens), NEW m \in Nat,
         Len(line) > 1, line[2].type = "EQUALS",
         NEW e \in ParseState, e.toks = line, e.pos = 1, Second(line, Consume(e)),
         Peek(e).type \in PrefixTypes, Prefix(Parse[m], e).ok
  PROVE  FirstIs(line, Prefix(Parse[m], e))
<1>. DEFINE P == Parse[m]
            t == Consume(e)
            unary == P[UNARY][t]
            none == P[NONE][t]
<1>1. P \in Parsers
  BY ParseIsLevels
<1>2. Peek(t) = line[2] /\ t \in ParseState
  <2>1. Len(line) \in Nat
    OBVIOUS
  <2>2. t.toks = line /\ t.pos = 2 /\ t \in ParseState
    BY DEF Second
  <2>. HIDE DEF t
  <2>. QED BY <2>1, <2>2 DEF Peek
<1>3. Peek(e) = line[1]
  <2>1. Len(line) \in Nat
    OBVIOUS
  <2>. QED BY <2>1 DEF Peek
<1>4. Sees(t, "EQUALS") /\ Peek(t).type \notin PrefixTypes
  BY <1>2 DEF Sees, PrefixTypes
<1>5. unary = Fail(t) /\ none = Fail(t)
  <2>1. UNARY \in 0 .. 4 /\ NONE \in 0 .. 4
    BY DEF UNARY, NONE
  <2>. QED BY <1>2, <1>4, <2>1, NothingToRead
<1>6. Fail(t).ok = FALSE /\ Fail(t) \in ParseState
  BY <1>2, ArithmeticIsClosed DEF Fail, ParseState
<1>7. CASE Peek(e).type = "NUMBER"
  <2>1. Prefix(P, e) = Value(t, Peek(e).num)
    BY <1>7 DEF Prefix, Number, Sees
  <2>2. Value(t, Peek(e).num).toks = t.toks /\ Value(t, Peek(e).num).pos = t.pos
    BY <1>2 DEF Value, ParseState
  <2>. QED BY <2>1, <2>2 DEF Second, FirstIs
<1>8. CASE Peek(e).type = "MINUS"
  <2>1. Prefix(P, e) = Value(Fail(t), Neg(Fail(t).val))
    BY <1>5, <1>8 DEF Prefix, Unary, Sees
  <2>. DEFINE a == Fail(t)
  <2>. HIDE DEF a
  <2>2. Value(a, Neg(a.val)).ok = a.ok
    BY <1>6 DEF Value, ParseState, a
  <2>. QED BY <1>6, <2>1, <2>2 DEF a
<1>9. CASE Peek(e).type = "SQRT"
  <2>. DEFINE a == Fail(t)
  <2>1. Prefix(P, e) = IF Negative(a.val) THEN Fail(a) ELSE Value(a, Root(a.val))
    BY <1>5, <1>9 DEF Prefix, UnarySqrt, Sees
  <2>2. a.ok = FALSE /\ a \in ParseState
    BY <1>6
  <2>. HIDE DEF a
  <2>3. Value(a, Root(a.val)).ok = a.ok
    BY <2>2 DEF Value, ParseState
  <2>4. Fail(a).ok = FALSE
    BY <2>2 DEF Fail, ParseState
  <2>. QED BY <2>1, <2>2, <2>3, <2>4
<1>10. CASE Peek(e).type = "LPAREN"
  <2>. DEFINE a == Fail(t)
              c == Consume(a)
              q == [c EXCEPT !.ok = @ /\ Sees(a, "RPAREN")]
  <2>1. Prefix(P, e) = q
    BY <1>5, <1>10 DEF Prefix, Grouping, Sees
  <2>2. a.ok = FALSE /\ a \in ParseState
    BY <1>6
  <2>. HIDE DEF a
  <2>3. c.ok = a.ok /\ c \in ParseState
    <3>1. Follows(<<>>, a, a)
      BY <2>2, FollowsItself
    <3>2. Follows(<<>>, a, c) /\ c.ok = a.ok
      BY <2>2, <3>1, Consumes
    <3>. QED BY <3>2 DEF Follows, Moves
  <2>. HIDE DEF c
  <2>4. q.ok = FALSE
    BY <2>2, <2>3 DEF ParseState
  <2>. QED BY <2>1, <2>4
<1>11. CASE Peek(e).type = "IDENTIFIER"
  <2>. DEFINE x == Peek(e).name
              u == Consume(t)
              r == P[NONE][u]
              q == [r EXCEPT !.table = SetVariable(@, x, r.val)]
  <2>1. Prefix(P, e) = Identifier(P, e) /\ Sees(e, "IDENTIFIER") /\ x \in Names
    <3>1. Prefix(P, e) = Identifier(P, e) /\ Sees(e, "IDENTIFIER")
      BY <1>11 DEF Prefix, Sees
    <3>. QED BY <3>1, PeekIsToken
  <2>2. Identifier(P, e) = Assignment(P, x, u)
    BY <1>4 DEF Identifier, Sees
  <2>3. Assignment(P, x, u) = IF r.ok THEN q ELSE r
    BY DEF Assignment, Then
  <2>4. Follows(<<>>, t, u) /\ u.ok = t.ok /\ u \in ParseState
    <3>1. Follows(<<>>, t, u) /\ u.ok = t.ok
      BY <1>2, FollowsItself, Consumes
    <3>. QED BY <3>1 DEF Follows, Moves
  <2>. HIDE DEF u
  <2>5. NONE \in 0 .. 4
    BY DEF NONE
  <2>6. Reads(NONE, u, r) /\ r \in ParseState
    BY <1>1, <2>4, <2>5 DEF Parsers
  <2>7. Follows(<<>>, t, r)
    BY <1>1, <1>2, <2>4, <2>5, ParsesOn
  <2>8. TableOK(r.table)
    <3>1. Sound(t)
      BY DEF Second
    <3>2. Nests(t, <<>>)
      BY <1>2, <3>1, NothingNestsIn
    <3>. QED BY <2>7, <3>1, <3>2 DEF Follows, Keeps
  <2>. HIDE DEF r
  <2>9. r.ok /\ Prefix(P, e) = q
    BY <2>1, <2>2, <2>3
  <2>. QED BY <1>3, <2>1, <2>6, <2>8, <2>9 DEF Reads, FirstIs
<1>. QED BY <1>7, <1>8, <1>9, <1>10, <1>11 DEF PrefixTypes

(* After "x = ..." x has the line's value, unless the table was full.      *)
LEMMA AssignmentShows ==
  ASSUME Typed, NEW line \in Seq(Tokens), NEW flag \in BOOLEAN,
         Len(line) > 1, line[2].type = "EQUALS", Parsed(line, flag).ok
  PROVE  \/ Meaning(Parsed(line, flag).table, line[1].name) = {Parsed(line, flag).val}
         \/ /\ Meaning(symbols, line[1].name) = {}
            /\ Len(Parsed(line, flag).table) = MaxSymbols
<1>. DEFINE n == Len(line)
            s == Started(flag)
            i == Begun(line, s)
            P == Parse[n - 1]
            q == Parse[n][NONE][i]
            z == Parsed(line, flag)
            e == [i EXCEPT !.depth = 1, !.deepest = 1]
            w == Prefix(P, e)
            f == Leave(w)
<1>1. n \in Nat /\ n - 1 \in Nat /\ n > 1
  OBVIOUS
<1>2. answer \in Fractions /\ symbols \in Seq(Symbol) /\ TableOK(symbols)
  BY DEF Typed, TableOK
<1>3. s \in ParseState /\ s.table = symbols /\ s.depth = 0 /\ s.outer = 0 /\ s.deepest = 0
      /\ s.trap = FALSE
  <2>1. <<>> \in Seq(Tokens) /\ Zero \in Fractions
    BY ArithmeticIsClosed
  <2>. QED BY <1>2, <2>1 DEF Started, ParseState
<1>. HIDE DEF s
<1>4. /\ i \in ParseState
      /\ i.toks = line /\ i.pos = 1 /\ i.ok = TRUE /\ i.depth = 0 /\ i.outer = 0
      /\ i.table = symbols /\ i.trap = FALSE /\ i.deepest = 0
  <2>1. /\ i \in ParseState
        /\ i.toks = line /\ i.pos = 1 /\ i.ok = TRUE /\ i.depth = 0 /\ i.outer = s.outer + s.depth
        /\ i.table = s.table /\ i.trap = s.trap /\ i.deepest = s.deepest
    BY <1>3, TextBegins DEF Begins
  <2>. HIDE DEF i
  <2>. QED BY <1>3, <2>1
<1>5. P \in Parsers /\ Parse[n] = Level(P, n) /\ Parse[n] \in Parsers
  BY <1>1, <1>2, ParseIsLevels
<1>6. q \in ParseState
  <2>1. NONE \in 0 .. 4
    BY DEF NONE
  <2>. DEFINE F == Parse[n]
              k == i
  <2>2. F \in Parsers /\ k \in ParseState
    BY <1>4, <1>5
  <2>. HIDE DEF F, k
  <2>3. F[NONE][k] \in ParseState
    BY <2>1, <2>2 DEF Parsers
  <2>. QED BY <2>3 DEF F, k
<1>7. z = [q EXCEPT !.ok = @ /\ Sees(q, "EOF"), !.toks = s.toks, !.pos = s.pos,
                    !.depth = s.depth, !.outer = s.outer]
  <2>1. z = ParseExpression(Parse[n], line, s)
    BY DEF Parsed, Started, s
  <2>. HIDE DEF n, z
  <2>. QED BY <2>1 DEF ParseExpression, Begun
<1>. HIDE DEF i
<1>8. q.ok /\ Sees(q, "EOF") /\ z.val = q.val /\ z.table = q.table
  <2>. HIDE DEF q, s
  <2>1. z.ok = (q.ok /\ Sees(q, "EOF")) /\ z.val = q.val /\ z.table = q.table
    BY <1>6, <1>7 DEF ParseState
  <2>. QED BY <2>1
<1>9. /\ Peek(i).type \in PrefixTypes /\ i.depth + 1 <= MaxDepth
      /\ q = Infixes(P, NONE, Leave(Prefix(P, Enter(i))))
  <2>1. NONE \in 0 .. 4
    BY DEF NONE
  <2>. DEFINE Q == P
              N == n
  <2>. HIDE DEF Q, N
  <2>2. Level(Q, N)[NONE][i]
          = IF N = 0 \/ i.depth + 1 > MaxDepth \/ Peek(i).type \notin PrefixTypes THEN Fail(i)
            ELSE Infixes(Q, NONE, Leave(Prefix(Q, Enter(i))))
    <3>. HIDE DEF i
    <3>. QED BY <1>4, <2>1 DEF Level
  <2>3. q = Level(Q, N)[NONE][i]
    BY <1>5 DEF Q, N
  <2>4. Fail(i).ok = FALSE
    <3>. HIDE DEF i
    <3>. QED BY <1>4 DEF Fail, ParseState
  <2>5. i.depth \in Nat /\ MaxDepth \in Nat
    BY <1>4, BudgetIsPositive
  <2>. HIDE DEF q
  <2>6. ~(N = 0 \/ i.depth + 1 > MaxDepth \/ Peek(i).type \notin PrefixTypes)
    BY <1>8, <2>2, <2>3, <2>4
  <2>. QED BY <2>2, <2>3, <2>5, <2>6 DEF Q
<1>10. Enter(i) = e
  <2>1. 0 + 0 + 1 = 1 /\ 1 > 0 /\ 0 + 1 = 1
    OBVIOUS
  <2>2. i.outer + i.depth + 1 = 1
    BY <1>4
  <2>. QED BY <1>4, <2>1, <2>2 DEF Enter
<1>11. e \in ParseState /\ e.toks = line /\ e.pos = 1
  BY <1>4 DEF ParseState
<1>12. Peek(e) = Peek(i)
  BY <1>4, <1>11 DEF Peek
<1>13. Second(line, Consume(e))
  <2>. DEFINE c == [e EXCEPT !.pos = 2]
  <2>1. Consume(e) = c
    <3>1. ~Sees(e, "EOF")
      BY <1>9, <1>12 DEF Sees, PrefixTypes
    <3>2. Consume(e) = [e EXCEPT !.pos = @ + 1]
      BY <3>1 DEF Consume
    <3>3. 1 + 1 = 2
      OBVIOUS
    <3>. HIDE DEF e
    <3>. QED BY <1>11, <3>2, <3>3
  <2>2. c \in ParseState
    <3>. HIDE DEF e
    <3>. QED BY <1>11 DEF ParseState
  <2>3. /\ c.toks = line /\ c.pos = 2 /\ c.ok = TRUE /\ c.table = symbols /\ c.trap = FALSE
        /\ c.depth = 1 /\ c.outer = 0 /\ c.deepest = 1
    BY <1>4 DEF ParseState
  <2>4. 2 <= Len(line) + 1 /\ 1 <= Budget /\ 1 <= MaxDepth
    BY <1>1, BudgetIsPositive, ParserAssumption
  <2>. HIDE DEF c
  <2>5. Sound(c)
    BY <1>2, <2>3, <2>4 DEF Sound
  <2>. QED BY <2>1, <2>2, <2>3, <2>5 DEF Second
<1>. HIDE DEF z, q
<1>14. /\ f \in ParseState /\ (f.ok => w.ok) /\ q = Infixes(P, NONE, f)
  <2>. DEFINE k == i
  <2>1. k \in ParseState /\ k.depth + 1 <= MaxDepth /\ Peek(k).type \in PrefixTypes
    BY <1>4, <1>9
  <2>2. Enter(k) = e
    BY <1>10
  <2>. HIDE DEF k, e, P
  <2>3. Follows(<<>>, k, f) /\ (f.ok => w.ok)
    BY <1>2, <1>5, <2>1, <2>2, OperandFollows
  <2>. QED BY <1>9, <1>10, <2>3 DEF Follows, Moves
<1>. HIDE DEF e, P, n
<1>15. Continues(NONE, f, q)
  <2>1. NONE \in 0 .. 4
    BY DEF NONE
  <2>. HIDE DEF f
  <2>. QED BY <1>5, <1>14, <2>1, InfixesFollow
<1>16. f.ok /\ w.ok /\ (Peek(f).type \notin InfixTypes => q = f)
  <2>. HIDE DEF f, w
  <2>1. Fail(f).ok = FALSE
    BY <1>14 DEF Fail, ParseState
  <2>. QED BY <1>8, <1>14, <1>15, <2>1 DEF Continues
<1>17. FirstIs(line, w)
  <2>1. Peek(e).type \in PrefixTypes
    BY <1>9, <1>12
  <2>. DEFINE m == n - 1
  <2>2. m \in Nat /\ w = Prefix(Parse[m], e)
    BY <1>1 DEF P
  <2>3. Prefix(Parse[m], e).ok
    BY <1>16, <2>2
  <2>. HIDE DEF w, m
  <2>. QED BY <1>2, <1>11, <1>13, <2>1, <2>2, <2>3, FirstOperand
<1>18. CASE w.toks = line /\ w.pos = 2
  <2>1. f.toks = w.toks /\ f.pos = w.pos
    <3>. HIDE DEF w
    <3>. QED BY DEF Leave
  <2>2. Peek(f) = line[2]
    BY <1>1, <1>18, <2>1 DEF Peek, n
  <2>3. Peek(f).type \notin InfixTypes /\ ~Sees(f, "EOF")
    BY <2>2 DEF InfixTypes, Sees
  <2>. QED BY <1>8, <1>16, <2>3
<1>19. ASSUME NEW r \in ParseState,
              w = [r EXCEPT !.table = SetVariable(@, line[1].name, r.val)],
              Peek(r).type \notin InfixTypes, TableOK(r.table), line[1].name \in Names
       PROVE  \/ Meaning(z.table, line[1].name) = {z.val}
              \/ Meaning(symbols, line[1].name) = {} /\ Len(z.table) = MaxSymbols
  <2>. DEFINE x == line[1].name
              u == SetVariable(r.table, x, r.val)
  <2>1. /\ f.toks = r.toks /\ f.pos = r.pos /\ f.val = r.val /\ f.table = u
    <3>. HIDE DEF w
    <3>. QED BY <1>19 DEF Leave, ParseState
  <2>2. Peek(f) = Peek(r)
    BY <2>1 DEF Peek
  <2>3. q = f /\ z.val = r.val /\ z.table = u
    BY <1>8, <1>16, <1>19, <2>1, <2>2
  <2>4. /\ TableOK(u)
        /\ Meaning(u, x) = {r.val} \/ (Meaning(r.table, x) = {} /\ u = r.table /\ Len(u) = MaxSymbols)
    <3>1. r.table \in Seq(Symbol) /\ r.val \in Fractions
      BY StateFields
    <3>. QED BY <1>19, <3>1, SetVariableWorks
  <2>5. Defined(symbols, x) => Defined(z.table, x)
    <3>1. Keeps(AssignedIn(line), Started(flag), z)
      BY LineKeeps DEF z
    <3>2. Started(flag).table = symbols
      BY DEF Started
    <3>. QED BY <3>1, <3>2 DEF Keeps
  <2>6. Meaning(symbols, x) # {} => Meaning(u, x) # {}
    BY <1>2, <2>3, <2>4, <2>5, MeaningIsUnique
  <2>. QED BY <2>3, <2>4, <2>6
<1>. QED BY <1>17, <1>18, <1>19 DEF z, FirstIs

(* solve and rk4 give their variables back, and "x = ..." sets x.          *)
THEOREM OnlyAssignedChanges == Spec => OnlyAssignedChange
<1>1. Session /\ [Next(Seq(Tokens), Seq(Tokens))]_vars
        => [LET line == last'.line IN
            /\ ~last.trap /\ ~last'.trap =>
                 \A x \in Names \ AssignedIn(line) : Meaning(symbols', x) = Meaning(symbols, x)
            /\ last' # last /\ last'.ok /\ Len(line) > 1 /\ line[2].type = "EQUALS" =>
                 \/ Meaning(symbols', line[1].name) = {last'.val}
                 \/ Meaning(symbols, line[1].name) = {} /\ Len(symbols') = MaxSymbols]_vars
  <2>. SUFFICES ASSUME Session, [Next(Seq(Tokens), Seq(Tokens))]_vars
                PROVE  LET line == last'.line IN
            /\ ~last.trap /\ ~last'.trap =>
                 \A x \in Names \ AssignedIn(line) : Meaning(symbols', x) = Meaning(symbols, x)
            /\ last' # last /\ last'.ok /\ Len(line) > 1 /\ line[2].type = "EQUALS" =>
                 \/ Meaning(symbols', line[1].name) = {last'.val}
                 \/ Meaning(symbols, line[1].name) = {} /\ Len(symbols') = MaxSymbols
    OBVIOUS
  <2>. DEFINE L == last'.line
              Same == ~last.trap /\ ~last'.trap =>
                        \A x \in Names \ AssignedIn(L) : Meaning(symbols', x) = Meaning(symbols, x)
              Shown == last' # last /\ last'.ok /\ Len(L) > 1 /\ L[2].type = "EQUALS" =>
                         \/ Meaning(symbols', L[1].name) = {last'.val}
                         \/ Meaning(symbols, L[1].name) = {} /\ Len(symbols') = MaxSymbols
  <2>. SUFFICES Same /\ Shown
    OBVIOUS
  <2>1. Typed
    BY DEF Session
  <2>2. ASSUME NEW line \in Seq(Tokens), NEW flag \in BOOLEAN, Outcome(line, Parsed(line, flag))
        PROVE  Same /\ Shown
    <3>. DEFINE r == Parsed(line, flag)
    <3>1. /\ L = line
          /\ ~last'.trap =>
               \A x \in Names \ AssignedIn(line) : Meaning(symbols', x) = Meaning(symbols, x)
      BY <2>1, <2>2, OutcomeKeeps
    <3>2. symbols' = r.table /\ last'.ok = r.ok /\ last'.val = r.val
      BY <2>2 DEF Outcome
    <3>3. Len(line) > 1 /\ line[2].type = "EQUALS" /\ r.ok =>
            \/ Meaning(r.table, line[1].name) = {r.val}
            \/ Meaning(symbols, line[1].name) = {} /\ Len(r.table) = MaxSymbols
      BY <2>1, AssignmentShows
    <3>. HIDE DEF r, L
    <3>. QED BY <3>1, <3>2, <3>3
  <2>3. CASE UNCHANGED <<symbols, answer, last>>
    BY <2>3
  <2>4. CASE last.trap /\ last' = NoLine
    <3>1. L = <<>> /\ Len(<<>>) = 0
      BY <2>4 DEF NoLine
    <3>. QED BY <2>4, <3>1
  <2>. HIDE DEF Same, Shown
  <2>. QED BY <2>1, <2>2, <2>3, <2>4, SessionSteps
<1>. QED BY <1>1, SessionInvariant, PTL DEF Spec, OnlyAssignedChange
===============================================================================
