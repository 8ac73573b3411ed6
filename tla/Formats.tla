------------------------------- MODULE Formats --------------------------------
(***************************************************************************)
(* Numbers as texts (Application/Output): print_int, print_float, and      *)
(* format_string with its directives and its commas.  A text is a sequence *)
(* of characters, each a string.  A value is a fraction; one without a     *)
(* denominator is NaN, Inf or -Inf, by the sign of its numerator.          *)
(* Then the configuration, which is read from a text.                      *)
(***************************************************************************)
EXTENDS Fraction, Sequences, SequencesExt

CONSTANTS
  LongRange,   (* of the arguments ll: 2^64                                *)
  UIntRange,   (* of the others: 2^32                                      *)
  Precision,   (* decimals of %f: 6                                        *)
  LargeFrom,   (* from here on in scientific notation: 1e16                *)
  SmallBelow   (* and below here: 1e-9                                     *)

LowerNumerals ==
  <<"0", "1", "2", "3", "4", "5", "6", "7", "8", "9", "a", "b", "c", "d", "e", "f", "g", "h",
    "i", "j", "k", "l", "m", "n", "o", "p", "q", "r", "s", "t", "u", "v", "w", "x", "y", "z">>
UpperNumerals ==
  SubSeq(LowerNumerals, 1, 10) \o
  <<"A", "B", "C", "D", "E", "F", "G", "H", "I", "J", "K", "L", "M", "N", "O", "P", "Q", "R",
    "S", "T", "U", "V", "W", "X", "Y", "Z">>
Decimals == {LowerNumerals[i] : i \in 1 .. 10}

(* Only base ten has negative numbers; the others show the whole word.     *)
PrintInt(val, base, uppercase) ==
  LET numerals == IF uppercase THEN UpperNumerals ELSE LowerNumerals
      Shown[n \in Nat] ==
        (IF n < base THEN <<>> ELSE Shown[n \div base]) \o <<numerals[(n % base) + 1]>>
      negative == val < 0 /\ base = 10
  IN  IF base \notin 2 .. 36 THEN <<>>
      ELSE (IF negative THEN <<"-">> ELSE <<>>) \o Shown[IF negative THEN -val ELSE val % LongRange]

-------------------------------------------------------------------------------
(* print_float. *)

LOCAL Sized(x) == IF Negative(x) THEN Neg(x) ELSE x
LOCAL Minused(x) == IF Negative(x) THEN <<"-">> ELSE <<>>
TenthsTo(p) == Fraction(1, 10 ^ p)

(* Rounded half up at the last decimal. *)
PrintFixed(val, precision) ==
  LET v == Plus(Sized(val), Times(Fraction(1, 2), TenthsTo(precision)))
      Decimal(i) == LowerNumerals[(Truncated(Times(v, Num(10 ^ i))) % 10) + 1]
  IN  Minused(val) \o PrintInt(Truncated(v), 10, FALSE)
        \o (IF precision = 0 THEN <<>> ELSE <<".">> \o [i \in 1 .. precision |-> Decimal(i)])

(* The mantissa from one up to ten, and the exponent. *)
Mantissa[x \in Fractions, e \in Int] ==
  CASE ~Less(x, Num(10)) -> Mantissa[Over(x, Num(10)), e + 1]
    [] Less(x, One)      -> Mantissa[Times(x, Num(10)), e - 1]
    [] OTHER             -> [value |-> x, exponent |-> e]

(* Mutant: a mantissa that rounds up to ten keeps its exponent. *)
MutRenormalized(m, precision) == m

Renormalized(m, precision) ==
  IF IsPrefix(<<"1", "0">>, PrintFixed(m.value, precision))
    THEN [value |-> One, exponent |-> m.exponent + 1] ELSE m

LOCAL MantissaText(m, precision) ==
  PrintFixed(m.value, precision) \o <<"e", IF m.exponent < 0 THEN "-" ELSE "+">>
    \o PrintInt(IF m.exponent < 0 THEN -m.exponent ELSE m.exponent, 10, FALSE)
PrintScientific(val, precision) ==
  Minused(val) \o MantissaText(Renormalized(Mantissa[Sized(val), 0], precision), precision)

Infinite(sign) == [n |-> sign, d |-> 0]

PrintFloat(val, precision) ==
  CASE val = Inexact      -> <<"N", "a", "N">>
    [] val = Infinite(1)  -> <<"I", "n", "f">>
    [] val = Infinite(-1) -> <<"-", "I", "n", "f">>
    [] OTHER ->
         IF ~Less(Sized(val), LargeFrom) \/ (val # Zero /\ Less(Sized(val), SmallBelow))
           THEN PrintScientific(val, precision) ELSE PrintFixed(val, precision)

-------------------------------------------------------------------------------
(* format_string. *)

(* Commas in the whole part; the texts of numbers are never too long for   *)
(* the buffer.                                                             *)
WithCommas(text) ==
  LET first == IF Head(text) = "-" THEN 2 ELSE 1
      whole == {i \in first .. Len(text) : \A j \in first .. i : text[j] \in Decimals}
      left(i) == Cardinality({j \in whole : j > i})
      Marked(i) ==
        IF i \in whole /\ left(i) > 0 /\ left(i) % 3 = 0 THEN <<text[i], ",">> ELSE <<text[i]>>
  IN  FlattenSeq([i \in DOMAIN text |-> Marked(i)])

(* An argument has an int, a text and a real, and is read as one of them.  *)
(* The unsigned ones are handed on as signed ones.                         *)
AsSigned(w) == IF w < LongRange \div 2 THEN w ELSE w - LongRange
Unsigned(i, long) == AsSigned(i % (IF long THEN LongRange ELSE UIntRange))

TakesArgument == {"c", "s", "d", "i", "u", "x", "X", "f"}

Expansion(directive, long, arg) ==
  CASE directive = "%"        -> <<"%">>
    [] directive = "c"        -> <<arg.text[1]>>
    [] directive = "s"        -> arg.text
    [] directive \in {"x", "X"} -> PrintInt(Unsigned(arg.int, long), 16, directive = "X")
    [] directive \in {"d", "i", "u", "f"} ->
         WithCommas(IF directive = "f" THEN PrintFloat(arg.real, Precision)
                    ELSE PrintInt(IF directive = "u" THEN Unsigned(arg.int, long) ELSE arg.int, 10, FALSE))
    [] OTHER                  -> IF long THEN <<"%">> ELSE <<"%", directive>>

(* What fits in front of the terminator, so that nothing is written behind *)
(* a full buffer.  A directive without a case of its own, such as one with *)
(* a width or a precision, is copied and takes no argument.                *)
FormatString(size, fmt, args) ==
  LET Fitted(out) == SubSeq(out, 1, IF Len(out) < size THEN Len(out) ELSE size - 1)
      From[at \in Nat, k \in Nat, out \in Seq(STRING)] ==
        LET long == IsPrefix(<<"l", "l">>, SubSeq(fmt, at + 1, Len(fmt)))
            d == IF long THEN at + 3 ELSE at + 1
        IN  IF at > Len(fmt) \/ Len(out) >= size - 1 THEN out
            ELSE IF fmt[at] # "%" THEN From[at + 1, k, Append(out, fmt[at])]
            ELSE IF d > Len(fmt) THEN out
            ELSE LET takes == fmt[d] \in TakesArgument
                     arg == IF takes THEN args[k] ELSE <<>>
                 IN  From[d + 1, IF takes THEN k + 1 ELSE k, Fitted(out \o Expansion(fmt[d], long, arg))]
  IN  IF size = 0 THEN <<>> ELSE From[1, 1, <<>>]

-------------------------------------------------------------------------------
(* The configuration (Infrastructure/Config/ConfigParser.c): lines of keys *)
(* and numbers, with comments and section headers, read into a record.     *)

CONSTANTS
  FieldOf,   (* the field each of the six keys names, keys being texts     *)
  FieldRange (* of each field: 2^8 for the switches, 2^32 for the others   *)

Ends == {"newline", "return"}
Whitespace == {" ", "tab"} \cup Ends

(* The first place from i on with, or without, one of the characters.      *)
NextIn(text, i, chars) ==
  CHOOSE j \in i .. Len(text) + 1 :
    /\ j \in DOMAIN text => text[j] \in chars
    /\ \A k \in i .. j - 1 : text[k] \notin chars
NextNotIn(text, i, chars) ==
  CHOOSE j \in i .. Len(text) + 1 :
    /\ j \in DOMAIN text => text[j] \notin chars
    /\ \A k \in i .. j - 1 : text[k] \in chars

Trimmed(text) ==
  LET inside == {i \in DOMAIN text : text[i] \notin Whitespace}
  IN  IF inside = {} THEN <<>>
      ELSE SubSeq(text, CHOOSE i \in inside : \A j \in inside : i <= j,
                        CHOOSE i \in inside : \A j \in inside : j <= i)

(* Whatever is not a digit is passed over. *)
ParseUnsigned(text) ==
  FoldLeft(LAMBDA n, c : IF c \notin Decimals THEN n
                         ELSE (n * 10 + (CHOOSE i \in 0 .. 9 : LowerNumerals[i + 1] = c)) % UIntRange,
           0, text)

(* A key with a number; other keys, and lines without either, are ignored. *)
Assigned(config, key, val) ==
  IF val = <<>> \/ key \notin DOMAIN FieldOf THEN config
  ELSE [config EXCEPT ![FieldOf[key]] = ParseUnsigned(val) % FieldRange[FieldOf[key]]]

(* Mutant: a number extends to the end of its line, comment included. *)
MutValueEnds == Ends
ValueEnds == Ends \cup {"#"}

ParseConfig(config, text) ==
  LET From[at \in Nat, c \in [DOMAIN config -> Nat]] ==
        LET i == NextNotIn(text, at, Whitespace)
            eq == NextIn(text, i, Ends \cup {"=", "#"})
            val == NextNotIn(text, eq + 1, Whitespace \ Ends)
            end == NextIn(text, val, ValueEnds)
        IN  IF i > Len(text) THEN c
            ELSE IF text[i] \in {"#", "["} THEN From[NextIn(text, i, Ends), c]
            ELSE IF eq > Len(text) \/ text[eq] # "=" THEN From[NextIn(text, eq, Ends), c]
            ELSE From[end, Assigned(c, Trimmed(SubSeq(text, i, eq - 1)),
                                    Trimmed(SubSeq(text, val, end - 1)))]
  IN  From[1, config]
===============================================================================
