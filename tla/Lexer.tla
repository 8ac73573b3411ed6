-------------------------------- MODULE Lexer ---------------------------------
(***************************************************************************)
(* The lexer of the expression parser (Application/Input/Lexer.c).  A text *)
(* is a sequence of characters (bytes), each a string; a token is where it *)
(* starts, how long it is, its value when it is a number, and the place    *)
(* from which the next one is read.                                        *)
(***************************************************************************)
EXTENDS Fraction, Sequences, SequencesExt

CONSTANTS
  Digits,    (* the digits, each with its value                            *)
  Letters,   (* the letters and the underscore                             *)
  IntRange   (* 2^64: the digits of a number are gathered in that many     *)

ASSUME LexerAssumption == IntRange \in Nat \ {0} /\ {"e", "E"} \cap DOMAIN Digits = {}

Blanks == {" ", "tab", "return", "newline"}
Signs == {"+", "-", "*", "/", "%", "^", "!", "(", ")", ",", "="}
IsDigit(c) == c \in DOMAIN Digits

CharAt(text, i) == IF i \in DOMAIN text THEN text[i] ELSE "end"

(* The first place from at on with a character outside the set. *)
RECURSIVE After(_, _, _)
After(text, at, chars) == IF CharAt(text, at) \in chars THEN After(text, at + 1, chars) ELSE at

Lexeme(text, from, to) == SubSeq(text, from, to - 1)

-------------------------------------------------------------------------------
(* Numbers. *)

Gathered(digits) == FoldLeft(LAMBDA n, c : (n * 10 + Digits[c]) % IntRange, 0, digits)

(* The power of ten that follows an e, by squaring; the exponent itself is *)
(* gathered in a double.                                                   *)
TenTo(digits) ==
  LET e == FoldLeft(LAMBDA n, c : IF n > 99 THEN n ELSE n * 10 + Digits[c], 0, digits)
  IN  IF e > 4 THEN Inexact ELSE RaisedTo[e][Num(10)]

(* The number times the power at the mark, if there is one. *)
WithPower(s, mark, mantissa) ==
  LET first == IF CharAt(s, mark + 1) \in {"+", "-"} THEN mark + 2 ELSE mark + 1
      power == TenTo(Lexeme(s, first, After(s, first, DOMAIN Digits)))
  IN  CASE CharAt(s, mark) \notin {"e", "E"} -> mantissa
        [] CharAt(s, mark + 1) = "-"         -> Over(mantissa, power)
        [] OTHER                             -> Times(mantissa, power)

(* Whole part, fraction and one exponent; whatever follows has no effect.  *)
(* A sign in front never comes from the lexer and is left out.             *)
ParseDouble(s) ==
  LET dot     == After(s, 1, DOMAIN Digits)
      hasDot  == CharAt(s, dot) = "."
      mark    == IF hasDot THEN After(s, dot + 1, DOMAIN Digits) ELSE dot
      decimals == IF hasDot THEN Lexeme(s, dot + 1, mark) ELSE <<>>
      mantissa == Plus(Num(Gathered(Lexeme(s, 1, dot))),
                       Over(Num(Gathered(decimals)), RaisedTo[Len(decimals)][Num(10)]))
  IN  WithPower(s, mark, mantissa)

(* How many characters the scan of a number takes at a place: a digit, a   *)
(* first dot with a digit behind it, or an exponent up to its first digit. *)
Taken(text, at, hasDot) ==
  LET Ahead(k) == CharAt(text, at + k)
  IN  CASE IsDigit(Ahead(0)) -> 1
        [] Ahead(0) = "." /\ ~hasDot /\ IsDigit(Ahead(1)) -> 1
        [] Ahead(0) \in {"e", "E"} /\ IsDigit(Ahead(1)) -> 2
        [] Ahead(0) \in {"e", "E"} /\ Ahead(1) \in {"+", "-"} /\ IsDigit(Ahead(2)) -> 3
        [] OTHER -> 0

RECURSIVE NumberEnd(_, _, _)
NumberEnd(text, at, hasDot) ==
  LET k == Taken(text, at, hasDot)
  IN  IF k = 0 THEN at ELSE NumberEnd(text, at + k, hasDot \/ text[at] = ".")

-------------------------------------------------------------------------------
(* Tokens. *)

Token(kind, from, to, value, cursor) ==
  [kind |-> kind, start |-> from, length |-> to - from, value |-> value, cursor |-> cursor]
Plain(kind, from, to) == Token(kind, from, to, Zero, to)

(* A dot without a digit behind it is an error that is not passed. *)
NumberToken(text, at) ==
  LET to == NumberEnd(text, at, FALSE)
  IN  IF to = at THEN Token("error", at, at + 1, Zero, at)
      ELSE Token("number", at, to, ParseDouble(Lexeme(text, at, to)), to)

(* "exp" is an operator unless a parenthesis follows it. *)
IsExp(name) ==
  Len(name) = 3 /\ name[1] \in {"e", "E"} /\ name[2] \in {"x", "X"} /\ name[3] \in {"p", "P"}

NameToken(text, at) ==
  LET to == After(text, at, Letters \cup DOMAIN Digits)
      operator == IsExp(Lexeme(text, at, to)) /\ CharAt(text, After(text, to, {" ", "tab"})) # "("
  IN  Plain(IF operator THEN "exp" ELSE "name", at, to)

(* pi and the root sign, of two and three bytes. *)
PiBytes == <<"CF", "80">>
RootBytes == <<"E2", "88", "9A">>
StartsWith(text, at, bytes) ==
  at + Len(bytes) <= Len(text) + 1 /\ Lexeme(text, at, at + Len(bytes)) = bytes

NextToken(text, cursor) ==
  LET at == After(text, cursor, Blanks)
      c  == CharAt(text, at)
  IN  CASE at > Len(text) -> Plain("eof", at, at)
        [] StartsWith(text, at, PiBytes) -> Token("number", at, at + 2, Inexact, at + 2)
        [] StartsWith(text, at, RootBytes) -> Plain("sqrt", at, at + 3)
        [] c \in Signs -> Plain(c, at, at + 1)
        [] c \in Letters -> NameToken(text, at)
        [] IsDigit(c) \/ c = "." -> NumberToken(text, at)
        [] OTHER -> Plain("error", at, at + 1)

(* A reader that goes on until the end of the text, or until a token that  *)
(* leaves the cursor where it is.                                          *)
RECURSIVE TokensFrom(_, _)
TokensFrom(text, cursor) ==
  LET Continued(t) == IF t.cursor = t.start THEN <<t>> ELSE <<t>> \o TokensFrom(text, t.cursor)
  IN  Continued(NextToken(text, cursor))
===============================================================================
