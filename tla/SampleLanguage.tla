---------------------------- MODULE SampleLanguage ----------------------------
(* A small language for the model checking of the calculator: "1" is a     *)
(* digit, "A" is Ans, "=" stands for the text that assigns the rest of the *)
(* line to a variable.  The parser (Application/Input/Parser.c) is not     *)
(* modelled here; these are examples of what it answers.                   *)
EXTENDS Integers, SequencesExt

MCNewline == "newline"

(* The lexer skips line breaks, but a break still ends a number or a name. *)
Text(line) == SelectSeq(line, LAMBDA c : c # MCNewline)

(* What the parser accepts: a number, Ans, or a number times Ans, possibly *)
(* assigned.  Two numbers with a break between them are an error, but the  *)
(* assignment in front has been made by then.                              *)
MCParse(line, ans, sym) ==
  LET text   == Text(line)
      assign == text # <<>> /\ Head(text) = "="
      expr   == IF assign THEN Tail(text) ELSE text
      broken == \E i \in 2 .. Len(line) - 1 :
                  line[i] = MCNewline /\ line[i - 1] = "1" /\ line[i + 1] = "1"
      meaning == CASE expr = <<"1">> -> 1
                   [] expr = <<"1", "1">> -> IF broken THEN 1 ELSE 11
                   [] expr = <<"A">> -> ans
                   [] expr = <<"1", "A">> -> ans
                   [] OTHER -> -1
  IN  [ok      |-> meaning # -1 /\ ~broken,
       value   |-> meaning,
       symbols |-> IF assign /\ meaning # -1 THEN <<meaning>> ELSE sym]

MCValues == {0, 1, 11}
MCSymbols == {<<>>} \cup {<<v>> : v \in MCValues}
MCNoSymbols == <<>>
===============================================================================
