------------------------------ MODULE LineEditor ------------------------------
(***************************************************************************)
(* The line editor of the calculator (Application/UI/ui_core.c): the       *)
(* handler of one key over the edited line, the history of submitted       *)
(* lines, the operand stack and the event the last key caused.             *)
(*                                                                         *)
(* A character is a model value, a line the sequence buffer[0 .. length).  *)
(* cursor counts the characters before it; historyPos is the code's own    *)
(* index, -1 when no past line is on display.  What the parser makes of a  *)
(* line is the constant operator Parse: of the line, the top of the stack  *)
(* (Ans) and the symbol table it returns whether it succeeded, the value   *)
(* and the symbol table it leaves, which a failed parse may change too.    *)
(***************************************************************************)
EXTENDS Integers, SequencesExt

CONSTANTS
  Chars,           (* printable characters                                 *)
  InputMax,        (* UI_INPUT_BUF_SIZE - 1, 255 in the code               *)
  HistoryLines,    (* UI_HISTORY_LINES, 5 in the code                      *)
  StackDepth,      (* operands of CalculatorState, 4 in the code           *)
  Parse(_, _, _),  (* [ok, value, symbols]                                 *)
  Values,          (* numbers                                              *)
  Zero,            (* what Ans is when the stack is empty                  *)
  Symbols,         (* states of the parser's symbol table                  *)
  NoSymbols        (* the empty symbol table                               *)

ASSUME SizeAssumption ==
  /\ InputMax \in Nat
  /\ HistoryLines \in Nat \ {0}
  /\ StackDepth \in Nat \ {0}

ControlKeys == {"ENTER", "BACKSPACE", "DELETE", "LEFT", "RIGHT", "UP", "DOWN",
                "ESCAPE"}

Keys == Chars \cup ControlKeys

ASSUME KeyAssumption == Chars \cap ControlKeys = {}

(* The parser answers a line with a number, if it accepts it, and a table. *)
ASSUME ParseAssumption ==
  /\ Zero \in Values
  /\ NoSymbols \in Symbols
  /\ \A n \in 0 .. InputMax :
       \A line \in [1 .. n -> Chars], ans \in Values, table \in Symbols :
         LET r == Parse(line, ans, table)
         IN  r.symbols \in Symbols /\ (r.ok => r.value \in Values)

VARIABLES
  buffer,      (* the line being edited                                    *)
  cursor,      (* where in it                                              *)
  history,     (* submitted lines, the newest first                        *)
  historyPos,  (* the entry on display, or -1                              *)
  lastEvent,   (* ctx->last_event                                          *)
  operands,    (* the operand stack, the top first                         *)
  symbols      (* the parser's symbol table                                *)

edVars == <<buffer, cursor, history, historyPos, lastEvent, operands, symbols>>

Events == {"NONE", "INIT", "RESULT", "ERROR", "INPUT_CHANGE", "CLEAR"}

TypeOK ==
  /\ buffer \in Seq(Chars) /\ Len(buffer) <= InputMax
  /\ cursor \in 0 .. Len(buffer)
  /\ history \in Seq(Seq(Chars)) /\ Len(history) <= HistoryLines
  /\ historyPos \in -1 .. Len(history) - 1
  /\ lastEvent \in Events
  /\ operands \in Seq(Values) /\ Len(operands) <= StackDepth
  /\ symbols \in Symbols

-------------------------------------------------------------------------------
(* ui_init and the memset of calc_app_init leave the same state, but for   *)
(* the event.                                                              *)
Blank(event) ==
  /\ buffer = <<>> /\ cursor = 0
  /\ history = <<>> /\ historyPos = -1
  /\ lastEvent = event
  /\ operands = <<>>

Init == Blank("INIT") /\ symbols = NoSymbols

-------------------------------------------------------------------------------
(* Editing.  The shifts of the code's loops, by index.                     *)

Inserted(line, at, c) ==
  [i \in 1 .. Len(line) + 1 |->
     IF i <= at THEN line[i] ELSE IF i = at + 1 THEN c ELSE line[i - 1]]

(* Mutant: the loop that shifts left starts one place late. *)
MutRemoved(line, at) ==
  [i \in 1 .. Len(line) - 1 |-> IF i <= at THEN line[i] ELSE line[i + 1]]

(* The line without its character at. *)
Removed(line, at) ==
  [i \in 1 .. Len(line) - 1 |-> IF i < at THEN line[i] ELSE line[i + 1]]

Changed == lastEvent' = "INPUT_CHANGE"

Insert(c) ==
  /\ Len(buffer) < InputMax
  /\ buffer' = Inserted(buffer, cursor, c)
  /\ cursor' = cursor + 1
  /\ Changed
  /\ UNCHANGED <<history, historyPos, operands, symbols>>

Backspace ==
  /\ cursor > 0
  /\ buffer' = Removed(buffer, cursor)
  /\ cursor' = cursor - 1
  /\ Changed
  /\ UNCHANGED <<history, historyPos, operands, symbols>>

Delete ==
  /\ cursor < Len(buffer)
  /\ buffer' = Removed(buffer, cursor + 1)
  /\ Changed
  /\ UNCHANGED <<cursor, history, historyPos, operands, symbols>>

Left ==
  /\ cursor > 0
  /\ cursor' = cursor - 1
  /\ Changed
  /\ UNCHANGED <<buffer, history, historyPos, operands, symbols>>

Right ==
  /\ cursor < Len(buffer)
  /\ cursor' = cursor + 1
  /\ Changed
  /\ UNCHANGED <<buffer, history, historyPos, operands, symbols>>

-------------------------------------------------------------------------------
(* History.                                                                *)

Show(line) == buffer' = line /\ cursor' = Len(line)

Up ==
  /\ historyPos < Len(history) - 1
  /\ historyPos' = historyPos + 1
  /\ Show(history[historyPos' + 1])
  /\ Changed
  /\ UNCHANGED <<history, operands, symbols>>

(* Mutant: leaving the history keeps the recalled line on display. *)
MutDown ==
  /\ historyPos >= 0
  /\ historyPos' = historyPos - 1
  /\ IF historyPos > 0 THEN Show(history[historyPos]) ELSE Show(buffer)
  /\ Changed
  /\ UNCHANGED <<history, operands, symbols>>

(* Entry historyPos - 1 of the code's array is element historyPos here.    *)
Down ==
  /\ historyPos >= 0
  /\ historyPos' = historyPos - 1
  /\ Show(IF historyPos > 0 THEN history[historyPos] ELSE <<>>)
  /\ Changed
  /\ UNCHANGED <<history, operands, symbols>>

Escape ==
  /\ Show(<<>>)
  /\ historyPos' = -1
  /\ lastEvent' = "CLEAR"
  /\ UNCHANGED <<history, operands, symbols>>

-------------------------------------------------------------------------------
(* Submission.                                                             *)

(* The newest in front; what falls off the end is lost. *)
Pushed(x, seq, max) == SubSeq(<<x>> \o seq, 1, Min({Len(seq) + 1, max}))

Ans == IF operands = <<>> THEN Zero ELSE Head(operands)

(* Mutant: submitting keeps the place in the history. *)
MutEnter ==
  LET r == Parse(buffer, Ans, symbols)
  IN  /\ buffer # <<>>
      /\ history' = Pushed(buffer, history, HistoryLines)
      /\ operands' = IF r.ok THEN Pushed(r.value, operands, StackDepth) ELSE operands
      /\ symbols' = r.symbols
      /\ lastEvent' = IF r.ok THEN "RESULT" ELSE "ERROR"
      /\ Show(<<>>)
      /\ UNCHANGED historyPos

(* Whatever the parser says, the line goes to the history and the editor   *)
(* is emptied; an empty line is ignored and leaves last_event as it was.   *)
Enter ==
  LET r == Parse(buffer, Ans, symbols)
  IN  /\ buffer # <<>>
      /\ history' = Pushed(buffer, history, HistoryLines)
      /\ historyPos' = -1
      /\ operands' = IF r.ok THEN Pushed(r.value, operands, StackDepth) ELSE operands
      /\ symbols' = r.symbols
      /\ lastEvent' = IF r.ok THEN "RESULT" ELSE "ERROR"
      /\ Show(<<>>)

-------------------------------------------------------------------------------
(* The handler.  A key whose case has nothing to do changes nothing.       *)

Responds(k) ==
  \/ k \in Chars /\ Len(buffer) < InputMax
  \/ k = "ENTER" /\ buffer # <<>>
  \/ k \in {"BACKSPACE", "LEFT"} /\ cursor > 0
  \/ k \in {"DELETE", "RIGHT"} /\ cursor < Len(buffer)
  \/ k = "UP" /\ historyPos < Len(history) - 1
  \/ k = "DOWN" /\ historyPos >= 0
  \/ k = "ESCAPE"

Ignore(k) == ~Responds(k) /\ UNCHANGED edVars

Handle(k) ==
  \/ k \in Chars /\ Insert(k)
  \/ k = "BACKSPACE" /\ Backspace
  \/ k = "DELETE" /\ Delete
  \/ k = "LEFT" /\ Left
  \/ k = "RIGHT" /\ Right
  \/ k = "UP" /\ Up
  \/ k = "DOWN" /\ Down
  \/ k = "ESCAPE" /\ Escape
  \/ k = "ENTER" /\ Enter
  \/ Ignore(k)

Next == \E k \in Keys : Handle(k)

Spec == Init /\ [][Next]_edVars

-------------------------------------------------------------------------------
(* The editor is a line with a gap: the array and its cursor behave, key by *)
(* key, as the text on the two sides of the gap, and only submitted lines   *)
(* come back (ui_core.c:170-294).                                           *)
Gap == INSTANCE TextLine WITH
         MaxLine <- InputMax,
         left <- SubSeq(buffer, 1, cursor),
         right <- SubSeq(buffer, cursor + 1, Len(buffer)),
         past <- {history[i] : i \in DOMAIN history}

ImplementsTextLine == Gap!Spec

(* A result on display is the outcome of the newest line of the history,   *)
(* which has left the editor: the parser accepts that line, what it made   *)
(* of it is on top of the stack, the symbols are the ones it left, and Ans *)
(* was the operand below.  No key that leaves the event alone may disturb  *)
(* that (ui_core.c:76-168).                                                *)
ResultIsSettled ==
  lastEvent = "RESULT" =>
    /\ buffer = <<>> /\ historyPos = -1
    /\ history # <<>> /\ operands # <<>>
    /\ \E ans \in Values, table \in Symbols :
         LET r == Parse(history[1], ans, table)
         IN  /\ r.ok /\ operands[1] = r.value /\ symbols = r.symbols
             /\ StackDepth > 1 => ans = IF Len(operands) > 1 THEN operands[2] ELSE Zero
===============================================================================
