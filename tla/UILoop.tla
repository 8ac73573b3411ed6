-------------------------------- MODULE UILoop ---------------------------------
(***************************************************************************)
(* The loops that feed keys to the line editor and draw it: the one of the *)
(* hosted program (Platform/Host/main_host.c), over its terminal, pipe or  *)
(* window; its batch mode; and the default loop (Application/UI/ui_core.c) *)
(* over a keyboard or the buttons of the ESP32.                            *)
(*                                                                         *)
(* A step of a loop is one action, except that drawing is seen before the  *)
(* key that follows it and that an escape sequence is read byte by byte.   *)
(***************************************************************************)
EXTENDS LineEditor, HostInput, Buttons, FiniteSets

CONSTANTS
  BatchMax,    (* characters fgets takes at a time, 511 in the code        *)
  BoardKeys    (* keys of the keyboard                                     *)

ASSUME BatchAssumption == BatchMax \in Nat \ {0}

(* The bytes with a meaning of their own are no characters; the keys that  *)
(* are no bytes have codes above 0x10000 (input.h:29-55).                *)
ASSUME NameAssumption ==
  /\ Chars \cap {"CR", "LF", "DEL", "ESC", "TAIL", "NONE", "EOF"} = {}
  /\ Bytes \cap (ControlKeys \cup {"NONE", "EOF"}) = {}

VARIABLES
  running,   (* the loop's own flag                                        *)
  redraw,    (* what is on the screen may be old                           *)
  armed,     (* last_esc_time is not 0                                     *)
  partial,   (* the driver has a render_partial                            *)
  screen,    (* the line behind the prompt on the screen                   *)
  answer     (* what batch mode printed last                               *)

loopVars == <<running, redraw, armed, partial, screen, answer>>

uiVars == <<edVars, inVars, buttonVars, loopVars>>

(* main: with neither option, input that is no terminal is a batch; the    *)
(* window is preferred unless only the terminal is asked for, and where no *)
(* window can be made the terminal's driver reads what there is.           *)
Selected(asksTerminal, asksWindow, isTerminal, hasWindow) ==
  IF ~asksTerminal /\ ~asksWindow /\ ~isTerminal THEN "batch"
  ELSE IF hasWindow /\ (asksTerminal => asksWindow) THEN "window"
  ELSE IF isTerminal THEN "terminal" ELSE "pipe"

HostDrivers == {Selected(a, b, c, d) : a, b, c, d \in BOOLEAN}

(* The buttons have a module of their own; a keyboard is any driver of the *)
(* default loop that hands over keys one by one.                           *)
LoopInit ==
  /\ driver \in HostDrivers \cup {"buttons", "keyboard"}
  /\ Init /\ InputInit
  /\ IF driver = "buttons"
     THEN ButtonInit
     ELSE /\ now = 0 /\ down = {} /\ lastDown = {} /\ polled = FALSE
          /\ lastTick = [b \in ButtonSet |-> 0]
          /\ sinceKey = [b \in ButtonSet |-> Enough]
  /\ running = TRUE
  /\ redraw = (driver # "batch")
  /\ armed = FALSE
  /\ partial \in IF driver = "keyboard" THEN BOOLEAN ELSE {FALSE}
  /\ screen = <<>>
  /\ answer = <<>>

-------------------------------------------------------------------------------
(* host_run_loop.                                                          *)

(* Mutant: drawing waits for the next key. *)
MutDraw ==
  /\ running /\ redraw
  /\ Waiting \/ closed \/ KeyPending
  /\ screen' = IF driver = "window" THEN screen ELSE buffer
  /\ redraw' = FALSE
  /\ UNCHANGED <<edVars, inVars, buttonVars, running, armed, partial, answer>>

(* host_render draws for a display with columns of text.  The terminal has *)
(* 80 and what is left of a longer line is erased; the window says nothing  *)
(* of columns (host_sdl.c:173-182), and nothing is drawn in it.            *)
Draw ==
  /\ running /\ redraw
  /\ screen' = IF driver = "window" THEN screen ELSE buffer
  /\ redraw' = FALSE
  /\ UNCHANGED <<edVars, inVars, buttonVars, running, armed, partial, answer>>

(* The second ESC ends the program if clock(), which counts the time the   *)
(* program computes and not the time that passes, has not gone on by half  *)
(* a second: it may or may not have, whatever the user did.                *)
OnEscape ==
  /\ armed' = TRUE
  /\ \/ UNCHANGED running
     \/ armed /\ running' = FALSE
  /\ UNCHANGED <<edVars, redraw>>

(* Every other key goes to the editor, the ones it does not know too. *)
OnKey(k) ==
  /\ Handle(k)
  /\ redraw' = TRUE
  /\ UNCHANGED <<running, armed>>

(* Mutant: the end of the input is no key. *)
MutReceive(k) ==
  CASE k = "EOF"    -> UNCHANGED <<edVars, running, redraw, armed>>
    [] k = "ESCAPE" -> OnEscape
    [] OTHER        -> OnKey(k)

Receive(k) ==
  CASE k = "EOF"    -> running' = FALSE /\ UNCHANGED <<edVars, redraw, armed>>
    [] k = "ESCAPE" -> OnEscape
    [] OTHER        -> OnKey(k)

(* key_available, read_key and what the loop does with the key. *)
HostKey ==
  /\ running /\ ~redraw
  /\ ReadKey
  /\ Receive(KeyRead)
  /\ UNCHANGED <<buttonVars, partial, screen, answer>>

(* read_key in the middle of an escape sequence. *)
HostEscape ==
  /\ running /\ ~redraw
  /\ StartEscape \/ EscapeGoesOn
  /\ UNCHANGED <<edVars, buttonVars, loopVars>>

-------------------------------------------------------------------------------
(* run_batch_mode.                                                         *)

(* What fgets takes of the bytes unread: up to a line break, as much as    *)
(* fits, or what is left at the end.                                       *)
Chunks ==
  LET unread == taken + 1 .. Len(typed)
      breaks == {i \in unread : typed[i] = "LF"}
      full   == taken + BatchMax
  IN  IF breaks # {} THEN {Min({Min(breaks), full})}
      ELSE IF full <= Len(typed) THEN {full}
      ELSE IF closed /\ unread # {} THEN {Len(typed)}
      ELSE {}

(* The line without the breaks at its end. *)
Stripped(line) ==
  LET text == {i \in DOMAIN line : line[i] \notin {"LF", "CR"}}
  IN  IF text = {} THEN <<>> ELSE SubSeq(line, 1, Max(text))

(* The answer is printed and never pushed: Ans stays what it is with an    *)
(* empty stack.                                                            *)
Answered(line) ==
  LET r == Parse(line, Zero, symbols)
  IN  IF line = <<>>
      THEN UNCHANGED <<answer, symbols>>
      ELSE /\ answer' = [line |-> line, ok |-> r.ok, value |-> r.value]
           /\ symbols' = r.symbols

BatchLine ==
  /\ driver = "batch" /\ running
  /\ \E n \in Chunks :
       /\ taken' = n
       /\ Answered(Stripped(SubSeq(typed, taken + 1, n)))
  /\ UNCHANGED <<buffer, cursor, history, historyPos, lastEvent, operands,
                 driver, typed, closed, escape, events, buttonVars,
                 running, redraw, armed, partial, screen>>

BatchEnd ==
  /\ driver = "batch" /\ running
  /\ closed /\ ~Waiting
  /\ running' = FALSE
  /\ UNCHANGED <<edVars, inVars, buttonVars, redraw, armed, partial, screen, answer>>

-------------------------------------------------------------------------------
(* ui_run_loop_default.                                                    *)

(* What ui_process_input_default returns for k: NONE for an ENTER on an    *)
(* empty line, which leaves last_event as it was.                          *)
Event(k) == IF k = "ENTER" /\ buffer = <<>> THEN "NONE" ELSE lastEvent'

(* The line is written where the line old was, and nothing is erased. *)
Over(line, old) == line \o SubSeq(old, Len(line) + 1, Len(old))

(* Mutant: the line is written over the old one whenever it has changed. *)
MutShown(event) ==
  CASE event = "NONE" -> screen
    [] partial /\ event \in {"RESULT", "ERROR"} -> screen
    [] partial -> Over(buffer', screen)
    [] OTHER -> buffer'

(* What a key leaves on the screen: nothing is drawn for no event.  The     *)
(* partial rendering of an outcome is its own line alone, and that of a     *)
(* change writes the line over what is there, so that the end of a longer   *)
(* line stays; every other event, and every event of a driver without       *)
(* partial rendering, clears the screen and draws all.                     *)
Shown(event) ==
  CASE event = "NONE" -> screen
    [] partial /\ event \in {"RESULT", "ERROR"} -> screen
    [] partial /\ event = "INPUT_CHANGE" -> Over(buffer', screen)
    [] OTHER -> buffer'

Respond(k) ==
  /\ Handle(k)
  /\ screen' = Shown(Event(k))
  /\ UNCHANGED <<inVars, running, redraw, armed, partial, answer>>

BoardKey ==
  /\ driver = "keyboard" /\ ~redraw
  /\ \E k \in BoardKeys : Respond(k)
  /\ UNCHANGED buttonVars

ButtonKey ==
  /\ driver = "buttons" /\ ~redraw
  /\ \E k \in {KeyMap[b] : b \in ButtonSet} : ScanPress(k) /\ Respond(k)

ButtonIdle ==
  /\ driver = "buttons" /\ ~redraw
  /\ ScanNothing
  /\ UNCHANGED <<edVars, inVars, loopVars>>

-------------------------------------------------------------------------------
Program ==
  \/ Draw \/ HostKey \/ HostEscape
  \/ BatchLine \/ BatchEnd
  \/ ButtonKey \/ ButtonIdle

User ==
  /\ \/ \E b \in Bytes : Type(b)
     \/ HangUp
     \/ \E e \in WindowKeys \cup {Unnamed, Close} : Post(e)
  /\ running
  /\ UNCHANGED <<edVars, buttonVars, loopVars>>

World ==
  /\ driver = "buttons"
  /\ Tick \/ \E b \in ButtonSet : Contact(b)
  /\ UNCHANGED <<edVars, inVars, loopVars>>

LoopNext == Program \/ BoardKey \/ User \/ World

(* The loops never wait but for the bytes of a pipe, and time goes on.     *)
Fairness ==
  /\ WF_uiVars(Program)
  /\ WF_uiVars(driver = "buttons" /\ Tick /\ UNCHANGED <<edVars, inVars, loopVars>>)

LoopSpec == LoopInit /\ [][LoopNext]_uiVars /\ Fairness

-------------------------------------------------------------------------------
(* What a typewriter makes of a byte more. *)
Write(w, b) ==
  CASE b \in Chars /\ Len(w.line) < InputMax -> [w EXCEPT !.line = Append(@, b)]
    [] b = "DEL" /\ w.line # <<>> -> [w EXCEPT !.line = Front(@)]
    [] b \in {"CR", "LF"} /\ w.line # <<>> ->
         [line |-> <<>>, past |-> Pushed(w.line, w.past, HistoryLines)]
    [] OTHER -> w

(* What it makes of bytes without ESC: the line being written and the lines *)
(* finished.                                                               *)
Written(bytes) ==
  LET w[i \in 0 .. Len(bytes)] ==
        IF i = 0 THEN [line |-> <<>>, past |-> <<>>] ELSE Write(w[i - 1], bytes[i])
  IN  w[Len(bytes)]

(* Where the escape sequence that begins at byte p is over: behind its      *)
(* first "~" or capital letter, or when it is as long as the program reads; *)
(* if neither has come, the sequence has no end yet.                       *)
Ends(p) ==
  {j \in p + 1 .. Len(typed) : typed[j] \in FinalBytes \/ j = p + EscapeMax - 1}

End(p) == IF Ends(p) = {} THEN Len(typed) ELSE Min(Ends(p))

(* The bytes read that are no part of it: those before it and those behind. *)
Outside(p) ==
  SubSeq(typed, 1, Min({taken, p - 1})) \o SubSeq(typed, End(p) + 1, taken)

(* The sequence is an arrow key. *)
IsArrow(p) == KeyOfEscape(SubSeq(typed, p, End(p))) \in {"UP", "DOWN", "LEFT", "RIGHT"}

Holds(w) == buffer = w.line /\ history = w.past

(* However bytes arrive, in one piece or one by one, before or after the   *)
(* program looks, and whether or not the other end hangs up behind them:   *)
(* each that is read is in its place in the editor, and the program does   *)
(* not end while any is unread.  That is claimed of bytes without ESC, and *)
(* on a pipe of bytes with one: none of its sequence is taken for text,    *)
(* however late it comes, and all before and behind it is, what a sequence *)
(* longer than EscapeMax has left included.  An arrow moves the place      *)
(* where the text behind it goes, so that nothing is said of it here       *)
(* (host_input.c:202-288, main_host.c:140-160).                            *)
TextArrives ==
  LET escs == {i \in DOMAIN typed : typed[i] = "ESC"}
  IN  /\ driver \in Keyboards /\ escs = {} =>
           /\ Holds(Written(SubSeq(typed, 1, taken)))
           /\ ~running => closed /\ ~Waiting
      /\ \A p \in escs : driver = "pipe" /\ escs = {p} =>
           /\ ~IsArrow(p) => Holds(Written(Outside(p)))
           /\ ~running => closed /\ ~Waiting

(* The screen does not stay behind the editor, unless drawing is due.  The *)
(* terminal of the hosted program and a driver that renders all show the   *)
(* line and nothing else.  A driver that renders in parts shows it too,    *)
(* with the end of a longer one behind it until all is drawn again; while  *)
(* it shows an outcome, it shows the line that was submitted.  The window  *)
(* shows nothing of the line, ever (main_host.c:133-160 and :178,          *)
(* ui_core.c:422-462 and :487-493).                                        *)
ScreenIsDue ==
  redraw \/ driver = "window" \/
    IF ~partial \/ lastEvent \in {"INIT", "CLEAR"} THEN screen = buffer
    ELSE IF lastEvent \in {"RESULT", "ERROR"} THEN IsPrefix(history[1], screen)
    ELSE IsPrefix(buffer, screen)

(* Again and again the screen shows the line and nothing else, but for the *)
(* window and for drivers that render in parts (main_host.c:133-160,       *)
(* ui_core.c:487-493).                                                     *)
ScreenCatchesUp ==
  []<>(running /\ ~partial /\ driver # "window" => screen = buffer)

(* When the other end hangs up the program ends, in the middle of an escape *)
(* sequence, of a line or of a batch too (host_input.c:226-229,            *)
(* main_host.c:142-145).                                                   *)
HangUpEnds == closed ~> ~running
================================================================================
