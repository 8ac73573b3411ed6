-------------------------------- MODULE CalcApp --------------------------------
(***************************************************************************)
(* The calculator application (src/apps/CalculatorApp.c): the line editor  *)
(* behind a write-ahead log of the keys typed, kept at a fixed address so  *)
(* that it outlives a crash (include/kernel/write_ahead_log.h).            *)
(*                                                                         *)
(* One key takes three steps, and the machine may stop between them: the   *)
(* character is logged, the editor handles it, the log is cleared if the   *)
(* line gave a result.  A crash loses everything but the log; the next     *)
(* boot runs calc_app_init, which parses the log.  A log whose magic word  *)
(* is wrong behaves in every function as an empty one and is the empty     *)
(* sequence here.                                                          *)
(***************************************************************************)
EXTENDS LineEditor, FiniteSets

CONSTANTS
  Newline,   (* the character ENTER logs                                   *)
  LogMax     (* WAL_LOG_SIZE - 1: 399 in the code, 63 with CALC_TINY_MEM   *)

ASSUME LogAssumption ==
  /\ LogMax \in Nat
  /\ Newline \notin Keys
  /\ "none" \notin Keys

VARIABLES
  log,       (* history_log[0 .. cursor) of the write-ahead log            *)
  pc,        (* the step calc_app_update is at; "down" after a crash       *)
  key        (* the key it works on, or "none"                             *)

calcVars == <<edVars, log, pc, key>>

-------------------------------------------------------------------------------
(* wal_log_char: a character that does not fit is dropped. *)
Logged(c) == IF Len(log) < LogMax THEN Append(log, c) ELSE log

(* The editing keys are not logged. *)
KeyPress(k) ==
  /\ pc = "idle"
  /\ key' = k
  /\ log' = IF k \in Chars THEN Logged(k)
            ELSE IF k = "ENTER" THEN Logged(Newline)
            ELSE log
  /\ pc' = "process"
  /\ UNCHANGED edVars

(* Mutant: the log is cleared as soon as there is a result. *)
MutProcess ==
  /\ pc = "process"
  /\ Handle(key)
  /\ pc' = "settle"
  /\ log' = IF key = "ENTER" /\ lastEvent' = "RESULT" THEN <<>> ELSE log
  /\ UNCHANGED key

Process ==
  /\ pc = "process"
  /\ Handle(key)
  /\ pc' = "settle"
  /\ UNCHANGED <<log, key>>

(* Mutant: the log is kept after a result. *)
MutSettleKeeps ==
  /\ pc = "settle"
  /\ pc' = "idle" /\ key' = "none"
  /\ UNCHANGED <<edVars, log>>

(* The test reads last_event, which an ENTER on an empty line leaves as    *)
(* the key before made it.                                                 *)
Settle ==
  /\ pc = "settle"
  /\ log' = IF key = "ENTER" /\ lastEvent = "RESULT" THEN <<>> ELSE log
  /\ pc' = "idle" /\ key' = "none"
  /\ UNCHANGED edVars

-------------------------------------------------------------------------------
(* A reset leaves physical memory as it is, a loss of power does not.      *)
Stop ==
  /\ pc # "down"
  /\ pc' = "down"
  /\ buffer' = <<>> /\ cursor' = 0
  /\ history' = <<>> /\ historyPos' = -1
  /\ lastEvent' = "NONE"
  /\ operands' = <<>>
  /\ symbols' = NoSymbols
  /\ key' = "none"

Crash == Stop /\ UNCHANGED log

PowerLoss == Stop /\ log' = <<>>

(* calc_app_init.  The value of the replay is discarded; an assignment it  *)
(* makes stays in the symbol table, and the log is kept.                   *)
Boot ==
  /\ pc = "down"
  /\ pc' = "idle"
  /\ symbols' = IF log # <<>> THEN Parse(log, Zero, NoSymbols).symbols ELSE NoSymbols
  /\ UNCHANGED <<buffer, cursor, history, historyPos, lastEvent, operands, log, key>>

CalcInit ==
  /\ Blank("NONE") /\ symbols = NoSymbols
  /\ log = <<>>
  /\ pc = "idle"
  /\ key = "none"

CalcNext ==
  \/ \E k \in Keys : KeyPress(k)
  \/ Process \/ Settle
  \/ Crash \/ PowerLoss \/ Boot

CalcSpec == CalcInit /\ [][CalcNext]_calcVars

-------------------------------------------------------------------------------
LineBreaks == {i \in DOMAIN log : log[i] = Newline}

(* The part of the log that belongs to the line being typed. *)
LastLine ==
  SubSeq(log, (IF LineBreaks = {} THEN 1 ELSE Max(LineBreaks) + 1), Len(log))

Count(line, c) == Cardinality({i \in DOMAIN line : line[i] = c})

(* The log is written ahead: as long as it has room, every character of a  *)
(* line that was typed, not recalled, is in the log's last line, whatever  *)
(* was erased, browsed, submitted or refused in between.  The step between *)
(* logging ENTER and handling it is the exception                          *)
(* (CalculatorApp.c:43-48).                                                *)
TypedIsLogged ==
  historyPos = -1 /\ Len(log) < LogMax /\ ~(pc = "process" /\ key = "ENTER") =>
    \A c \in Chars : Count(buffer, c) <= Count(LastLine, c)

(* The log ends with a line break, unless it is full.                      *)
Closed == Len(log) < LogMax => log # <<>> /\ Last(log) = Newline

(* Between keys the log tells the outcome on display.  After a result it   *)
(* is empty, since its work is on the stack; after an error the refused    *)
(* line, closed by its line break, is still the end of the log.  The stale *)
(* event that an ignored ENTER tests must not break either.  And from the  *)
(* press of ENTER until the outcome is on the stack, so that a reset finds *)
(* it whether or not it was evaluated, the closed line is in the log       *)
(* (CalculatorApp.c:43-56).                                                *)
LogMatchesOutcome ==
  /\ pc = "idle" => /\ lastEvent = "RESULT" => log = <<>>
                    /\ lastEvent = "ERROR" => Closed
  /\ pc \in {"process", "settle"} /\ key = "ENTER" => Closed
================================================================================
