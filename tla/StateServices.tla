----------------------------- MODULE StateServices ------------------------------
(***************************************************************************)
(* The services over the calculator's state (Kernel/State): the circular   *)
(* history, the operand stack and the queue of operations.                 *)
(*                                                                         *)
(* The thread has one CalculatorState here, as the programs of the         *)
(* repository do.  It matters: the entries of the history and their number *)
(* lie outside it, the place of the next entry inside it, so a second one, *)
(* or one zeroed again, would read and write the shared buffer elsewhere.  *)
(***************************************************************************)
EXTENDS Integers, Sequences

CONSTANTS
  Entries,    (* what is pushed on the history                             *)
  Values,     (* operands                                                  *)
  Ops,        (* queued operations                                         *)
  Zeroed,     (* what memset leaves in any of them                         *)
  HistMax,    (* HISTORY_MAX_ENTRIES, 32 in the code                       *)
  Depth,      (* operands of CalculatorState, 4 in the code                *)
  QueueMax    (* QUEUE_MAX_SIZE, 16 in the code                            *)

ASSUME StateAssumption ==
  /\ HistMax \in Nat \ {0}
  /\ Depth \in Nat \ {0}
  /\ QueueMax \in Nat \ {0}

VARIABLES
  histBuf,    (* history_buffer                                            *)
  histTotal,  (* total_history_count                                       *)
  histIdx,    (* history_idx                                               *)
  operands,   (* operands                                                  *)
  opCount,    (* op_count                                                  *)
  overflow,   (* bit 0 of the flags                                        *)
  qBuf,       (* op_queue                                                  *)
  qHead, qTail, qCount

histVars == <<histBuf, histTotal, histIdx>>
stackVars == <<operands, opCount, overflow>>
queueVars == <<qBuf, qHead, qTail, qCount>>
stateVars == <<histVars, stackVars, queueVars>>

StateTypeOK ==
  /\ histBuf \in [0 .. HistMax - 1 -> Entries \cup {Zeroed}]
  /\ histTotal \in 0 .. HistMax
  /\ histIdx \in 0 .. HistMax - 1
  /\ operands \in [0 .. Depth - 1 -> Values \cup {Zeroed}]
  /\ opCount \in 0 .. Depth
  /\ overflow \in BOOLEAN
  /\ qBuf \in [0 .. QueueMax - 1 -> Ops \cup {Zeroed}]
  /\ qHead \in 0 .. QueueMax - 1
  /\ qTail \in 0 .. QueueMax - 1
  /\ qCount \in 0 .. QueueMax

StateInit ==
  /\ histBuf = [i \in 0 .. HistMax - 1 |-> Zeroed] /\ histTotal = 0
  /\ histIdx = 0
  /\ operands = [i \in 0 .. Depth - 1 |-> Zeroed]
  /\ opCount = 0
  /\ overflow = FALSE
  /\ qBuf = [i \in 0 .. QueueMax - 1 |-> Zeroed]
  /\ qHead = 0 /\ qTail = 0 /\ qCount = 0

-------------------------------------------------------------------------------
(* History.                                                                *)

(* Mutant: the count goes on past the size of the buffer. *)
MutHistoryPush(e) ==
  /\ histBuf' = [histBuf EXCEPT ![histIdx] = e]
  /\ histIdx' = (histIdx + 1) % HistMax
  /\ histTotal' = IF histTotal <= HistMax THEN histTotal + 1 ELSE histTotal

HistoryPush(e) ==
  /\ histBuf' = [histBuf EXCEPT ![histIdx] = e]
  /\ histIdx' = (histIdx + 1) % HistMax
  /\ histTotal' = IF histTotal < HistMax THEN histTotal + 1 ELSE histTotal

(* Mutant: the newest entry is looked for where the next one goes. *)
MutHistoryGet(index) == histBuf[(histIdx - index) % HistMax]

(* The entry index places before the newest; index < histTotal.  The loop  *)
(* that adds HistMax to a negative place is the modulo of TLA+.            *)
HistoryGet(index) == histBuf[(histIdx - 1 - index) % HistMax]

HistoryClear ==
  /\ histIdx' = 0
  /\ histTotal' = 0
  /\ histBuf' = [i \in 0 .. HistMax - 1 |-> Zeroed]

-------------------------------------------------------------------------------
(* Operand stack.                                                          *)

StackPush(v) ==
  IF opCount >= Depth
  THEN overflow' = TRUE /\ UNCHANGED <<operands, opCount>>
  ELSE /\ operands' = [operands EXCEPT ![opCount] = v]
       /\ opCount' = opCount + 1
       /\ UNCHANGED overflow

(* The value popped stays in the array. *)
StackPop ==
  /\ opCount > 0
  /\ opCount' = opCount - 1
  /\ UNCHANGED <<operands, overflow>>

StackPeek == operands[opCount - 1]

StackClear ==
  /\ opCount' = 0
  /\ UNCHANGED <<operands, overflow>>

(* What the user interface does with the result of a line: it clears the   *)
(* flags, which the evaluation may raise again, moves all operands one     *)
(* place up and puts the result in place 0 (Application/UI/ui_core.c).     *)
UIResult(v) ==
  /\ operands' = [i \in 0 .. Depth - 1 |-> IF i = 0 THEN v ELSE operands[i - 1]]
  /\ opCount' = IF opCount < Depth THEN opCount + 1 ELSE opCount
  /\ overflow' \in BOOLEAN

(* A line that is not an expression. *)
UIError ==
  /\ overflow' \in BOOLEAN
  /\ UNCHANGED <<operands, opCount>>

-------------------------------------------------------------------------------
(* Queue of operations.                                                    *)

(* Mutant: the queue counts its elements but takes one too many. *)
MutEnqueue(op) ==
  /\ qCount <= QueueMax
  /\ qBuf' = [qBuf EXCEPT ![qTail] = op]
  /\ qTail' = (qTail + 1) % QueueMax
  /\ qCount' = qCount + 1
  /\ UNCHANGED qHead

Enqueue(op) ==
  /\ qCount < QueueMax
  /\ qBuf' = [qBuf EXCEPT ![qTail] = op]
  /\ qTail' = (qTail + 1) % QueueMax
  /\ qCount' = qCount + 1
  /\ UNCHANGED qHead

Dequeue ==
  /\ qCount # 0
  /\ qHead' = (qHead + 1) % QueueMax
  /\ qCount' = qCount - 1
  /\ UNCHANGED <<qBuf, qTail>>

(* queue_init does the same. *)
QueueClear ==
  /\ qBuf' = [i \in 0 .. QueueMax - 1 |-> Zeroed]
  /\ qHead' = 0 /\ qTail' = 0 /\ qCount' = 0
===============================================================================
