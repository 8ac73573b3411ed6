----------------------------- MODULE KernelServices -----------------------------
(***************************************************************************)
(* The kernel and the state services together.  Callers reach the history  *)
(* and the operand stack through the service locator, as the adapters of   *)
(* Kernel/Adapters and the user interface do; while a service is not       *)
(* active its null object takes the call and does nothing.  The queue of   *)
(* operations and the result of a line are direct calls.                   *)
(***************************************************************************)
EXTENDS ServiceKernel, StateServices

CONSTANTS
  HistoryId, StackId,   (* KRN_HISTORY and KRN_OPERAND_STACK               *)
  Adapter               (* the instance that is the adapter of each        *)

ASSUME AdapterAssumption ==
  /\ {HistoryId, StackId} \subseteq Ids \cap Proxied
  /\ Adapter \in Instances

vars == <<kernelVars, stateVars>>

(* A call reaches the code of the service only through its instance. *)
Reaches(id) == Get(id) = Adapter

HistoryCall ==
  /\ Reaches(HistoryId)
  /\ HistoryClear \/ \E e \in Entries : HistoryPush(e)
  /\ UNCHANGED <<kernelVars, stackVars, queueVars>>

StackCall ==
  /\ Reaches(StackId)
  /\ StackPop \/ StackClear \/ \E v \in Values : StackPush(v)
  /\ UNCHANGED <<kernelVars, histVars, queueVars>>

QueueCall ==
  /\ QueueClear \/ Dequeue \/ \E op \in Ops : Enqueue(op)
  /\ UNCHANGED <<kernelVars, histVars, stackVars>>

LineEntered ==
  /\ UIError \/ \E v \in Values : UIResult(v)
  /\ UNCHANGED <<kernelVars, histVars, queueVars>>

Init == KernelInit /\ StateInit

Next ==
  \/ KernelNext /\ UNCHANGED stateVars
  \/ HistoryCall \/ StackCall \/ QueueCall \/ LineEntered

Spec == Init /\ [][Next]_vars

TypeOK == KernelTypeOK /\ StateTypeOK

-------------------------------------------------------------------------------
(* "Get an entry by index (0 = most recent)" (Kernel/API/HistoryAPI.h:31): *)
(* what is read from the circular buffer is the list of the latest         *)
(* entries, whatever wraps around, is overwritten or cleared, and whether  *)
(* the service was switched off in between.                                *)
Recent == INSTANCE BoundedList WITH
            Elements <- Entries,
            Room <- HistMax,
            items <- [i \in 1 .. histTotal |-> HistoryGet(i - 1)]

HistoryIsRecentList == Recent!HistorySpec

(* Operations leave the queue in the order they came, and none is lost or  *)
(* repeated when its indices wrap (Kernel/State/OperationQueue.c).         *)
Waiting == INSTANCE BoundedList WITH
             Elements <- Ops,
             Room <- QueueMax,
             items <- [i \in 1 .. qCount |-> qBuf[(qHead + i - 1) % QueueMax]]

QueueIsFIFO == Waiting!QueueSpec

(* The three indices of the queue tell one story. *)
QueueIndices == qTail = (qHead + qCount) % QueueMax
===============================================================================
