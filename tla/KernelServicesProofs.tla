-------------------------- MODULE KernelServicesProofs --------------------------
(***************************************************************************)
(* Proofs about KernelServices, for every number of services and every     *)
(* size of the buffers: type correctness, the agreement of flags and       *)
(* masks, of the two lookups, that the queue of operations is a bounded    *)
(* queue, and that the history is the list of the latest entries.          *)
(***************************************************************************)
EXTENDS KernelServices, SequenceTheorems, WellFoundedInduction, TLAPS

USE KernelAssumption, StateAssumption, AdapterAssumption

(* The two masks and the flags, and the three indices of the queue, are    *)
(* maintained together with the types.                                     *)
IInv == TypeOK /\ FlagsMatchMasks /\ QueueIndices

(* Indices that wrap stay inside the buffer, and move by one. *)
LEMMA Wrap ==
  ASSUME NEW n \in Nat \ {0}, NEW x \in 0 .. n - 1
  PROVE  /\ (x + 1) % n \in 0 .. n - 1
         /\ (x + 1) % n = IF x = n - 1 THEN 0 ELSE x + 1
  OBVIOUS

(* The remainder of a sum of two indices, and of their difference. *)
LEMMA Around ==
  ASSUME NEW n \in Nat \ {0}, NEW x \in 0 .. n - 1, NEW k \in 0 .. n
  PROVE  /\ (x + k) % n = IF x + k < n THEN x + k ELSE x + k - n
         /\ (x - k) % n = IF x - k >= 0 THEN x - k ELSE x - k + n
  OBVIOUS

(* The registry on its own. *)
LEMMA RegistryStep ==
  ASSUME KernelTypeOK, FlagsMatchMasks, KernelNext
  PROVE  KernelTypeOK' /\ FlagsMatchMasks'
<1>1. CASE ShutdownAll
  BY <1>1 DEF ShutdownAll, KernelTypeOK, FlagsMatchMasks, Empty
<1>2. ASSUME NEW id \in Ids, NEW name \in Names \cup {Null}, NEW instance \in Instances,
             Register(id, name, instance)
      PROVE  KernelTypeOK' /\ FlagsMatchMasks'
  <2>. DEFINE e == [name |-> IF name = Null THEN Unnamed ELSE name,
                    instance |-> instance, flags |-> {"OCCUPIED"}]
  <2>1. services' = [services EXCEPT ![id] = e]
    BY <1>2 DEF Register
  <2>2. KernelTypeOK'
    BY <1>2, <2>1 DEF Register, KernelTypeOK
  <2>3. \A i \in Ids : services'[i] = IF i = id THEN e ELSE services[i]
    BY <2>1 DEF KernelTypeOK
  <2>4. /\ "OCCUPIED" \in e.flags /\ "ACTIVE" \notin e.flags /\ e.instance # Null
    OBVIOUS
  <2>5. registered' = registered \cup {id} /\ active' = active \ {id}
    BY <1>2 DEF Register
  <2>. HIDE DEF e
  <2>6. FlagsMatchMasks'
    BY <2>3, <2>4, <2>5 DEF FlagsMatchMasks
  <2>. QED BY <2>2, <2>6
<1>3. ASSUME NEW id \in Ids, Activate(id)
      PROVE  KernelTypeOK' /\ FlagsMatchMasks'
  BY <1>3 DEF Activate, KernelTypeOK, FlagsMatchMasks
<1>4. ASSUME NEW id \in Ids, Deactivate(id)
      PROVE  KernelTypeOK' /\ FlagsMatchMasks'
  BY <1>4 DEF Deactivate, KernelTypeOK, FlagsMatchMasks
<1>. QED BY <1>1, <1>2, <1>3, <1>4 DEF KernelNext

-------------------------------------------------------------------------------
(* The services over the state. *)
LEMMA HistoryStep ==
  ASSUME StateTypeOK, HistoryClear \/ \E e \in Entries : HistoryPush(e)
  PROVE  /\ histBuf' \in [0 .. HistMax - 1 -> Entries \cup {Zeroed}]
         /\ histTotal' \in 0 .. HistMax
         /\ histIdx' \in 0 .. HistMax - 1
<1>1. CASE HistoryClear
  BY <1>1 DEF HistoryClear
<1>2. ASSUME NEW e \in Entries, HistoryPush(e)
      PROVE  /\ histBuf' \in [0 .. HistMax - 1 -> Entries \cup {Zeroed}]
             /\ histTotal' \in 0 .. HistMax
             /\ histIdx' \in 0 .. HistMax - 1
  <2>1. histIdx \in 0 .. HistMax - 1 /\ HistMax \in Nat \ {0}
    BY DEF StateTypeOK
  <2>2. (histIdx + 1) % HistMax \in 0 .. HistMax - 1
    BY <2>1, Wrap
  <2>. QED BY <1>2, <2>2 DEF HistoryPush, StateTypeOK
<1>. QED BY <1>1, <1>2

LEMMA StackStep ==
  ASSUME StateTypeOK,
         \/ StackPop \/ StackClear \/ UIError
         \/ \E v \in Values : StackPush(v) \/ UIResult(v)
  PROVE  /\ operands' \in [0 .. Depth - 1 -> Values \cup {Zeroed}]
         /\ opCount' \in 0 .. Depth
         /\ overflow' \in BOOLEAN
<1>. USE DEF StateTypeOK
<1>1. CASE StackPop \/ StackClear \/ UIError
  BY <1>1 DEF StackPop, StackClear, UIError
<1>2. ASSUME NEW v \in Values, StackPush(v)
      PROVE  /\ operands' \in [0 .. Depth - 1 -> Values \cup {Zeroed}]
             /\ opCount' \in 0 .. Depth
             /\ overflow' \in BOOLEAN
  <2>1. CASE opCount >= Depth
    BY <1>2, <2>1, Zenon DEF StackPush
  <2>2. CASE ~(opCount >= Depth)
    <3>1. operands' = [operands EXCEPT ![opCount] = v] /\ opCount' = opCount + 1
          /\ overflow' = overflow
      BY <1>2, <2>2 DEF StackPush
    <3>2. opCount \in 0 .. Depth - 1
      BY <2>2
    <3>. QED BY <3>1, <3>2
  <2>. QED BY <2>1, <2>2
<1>3. ASSUME NEW v \in Values, UIResult(v)
      PROVE  /\ operands' \in [0 .. Depth - 1 -> Values \cup {Zeroed}]
             /\ opCount' \in 0 .. Depth
             /\ overflow' \in BOOLEAN
  BY <1>3 DEF UIResult
<1>. QED BY <1>1, <1>2, <1>3

LEMMA QueueStep ==
  ASSUME StateTypeOK, QueueIndices, QueueClear \/ Dequeue \/ \E op \in Ops : Enqueue(op)
  PROVE  /\ qBuf' \in [0 .. QueueMax - 1 -> Ops \cup {Zeroed}]
         /\ qHead' \in 0 .. QueueMax - 1
         /\ qTail' \in 0 .. QueueMax - 1
         /\ qCount' \in 0 .. QueueMax
         /\ QueueIndices'
<1>1. /\ QueueMax \in Nat \ {0} /\ qHead \in 0 .. QueueMax - 1
      /\ qTail \in 0 .. QueueMax - 1 /\ qCount \in 0 .. QueueMax
      /\ qBuf \in [0 .. QueueMax - 1 -> Ops \cup {Zeroed}]
  BY DEF StateTypeOK
<1>2. CASE QueueClear
  <2>1. (0 + 0) % QueueMax = 0
    BY <1>1
  <2>. QED BY <1>1, <1>2, <2>1 DEF QueueClear, QueueIndices
<1>3. CASE Dequeue
  <2>1. qCount - 1 \in 0 .. QueueMax /\ qHead' = (qHead + 1) % QueueMax
        /\ qCount' = qCount - 1 /\ qTail' = qTail /\ qBuf' = qBuf
    BY <1>1, <1>3 DEF Dequeue
  <2>2. qHead' = IF qHead = QueueMax - 1 THEN 0 ELSE qHead + 1
    BY <1>1, <2>1, Wrap
  <2>3. qHead' \in 0 .. QueueMax - 1
    BY <1>1, <2>2
  <2>4. qTail = IF qHead + qCount < QueueMax THEN qHead + qCount ELSE qHead + qCount - QueueMax
    BY <1>1, Around DEF QueueIndices
  <2>5. (qHead' + (qCount - 1)) % QueueMax =
          IF qHead' + (qCount - 1) < QueueMax THEN qHead' + (qCount - 1)
          ELSE qHead' + (qCount - 1) - QueueMax
    BY <1>1, <2>1, <2>3, Around
  <2>6. qTail' = (qHead' + qCount') % QueueMax
    BY <1>1, <2>1, <2>2, <2>4, <2>5
  <2>. QED BY <1>1, <2>1, <2>3, <2>6 DEF QueueIndices
<1>4. ASSUME NEW op \in Ops, Enqueue(op)
      PROVE  /\ qBuf' \in [0 .. QueueMax - 1 -> Ops \cup {Zeroed}]
             /\ qHead' \in 0 .. QueueMax - 1
             /\ qTail' \in 0 .. QueueMax - 1
             /\ qCount' \in 0 .. QueueMax
             /\ QueueIndices'
  <2>1. /\ qCount < QueueMax /\ qCount' = qCount + 1 /\ qHead' = qHead
        /\ qTail' = (qTail + 1) % QueueMax /\ qBuf' = [qBuf EXCEPT ![qTail] = op]
    BY <1>4 DEF Enqueue
  <2>2. qTail' = IF qTail = QueueMax - 1 THEN 0 ELSE qTail + 1
    BY <1>1, <2>1, Wrap
  <2>3. qTail = IF qHead + qCount < QueueMax THEN qHead + qCount ELSE qHead + qCount - QueueMax
    BY <1>1, Around DEF QueueIndices
  <2>4. qCount + 1 \in 0 .. QueueMax
    BY <1>1, <2>1
  <2>5. (qHead + (qCount + 1)) % QueueMax =
          IF qHead + (qCount + 1) < QueueMax THEN qHead + (qCount + 1)
          ELSE qHead + (qCount + 1) - QueueMax
    BY <1>1, <2>4, Around
  <2>6. (qHead + (qCount + 1)) % QueueMax = qTail'
    BY <1>1, <2>1, <2>2, <2>3, <2>5
  <2>7. qTail' \in 0 .. QueueMax - 1
    BY <1>1, <2>2
  <2>8. qBuf' \in [0 .. QueueMax - 1 -> Ops \cup {Zeroed}]
    BY <1>1, <2>1
  <2>9. qTail' = (qHead' + qCount') % QueueMax
    BY <2>1, <2>6
  <2>10. QueueIndices'
    BY <2>9 DEF QueueIndices
  <2>11. qHead' \in 0 .. QueueMax - 1 /\ qCount' \in 0 .. QueueMax
    BY <1>1, <2>1, <2>4
  <2>. QED BY <2>7, <2>8, <2>10, <2>11
<1>. QED BY <1>2, <1>3, <1>4

-------------------------------------------------------------------------------
(* The invariant is inductive. *)
LEMMA Invariance == Spec => []IInv
<1>1. Init => IInv
  <2>. SUFFICES ASSUME Init PROVE IInv
    OBVIOUS
  <2>1. KernelTypeOK /\ FlagsMatchMasks
    BY DEF Init, KernelInit, KernelTypeOK, FlagsMatchMasks, Empty
  <2>2. StateTypeOK
    <3>1. 0 \in 0 .. HistMax - 1 /\ 0 \in 0 .. QueueMax - 1 /\ 0 \in 0 .. HistMax
          /\ 0 \in 0 .. Depth /\ 0 \in 0 .. QueueMax
      OBVIOUS
    <3>2. /\ histBuf \in [0 .. HistMax - 1 -> Entries \cup {Zeroed}]
          /\ operands \in [0 .. Depth - 1 -> Values \cup {Zeroed}]
          /\ qBuf \in [0 .. QueueMax - 1 -> Ops \cup {Zeroed}]
      BY DEF Init, StateInit
    <3>3. histTotal = 0 /\ histIdx = 0 /\ opCount = 0 /\ overflow = FALSE
          /\ qHead = 0 /\ qTail = 0 /\ qCount = 0
      BY DEF Init, StateInit
    <3>. QED BY <3>1, <3>2, <3>3 DEF StateTypeOK
  <2>3. QueueIndices
    <3>1. qTail = 0 /\ qHead = 0 /\ qCount = 0
      BY DEF Init, StateInit
    <3>2. QueueMax \in Nat \ {0} /\ qHead \in 0 .. QueueMax - 1 /\ qCount \in 0 .. QueueMax
      BY <3>1
    <3>3. qHead + qCount < QueueMax
      BY <3>1, <3>2
    <3>4. (qHead + qCount) % QueueMax = qHead + qCount
      BY <3>2, <3>3, Around
    <3>. QED BY <3>1, <3>4 DEF QueueIndices
  <2>. QED BY <2>1, <2>2, <2>3 DEF IInv, TypeOK
<1>2. IInv /\ [Next]_vars => IInv'
  <2>. SUFFICES ASSUME IInv, [Next]_vars PROVE IInv'
    OBVIOUS
  <2>. USE DEF IInv, TypeOK
  <2>1. CASE KernelNext /\ UNCHANGED stateVars
    <3>1. KernelTypeOK' /\ FlagsMatchMasks'
      BY <2>1, RegistryStep
    <3>2. StateTypeOK' /\ QueueIndices'
      BY <2>1 DEF stateVars, histVars, stackVars, queueVars, StateTypeOK, QueueIndices
    <3>. QED BY <3>1, <3>2
  <2>2. ASSUME UNCHANGED kernelVars
        PROVE  KernelTypeOK' /\ FlagsMatchMasks'
    BY <2>2 DEF kernelVars, KernelTypeOK, FlagsMatchMasks
  <2>3. CASE HistoryCall
    BY <2>2, <2>3, HistoryStep
       DEF HistoryCall, StateTypeOK, QueueIndices, stackVars, queueVars
  <2>4. CASE StackCall \/ LineEntered
    BY <2>2, <2>4, StackStep
       DEF StackCall, LineEntered, StateTypeOK, QueueIndices, histVars, queueVars
  <2>5. CASE QueueCall
    BY <2>2, <2>5, QueueStep DEF QueueCall, StateTypeOK, histVars, stackVars
  <2>6. CASE UNCHANGED vars
    BY <2>2, <2>6
       DEF vars, stateVars, histVars, stackVars, queueVars, StateTypeOK, QueueIndices
  <2>. QED BY <2>1, <2>3, <2>4, <2>5, <2>6 DEF Next
<1>. QED BY <1>1, <1>2, PTL DEF Spec

(* Counts never pass the limits of the buffers, and every place an index   *)
(* names exists (Kernel/State).                                            *)
THEOREM TypeCorrect == Spec => []TypeOK
<1>. IInv => TypeOK
  BY DEF IInv
<1>. QED BY Invariance, PTL

(* The flags of the slots and the two masks always say the same            *)
(* (Kernel/Kernel.c).                                                      *)
THEOREM FlagsCorrect == Spec => []FlagsMatchMasks
<1>. IInv => FlagsMatchMasks
  BY DEF IInv
<1>. QED BY Invariance, PTL

(* The first of the slots with a property. *)
LEMMA FirstSlot ==
  ASSUME NEW S \in SUBSET Ids, S # {}
  PROVE  Min(S) \in S
<1>. DEFINE R == {ss \in Nat \X Nat : ss[1] < ss[2]}
<1>1. IsWellFoundedOn(R, Nat)
  BY NatLessThanWellFounded DEF OpToRel
<1>2. \A x, y \in Nat : y < x => <<y, x>> \in R
  OBVIOUS
<1>3. S \in SUBSET Nat
  BY DEF Ids
<1>. HIDE DEF R
<1>4. PICK x \in S : \A y \in S : <<y, x>> \notin R
  BY <1>1, <1>3, WFMin
<1>5. \A y \in S : ~(y < x)
  BY <1>2, <1>3, <1>4
<1>6. \A y \in S : x <= y
  BY <1>3, <1>4, <1>5
<1>. QED BY <1>4, <1>6 DEF Min

(* The lookup by number gives an implementation exactly while the service  *)
(* is switched on, and the lookup by name agrees with it                   *)
(* (Kernel/Kernel.c:360, Kernel/Kernel.h:202).                             *)
LEMMA GetIsLive ==
  ASSUME IInv, NEW id \in Ids
  PROVE  /\ Get(id) \in Instances <=> "ACTIVE" \in services[id].flags
         /\ Get(id) \notin Instances => Get(id) = IF id \in Proxied THEN Proxy ELSE Null
<1>1. CASE id \in active
  <2>1. Has(id) /\ "ACTIVE" \in services[id].flags /\ services[id].instance # Null
    BY <1>1 DEF Has, IInv, FlagsMatchMasks
  <2>2. services[id].instance \in Instances
    BY <2>1 DEF IInv, TypeOK, KernelTypeOK
  <2>. QED BY <2>1, <2>2 DEF Get
<1>2. CASE id \notin active
  <2>1. ~Has(id) /\ "ACTIVE" \notin services[id].flags
    BY <1>2 DEF Has, IInv, FlagsMatchMasks
  <2>. QED BY <2>1 DEF Get
<1>. QED BY <1>1, <1>2

THEOREM LookupsCorrect == Spec => []LookupsAgree
<1>1. IInv => LookupsAgree
  <2>. SUFFICES ASSUME IInv, NEW name \in Names
                PROVE  LET live == {id \in Ids : "ACTIVE" \in services[id].flags
                                                /\ services[id].name = name}
                       IN  IF live = {} THEN GetByName(name) = Null
                           ELSE \E id \in live : GetByName(name) = Get(id)
    BY GetIsLive DEF LookupsAgree
  <2>. DEFINE live == {id \in Ids : "ACTIVE" \in services[id].flags /\ services[id].name = name}
  <2>1. live = {id \in Ids : Has(id) /\ services[id].name = name}
    BY DEF IInv, FlagsMatchMasks, Has
  <2>2. GetByName(name) = IF live = {} THEN Null ELSE services[Min(live)].instance
    BY <2>1 DEF GetByName
  <2>3. ASSUME NEW id \in live
        PROVE  Get(id) = services[id].instance
    BY <2>1, <2>3 DEF Get
  <2>4. live \in SUBSET Ids
    OBVIOUS
  <2>. HIDE DEF live
  <2>5. CASE live = {}
    BY <2>2, <2>5 DEF live
  <2>6. CASE live # {}
    <3>1. Min(live) \in live
      BY <2>4, <2>6, FirstSlot
    <3>2. GetByName(name) = Get(Min(live))
      BY <2>2, <2>3, <2>6, <3>1
    <3>. QED BY <2>6, <3>1, <3>2 DEF live
  <2>. QED BY <2>5, <2>6
<1>. QED BY <1>1, Invariance, PTL

(* Together: every record of the services tells the same in every          *)
(* reachable state, for every number of services (Kernel.c:291-393).       *)
THEOREM ServicesCorrect == Spec => []ServicesAgree
<1>1. FlagsMatchMasks /\ LookupsAgree => ServicesAgree
  BY DEF ServicesAgree
<1>. QED BY <1>1, FlagsCorrect, LookupsCorrect, PTL

-------------------------------------------------------------------------------
(* Circular buffers.  The first two lemmas are what a queue does at its    *)
(* two ends, the third what a history does with a new entry.               *)
Ring(buf, h, c, n) == [i \in 1 .. c |-> buf[(h + i - 1) % n]]

Newest(buf, x, t, n) == [i \in 1 .. t |-> buf[(x - 1 - (i - 1)) % n]]

Written(new, buf, n, k, e) == \A j \in 0 .. n - 1 : new[j] = IF j = k THEN e ELSE buf[j]

LEMMA Tabulated ==
  ASSUME NEW T, NEW c \in Nat, NEW f \in [1 .. c -> T]
  PROVE  f \in Seq(T) /\ Len(f) = c
  OBVIOUS

Appended(n, T, buf, h, c, e, nbuf, k, d) ==
  /\ n \in Nat \ {0} /\ h \in 0 .. n - 1 /\ c \in 0 .. n - 1 /\ e \in T
  /\ buf \in [0 .. n - 1 -> T] /\ nbuf \in [0 .. n - 1 -> T]
  /\ k = (h + c) % n /\ d = c + 1
  /\ Written(nbuf, buf, n, k, e)

LEMMA RingAppend ==
  ASSUME NEW n, NEW T, NEW buf, NEW h, NEW c, NEW e, NEW nbuf, NEW k, NEW d,
         Appended(n, T, buf, h, c, e, nbuf, k, d)
  PROVE  Ring(nbuf, h, d, n) = Append(Ring(buf, h, c, n), e)
<1>0. /\ n \in Nat \ {0} /\ h \in 0 .. n - 1 /\ c \in 0 .. n - 1 /\ e \in T
      /\ buf \in [0 .. n - 1 -> T] /\ nbuf \in [0 .. n - 1 -> T]
      /\ Written(nbuf, buf, n, (h + c) % n, e)
  BY DEF Appended
<1>. DEFINE W == [i \in 1 .. c |-> buf[(h + i - 1) % n]]
            V == [i \in 1 .. c + 1 |-> nbuf[(h + i - 1) % n]]
<1>1. \A i \in 1 .. c + 1 :
         (h + i - 1) % n = IF h + (i - 1) < n THEN h + (i - 1) ELSE h + (i - 1) - n
  <2>. TAKE i \in 1 .. c + 1
  <2>1. i - 1 \in 0 .. n /\ h + i - 1 = h + (i - 1)
    BY <1>0
  <2>2. (h + (i - 1)) % n = IF h + (i - 1) < n THEN h + (i - 1) ELSE h + (i - 1) - n
    BY <1>0, <2>1, Around
  <2>. QED BY <2>1, <2>2
<1>2. (h + c) % n = IF h + c < n THEN h + c ELSE h + c - n
  BY <1>0, Around
<1>3. \A i \in 1 .. c + 1 : (h + i - 1) % n \in 0 .. n - 1
  BY <1>0, <1>1
<1>4. \A i \in 1 .. c : (h + i - 1) % n # (h + c) % n
  BY <1>0, <1>1, <1>2
<1>5. (h + (c + 1) - 1) % n = (h + c) % n
  BY <1>0, <1>1, <1>2
<1>6. /\ nbuf \in [0 .. n - 1 -> T]
      /\ \A j \in 0 .. n - 1 : nbuf[j] = IF j = (h + c) % n THEN e ELSE buf[j]
  BY <1>0 DEF Written
<1>7. /\ W \in [1 .. c -> T] /\ V \in [1 .. c + 1 -> T]
      /\ \A i \in 1 .. c : W[i] = buf[(h + i - 1) % n]
      /\ \A i \in 1 .. c + 1 : V[i] = nbuf[(h + i - 1) % n]
  BY <1>0, <1>3, <1>6
<1>. HIDE DEF V, W
<1>8. /\ W \in Seq(T) /\ Len(W) = c /\ V \in Seq(T) /\ Len(V) = c + 1
  BY <1>0, <1>7, Tabulated
<1>9. /\ Append(W, e) \in Seq(T) /\ Len(Append(W, e)) = c + 1
      /\ \A i \in 1 .. c : Append(W, e)[i] = W[i]
      /\ Append(W, e)[c + 1] = e
  BY <1>0, <1>8, AppendProperties
<1>10. \A i \in 1 .. c + 1 : V[i] = Append(W, e)[i]
  <2>1. V[c + 1] = e
    BY <1>0, <1>3, <1>5, <1>6, <1>7
  <2>2. \A i \in 1 .. c : V[i] = W[i]
    <3>. TAKE i \in 1 .. c
    <3>. DEFINE p == (h + i - 1) % n
    <3>1. i \in 1 .. c + 1
      BY <1>0
    <3>2. V[i] = nbuf[p] /\ W[i] = buf[p] /\ p \in 0 .. n - 1 /\ p # (h + c) % n
      BY <1>3, <1>4, <1>7, <3>1
    <3>. HIDE DEF p
    <3>. QED BY <1>6, <3>2
  <2>3. \A i \in 1 .. c + 1 : i \in 1 .. c \/ i = c + 1
    BY <1>0
  <2>. QED BY <1>9, <2>1, <2>2, <2>3
<1>11. V = Append(W, e)
  BY <1>8, <1>9, <1>10, SeqEqual
<1>12. d = c + 1
  BY DEF Appended
<1>. QED BY <1>11, <1>12 DEF V, W, Ring

LEMMA RingTail ==
  ASSUME NEW n \in Nat \ {0}, NEW T, NEW buf \in [0 .. n - 1 -> T],
         NEW h \in 0 .. n - 1, NEW c \in 1 .. n
  PROVE  Ring(buf, (h + 1) % n, c - 1, n) = Tail(Ring(buf, h, c, n))
<1>. DEFINE W == [i \in 1 .. c |-> buf[(h + i - 1) % n]]
            V == [i \in 1 .. c - 1 |-> buf[(((h + 1) % n) + i - 1) % n]]
<1>1. \A i \in 1 .. c :
         (h + i - 1) % n = IF h + (i - 1) < n THEN h + (i - 1) ELSE h + (i - 1) - n
  <2>. TAKE i \in 1 .. c
  <2>1. i - 1 \in 0 .. n /\ h + i - 1 = h + (i - 1)
    OBVIOUS
  <2>2. (h + (i - 1)) % n = IF h + (i - 1) < n THEN h + (i - 1) ELSE h + (i - 1) - n
    BY <2>1, Around
  <2>. QED BY <2>1, <2>2
<1>2. PICK g \in 0 .. n - 1 : g = (h + 1) % n /\ g = IF h = n - 1 THEN 0 ELSE h + 1
  BY Wrap
<1>3. \A i \in 1 .. c - 1 :
         (g + i - 1) % n = IF g + (i - 1) < n THEN g + (i - 1) ELSE g + (i - 1) - n
  <2>. TAKE i \in 1 .. c - 1
  <2>1. i - 1 \in 0 .. n /\ g + i - 1 = g + (i - 1)
    OBVIOUS
  <2>2. (g + (i - 1)) % n = IF g + (i - 1) < n THEN g + (i - 1) ELSE g + (i - 1) - n
    BY <2>1, Around
  <2>. QED BY <2>1, <2>2
<1>4. \A i \in 1 .. c - 1 : (g + i - 1) % n = (h + (i + 1) - 1) % n
  <2>. TAKE i \in 1 .. c - 1
  <2>1. i + 1 \in 1 .. c
    OBVIOUS
  <2>2. (h + (i + 1) - 1) % n = IF h + i < n THEN h + i ELSE h + i - n
    <3>1. (i + 1) - 1 = i
      OBVIOUS
    <3>. QED BY <1>1, <2>1, <3>1
  <2>3. (g + i - 1) % n = IF g + (i - 1) < n THEN g + (i - 1) ELSE g + (i - 1) - n
    BY <1>3
  <2>4. (IF g + (i - 1) < n THEN g + (i - 1) ELSE g + (i - 1) - n)
          = (IF h + i < n THEN h + i ELSE h + i - n)
    BY <1>2
  <2>. QED BY <2>2, <2>3, <2>4
<1>5. \A i \in 1 .. c : (h + i - 1) % n \in 0 .. n - 1
  BY <1>1
<1>6. /\ W \in [1 .. c -> T] /\ V \in [1 .. c - 1 -> T]
      /\ \A i \in 1 .. c : W[i] = buf[(h + i - 1) % n]
      /\ \A i \in 1 .. c - 1 : V[i] = buf[(h + (i + 1) - 1) % n]
  <2>1. \A i \in 1 .. c - 1 : i + 1 \in 1 .. c
    OBVIOUS
  <2>. QED BY <1>2, <1>4, <1>5, <2>1
<1>. HIDE DEF V, W
<1>7. W \in Seq(T) /\ Len(W) = c /\ V \in Seq(T) /\ Len(V) = c - 1
  BY <1>6, Tabulated
<1>8. /\ Tail(W) \in Seq(T) /\ Len(Tail(W)) = c - 1
      /\ \A i \in 1 .. c - 1 : Tail(W)[i] = W[i + 1]
  BY <1>7
<1>9. \A i \in 1 .. c - 1 : V[i] = Tail(W)[i]
  BY <1>6, <1>8
<1>10. V = Tail(W)
  BY <1>7, <1>8, <1>9, SeqEqual
<1>. QED BY <1>10 DEF V, W, Ring

Cut(all, n) == SubSeq(all, 1, IF Len(all) < n THEN Len(all) ELSE n)

Added(n, T, buf, x, t, e, nbuf, y, u) ==
  /\ n \in Nat \ {0} /\ x \in 0 .. n - 1 /\ t \in 0 .. n /\ e \in T
  /\ buf \in [0 .. n - 1 -> T] /\ nbuf \in [0 .. n - 1 -> T]
  /\ y = (x + 1) % n /\ u = IF t < n THEN t + 1 ELSE t
  /\ Written(nbuf, buf, n, x, e)

LEMMA RingLatest ==
  ASSUME NEW n, NEW T, NEW buf, NEW x, NEW t, NEW e, NEW nbuf, NEW y, NEW u,
         Added(n, T, buf, x, t, e, nbuf, y, u)
  PROVE  Newest(nbuf, y, u, n) = Cut(<<e>> \o Newest(buf, x, t, n), n)
<1>0. /\ n \in Nat \ {0} /\ x \in 0 .. n - 1 /\ t \in 0 .. n /\ e \in T
      /\ buf \in [0 .. n - 1 -> T] /\ nbuf \in [0 .. n - 1 -> T]
      /\ Written(nbuf, buf, n, x, e)
  BY DEF Added
<1>u. u = (IF t < n THEN t + 1 ELSE t) /\ u \in 1 .. n
  BY DEF Added
<1>. DEFINE R == Newest(buf, x, t, n)
            all == <<e>> \o R
            V == Newest(nbuf, y, u, n)
<1>1. \A i \in 1 .. t : (x - 1 - (i - 1)) % n = IF x - i >= 0 THEN x - i ELSE x - i + n
  <2>. TAKE i \in 1 .. t
  <2>1. i \in 0 .. n /\ x - 1 - (i - 1) = x - i
    BY <1>0
  <2>2. (x - i) % n = IF x - i >= 0 THEN x - i ELSE x - i + n
    BY <1>0, <2>1, Around
  <2>. QED BY <2>1, <2>2
<1>2. y = IF x = n - 1 THEN 0 ELSE x + 1
  BY <1>0, Wrap DEF Added
<1>y. y \in 0 .. n - 1
  BY <1>0, <1>2
<1>3. \A i \in 1 .. u : (y - 1 - (i - 1)) % n = IF y - i >= 0 THEN y - i ELSE y - i + n
  <2>. TAKE i \in 1 .. u
  <2>1. i \in 0 .. n /\ y - 1 - (i - 1) = y - i
    BY <1>0, <1>u, <1>y
  <2>2. (y - i) % n = IF y - i >= 0 THEN y - i ELSE y - i + n
    BY <1>0, <1>y, <2>1, Around
  <2>. QED BY <2>1, <2>2
<1>4. \A i \in 1 .. u : (y - 1 - (i - 1)) % n \in 0 .. n - 1
  BY <1>0, <1>u, <1>y, <1>3
<1>5. u >= 1 /\ (y - 1 - (1 - 1)) % n = x
  <2>1. u >= 1
    BY <1>u
  <2>2. 1 \in 0 .. n /\ y - 1 - (1 - 1) = y - 1
    BY <1>0, <1>y
  <2>3. (y - 1) % n = IF y - 1 >= 0 THEN y - 1 ELSE y - 1 + n
    BY <1>0, <1>y, <2>2, Around
  <2>. QED BY <1>0, <1>2, <2>1, <2>2, <2>3
<1>6. \A i \in 2 .. u : /\ i - 1 \in 1 .. t
                       /\ (y - 1 - (i - 1)) % n # x
                       /\ (y - 1 - (i - 1)) % n = (x - 1 - ((i - 1) - 1)) % n
  <2>. TAKE i \in 2 .. u
  <2>1. i \in 1 .. u /\ i - 1 \in 1 .. t
    BY <1>0, <1>u
  <2>2. (x - 1 - ((i - 1) - 1)) % n = IF x - (i - 1) >= 0 THEN x - (i - 1) ELSE x - (i - 1) + n
    BY <1>0, <1>1, <2>1
  <2>3. (y - 1 - (i - 1)) % n = IF y - i >= 0 THEN y - i ELSE y - i + n
    BY <1>3, <2>1
  <2>4. LET p == IF y - i >= 0 THEN y - i ELSE y - i + n
        IN  p # x /\ p = IF x - (i - 1) >= 0 THEN x - (i - 1) ELSE x - (i - 1) + n
    BY <1>0, <1>u, <1>2, <2>1
  <2>. QED BY <2>1, <2>2, <2>3, <2>4
<1>7. /\ nbuf \in [0 .. n - 1 -> T]
      /\ \A j \in 0 .. n - 1 : nbuf[j] = IF j = x THEN e ELSE buf[j]
  BY <1>0 DEF Written
<1>8. \A i \in 1 .. t : (x - 1 - (i - 1)) % n \in 0 .. n - 1
  BY <1>0, <1>1
<1>9. /\ R \in [1 .. t -> T] /\ V \in [1 .. u -> T]
      /\ \A i \in 1 .. t : R[i] = buf[(x - 1 - (i - 1)) % n]
      /\ \A i \in 1 .. u : V[i] = nbuf[(y - 1 - (i - 1)) % n]
  BY <1>0, <1>4, <1>7, <1>8 DEF Newest
<1>. HIDE DEF V, R
<1>10. R \in Seq(T) /\ Len(R) = t /\ V \in Seq(T) /\ Len(V) = u
  BY <1>0, <1>u, <1>9, Tabulated
<1>11. /\ all \in Seq(T) /\ Len(all) = t + 1 /\ all[1] = e
       /\ \A i \in 2 .. t + 1 : all[i] = R[i - 1]
  <2>1. <<e>> \in Seq(T) /\ Len(<<e>>) = 1 /\ <<e>>[1] = e
    BY <1>0
  <2>. QED BY <1>0, <1>10, <2>1, ConcatProperties
<1>. HIDE DEF all
<1>12. u = (IF Len(all) < n THEN Len(all) ELSE n) /\ u <= Len(all)
  BY <1>0, <1>u, <1>11
<1>13. /\ SubSeq(all, 1, u) \in Seq(T) /\ Len(SubSeq(all, 1, u)) = u
       /\ \A i \in 1 .. u : SubSeq(all, 1, u)[i] = all[i]
  <2>1. \A i \in 1 .. u : all[i] \in T
    BY <1>u, <1>11, <1>12, ElementOfSeq
  <2>2. 1 \in Int /\ u \in Int /\ u - 1 + 1 = u /\ 1 <= u
    BY <1>u
  <2>3. \A i \in 1 .. u : 1 + i - 1 = i
    BY <1>u
  <2>. QED BY <2>1, <2>2, <2>3, SubSeqProperties
<1>14. \A i \in 1 .. u : V[i] = all[i]
  <2>1. V[1] = e
    BY <1>0, <1>4, <1>5, <1>7, <1>9
  <2>2. \A i \in 2 .. u : V[i] = R[i - 1]
    <3>. TAKE i \in 2 .. u
    <3>0. i \in 1 .. u
      BY <1>u
    <3>1. V[i] = nbuf[(y - 1 - (i - 1)) % n] /\ (y - 1 - (i - 1)) % n \in 0 .. n - 1
      BY <1>4, <1>9, <3>0
    <3>2. V[i] = buf[(x - 1 - ((i - 1) - 1)) % n]
      BY <1>6, <1>7, <3>1
    <3>. QED BY <1>6, <1>9, <3>2
  <2>3. \A i \in 2 .. u : i \in 2 .. t + 1
    BY <1>0, <1>u
  <2>4. \A i \in 1 .. u : i = 1 \/ i \in 2 .. u
    BY <1>u
  <2>. QED BY <1>11, <2>1, <2>2, <2>3, <2>4
<1>15. V = SubSeq(all, 1, u)
  BY <1>10, <1>13, <1>14, SeqEqual
<1>. QED BY <1>12, <1>15 DEF V, R, all, Cut

-------------------------------------------------------------------------------
(* Operations leave the queue in the order they came, whatever wraps       *)
(* around (Kernel/State/OperationQueue.c).                                 *)
LEMMA QueueMoves ==
  ASSUME IInv, QueueClear \/ Dequeue \/ \E op \in Ops : Enqueue(op)
  PROVE  Waiting!QueueNext
<1>. DEFINE T == Ops \cup {Zeroed}
            waiting == Ring(qBuf, qHead, qCount, QueueMax)
<1>1. /\ QueueMax \in Nat \ {0} /\ qHead \in 0 .. QueueMax - 1
      /\ qCount \in 0 .. QueueMax /\ qBuf \in [0 .. QueueMax - 1 -> T]
      /\ qTail = (qHead + qCount) % QueueMax
  BY DEF IInv, TypeOK, StateTypeOK, QueueIndices
<1>2. waiting \in Seq(T) /\ Len(waiting) = qCount
  <2>1. \A i \in 1 .. qCount : (qHead + i - 1) % QueueMax \in 0 .. QueueMax - 1
    BY <1>1
  <2>2. waiting \in [1 .. qCount -> T] /\ qCount \in Nat
    BY <1>1, <2>1 DEF Ring
  <2>. HIDE DEF T, waiting
  <2>. QED BY <2>2, Tabulated
<1>3. CASE QueueClear
  <2>1. qCount' = 0
    BY <1>3 DEF QueueClear
  <2>. QED BY <2>1 DEF Waiting!QueueNext, Waiting!Empty
<1>4. CASE Dequeue
  <2>1. /\ qCount \in 1 .. QueueMax /\ qCount' = qCount - 1
        /\ qHead' = (qHead + 1) % QueueMax /\ qBuf' = qBuf
    BY <1>1, <1>4 DEF Dequeue
  <2>2. waiting' = Tail(waiting)
    <3>. HIDE DEF T
    <3>. QED BY <1>1, <2>1, RingTail
  <2>3. waiting # <<>>
    <3>. HIDE DEF waiting
    <3>. QED BY <1>2, <2>1
  <2>. QED BY <2>2, <2>3 DEF Waiting!QueueNext, Waiting!Serve, Ring
<1>5. ASSUME NEW op \in Ops, Enqueue(op)
      PROVE  Waiting!QueueNext
  <2>1. /\ qCount \in 0 .. QueueMax - 1 /\ qCount' = qCount + 1 /\ qHead' = qHead
        /\ qBuf' = [qBuf EXCEPT ![(qHead + qCount) % QueueMax] = op]
    BY <1>1, <1>5 DEF Enqueue
  <2>2. waiting' = Append(waiting, op)
    <3>1. op \in T
      OBVIOUS
    <3>. HIDE DEF T
    <3>2. Appended(QueueMax, T, qBuf, qHead, qCount, op, qBuf', qTail, qCount')
      BY <1>1, <1>5, <2>1, <3>1 DEF Appended, Written, Enqueue
    <3>3. Ring(qBuf', qHead, qCount', QueueMax) = Append(Ring(qBuf, qHead, qCount, QueueMax), op)
      BY <3>2, RingAppend
    <3>. QED BY <2>1, <3>3
  <2>3. Len(waiting) < QueueMax
    <3>. HIDE DEF waiting
    <3>. QED BY <1>1, <1>2, <2>1
  <2>. QED BY <2>2, <2>3 DEF Waiting!QueueNext, Waiting!Accept, Ring
<1>. QED BY <1>3, <1>4, <1>5

THEOREM QueueImplementsFIFO == Spec => QueueIsFIFO
<1>1. Init => Waiting!Init
  <2>. SUFFICES ASSUME Init PROVE Waiting!Init
    OBVIOUS
  <2>1. qCount = 0
    BY DEF Init, StateInit
  <2>. QED BY <2>1 DEF Waiting!Init
<1>2. IInv /\ [Next]_vars =>
        [Waiting!QueueNext]_([i \in 1 .. qCount |-> qBuf[(qHead + i - 1) % QueueMax]])
  <2>. SUFFICES ASSUME IInv, [Next]_vars,
                       ~UNCHANGED [i \in 1 .. qCount |-> qBuf[(qHead + i - 1) % QueueMax]]
                PROVE  Waiting!QueueNext
    OBVIOUS
  <2>1. ~UNCHANGED queueVars
    BY DEF queueVars
  <2>2. QueueCall
    BY <2>1 DEF Next, HistoryCall, StackCall, LineEntered, vars, stateVars
  <2>. QED BY <2>2, QueueMoves DEF QueueCall
<1>. QED BY <1>1, <1>2, Invariance, PTL DEF Spec, QueueIsFIFO, Waiting!QueueSpec

-------------------------------------------------------------------------------
(* What is read from the history is the list of the latest entries, the    *)
(* newest first (Kernel/State/History.c, Kernel/API/HistoryAPI.h).         *)
LEMMA HistoryMoves ==
  ASSUME IInv, HistoryClear \/ \E e \in Entries : HistoryPush(e)
  PROVE  Recent!HistoryNext
<1>. DEFINE T == Entries \cup {Zeroed}
            recent == Newest(histBuf, histIdx, histTotal, HistMax)
<1>1. CASE HistoryClear
  <2>1. histTotal' = 0
    BY <1>1 DEF HistoryClear
  <2>. QED BY <2>1 DEF Recent!HistoryNext, Recent!Empty
<1>2. ASSUME NEW e \in Entries, HistoryPush(e)
      PROVE  Recent!HistoryNext
  <2>1. /\ HistMax \in Nat \ {0} /\ histIdx \in 0 .. HistMax - 1
        /\ histTotal \in 0 .. HistMax /\ histBuf \in [0 .. HistMax - 1 -> T] /\ e \in T
    BY DEF IInv, TypeOK, StateTypeOK
  <2>2. /\ histIdx' = (histIdx + 1) % HistMax /\ histBuf' = [histBuf EXCEPT ![histIdx] = e]
        /\ histTotal' = IF histTotal < HistMax THEN histTotal + 1 ELSE histTotal
    BY <1>2 DEF HistoryPush
  <2>3. histTotal' \in 0 .. HistMax
    BY <2>1, <2>2
  <2>4. recent' = Cut(<<e>> \o recent, HistMax)
    <3>. HIDE DEF T
    <3>1. Added(HistMax, T, histBuf, histIdx, histTotal, e, histBuf', histIdx', histTotal')
      BY <2>1, <2>2 DEF Added, Written
    <3>. QED BY <3>1, RingLatest
  <2>5. recent = [i \in 1 .. histTotal |-> HistoryGet(i - 1)]
    BY DEF Newest, HistoryGet
  <2>6. recent' = [i \in 1 .. histTotal |-> HistoryGet(i - 1)]'
    BY DEF Newest, HistoryGet
  <2>. HIDE DEF recent
  <2>. QED BY <2>4, <2>5, <2>6 DEF Cut, Recent!HistoryNext, Recent!Add, Recent!Kept
<1>. QED BY <1>1, <1>2

THEOREM HistoryImplementsRecentList == Spec => HistoryIsRecentList
<1>1. Init => Recent!Init
  <2>. SUFFICES ASSUME Init PROVE Recent!Init
    OBVIOUS
  <2>1. histTotal = 0
    BY DEF Init, StateInit
  <2>. QED BY <2>1 DEF Recent!Init
<1>2. IInv /\ [Next]_vars => [Recent!HistoryNext]_([i \in 1 .. histTotal |-> HistoryGet(i - 1)])
  <2>. SUFFICES ASSUME IInv, [Next]_vars,
                       ~UNCHANGED [i \in 1 .. histTotal |-> HistoryGet(i - 1)]
                PROVE  Recent!HistoryNext
    OBVIOUS
  <2>1. ~UNCHANGED histVars
    BY DEF histVars, HistoryGet
  <2>2. HistoryCall
    BY <2>1 DEF Next, StackCall, QueueCall, LineEntered, vars, stateVars
  <2>. QED BY <2>2, HistoryMoves DEF HistoryCall
<1>. QED BY <1>1, <1>2, Invariance, PTL DEF Spec, HistoryIsRecentList, Recent!HistorySpec
===============================================================================
