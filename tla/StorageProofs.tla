---------------------------- MODULE StorageProofs -----------------------------
(***************************************************************************)
(* Proofs about NanoDB and DiskMarshal, for every number of slots, keys and *)
(* journal records, and every size of a sector and of the count register:  *)
(* type correctness, the locking discipline of the journal, the uniqueness *)
(* of keys, and that the database implements AtomicStore; that writing the *)
(* table to disk disturbs nothing of this, and that wherever the power     *)
(* fails the disk holds the new slots up to some sector and the old ones   *)
(* behind it.                                                              *)
(***************************************************************************)
EXTENDS DiskMarshal, Induction

(* The slot a write goes to exists, and holds the key or is empty. *)
LEMMA TargetIsSlot ==
  ASSUME NEW e, NEW k, NEW i \in Target(e, k)
  PROVE  /\ i \in Slots
         /\ i \in Matches(e, k) \/ (Matches(e, k) = {} /\ i \in Empties(e))
<1>. DEFINE C == IF Matches(e, k) # {} THEN Matches(e, k) ELSE Empties(e)
<1>1. C \in SUBSET Nat /\ C \subseteq Slots
  BY SizeAssumption DEF Matches, Empties, Slots
<1>2. C # {} /\ i = Min(C)
  BY DEF Target
<1>3. i \in C
  BY <1>1, <1>2, MinIsLeast
<1>. QED BY <1>1, <1>3

(* A slot the journal names has an oldest record, and it is a record of    *)
(* that slot.                                                              *)
LEMMA OldestIsRecord ==
  ASSUME NEW l \in Seq(Record), NEW i, RecordsOf(l, i) # {}
  PROVE  /\ Min(RecordsOf(l, i)) \in RecordsOf(l, i)
         /\ Min(RecordsOf(l, i)) \in 1 .. Len(l)
         /\ \A n \in RecordsOf(l, i) : Min(RecordsOf(l, i)) <= n
<1>1. RecordsOf(l, i) \subseteq 1 .. Len(l)
  BY DEF RecordsOf
<1>2. RecordsOf(l, i) \in SUBSET Nat
  BY <1>1
<1>. QED BY <1>1, <1>2, MinIsLeast

-------------------------------------------------------------------------------
(* Every variable keeps its type, the journal its bound: ndb_set never     *)
(* writes past tx.logs.                                                    *)
THEOREM TypeCorrect == Spec => []TypeOK
<1>1. Init => TypeOK
  <2>. SUFFICES ASSUME Init PROVE TypeOK
    OBVIOUS
  <2>1. [key |-> NoKey, val |-> Zero, flags |-> {}] \in Entry
    BY DEF Entry
  <2>2. entries \in [Slots -> Entry]
    BY <2>1 DEF Init
  <2>3. log \in Seq(Record) /\ Len(log) <= MaxTxKeys
    BY SizeAssumption DEF Init
  <2>. QED BY <2>2, <2>3 DEF Init, TypeOK
<1>2. TypeOK /\ [Next]_vars => TypeOK'
  <2>. SUFFICES ASSUME TypeOK, [Next]_vars PROVE TypeOK'
    OBVIOUS
  <2>. USE SizeAssumption
  <2>1. CASE TxBegin
    BY <2>1 DEF TxBegin, TypeOK
  <2>2. CASE TxCommit
    <3>1. entries' \in [Slots -> Entry]
      BY <2>2 DEF TxCommit, Unlocked, TypeOK, Entry
    <3>. QED BY <2>2, <3>1 DEF TxCommit, TypeOK
  <2>3. CASE TxRollback
    <3>1. ASSUME NEW i \in Slots, RecordsOf(log, i) # {}
          PROVE  Oldest(log, i) \in Record
      BY <3>1, OldestIsRecord DEF TypeOK, Oldest
    <3>2. Undone(entries, log) \in [Slots -> Entry]
      BY <3>1 DEF Undone, TypeOK, Entry, Record
    <3>. QED BY <2>3, <3>2 DEF TxRollback, TypeOK
  <2>4. ASSUME NEW k \in Keys, NEW v \in Values, Set(k, v)
        PROVE  TypeOK'
    <3>1. PICK i \in Target(entries, k) :
            /\ txActive => JournalHasRoom
            /\ log' = IF txActive
                      THEN Append(log, [slot  |-> i % IndexRange,
                                        val   |-> entries[i].val,
                                        flags |-> entries[i].flags])
                      ELSE log
            /\ entries' = [entries EXCEPT ![i] =
                 [key   |-> Stored[k],
                  val   |-> v,
                  flags |-> {"ACTIVE", "DIRTY"} \cup
                            (IF txActive THEN {"TRANSACTION"} ELSE {})]]
            /\ reply' = TRUE
            /\ UNCHANGED txActive
      BY <2>4 DEF Set
    <3>2. i \in Slots /\ i \in Nat
      BY TargetIsSlot DEF Slots
    <3>3. entries' \in [Slots -> Entry]
      BY <3>1, <3>2, KeyAssumption DEF TypeOK, Entry, Flags
    <3>4. entries[i] \in Entry /\ i % IndexRange \in Nat
      BY <3>2 DEF TypeOK
    <3>5. log' \in Seq(Record) /\ Len(log') <= MaxTxKeys
      <4>. DEFINE r == [slot  |-> i % IndexRange,
                        val   |-> entries[i].val,
                        flags |-> entries[i].flags]
      <4>1. r \in Record
        BY <3>4 DEF Entry, Record
      <4>. HIDE DEF r
      <4>2. Append(log, r) \in Seq(Record) /\ Len(Append(log, r)) = Len(log) + 1
        BY <4>1 DEF TypeOK
      <4>3. log' = IF txActive THEN Append(log, r) ELSE log
        BY <3>1 DEF r
      <4>. QED BY <3>1, <4>2, <4>3 DEF TypeOK, JournalHasRoom
    <3>. QED BY <3>1, <3>3, <3>5 DEF TypeOK
  <2>5. ASSUME NEW k \in Keys, SetRefused(k)
        PROVE  TypeOK'
    BY <2>5 DEF SetRefused, TypeOK
  <2>6. ASSUME NEW k \in Keys, Get(k)
        PROVE  TypeOK'
    <3>1. ASSUME Matches(entries, k) # {}
          PROVE  entries[Min(Matches(entries, k))] \in Entry
      <4>1. Matches(entries, k) \in SUBSET Nat /\ Matches(entries, k) \subseteq Slots
        BY DEF Matches, Slots
      <4>2. Min(Matches(entries, k)) \in Slots
        BY <3>1, <4>1, MinIsLeast
      <4>. QED BY <4>2 DEF TypeOK
    <3>. QED BY <2>6, <3>1 DEF Get, TypeOK, Entry
  <2>7. CASE UNCHANGED vars
    BY <2>7 DEF vars, TypeOK
  <2>. QED BY <2>1, <2>2, <2>3, <2>4, <2>5, <2>6, <2>7 DEF Next
<1>. QED BY <1>1, <1>2, PTL DEF Spec

-------------------------------------------------------------------------------
(* The oldest record of a slot stays the oldest one when the journal grows *)
(* and becomes the new record when the slot had none.                      *)
LEMMA OldestAfterAppend ==
  ASSUME NEW l \in Seq(Record), NEW r \in Record, NEW j
  PROVE  /\ RecordsOf(Append(l, r), j) # {} <=> RecordsOf(l, j) # {} \/ r.slot = j
         /\ RecordsOf(l, j) # {} => Oldest(Append(l, r), j) = Oldest(l, j)
         /\ RecordsOf(l, j) = {} /\ r.slot = j => Oldest(Append(l, r), j) = r
<1>. DEFINE a == Append(l, r)
            old == RecordsOf(l, j)
            new == RecordsOf(a, j)
<1>1. /\ a \in Seq(Record)
      /\ Len(a) = Len(l) + 1
      /\ Len(l) \in Nat
      /\ \A n \in 1 .. Len(l) : a[n] = l[n]
      /\ a[Len(l) + 1] = r
  OBVIOUS
<1>2. old \subseteq 1 .. Len(l) /\ new \subseteq 1 .. Len(l) + 1
  BY <1>1 DEF RecordsOf
<1>3. \A n \in 1 .. Len(l) : n \in new <=> n \in old
  BY <1>1 DEF RecordsOf
<1>4. Len(l) + 1 \in new <=> r.slot = j
  BY <1>1 DEF RecordsOf
<1>5. new # {} <=> old # {} \/ r.slot = j
  BY <1>1, <1>2, <1>3, <1>4
<1>6. ASSUME old # {}
      PROVE  Oldest(a, j) = Oldest(l, j)
  <2>1. Min(old) \in old /\ Min(old) \in 1 .. Len(l) /\ \A n \in old : Min(old) <= n
    BY <1>6, OldestIsRecord
  <2>2. Min(new) \in new /\ Min(new) \in 1 .. Len(a) /\ \A n \in new : Min(new) <= n
    BY <1>1, <1>5, <1>6, OldestIsRecord
  <2>3. Min(new) <= Min(old)
    BY <1>3, <2>1, <2>2
  <2>4. Min(new) \in old
    BY <1>1, <1>3, <2>1, <2>2, <2>3
  <2>5. Min(new) = Min(old)
    BY <2>1, <2>2, <2>3, <2>4
  <2>. QED BY <1>1, <2>1, <2>5 DEF Oldest
<1>7. ASSUME old = {}, r.slot = j
      PROVE  Oldest(a, j) = r
  <2>1. Min(new) \in new
    BY <1>1, <1>5, <1>7, OldestIsRecord
  <2>2. Min(new) = Len(l) + 1
    BY <1>1, <1>2, <1>3, <1>7, <2>1
  <2>. QED BY <1>1, <2>2 DEF Oldest
<1>. QED BY <1>5, <1>6, <1>7

(* What a successful ndb_set does: it writes one slot, found by its key or *)
(* free, and in a transaction appends that slot's previous content.        *)
JournalRecord(i) == [slot |-> i, val |-> entries[i].val, flags |-> entries[i].flags]

Written(k, v) ==
  [key |-> Stored[k], val |-> v,
   flags |-> {"ACTIVE", "DIRTY"} \cup (IF txActive THEN {"TRANSACTION"} ELSE {})]

LEMMA SetEffect ==
  ASSUME TypeOK, SmallTable, NEW k \in Keys, NEW v \in Values, Set(k, v)
  PROVE  \E i \in Slots :
           /\ i \in Matches(entries, k) \/ (Matches(entries, k) = {} /\ i \in Empties(entries))
           /\ entries' = [entries EXCEPT ![i] = Written(k, v)]
           /\ JournalRecord(i) \in Record
           /\ log' = IF txActive THEN Append(log, JournalRecord(i)) ELSE log
           /\ txActive' = txActive
           /\ reply' = TRUE
<1>1. PICK i \in Target(entries, k) :
        /\ txActive => JournalHasRoom
        /\ log' = IF txActive
                  THEN Append(log, [slot  |-> i % IndexRange,
                                    val   |-> entries[i].val,
                                    flags |-> entries[i].flags])
                  ELSE log
        /\ entries' = [entries EXCEPT ![i] =
             [key   |-> Stored[k],
              val   |-> v,
              flags |-> {"ACTIVE", "DIRTY"} \cup
                        (IF txActive THEN {"TRANSACTION"} ELSE {})]]
        /\ reply' = TRUE
        /\ UNCHANGED txActive
  BY DEF Set
<1>2. /\ i \in Slots
      /\ i \in Matches(entries, k) \/ (Matches(entries, k) = {} /\ i \in Empties(entries))
  BY TargetIsSlot
<1>3. i \in Nat /\ i % IndexRange = i
  BY <1>2, SizeAssumption DEF SmallTable, Slots
<1>4. JournalRecord(i) \in Record
  BY <1>2, <1>3 DEF TypeOK, Entry, Record, JournalRecord
<1>. QED BY <1>1, <1>2, <1>3, <1>4 DEF JournalRecord, Written

-------------------------------------------------------------------------------
(* The locking discipline: after a commit or a rollback no slot is locked, *)
(* and inside a transaction every locked slot is in the journal.  A slot   *)
(* written twice has two records; that the older one restores unlocked     *)
(* flags is what JournalInv adds.                                          *)
LockInv == LocksAreJournalled /\ JournalInv

LEMMA LockInvStep ==
  ASSUME SmallTable, TypeOK, LockInv, [Next]_vars
  PROVE  LockInv'
<1>1. CASE TxBegin
  <2>1. ASSUME txActive PROVE LockInv'
    BY <1>1, <2>1 DEF TxBegin, LockInv, LocksAreJournalled, JournalInv, IsActive
  <2>2. ASSUME ~txActive PROVE LockInv'
    <3>1. \A i \in Slots : "TRANSACTION" \notin entries[i].flags
      BY <2>2 DEF LockInv, LocksAreJournalled
    <3>2. \A i \in Slots : RecordsOf(log', i) = {}
      BY <1>1, <2>2 DEF TxBegin, RecordsOf
    <3>. QED BY <1>1, <3>1, <3>2 DEF TxBegin, LockInv, LocksAreJournalled, JournalInv
  <2>. QED BY <2>1, <2>2
<1>2. CASE TxCommit
  <2>1. ASSUME NEW i \in Slots PROVE "TRANSACTION" \notin entries'[i].flags
    BY <1>2 DEF TxCommit, Unlocked, LockInv, LocksAreJournalled, TypeOK, Entry
  <2>. QED BY <1>2, <2>1 DEF TxCommit, LockInv, LocksAreJournalled, JournalInv
<1>3. CASE TxRollback
  <2>1. ASSUME NEW i \in Slots PROVE "TRANSACTION" \notin entries'[i].flags
    <3>1. CASE RecordsOf(log, i) = {}
      BY <1>3, <3>1 DEF TxRollback, Undone, LockInv, LocksAreJournalled
    <3>2. CASE RecordsOf(log, i) # {} /\ txActive
      BY <1>3, <3>2 DEF TxRollback, Undone, LockInv, JournalInv, TypeOK, Entry
    <3>3. CASE ~txActive
      BY <1>3, <3>3 DEF TxRollback, LockInv, LocksAreJournalled
    <3>. QED BY <3>1, <3>2, <3>3 DEF TypeOK
  <2>. QED BY <1>3, <2>1 DEF TxRollback, LockInv, LocksAreJournalled, JournalInv
<1>4. ASSUME NEW k \in Keys, NEW v \in Values, Set(k, v)
      PROVE  LockInv'
  <2>1. PICK i \in Slots :
          /\ entries' = [entries EXCEPT ![i] = Written(k, v)]
          /\ JournalRecord(i) \in Record
          /\ log' = IF txActive THEN Append(log, JournalRecord(i)) ELSE log
          /\ txActive' = txActive
    BY <1>4, SetEffect
  <2>2. /\ entries'[i] = Written(k, v)
        /\ \A j \in Slots : j # i => entries'[j] = entries[j]
    BY <2>1 DEF TypeOK
  <2>3. CASE txActive
    <3>1. ASSUME NEW j \in Slots
          PROVE  /\ RecordsOf(log', j) # {} <=> RecordsOf(log, j) # {} \/ i = j
                 /\ RecordsOf(log, j) # {} => Oldest(log', j) = Oldest(log, j)
                 /\ RecordsOf(log, j) = {} /\ i = j => Oldest(log', j) = JournalRecord(i)
      <4>1. JournalRecord(i).slot = i
        BY DEF JournalRecord
      <4>2. log \in Seq(Record) /\ log' = Append(log, JournalRecord(i))
        BY <2>1, <2>3 DEF TypeOK
      <4>. QED BY <2>1, <4>1, <4>2, OldestAfterAppend
    <3>2. RecordsOf(log, i) = {} => "TRANSACTION" \notin JournalRecord(i).flags
      BY DEF LockInv, LocksAreJournalled, JournalRecord
    <3>3. LocksAreJournalled'
      BY <2>1, <2>2, <2>3, <3>1 DEF LockInv, LocksAreJournalled
    <3>4. IsActive(entries', i) /\ \A j \in Slots : j # i => (IsActive(entries', j) <=> IsActive(entries, j))
      BY <2>2 DEF IsActive, Written
    <3>5. JournalInv'
      BY <2>1, <2>3, <3>1, <3>2, <3>4 DEF LockInv, JournalInv
    <3>. QED BY <3>3, <3>5 DEF LockInv
  <2>4. CASE ~txActive
    <3>1. \A j \in Slots : "TRANSACTION" \notin entries'[j].flags
      BY <2>2, <2>4 DEF LockInv, LocksAreJournalled, Written
    <3>. QED BY <2>1, <2>4, <3>1 DEF LockInv, LocksAreJournalled, JournalInv
  <2>. QED BY <2>3, <2>4 DEF TypeOK
<1>5. ASSUME NEW k \in Keys, SetRefused(k) \/ Get(k)
      PROVE  LockInv'
  BY <1>5 DEF SetRefused, Get, LockInv, LocksAreJournalled, JournalInv, IsActive
<1>6. CASE UNCHANGED vars
  BY <1>6 DEF vars, LockInv, LocksAreJournalled, JournalInv, IsActive
<1>. QED BY <1>1, <1>2, <1>3, <1>4, <1>5, <1>6 DEF Next

(* Commit and rollback leave no slot locked (DB_FLAG_TRANSACTION), as long *)
(* as every slot number fits in RollbackEntry.entry_index.                 *)
THEOREM LocksCorrect ==
  ASSUME SmallTable
  PROVE  Spec => []LocksAreJournalled
<1>1. Init => LockInv
  BY DEF Init, LockInv, LocksAreJournalled, JournalInv
<1>2. TypeOK /\ LockInv /\ [Next]_vars => LockInv'
  BY LockInvStep
<1>3. LockInv => LocksAreJournalled
  BY DEF LockInv
<1>. QED BY <1>1, <1>2, <1>3, TypeCorrect, PTL DEF Spec

-------------------------------------------------------------------------------
(* Keys stay unique.  A rollback cannot bring a duplicate back: JournalInv *)
(* says it only ever empties slots, and no slot changes its key while it   *)
(* is in use.                                                              *)
LEMMA UniqueKeysStep ==
  ASSUME SmallTable, ShortKeys, TypeOK, LockInv, UniqueKeys, [Next]_vars
  PROVE  UniqueKeys'
<1>. SUFFICES ASSUME NEW i \in Slots, NEW j \in Slots,
                     IsActive(entries', i), IsActive(entries', j),
                     entries'[i].key = entries'[j].key
              PROVE  i = j
  BY DEF UniqueKeys
<1>. DEFINE Kept(n) == IsActive(entries, n) /\ entries[n].key = entries'[n].key
<1>1. CASE TxCommit
  <2>1. Kept(i) /\ Kept(j)
    BY <1>1 DEF TxCommit, Unlocked, IsActive, TypeOK, Entry
  <2>. QED BY <2>1 DEF UniqueKeys
<1>2. CASE TxRollback
  <2>1. ASSUME NEW n \in Slots, IsActive(entries', n)
        PROVE  Kept(n)
    <3>1. CASE txActive /\ RecordsOf(log, n) # {}
      <4>1. IsActive(entries, n)
        BY <3>1 DEF LockInv, JournalInv
      <4>2. entries'[n].key = entries[n].key
        BY <1>2, <3>1 DEF TxRollback, Undone, TypeOK, Entry
      <4>. QED BY <4>1, <4>2
    <3>2. CASE ~txActive \/ RecordsOf(log, n) = {}
      <4>1. entries'[n] = entries[n]
        BY <1>2, <3>2 DEF TxRollback, Undone
      <4>. QED BY <2>1, <4>1 DEF IsActive
    <3>. QED BY <3>1, <3>2
  <2>. QED BY <2>1 DEF UniqueKeys
<1>3. ASSUME NEW k \in Keys, NEW v \in Values, Set(k, v)
      PROVE  i = j
  <2>1. PICK m \in Slots :
          /\ m \in Matches(entries, k) \/ (Matches(entries, k) = {} /\ m \in Empties(entries))
          /\ entries' = [entries EXCEPT ![m] = Written(k, v)]
    BY <1>3, SetEffect
  <2>2. entries'[m].key = k /\ \A n \in Slots : n # m => entries'[n] = entries[n]
    BY <2>1, KeyAssumption DEF TypeOK, Written, ShortKeys
  <2>3. \A n \in Slots : n # m /\ IsActive(entries', n) => Kept(n) /\ entries[n].key # k
    BY <2>1, <2>2 DEF UniqueKeys, Matches, IsActive
  <2>. QED BY <2>2, <2>3 DEF UniqueKeys
<1>4. CASE TxBegin
  BY <1>4 DEF TxBegin, UniqueKeys, IsActive
<1>5. ASSUME NEW k \in Keys, SetRefused(k) \/ Get(k)
      PROVE  i = j
  BY <1>5 DEF SetRefused, Get, UniqueKeys, IsActive
<1>6. CASE UNCHANGED vars
  BY <1>6 DEF vars, UniqueKeys, IsActive
<1>. QED BY <1>1, <1>2, <1>3, <1>4, <1>5, <1>6 DEF Next

Invariants == TypeOK /\ LockInv /\ UniqueKeys

LEMMA InvariantsHold ==
  ASSUME SmallTable, ShortKeys
  PROVE  Spec => []Invariants
<1>1. Init => LockInv /\ UniqueKeys
  BY DEF Init, LockInv, LocksAreJournalled, JournalInv, UniqueKeys, IsActive
<1>2. TypeOK /\ LockInv /\ UniqueKeys /\ [Next]_vars => LockInv' /\ UniqueKeys'
  BY LockInvStep, UniqueKeysStep
<1>. QED BY <1>1, <1>2, TypeCorrect, PTL DEF Spec, Invariants

(* No two slots in use hold the same key, when keys fit in DbEntry.key.    *)
THEOREM UniqueKeysCorrect ==
  ASSUME SmallTable, ShortKeys
  PROVE  Spec => []UniqueKeys
<1>1. Invariants => UniqueKeys
  BY DEF Invariants
<1>. QED BY <1>1, InvariantsHold, PTL

-------------------------------------------------------------------------------
(* The database implements the abstract store.                             *)

(* The map the callers see depends only on the slots in use. *)
LEMMA SameVisible ==
  ASSUME NEW e, NEW f,
         \A i \in Slots : /\ IsActive(e, i) <=> IsActive(f, i)
                          /\ IsActive(e, i) => e[i].key = f[i].key /\ e[i].val = f[i].val
  PROVE  Visible(e) = Visible(f)
<1>1. \A k \in Keys : Matches(e, k) = Matches(f, k)
  BY DEF Matches
<1>2. ASSUME NEW k \in Keys, Matches(e, k) # {}
      PROVE  e[Min(Matches(e, k))].val = f[Min(Matches(e, k))].val
  <2>1. Matches(e, k) \in SUBSET Nat
    BY DEF Matches, Slots
  <2>2. Min(Matches(e, k)) \in Matches(e, k)
    BY <1>2, <2>1, MinIsLeast
  <2>. QED BY <2>2 DEF Matches
<1>. QED BY <1>1, <1>2 DEF Visible

LEMMA VisibleAt ==
  ASSUME NEW e, NEW q \in Keys
  PROVE  Visible(e)[q] = IF Matches(e, q) = {} THEN Missing ELSE e[Min(Matches(e, q))].val
BY DEF Visible

(* A write changes the visible map at its key and nowhere else. *)
LEMMA SetVisible ==
  ASSUME SmallTable, ShortKeys, Invariants,
         NEW k \in Keys, NEW v \in Values, NEW i \in Slots,
         i \in Matches(entries, k) \/ (Matches(entries, k) = {} /\ i \in Empties(entries)),
         entries' = [entries EXCEPT ![i] = Written(k, v)]
  PROVE  Visible(entries') = [Visible(entries) EXCEPT ![k] = v]
<1>1. /\ entries'[i] = Written(k, v)
      /\ Written(k, v).key = k
      /\ \A j \in Slots : j # i => entries'[j] = entries[j]
  BY KeyAssumption DEF Invariants, TypeOK, Written, ShortKeys
<1>2. Matches(entries', k) = {i}
  BY <1>1 DEF Matches, IsActive, Written, Invariants, UniqueKeys
<1>3. Visible(entries')[k] = v
  <2>1. Min({i}) = i
    BY MinIsLeast DEF Slots
  <2>2. Visible(entries')[k] = entries'[i].val
    BY <1>2, <2>1 DEF Visible
  <2>. QED BY <1>1, <2>2 DEF Written
<1>4. ASSUME NEW q \in Keys, q # k
      PROVE  Visible(entries')[q] = Visible(entries)[q]
  <2>1. i \notin Matches(entries, q) /\ i \notin Matches(entries', q)
    BY <1>1, <1>4 DEF Matches, Empties
  <2>2. Matches(entries', q) = Matches(entries, q)
    BY <1>1, <2>1 DEF Matches, IsActive
  <2>3. ASSUME Matches(entries, q) # {}
        PROVE  entries'[Min(Matches(entries, q))] = entries[Min(Matches(entries, q))]
    <3>1. Matches(entries, q) \in SUBSET Nat
      BY DEF Matches, Slots
    <3>2. Min(Matches(entries, q)) \in Matches(entries, q)
      BY <2>3, <3>1, MinIsLeast
    <3>. QED BY <1>1, <2>1, <3>2 DEF Matches
  <2>. DEFINE m == Min(Matches(entries, q))
  <2>4. Visible(entries')[q] = IF Matches(entries, q) = {} THEN Missing ELSE entries'[m].val
    BY <2>2, VisibleAt
  <2>5. Visible(entries)[q] = IF Matches(entries, q) = {} THEN Missing ELSE entries[m].val
    BY VisibleAt
  <2>. QED BY <2>3, <2>4, <2>5
<1>. QED BY <1>3, <1>4 DEF Visible

(* A write inside a transaction leaves the map the rollback would restore. *)
LEMMA SetSaved ==
  ASSUME SmallTable, ShortKeys, Invariants, txActive,
         NEW k \in Keys, NEW v \in Values, NEW i \in Slots,
         i \in Matches(entries, k) \/ (Matches(entries, k) = {} /\ i \in Empties(entries)),
         entries' = [entries EXCEPT ![i] = Written(k, v)],
         JournalRecord(i) \in Record,
         log' = Append(log, JournalRecord(i))
  PROVE  Visible(Undone(entries', log')) = Visible(Undone(entries, log))
<1>. DEFINE u == Undone(entries, log)
            w == Undone(entries', log')
<1>1. /\ entries'[i] = Written(k, v)
      /\ Written(k, v).key = k
      /\ \A j \in Slots : j # i => entries'[j] = entries[j]
      /\ \A j \in Slots : entries[j] \in Entry /\ entries'[j] \in Entry
  <2>1. Written(k, v) \in Entry
    BY KeyAssumption DEF Invariants, TypeOK, Written, Entry, Flags
  <2>. QED BY <2>1, KeyAssumption DEF Invariants, TypeOK, Written, ShortKeys
<1>2. log \in Seq(Record)
  BY DEF Invariants, TypeOK
<1>3. JournalRecord(i).slot = i
  BY DEF JournalRecord
<1>4. ASSUME NEW j \in Slots, j # i
      PROVE  u[j] = w[j]
  <2>1. /\ RecordsOf(log', j) # {} <=> RecordsOf(log, j) # {}
        /\ RecordsOf(log, j) # {} => Oldest(log', j) = Oldest(log, j)
    BY <1>2, <1>3, <1>4, OldestAfterAppend
  <2>. QED BY <1>1, <1>4, <2>1 DEF Undone
<1>5. CASE RecordsOf(log, i) # {}
  <2>1. Oldest(log', i) = Oldest(log, i) /\ RecordsOf(log', i) # {}
    BY <1>2, <1>5, OldestAfterAppend
  <2>2. i \in Matches(entries, k)
    BY <1>5 DEF Invariants, LockInv, JournalInv, Empties
  <2>3. entries[i].key = k
    BY <2>2 DEF Matches
  <2>4. u[i].key = w[i].key /\ u[i].val = w[i].val /\ u[i].flags = w[i].flags
    BY <1>1, <1>5, <2>1, <2>3 DEF Undone, Entry
  <2>5. \A j \in Slots : /\ IsActive(u, j) <=> IsActive(w, j)
                         /\ IsActive(u, j) => u[j].key = w[j].key /\ u[j].val = w[j].val
    BY <1>4, <2>4 DEF IsActive
  <2>. HIDE DEF u, w
  <2>6. Visible(u) = Visible(w)
    BY <2>5, SameVisible
  <2>. QED BY <2>6 DEF u, w
<1>6. CASE RecordsOf(log, i) = {}
  <2>1. Oldest(log', i) = JournalRecord(i) /\ RecordsOf(log', i) # {}
    BY <1>2, <1>3, <1>6, OldestAfterAppend
  <2>2. u[i] = entries[i]
    BY <1>6 DEF Undone
  <2>3. w[i].key = k /\ w[i].val = entries[i].val /\ w[i].flags = entries[i].flags
    BY <1>1, <2>1 DEF Undone, Entry, JournalRecord
  <2>4. IsActive(entries, i) => entries[i].key = k
    BY DEF Matches, Empties
  <2>5. \A j \in Slots : /\ IsActive(u, j) <=> IsActive(w, j)
                         /\ IsActive(u, j) => u[j].key = w[j].key /\ u[j].val = w[j].val
    BY <1>4, <2>2, <2>3, <2>4 DEF IsActive
  <2>. HIDE DEF u, w
  <2>6. Visible(u) = Visible(w)
    BY <2>5, SameVisible
  <2>. QED BY <2>6 DEF u, w
<1>. QED BY <1>5, <1>6

(* The stores and the replies of the abstract state. *)
SavedMap == IF txActive THEN Visible(Undone(entries, log)) ELSE Visible(entries)

LEMMA EmptyJournal ==
  ASSUME TypeOK
  PROVE  Undone(entries, <<>>) = entries
<1>1. \A i \in Slots : RecordsOf(<<>>, i) = {}
  BY DEF RecordsOf
<1>2. Undone(entries, <<>>) = [i \in Slots |-> entries[i]]
  BY <1>1 DEF Undone
<1>. QED BY <1>2 DEF TypeOK

LEMMA RefinementStep ==
  ASSUME SmallTable, ShortKeys, Invariants, [Next]_vars
  PROVE  [Store!Next]_(Store!vars)
<1>. DEFINE map == Visible(entries)
<1>0. TypeOK
  BY DEF Invariants
<1>1. CASE TxBegin
  <2>1. SavedMap' = IF txActive THEN SavedMap ELSE map
    BY <1>0, <1>1, EmptyJournal DEF TxBegin, SavedMap
  <2>2. Store!Begin
    BY <1>1, <2>1 DEF TxBegin, Store!Begin, SavedMap
  <2>. QED BY <2>2 DEF Store!Next
<1>2. CASE TxCommit
  <2>1. \A i \in Slots : /\ IsActive(entries', i) <=> IsActive(entries, i)
                         /\ entries'[i].key = entries[i].key
                         /\ entries'[i].val = entries[i].val
    BY <1>0, <1>2 DEF TxCommit, Unlocked, IsActive, TypeOK, Entry
  <2>2. Visible(entries') = map
    BY <2>1, SameVisible
  <2>3. Store!Commit
    BY <1>2, <2>2 DEF TxCommit, Store!Commit
  <2>. QED BY <2>3 DEF Store!Next
<1>3. CASE TxRollback
  <2>1. Visible(entries') = IF txActive THEN SavedMap ELSE map
    BY <1>3 DEF TxRollback, SavedMap
  <2>2. Store!Rollback
    BY <1>3, <2>1 DEF TxRollback, Store!Rollback, SavedMap
  <2>. QED BY <2>2 DEF Store!Next
<1>4. ASSUME NEW k \in Keys, NEW v \in Values, Set(k, v)
      PROVE  Store!Set(k, v)
  <2>1. PICK i \in Slots :
          /\ i \in Matches(entries, k) \/ (Matches(entries, k) = {} /\ i \in Empties(entries))
          /\ entries' = [entries EXCEPT ![i] = Written(k, v)]
          /\ JournalRecord(i) \in Record
          /\ log' = IF txActive THEN Append(log, JournalRecord(i)) ELSE log
          /\ txActive' = txActive
          /\ reply' = TRUE
    BY <1>0, <1>4, SetEffect
  <2>2. Visible(entries') = [map EXCEPT ![k] = v]
    BY <2>1, SetVisible
  <2>3. txActive => Visible(Undone(entries', log')) = Visible(Undone(entries, log))
    BY <2>1, SetSaved
  <2>. QED BY <2>1, <2>2, <2>3 DEF Store!Set
<1>5. ASSUME NEW k \in Keys, SetRefused(k)
      PROVE  Store!Refuse
  BY <1>5 DEF SetRefused, Store!Refuse
<1>6. ASSUME NEW k \in Keys, Get(k)
      PROVE  Store!Get(k)
  <2>1. reply' = map[k]
    BY <1>6, VisibleAt DEF Get
  <2>. QED BY <1>6, <2>1 DEF Get, Store!Get
<1>7. CASE UNCHANGED vars
  BY <1>7 DEF vars, Store!vars
<1>. QED BY <1>1, <1>2, <1>3, <1>4, <1>5, <1>6, <1>7 DEF Next, Store!Next

(* For any size of table and journal, the database with its undo journal   *)
(* is a map with one atomic transaction: what rollback restores is exactly *)
(* the map the transaction started from.                                   *)
THEOREM DatabaseIsAtomicStore ==
  ASSUME SmallTable, ShortKeys
  PROVE  Spec => ImplementsAtomicStore
<1>1. Init => Store!Init
  <2>. SUFFICES ASSUME Init PROVE Store!Init
    OBVIOUS
  <2>1. \A k \in Keys : Matches(entries, k) = {}
    BY DEF Init, Matches, IsActive
  <2>2. Visible(entries) = [k \in Keys |-> Missing]
    BY <2>1 DEF Visible
  <2>. QED BY <2>2 DEF Init, Store!Init
<1>2. Invariants /\ [Next]_vars => [Store!Next]_(Store!vars)
  BY RefinementStep
<1>. QED BY <1>1, <1>2, InvariantsHold, PTL DEF Spec, ImplementsAtomicStore, Store!Spec

-------------------------------------------------------------------------------
(* The loop of a rollback.                                                 *)

(* One round of it: a record put back.                                     *)
PutBack(t, r) == [t EXCEPT ![r.slot].val = r.val, ![r.slot].flags = r.flags]

(* The records of slot i among the newest n, and what those leave of it.   *)
Newest(l, n, i) == {m \in Len(l) + 1 - n .. Len(l) : l[m].slot = i}

Left(e, l, n, i) ==
  IF Newest(l, n, i) = {} THEN e[i]
  ELSE [e[i] EXCEPT !.val = l[Min(Newest(l, n, i))].val, !.flags = l[Min(Newest(l, n, i))].flags]

LEMMA RecordPutBack ==
  ASSUME NEW t \in [Slots -> Entry], NEW r \in Record
  PROVE  /\ PutBack(t, r) \in [Slots -> Entry]
         /\ \A i \in Slots :
              PutBack(t, r)[i] = IF i = r.slot THEN [t[i] EXCEPT !.val = r.val, !.flags = r.flags] ELSE t[i]
  BY DEF PutBack, Entry, Record

LEMMA RoundLeaves ==
  ASSUME NEW e \in [Slots -> Entry], NEW l \in Seq(Record), NEW n \in 1 .. Len(l),
         NEW t \in [Slots -> Entry], \A i \in Slots : t[i] = Left(e, l, n - 1, i),
         NEW i \in Slots
  PROVE  PutBack(t, l[Len(l) + 1 - n])[i] = Left(e, l, n, i)
<1>. DEFINE N == Len(l)
            m == N + 1 - n
            r == l[m]
<1>1. N \in Nat /\ n \in Nat /\ m \in Nat /\ m \in 1 .. N
  OBVIOUS
<1>2. r \in Record
  BY <1>1
<1>. HIDE DEF r
<1>3. PutBack(t, r)[i] = IF i = r.slot THEN [t[i] EXCEPT !.val = r.val, !.flags = r.flags] ELSE t[i]
  BY <1>2, RecordPutBack
<1>4. \A x : x \in Newest(l, n, i) <=> x \in Newest(l, n - 1, i) \/ (x = m /\ r.slot = i)
  <2>1. \A x : x \in N + 1 - n .. N <=> x \in N + 1 - (n - 1) .. N \/ x = m
    <3>. HIDE DEF N
    <3>. QED BY <1>1
  <2>. HIDE DEF N
  <2>. QED BY <2>1 DEF Newest, r, N
<1>. HIDE DEF m
<1>5. t[i] = Left(e, l, n - 1, i) /\ e[i] \in Entry
  OBVIOUS
<1>6. CASE i = r.slot
  <2>. DEFINE L == Newest(l, n, i)
  <2>1. L \in SUBSET Nat /\ m \in L /\ \A x \in L : m <= x
    <3>1. \A x \in N + 1 - n .. N : x \in Nat /\ m <= x
      <4>. HIDE DEF N
      <4>. QED BY <1>1 DEF m
    <3>. QED BY <1>4, <1>6, <3>1 DEF Newest
  <2>2. L # {} /\ Min(L) = m
    <3>. HIDE DEF L
    <3>1. Min(L) \in L /\ \A x \in L : Min(L) <= x
      BY <2>1, MinIsLeast
    <3>2. Min(L) <= m /\ m <= Min(L) /\ Min(L) \in Nat /\ m \in Nat
      BY <1>1, <2>1, <3>1
    <3>. QED BY <2>1, <3>2
  <2>3. Left(e, l, n, i) = [e[i] EXCEPT !.val = r.val, !.flags = r.flags]
    BY <2>2 DEF Left, r, m
  <2>4. t[i] = e[i] \/ \E v, f : t[i] = [e[i] EXCEPT !.val = v, !.flags = f]
    BY <1>5 DEF Left
  <2>5. [t[i] EXCEPT !.val = r.val, !.flags = r.flags] = [e[i] EXCEPT !.val = r.val, !.flags = r.flags]
    BY <1>5, <2>4 DEF Entry
  <2>. QED BY <1>3, <1>6, <2>3, <2>5 DEF r, m
<1>7. CASE i # r.slot
  <2>1. Newest(l, n, i) = Newest(l, n - 1, i)
    BY <1>4, <1>7
  <2>. QED BY <1>3, <1>5, <1>7, <2>1 DEF Left, r, m
<1>. QED BY <1>6, <1>7

LEMMA RollbackIsRecursion ==
  ASSUME NEW e \in [Slots -> Entry], NEW l \in Seq(Record)
  PROVE  \E after : /\ RollbackLoop(e, l) = after[Len(l)]
                    /\ after[0] = e
                    /\ \A n \in 1 .. Len(l) : after[n] = PutBack(after[n - 1], l[Len(l) + 1 - n])
<1>. DEFINE N == Len(l)
            S == [Slots -> Entry]
            Rhs(f) == [n \in 0 .. Len(l) |->
                         IF n = 0 THEN e
                         ELSE LET r == l[Len(l) + 1 - n]
                              IN  [f[n - 1] EXCEPT ![r.slot].val = r.val, ![r.slot].flags = r.flags]]
            step == [n \in 1 .. N |-> [t \in S |-> PutBack(t, l[N + 1 - n])]]
            after == CHOOSE f : f = Rhs(f)
<1>1. N \in Nat /\ e \in S /\ \A n \in 1 .. N : l[N + 1 - n] \in Record
  OBVIOUS
<1>2. step \in [1 .. N -> [S -> S]]
  <2>1. \A n \in 1 .. N : \A t \in S : PutBack(t, l[N + 1 - n]) \in S
    BY <1>1, RecordPutBack
  <2>. HIDE DEF S, N
  <2>. QED BY <2>1
<1>3. PICK g : Iterates(g, N, S, e, step)
  <2>. HIDE DEF step, S, N
  <2>. QED BY <1>1, <1>2, Iteration
<1>. DEFINE h == [n \in 0 .. N |-> g[n]]
<1>4. h = Rhs(h)
  <2>1. ASSUME NEW n \in 0 .. N
        PROVE  h[n] = Rhs(h)[n]
    <3>1. CASE n = 0
      BY <3>1, <1>3 DEF Iterates
    <3>2. CASE n # 0
      <4>1. n \in 1 .. N /\ n - 1 \in 0 .. N
        BY <3>2, <1>1
      <4>2. g[n - 1] \in S /\ h[n - 1] = g[n - 1] /\ h[n] = step[n][g[n - 1]]
        BY <4>1, <1>3 DEF Iterates
      <4>3. step[n][g[n - 1]] = PutBack(g[n - 1], l[N + 1 - n])
        <5>. HIDE DEF S, N
        <5>. QED BY <4>1, <4>2
      <4>4. Rhs(h)[n] = PutBack(h[n - 1], l[N + 1 - n])
        BY <3>2, <4>1 DEF PutBack
      <4>. HIDE DEF Rhs, h, step, N
      <4>. QED BY <4>2, <4>3, <4>4
    <3>. QED BY <3>1, <3>2
  <2>. QED BY <2>1
<1>5. after = Rhs(after)
  <2>. HIDE DEF Rhs
  <2>. QED BY <1>4
<1>6. RollbackLoop(e, l) = after[N]
  BY DEF RollbackLoop
<1>7. after[0] = e /\ \A n \in 1 .. N : after[n] = PutBack(after[n - 1], l[N + 1 - n])
  <2>. HIDE DEF after
  <2>1. after = [n \in 0 .. N |-> IF n = 0 THEN e ELSE PutBack(after[n - 1], l[N + 1 - n])]
    BY <1>5 DEF Rhs, PutBack
  <2>2. 0 \in 0 .. N /\ \A n \in 1 .. N : n # 0 /\ n \in 0 .. N
    BY <1>1
  <2>. QED BY <2>1, <2>2
<1>. HIDE DEF after
<1>. QED BY <1>6, <1>7

(* The loop leaves of every slot what its oldest record says, for every    *)
(* table and every journal.                                                *)
LEMMA LoopLeavesUndone ==
  ASSUME NEW e \in [Slots -> Entry], NEW l \in Seq(Record)
  PROVE  RollbackLoop(e, l) = Undone(e, l)
<1>. DEFINE N == Len(l)
<1>1. PICK after : /\ RollbackLoop(e, l) = after[N]
                   /\ after[0] = e
                   /\ \A n \in 1 .. N : after[n] = PutBack(after[n - 1], l[N + 1 - n])
  BY RollbackIsRecursion
<1>2. N \in Nat /\ \A n \in 1 .. N : l[N + 1 - n] \in Record
  OBVIOUS
<1>. DEFINE T == {n \in 0 .. N : after[n] \in [Slots -> Entry] /\ \A i \in Slots : after[n][i] = Left(e, l, n, i)}
<1>3. 0 \in T
  <2>1. \A i \in Slots : Newest(l, 0, i) = {}
    BY <1>2 DEF Newest
  <2>2. \A i \in Slots : Left(e, l, 0, i) = e[i]
    BY <2>1 DEF Left
  <2>. HIDE DEF N
  <2>. QED BY <1>1, <1>2, <2>2
<1>4. \A n \in 1 .. N : n - 1 \in T => n \in T
  <2>. SUFFICES ASSUME NEW n \in 1 .. N, n - 1 \in T PROVE n \in T
    OBVIOUS
  <2>. DEFINE t == after[n - 1]
  <2>1. t \in [Slots -> Entry] /\ \A i \in Slots : t[i] = Left(e, l, n - 1, i)
    OBVIOUS
  <2>2. after[n] = PutBack(t, l[N + 1 - n])
    BY <1>1
  <2>. HIDE DEF t
  <2>3. l[N + 1 - n] \in Record
    BY <1>2
  <2>. HIDE DEF T
  <2>4. after[n] \in [Slots -> Entry]
    <3>. DEFINE r == l[N + 1 - n]
    <3>1. r \in Record /\ t \in [Slots -> Entry] /\ after[n] = PutBack(t, r)
      BY <2>1, <2>2, <2>3
    <3>. HIDE DEF r
    <3>2. PutBack(t, r) \in [Slots -> Entry]
      BY ONLY <3>1, RecordPutBack
    <3>. QED BY ONLY <3>1, <3>2
  <2>5. ASSUME NEW i \in Slots
        PROVE  after[n][i] = Left(e, l, n, i)
    <3>1. PutBack(t, l[Len(l) + 1 - n])[i] = Left(e, l, n, i)
      BY <2>1, RoundLeaves
    <3>. QED BY <2>2, <3>1
  <2>6. n \in 0 .. N
    OBVIOUS
  <2>. HIDE DEF N
  <2>. QED BY <2>4, <2>5, <2>6 DEF T
<1>5. N \in T
  <2>. HIDE DEF T, N
  <2>1. \A n \in 0 .. N : n \in T
    BY <1>2, <1>3, <1>4, BoundedInduction
  <2>. QED BY <1>2, <2>1
<1>6. \A i \in Slots : Newest(l, N, i) = RecordsOf(l, i)
  BY <1>2 DEF RecordsOf, Newest
<1>7. \A i \in Slots : after[N][i] = Undone(e, l)[i]
  BY <1>5, <1>6 DEF Undone, Left, Oldest
<1>. QED BY <1>1, <1>5, <1>7 DEF Undone

(* What a rollback does in one step of the model is what the code's loop   *)
(* does record by record, of every table and journal the database reaches, *)
(* however often the journal names a slot (db.c:32-43).                    *)
THEOREM RollbackIsTheLoop == Spec => []UndoneIsTheLoop
<1>1. TypeOK => UndoneIsTheLoop
  BY LoopLeavesUndone DEF TypeOK, UndoneIsTheLoop
<1>. QED BY <1>1, TypeCorrect, PTL

-------------------------------------------------------------------------------
USE SizeAssumption, SectorAssumption

-------------------------------------------------------------------------------
(* To the database a step of the disk is a step of its own or none.        *)
LEMMA DiskStepIsDatabaseStep == [DiskNext]_<<vars, diskVars>> => [Next]_vars
  BY DEF DiskNext, Marshal, Send, MarshalReturn, DriveWrites, Settle, PowerOff, StayOff

(* ndb_marshal_to_disk only reads the table (disk_marshal.c:23-66).        *)
THEOREM MarshalLeavesDatabaseAlone == DiskSpec => Spec
<1>1. DiskInit => Init
  BY DEF DiskInit
<1>. QED
  BY <1>1, DiskStepIsDatabaseStep, PTL DEF DiskSpec, Spec

(* So all the database promises on its own it promises beside the disk.    *)
THEOREM DatabaseBesideDisk ==
  ASSUME SmallTable, ShortKeys
  PROVE  DiskSpec => /\ []TypeOK /\ []UniqueKeys /\ []LocksAreJournalled /\ []UndoneIsTheLoop
                     /\ ImplementsAtomicStore
BY MarshalLeavesDatabaseAlone, TypeCorrect, UniqueKeysCorrect, LocksCorrect, RollbackIsTheLoop,
   DatabaseIsAtomicStore, PTL

-------------------------------------------------------------------------------
(* Units and sectors.                                                      *)

LEMMA Divided ==
  ASSUME NEW U \in Nat \ {0}, NEW n \in Nat
  PROVE  /\ n \div U \in Nat /\ n % U \in 0 .. U - 1
         /\ n = (n \div U) * U + (n % U)
  OBVIOUS

LEMMA Quotient ==
  ASSUME NEW U \in Nat \ {0}, NEW q \in Nat, NEW r \in 0 .. U - 1
  PROVE  /\ (q * U + r) \div U = q
         /\ (q * U + r) % U = r
  OBVIOUS

LEMMA Monotone ==
  ASSUME NEW U \in Nat \ {0}, NEW n \in Nat, NEW m \in Nat, n <= m
  PROVE  n \div U <= m \div U
  OBVIOUS

LEMMA Below ==
  ASSUME NEW U \in Nat \ {0}, NEW n \in Nat, NEW m \in Nat
  PROVE  n \div U < m <=> n < m * U
  OBVIOUS

(* Enough sectors for the image, and not one too many.                     *)
LEMMA Sizes ==
  /\ Payload \in Nat /\ SectorCount \in Nat
  /\ SectorCount \in 1 .. (Payload \div SectorUnits) + 1
  /\ Payload <= SectorCount * SectorUnits
  /\ SectorCount * SectorUnits < Payload + SectorUnits
<1>. DEFINE N == Payload + SectorUnits - 1
<1>1. Payload \in Nat \ {0}
  BY DEF Payload, HeaderUnits, SlotUnits
<1>2. N \in Nat /\ N >= SectorUnits
  BY <1>1
<1>3. N \div SectorUnits \in Nat /\ N % SectorUnits \in 0 .. SectorUnits - 1
      /\ N = (N \div SectorUnits) * SectorUnits + (N % SectorUnits)
  BY <1>2, Divided
<1>4. SectorCount = N \div SectorUnits
  BY DEF SectorCount
<1>. HIDE DEF N
<1>5. ~ SectorCount < 1
  <2>1. SectorCount < 1 => N < 1 * SectorUnits
    BY <1>2, <1>4, Below
  <2>. QED
    BY <1>2, <2>1
<1>6. SectorCount < (Payload \div SectorUnits) + 2
  <2>. DEFINE q == Payload \div SectorUnits
  <2>1. q \in Nat /\ Payload % SectorUnits \in 0 .. SectorUnits - 1
        /\ Payload = q * SectorUnits + (Payload % SectorUnits)
    BY <1>1, Divided
  <2>. HIDE DEF q
  <2>2. (q + 2) * SectorUnits = q * SectorUnits + SectorUnits + SectorUnits
    BY <2>1
  <2>3. q * SectorUnits \in Nat
    BY <2>1
  <2>. DEFINE m == q + 2
  <2>4. m \in Nat /\ N < m * SectorUnits
    BY <1>1, <2>1, <2>2, <2>3 DEF N
  <2>. HIDE DEF m
  <2>5. SectorCount < m
    BY <1>2, <1>4, <2>4, Below
  <2>. QED
    BY <2>5 DEF q, m
<1>7. (N \div SectorUnits) * SectorUnits \in Nat
  BY <1>3
<1>. QED
  BY <1>1, <1>3, <1>4, <1>5, <1>6, <1>7, Divided DEF N

(* What the call writes ends with its last sector.                         *)
LEMMA WrittenIsWhole == WrittenTo = SectorCount * SectorUnits
<1>. DEFINE w == SectorCount * SectorUnits
<1>1. w \in Nat /\ w % SectorUnits = 0
  BY Sizes, Quotient
<1>2. w \in WholeSectors
  BY <1>1, Sizes DEF WholeSectors
<1>3. WholeSectors \in SUBSET Nat
  BY Sizes DEF WholeSectors
<1>4. WrittenTo \in WholeSectors /\ WrittenTo \in Nat /\ WrittenTo <= w
  BY <1>2, <1>3, MinIsLeast DEF WrittenTo
<1>5. ASSUME NEW m \in WholeSectors, m < w PROVE FALSE
  <2>. DEFINE q == m \div SectorUnits
  <2>1. m \in Nat /\ m % SectorUnits = 0 /\ Payload <= m
    BY Sizes DEF WholeSectors
  <2>2. q \in Nat /\ m = q * SectorUnits + 0
    BY <2>1, Divided
  <2>. HIDE DEF q
  <2>3. q < SectorCount
    BY <1>5, <2>1, Sizes, Below DEF q
  <2>4. SectorCount * SectorUnits = (SectorCount - 1) * SectorUnits + SectorUnits
    BY Sizes
  <2>5. q * SectorUnits <= (SectorCount - 1) * SectorUnits
    BY <2>2, <2>3, Sizes
  <2>6. q * SectorUnits \in Nat /\ (SectorCount - 1) * SectorUnits \in Nat
    BY <2>2, Sizes
  <2>. QED
    BY <2>1, <2>2, <2>4, <2>5, <2>6, Sizes
<1>6. ~ WrittenTo < w
  BY <1>4, <1>5
<1>. QED
  BY <1>1, <1>4, <1>6

(* No unit of an image is the old one.                                     *)
LEMMA UnitIsNew ==
  ASSUME NEW n \in Nat
  PROVE  Unit(n) # OldUnit
<1>1. Header # OldUnit /\ Padding # OldUnit
  BY DEF Header, Padding, OldUnit
<1>2. \A i : KeyUnit(i) # OldUnit /\ ValueUnit(i) # OldUnit
  BY DEF KeyUnit, ValueUnit, OldUnit
<1>. QED
  BY <1>1, <1>2, Sizes DEF Unit, HeaderUnits

-------------------------------------------------------------------------------
(* What a reader finds when W sectors of the call are on the disk.         *)
Image(W) == [s \in DOMAIN OldDisk |-> IF s < W THEN Sector(s) ELSE OldSector]

LEMMA Reading ==
  ASSUME NEW W \in 0 .. SectorCount, disk = Image(W),
         NEW n \in 0 .. ((Payload \div SectorUnits) + 2) * SectorUnits - 1
  PROVE  OnDisk(n) = IF n \div SectorUnits < W THEN Unit(n) ELSE OldUnit
<1>. DEFINE q == n \div SectorUnits
<1>. DEFINE r == n % SectorUnits
<1>. DEFINE m == (Payload \div SectorUnits) + 2
<1>1. Payload \div SectorUnits \in Nat
  BY Sizes, Divided
<1>2. n \in Nat /\ m \in Nat
  BY <1>1
<1>3. n < m * SectorUnits
  <2>1. m * SectorUnits \in Nat /\ n \in 0 .. m * SectorUnits - 1
    BY <1>2
  <2>. QED
    BY <2>1
<1>4. q \in Nat /\ r \in 0 .. SectorUnits - 1 /\ n = q * SectorUnits + r
  BY <1>2, Divided
<1>5. q < m
  <2>. HIDE DEF m
  <2>. QED
    BY <1>2, <1>3, Below
<1>6. q \in DOMAIN OldDisk
  BY <1>1, <1>4, <1>5 DEF OldDisk
<1>7. OnDisk(n) = (IF q < W THEN Sector(q) ELSE OldSector)[r]
  BY <1>6 DEF OnDisk, Image
<1>. HIDE DEF q, r
<1>8. Sector(q)[r] = Unit(n) /\ OldSector[r] = OldUnit
  BY <1>4 DEF Sector, OldSector
<1>. QED
  BY <1>7, <1>8 DEF q

(* Where the slots lie.                                                    *)
LEMMA Places ==
  ASSUME NEW i \in Slots
  PROVE  /\ KeyPlace(i) \in 1 .. Payload - 2 /\ ValuePlace(i) = KeyPlace(i) + 1
         /\ Unit(KeyPlace(i)) = KeyUnit(i) /\ Unit(ValuePlace(i)) = ValueUnit(i)
<1>1. i \in Nat /\ i < Capacity
  BY DEF Slots
<1>2. KeyPlace(i) = 1 + i * 2 /\ ValuePlace(i) = 2 + i * 2 /\ Payload = 1 + Capacity * 2
  BY <1>1 DEF KeyPlace, ValuePlace, Payload, HeaderUnits, SlotUnits
<1>3. Unit(KeyPlace(i)) = KeyUnit(i)
  <2>1. (KeyPlace(i) - 1) % 2 = 0 /\ (KeyPlace(i) - 1) \div 2 = i
    BY <1>1, <1>2
  <2>2. KeyPlace(i) >= 1 /\ KeyPlace(i) < Payload
    BY <1>1, <1>2
  <2>. QED
    BY <1>1, <2>1, <2>2 DEF Unit, HeaderUnits, SlotUnits
<1>4. Unit(ValuePlace(i)) = ValueUnit(i)
  <2>1. (ValuePlace(i) - 1) % 2 = 1 /\ (ValuePlace(i) - 1) \div 2 = i
    BY <1>1, <1>2
  <2>2. ValuePlace(i) >= 1 /\ ValuePlace(i) < Payload
    BY <1>1, <1>2
  <2>. QED
    BY <1>1, <2>1, <2>2 DEF Unit, HeaderUnits, SlotUnits
<1>. QED
  BY <1>1, <1>2, <1>3, <1>4

(* The last unit of the disk lies behind all that is written.              *)
LEMMA DiskIsLonger ==
  /\ ((Payload \div SectorUnits) + 2) * SectorUnits \in Nat
  /\ Payload < ((Payload \div SectorUnits) + 2) * SectorUnits
<1>. DEFINE q == Payload \div SectorUnits
<1>1. q \in Nat /\ Payload = q * SectorUnits + (Payload % SectorUnits)
      /\ Payload % SectorUnits \in 0 .. SectorUnits - 1
  BY Sizes, Divided
<1>. HIDE DEF q
<1>2. (q + 2) * SectorUnits = q * SectorUnits + SectorUnits + SectorUnits
  BY <1>1
<1>3. q * SectorUnits \in Nat
  BY <1>1
<1>4. (q + 2) * SectorUnits \in Nat /\ Payload < (q + 2) * SectorUnits
  BY <1>1, <1>2, <1>3
<1>. QED
  BY <1>4 DEF q

LEMMA ImageIsOldThenNew ==
  ASSUME NEW W \in 0 .. SectorCount, disk = Image(W),
         phase = "returned" /\ heeded =>
           W >= IF status = "quiet" THEN SectorCount ELSE SectorCount - 1
  PROVE  DiskIsOldThenNew
<1>. DEFINE last == ((Payload \div SectorUnits) + 2) * SectorUnits - 1
<1>. DEFINE sector(n) == n \div SectorUnits
<1>1. last \in Nat /\ Payload <= last /\ 0 \in 0 .. last
  BY DiskIsLonger, Sizes
<1>2. ASSUME NEW n \in 0 .. last
      PROVE  OnDisk(n) = IF sector(n) < W THEN Unit(n) ELSE OldUnit
  BY <1>2, Reading
<1>3. \A n \in 0 .. last : sector(n) \in Nat
  BY Divided
<1>. HIDE DEF last
<1>4. ASSUME NEW n \in 0 .. last
      PROVE  OnDisk(n) # OldUnit <=> sector(n) < W
  BY <1>2, <1>4, UnitIsNew
<1>5. ASSUME NEW i \in Slots
      PROVE  /\ KeyPlace(i) \in 0 .. last /\ ValuePlace(i) \in 0 .. last
             /\ sector(KeyPlace(i)) < W => OnDisk(KeyPlace(i)) = KeyUnit(i)
             /\ sector(ValuePlace(i)) < W => OnDisk(ValuePlace(i)) = ValueUnit(i)
  <2>1. KeyPlace(i) \in 0 .. last /\ ValuePlace(i) \in 0 .. last
    BY <1>1, <1>5, Places, Sizes
  <2>. QED
    BY <1>2, <1>5, <2>1, Places
<1>6. ASSUME NEW i \in Slots PROVE OldSlot(i) \/ NewSlot(i) \/ Straddles(i)
  <2>1. CASE sector(KeyPlace(i)) = sector(ValuePlace(i))
    BY <1>2, <1>5, <1>6, <2>1 DEF OldSlot, NewSlot
  <2>2. CASE sector(KeyPlace(i)) # sector(ValuePlace(i))
    BY <2>2 DEF Straddles
  <2>. QED
    BY <2>1, <2>2
<1>7. OnDisk(0) # OldUnit => OnDisk(0) = Header
  BY <1>1, <1>2 DEF Unit, HeaderUnits
<1>8. ASSUME NEW n \in 1 .. last, OnDisk(n) # OldUnit
      PROVE  OnDisk(n - 1) # OldUnit /\ n < WrittenTo
  <2>1. n \in 0 .. last /\ n - 1 \in 0 .. last /\ n \in Nat /\ n - 1 \in Nat
    BY <1>1, <1>8
  <2>2. sector(n) < W
    BY <1>4, <1>8, <2>1
  <2>3. sector(n - 1) <= sector(n)
    BY <2>1, Monotone
  <2>4. sector(n - 1) < W /\ sector(n) < SectorCount
    BY <1>3, <2>1, <2>2, <2>3, Sizes
  <2>5. n < SectorCount * SectorUnits
    BY <2>1, <2>4, Sizes, Below
  <2>. QED
    BY <1>4, <2>1, <2>4, <2>5, WrittenIsWhole
<1>9. ASSUME phase = "returned", heeded, status = "quiet"
      PROVE  OnDisk(0) # OldUnit /\ \A i \in Slots : NewSlot(i)
  <2>1. W = SectorCount
    BY <1>9, Sizes
  <2>2. ASSUME NEW n \in 0 .. last, n < Payload PROVE sector(n) < W
    <3>1. n < SectorCount * SectorUnits /\ SectorCount * SectorUnits \in Nat
      BY <2>2, Sizes
    <3>. QED
      BY <2>1, <2>2, <3>1, Sizes, Below
  <2>3. 0 < Payload
    BY DEF Payload, HeaderUnits, SlotUnits
  <2>4. OnDisk(0) # OldUnit
    BY <1>1, <1>4, <2>2, <2>3
  <2>5. ASSUME NEW i \in Slots PROVE NewSlot(i)
    <3>1. KeyPlace(i) < Payload /\ ValuePlace(i) < Payload
      BY <2>5, Places, Sizes
    <3>. QED
      BY <1>5, <2>2, <2>5, <3>1 DEF NewSlot
  <2>. QED
    BY <2>4, <2>5
<1>10. ASSUME phase = "returned", heeded, NEW i \in Slots, ValuePlace(i) < WrittenTo - SectorUnits
       PROVE  NewSlot(i)
  <2>1. W >= SectorCount - 1
    BY <1>10, Sizes
  <2>2. KeyPlace(i) \in Nat /\ ValuePlace(i) \in Nat /\ KeyPlace(i) <= ValuePlace(i)
    BY <1>10, Places, Sizes
  <2>. DEFINE m == SectorCount - 1
  <2>3. m \in Nat /\ m * SectorUnits = SectorCount * SectorUnits - SectorUnits
    BY Sizes
  <2>. HIDE DEF m
  <2>4. ValuePlace(i) < m * SectorUnits
    BY <1>10, <2>3, WrittenIsWhole
  <2>5. sector(ValuePlace(i)) < m
    BY <2>2, <2>3, <2>4, Below
  <2>6. sector(KeyPlace(i)) <= sector(ValuePlace(i))
    BY <2>2, Monotone
  <2>7. sector(KeyPlace(i)) \in Nat /\ sector(ValuePlace(i)) \in Nat
    BY <2>2, Divided
  <2>8. sector(KeyPlace(i)) < W /\ sector(ValuePlace(i)) < W
    BY <2>1, <2>3, <2>5, <2>6, <2>7, Sizes DEF m
  <2>. QED
    BY <1>5, <1>10, <2>8 DEF NewSlot
<1>. QED
  BY <1>6, <1>7, <1>8, <1>9, <1>10 DEF DiskIsOldThenNew, last

-------------------------------------------------------------------------------
(* A drive is never asked for more sectors than there are.                 *)
LEMMA RequestedFits == Requested \in 1 .. SectorCount
<1>. DEFINE q == SectorCount \div CountRange
<1>1. SectorCount \in Nat \ {0}
  BY Sizes
<1>2. q \in Nat /\ Register \in 0 .. CountRange - 1 /\ SectorCount = q * CountRange + Register
  BY <1>1, Divided DEF Register
<1>. HIDE DEF q
<1>3. q * CountRange \in Nat
  BY <1>2
<1>4. CASE Register = 0
  <2>1. q # 0
    BY <1>1, <1>2, <1>4
  <2>2. q * CountRange = (q - 1) * CountRange + CountRange /\ (q - 1) * CountRange \in Nat
    BY <1>2, <2>1
  <2>. QED
    BY <1>2, <1>4, <2>2 DEF Requested
<1>5. CASE Register # 0
  BY <1>2, <1>3, <1>5 DEF Requested
<1>. QED
  BY <1>4, <1>5

Calling == phase \in {"sending", "returned"}
Busy == status = "busy"

(* The call and the drive count the same sectors: what was sent and what   *)
(* is wanted make up what was requested, and the sector in the buffer      *)
(* counts twice.  A command given to a busy drive is not heeded, sends     *)
(* nothing, and finds it at the last sector of the call before.            *)
CountsAgree ==
  /\ phase \in {"none", "sending", "returned", "off"}
  /\ status \in {"quiet", "asking", "busy"}
  /\ heeded \in BOOLEAN
  /\ sent \in 0 .. SectorCount
  /\ wanted \in 0 .. Requested
  /\ status = "quiet" <=> wanted = 0
  /\ ~Calling => wanted = 0
  /\ Calling /\ heeded => sent + wanted = Requested + (IF Busy THEN 1 ELSE 0)
  /\ phase = "returned" => heeded /\ sent = SectorCount
  /\ phase = "sending" /\ ~heeded =>
       /\ sent = 0 /\ status # "asking"
       /\ Busy => wanted = 1 /\ Requested = SectorCount

(* How much of the call's image is on the disk, at least.                  *)
AtLeast == IF Calling /\ (heeded \/ Busy) THEN Requested - wanted ELSE 0

DiskInv ==
  /\ CountsAgree
  /\ Busy => held = Sector(Requested - wanted)
  /\ phase = "none" => disk = OldDisk
  /\ \E W \in AtLeast .. SectorCount : disk = Image(W)

LEMMA NoSectors == 0 \in 0 .. SectorCount /\ 0 \in 0 .. Requested
  BY RequestedFits, Sizes

(* The image is that of the table.                                         *)
LEMMA ImageStays ==
  ASSUME UNCHANGED entries, NEW W
  PROVE  Image(W)' = Image(W)
  BY DEF Image, Sector, Unit, KeyUnit, ValueUnit

LEMMA AtLeastFits == CountsAgree => AtLeast \in 0 .. SectorCount
  BY RequestedFits, Sizes DEF CountsAgree, AtLeast

LEMMA NothingWritten == OldDisk = Image(0) /\ OldDisk = Image(0)'
<1>1. \A s \in DOMAIN OldDisk : ~ s < 0
  BY Sizes, Divided DEF OldDisk
<1>. QED
  BY <1>1 DEF Image, OldDisk

LEMMA DiskInitially == DiskInit => DiskInv
<1>. SUFFICES ASSUME DiskInit PROVE DiskInv
  OBVIOUS
<1>1. phase = "none" /\ sent = 0 /\ heeded = FALSE /\ status = "quiet" /\ wanted = 0 /\ disk = OldDisk
  BY DEF DiskInit
<1>2. CountsAgree
  BY <1>1, NoSectors DEF CountsAgree, Calling
<1>3. AtLeast = 0 /\ ~Busy
  BY <1>1 DEF AtLeast, Calling, Busy
<1>. QED
  BY <1>1, <1>2, <1>3, NothingWritten, Sizes DEF DiskInv

(* A command: the drive is quiet and heeds it, or it is at the last sector *)
(* of the call before.                                                     *)
LEMMA MarshalStep == DiskInv /\ Marshal => DiskInv'
<1>. SUFFICES ASSUME DiskInv, Marshal PROVE DiskInv'
  OBVIOUS
<1>1. CountsAgree /\ UNCHANGED <<entries, held, disk>> /\ phase' = "sending" /\ sent' = 0
      /\ Requested \in Nat \ {0} /\ SectorCount \in Nat /\ wanted \in Nat
  BY RequestedFits, Sizes DEF DiskInv, Marshal, vars, CountsAgree
<1>2. PICK W \in AtLeast .. SectorCount : disk = Image(W)
  BY DEF DiskInv
<1>3. disk' = Image(W)'
  BY <1>1, <1>2 DEF Image, Sector, Unit, KeyUnit, ValueUnit
<1>4. CASE status = "quiet"
  <2>1. heeded' = TRUE /\ status' = "asking" /\ wanted' = Requested
    BY <1>4 DEF Marshal
  <2>2. CountsAgree'
    BY <1>1, <2>1, RequestedFits, Sizes DEF CountsAgree, Calling, Busy
  <2>3. AtLeast' = 0 /\ ~Busy' /\ W \in 0 .. SectorCount
    BY <1>1, <1>2, <2>1, AtLeastFits DEF AtLeast, Busy
  <2>. QED
    BY <1>1, <1>3, <2>2, <2>3 DEF DiskInv
<1>5. CASE status # "quiet"
  <2>1. heeded' = FALSE /\ status' = status /\ wanted' = wanted /\ phase = "returned"
    BY <1>1, <1>5 DEF Marshal, CountsAgree, Calling
  <2>2. heeded /\ sent = SectorCount /\ sent + wanted = Requested + (IF Busy THEN 1 ELSE 0)
    BY <1>1, <2>1 DEF CountsAgree, Calling
  <2>3. Busy /\ wanted = 1 /\ Requested = SectorCount
    BY <1>1, <1>5, <2>2, RequestedFits DEF CountsAgree, Busy
  <2>4. CountsAgree'
    BY <1>1, <2>1, <2>3, NoSectors, RequestedFits DEF CountsAgree, Calling, Busy
  <2>5. AtLeast' = Requested - wanted /\ AtLeast = Requested - wanted
    BY <1>1, <2>1, <2>2, <2>3 DEF AtLeast, Calling, Busy
  <2>6. held' = Sector(Requested - wanted)'
    BY <1>1, <2>1, <2>3 DEF DiskInv, Sector, Unit, KeyUnit, ValueUnit
  <2>. QED
    BY <1>1, <1>2, <1>3, <2>4, <2>5, <2>6 DEF DiskInv
<1>. QED
  BY <1>4, <1>5

LEMMA SendStep == DiskInv /\ Send => DiskInv'
<1>. SUFFICES ASSUME DiskInv, Send PROVE DiskInv'
  OBVIOUS
<1>1. /\ CountsAgree /\ UNCHANGED <<entries, phase, heeded, wanted, disk>>
      /\ phase = "sending" /\ sent < SectorCount /\ status = "asking"
      /\ held' = Sector(sent) /\ sent' = sent + 1 /\ status' = "busy"
      /\ Requested \in Nat \ {0} /\ SectorCount \in Nat /\ wanted \in Nat /\ sent \in Nat
  BY RequestedFits, Sizes DEF DiskInv, Send, vars, CountsAgree
<1>2. heeded /\ sent + wanted = Requested /\ wanted # 0
  BY <1>1 DEF CountsAgree, Calling, Busy
<1>3. PICK W \in AtLeast .. SectorCount : disk = Image(W)
  BY DEF DiskInv
<1>4. disk' = Image(W)'
  BY <1>1, <1>3 DEF Image, Sector, Unit, KeyUnit, ValueUnit
<1>5. CountsAgree'
  BY <1>1, <1>2 DEF CountsAgree, Calling, Busy
<1>6. AtLeast' = AtLeast
  BY <1>1, <1>2 DEF AtLeast, Calling, Busy
<1>7. sent = Requested - wanted
  BY <1>1, <1>2
<1>8. held' = Sector(Requested - wanted)'
  BY <1>1, <1>7 DEF Sector, Unit, KeyUnit, ValueUnit
<1>. QED
  BY <1>1, <1>3, <1>4, <1>5, <1>6, <1>8 DEF DiskInv

(* The drive writes the next sector, or the one that is there already.     *)
LEMMA WriteStep == DiskInv /\ DriveWrites => DiskInv'
<1>. SUFFICES ASSUME DiskInv, DriveWrites PROVE DiskInv'
  OBVIOUS
<1>. DEFINE at == Requested - wanted
<1>1. /\ CountsAgree /\ UNCHANGED <<entries, phase, sent, heeded, held>>
      /\ status = "busy" /\ phase # "off" /\ held = Sector(at)
      /\ disk' = [disk EXCEPT ![at] = held] /\ wanted' = wanted - 1
      /\ status' = IF wanted > 1 THEN "asking" ELSE "quiet"
      /\ Requested \in 1 .. SectorCount /\ SectorCount \in Nat /\ wanted \in 0 .. Requested
      /\ sent \in 0 .. SectorCount
  BY RequestedFits, Sizes DEF DiskInv, DriveWrites, vars, CountsAgree, Busy
<1>2. Calling /\ wanted >= 1
  BY <1>1 DEF CountsAgree
<1>3. heeded => sent + wanted = Requested + 1
  BY <1>1, <1>2 DEF CountsAgree, Busy
<1>4. ~heeded => phase = "sending" /\ sent = 0 /\ wanted = 1 /\ Requested = SectorCount
  BY <1>1, <1>2 DEF CountsAgree, Busy, Calling
<1>5. at \in 0 .. SectorCount - 1 /\ AtLeast = at
  BY <1>1, <1>2 DEF AtLeast, Busy
<1>6. PICK W \in at .. SectorCount : disk = Image(W)
  BY <1>5 DEF DiskInv
<1>. DEFINE V == IF W > at THEN W ELSE at + 1
<1>7. V \in at + 1 .. SectorCount
  BY <1>1, <1>5, <1>6
<1>8. disk' = Image(V)
  <2>. HIDE DEF at
  <2>1. \A s \in DOMAIN OldDisk : s \in Nat
    BY Sizes, Divided DEF OldDisk
  <2>2. disk' = [s \in DOMAIN OldDisk |-> IF s = at THEN Sector(at) ELSE disk[s]]
    BY <1>1, <1>6 DEF Image
  <2>3. \A s \in DOMAIN OldDisk : disk[s] = IF s < W THEN Sector(s) ELSE OldSector
    BY <1>6 DEF Image
  <2>4. \A s \in DOMAIN OldDisk : s < V <=> s = at \/ s < W
    BY <1>5, <1>6, <2>1
  <2>. HIDE DEF V
  <2>5. \A s \in DOMAIN OldDisk :
          (IF s = at THEN Sector(at) ELSE disk[s]) = IF s < V THEN Sector(s) ELSE OldSector
    BY <2>3, <2>4
  <2>. QED
    BY <2>2, <2>5 DEF Image
<1>9. PICK X \in at + 1 .. SectorCount : disk' = Image(X)
  BY <1>7, <1>8
<1>10. disk' = Image(X)'
  BY <1>1, <1>9, ImageStays
<1>11. CountsAgree'
  BY <1>1, <1>2, <1>3, <1>4 DEF CountsAgree, Calling, Busy
<1>12. AtLeast' \in 0 .. at + 1
  BY <1>1, <1>2 DEF AtLeast, Busy
<1>13. X \in AtLeast' .. SectorCount /\ ~Busy' /\ phase' # "none"
  BY <1>1, <1>2, <1>5, <1>9, <1>12 DEF Busy, Calling
<1>. QED
  BY <1>11, <1>13, <1>10 DEF DiskInv

LEMMA DiskStep == DiskInv /\ [DiskNext]_<<vars, diskVars>> => DiskInv'
<1>. SUFFICES ASSUME DiskInv, [DiskNext]_<<vars, diskVars>> PROVE DiskInv'
  OBVIOUS
<1>1. CASE Marshal
  BY <1>1, MarshalStep
<1>2. CASE Send
  BY <1>2, SendStep
<1>3. CASE DriveWrites
  BY <1>3, WriteStep
<1>4. CASE phase = "none" /\ Next /\ UNCHANGED diskVars
  <2>1. CountsAgree' /\ ~Busy' /\ AtLeast' = 0 /\ disk' = OldDisk
    BY <1>4 DEF DiskInv, diskVars, CountsAgree, Calling, Busy, AtLeast
  <2>. QED
    BY <2>1, NothingWritten, Sizes DEF DiskInv, Image
<1>5. CASE MarshalReturn
  <2>1. /\ CountsAgree /\ UNCHANGED <<entries, sent, heeded, status, wanted, held, disk>>
        /\ phase = "sending" /\ phase' = "returned" /\ sent = SectorCount
    BY <1>5 DEF DiskInv, MarshalReturn, vars
  <2>2. heeded
    BY <2>1, Sizes DEF CountsAgree
  <2>3. CountsAgree' /\ AtLeast' = AtLeast
    BY <2>1, <2>2 DEF CountsAgree, AtLeast, Calling, Busy
  <2>. QED
    BY <2>1, <2>3 DEF DiskInv, Busy, Image, Sector, Unit, KeyUnit, ValueUnit
<1>6. CASE Settle
  <2>1. phase' = "none" /\ disk' = OldDisk /\ sent' = 0 /\ heeded' = FALSE
        /\ status' = "quiet" /\ wanted' = 0
    BY <1>6 DEF Settle, Quiet
  <2>2. CountsAgree' /\ AtLeast' = 0 /\ ~Busy'
    BY <2>1, NoSectors DEF CountsAgree, AtLeast, Calling, Busy
  <2>. QED
    BY <2>1, <2>2, NothingWritten, Sizes DEF DiskInv
<1>7. CASE PowerOff
  <2>1. /\ phase' = "off" /\ UNCHANGED <<entries, disk>> /\ sent' = 0 /\ heeded' = FALSE
        /\ status' = "quiet" /\ wanted' = 0
    BY <1>7 DEF PowerOff, Quiet, vars
  <2>2. CountsAgree' /\ AtLeast' = 0 /\ ~Busy'
    BY <2>1, NoSectors DEF CountsAgree, AtLeast, Calling, Busy
  <2>3. PICK W \in AtLeast .. SectorCount : disk = Image(W)
    BY DEF DiskInv
  <2>4. W \in 0 .. SectorCount
    BY <2>3, AtLeastFits, Sizes DEF DiskInv
  <2>5. disk' = Image(W)'
    BY <2>1, <2>3 DEF Image, Sector, Unit, KeyUnit, ValueUnit
  <2>. QED
    BY <2>1, <2>2, <2>4, <2>5 DEF DiskInv
<1>8. CASE StayOff \/ UNCHANGED <<vars, diskVars>>
  <2>1. UNCHANGED <<entries, phase, sent, heeded, status, wanted, held, disk>>
    BY <1>8 DEF StayOff, vars, diskVars
  <2>2. CountsAgree' /\ AtLeast' = AtLeast
    BY <2>1 DEF DiskInv, CountsAgree, AtLeast, Calling, Busy
  <2>. QED
    BY <2>1, <2>2 DEF DiskInv, Busy, Image, Sector, Unit, KeyUnit, ValueUnit
<1>. QED
  BY <1>1, <1>2, <1>3, <1>4, <1>5, <1>6, <1>7, <1>8 DEF DiskNext

(* Wherever the power fails, for every size: the slots up to some place    *)
(* are new and the ones behind it old, none is half of each unless it lies *)
(* in two sectors, nothing is written behind the image, and once the drive *)
(* is quiet after a call that returned all is there                        *)
(* (disk_marshal.c:23-66).                                                 *)
THEOREM DiskHoldsOldThenNew == DiskSpec => []DiskIsOldThenNew
<1>1. DiskInit => DiskInv
  BY DiskInitially
<1>2. DiskInv /\ [DiskNext]_<<vars, diskVars>> => DiskInv'
  BY DiskStep
<1>3. ASSUME DiskInv PROVE DiskIsOldThenNew
  <2>1. PICK W \in AtLeast .. SectorCount : disk = Image(W)
    BY <1>3 DEF DiskInv
  <2>2. W \in 0 .. SectorCount
    BY <1>3, <2>1, AtLeastFits, Sizes DEF DiskInv
  <2>3. ASSUME phase = "returned", heeded
        PROVE  W >= IF status = "quiet" THEN SectorCount ELSE SectorCount - 1
    <3>1. sent = SectorCount /\ sent + wanted = Requested + (IF Busy THEN 1 ELSE 0)
          /\ AtLeast = Requested - wanted /\ wanted \in 0 .. Requested
          /\ (status = "quiet" => ~Busy)
      BY <1>3, <2>3 DEF DiskInv, CountsAgree, AtLeast, Calling, Busy
    <3>. QED
      BY <2>1, <3>1, RequestedFits, Sizes
  <2>. QED
    BY <2>1, <2>2, <2>3, ImageIsOldThenNew
<1>. QED
  BY <1>1, <1>2, <1>3, PTL DEF DiskSpec
===============================================================================
