-------------------------------- MODULE NanoDB --------------------------------
(***************************************************************************)
(* The in-memory database of the kernel (src/kernel/db.c): a fixed table   *)
(* of slots, looked up linearly, and one transaction session whose undo    *)
(* journal has a fixed number of records.                                  *)
(*                                                                         *)
(* Every operation runs to completion (the kernel has one thread and no    *)
(* operation calls back), so each is one action.  A key is a model value;  *)
(* LongKeys are the keys of sixteen characters or more, which the table    *)
(* stores cut to fifteen (Stored) and therefore never finds again.         *)
(***************************************************************************)
EXTENDS Naturals, Sequences, FiniteSetsExt

CONSTANTS
  Keys,        (* keys callers pass                                        *)
  LongKeys,    (* the keys too long for DbEntry.key                        *)
  Stored,      (* Stored[k]: what ndb_set leaves in DbEntry.key for k      *)
  NoKey,       (* DbEntry.key of a slot never written                      *)
  Values,      (* payloads                                                 *)
  Zero,        (* the payload memset leaves                                *)
  Capacity,    (* slots in the external buffer                             *)
  MaxTxKeys,   (* NDB_MAX_TX_KEYS, 8 in the code                           *)
  IndexRange,  (* values of RollbackEntry.entry_index, 2^16 in the code    *)
  Missing,     (* ndb_get returned false                                   *)
  Void         (* the operation returns nothing                            *)

ASSUME SizeAssumption ==
  /\ Capacity \in Nat
  /\ MaxTxKeys \in Nat
  /\ IndexRange \in Nat \ {0}

(* A short key is stored whole; a long key is stored as one of the short   *)
(* keys, which no long key equals.                                         *)
ASSUME KeyAssumption ==
  /\ LongKeys \subseteq Keys
  /\ Stored \in [Keys -> Keys \ LongKeys]
  /\ \A k \in Keys \ LongKeys : Stored[k] = k
  /\ NoKey \notin Keys

ASSUME ValueAssumption ==
  /\ Missing \notin Values \cup {Zero}

VARIABLES
  entries,   (* the slots: key, val_raw and flags                          *)
  log,       (* tx.logs[0 .. tx.count - 1]                                 *)
  txActive,  (* tx.is_active                                               *)
  reply      (* what the last call returned to its caller                  *)

vars == <<entries, log, txActive, reply>>

Slots == 0 .. (Capacity - 1)
Flags == {"ACTIVE", "DIRTY", "TRANSACTION"}

(* The key under which a slot was filled stays when the slot is emptied. *)
Entry == [key : Keys \cup {NoKey}, val : Values \cup {Zero}, flags : SUBSET Flags]

Record == [slot : Nat, val : Values \cup {Zero}, flags : SUBSET Flags]

TypeOK ==
  /\ entries \in [Slots -> Entry]
  /\ log \in Seq(Record)
  /\ Len(log) <= MaxTxKeys
  /\ txActive \in BOOLEAN
  /\ reply \in BOOLEAN \cup Values \cup {Zero, Missing, Void}

-------------------------------------------------------------------------------
(* Lookups: both scan the table upwards and stop at the first hit.         *)

IsActive(e, i) == "ACTIVE" \in e[i].flags

(* The slots whose stored key equals the caller's key.  A long key differs *)
(* from every stored key at its sixteenth character.                       *)
Matches(e, k) == {i \in Slots : IsActive(e, i) /\ e[i].key = k}

Empties(e) == {i \in Slots : ~IsActive(e, i)}

(* Mutant: an empty slot is preferred to the key's own. *)
MutTarget(e, k) ==
  LET cands == IF Empties(e) # {} THEN Empties(e) ELSE Matches(e, k)
  IN  IF cands = {} THEN {} ELSE {Min(cands)}

(* find_key_index, then find_empty_slot; a set of no slot or of one slot.  *)
Target(e, k) ==
  LET found == Matches(e, k)
      cands == IF found # {} THEN found ELSE Empties(e)
  IN  IF cands = {} THEN {} ELSE {Min(cands)}

-------------------------------------------------------------------------------
(* Undo journal.                                                           *)

(* The records of slot i, and the oldest of them. *)
RecordsOf(l, i) == {n \in DOMAIN l : l[n].slot = i}

Oldest(l, i) == l[Min(RecordsOf(l, i))]

(* Mutant: the journal is undone from its oldest record to its newest. *)
MutUndone(e, l) ==
  [i \in Slots |->
     IF RecordsOf(l, i) = {}
     THEN e[i]
     ELSE LET r == l[Max(RecordsOf(l, i))]
          IN  [e[i] EXCEPT !.val = r.val, !.flags = r.flags]]

(* The table the loop of ndb_tx_rollback leaves: it runs from the newest   *)
(* record to the oldest, so the oldest record of a slot is written last.   *)
(* The key is not restored.                                                *)
Undone(e, l) ==
  [i \in Slots |->
     IF RecordsOf(l, i) = {}
     THEN e[i]
     ELSE [e[i] EXCEPT !.val = Oldest(l, i).val, !.flags = Oldest(l, i).flags]]

(* The loop itself, after each of its rounds. *)
RollbackLoop(e, l) ==
  LET after[n \in 0 .. Len(l)] ==
        IF n = 0 THEN e
        ELSE LET r == l[Len(l) + 1 - n]
             IN  [after[n - 1] EXCEPT ![r.slot].val = r.val, ![r.slot].flags = r.flags]
  IN  after[Len(l)]

(* Mutant: the last record of the journal is overlooked. *)
MutUnlocked(e, l) ==
  [i \in Slots |->
     IF RecordsOf(l, i) \ {Len(l)} = {}
     THEN e[i]
     ELSE [e[i] EXCEPT !.flags = @ \ {"TRANSACTION"}]]

(* The table the loop of ndb_tx_commit leaves. *)
Unlocked(e, l) ==
  [i \in Slots |->
     IF RecordsOf(l, i) = {}
     THEN e[i]
     ELSE [e[i] EXCEPT !.flags = @ \ {"TRANSACTION"}]]

(* Mutant: the bound check lets one record too many in. *)
MutJournalHasRoom == Len(log) <= MaxTxKeys

JournalHasRoom == Len(log) < MaxTxKeys

-------------------------------------------------------------------------------
(* Operations.                                                             *)

(* ndb_init over a buffer of Capacity entries. *)
Init ==
  /\ entries = [i \in Slots |-> [key |-> NoKey, val |-> Zero, flags |-> {}]]
  /\ log = <<>>
  /\ txActive = FALSE
  /\ reply = Void

TxBegin ==
  /\ log' = IF txActive THEN log ELSE <<>>
  /\ txActive' = TRUE
  /\ reply' = ~txActive
  /\ UNCHANGED entries

(* Commit walks the journal and unlocks the slots it names. *)
TxCommit ==
  /\ entries' = IF txActive THEN Unlocked(entries, log) ELSE entries
  /\ txActive' = FALSE
  /\ reply' = Void
  /\ UNCHANGED log

TxRollback ==
  /\ entries' = IF txActive THEN Undone(entries, log) ELSE entries
  /\ txActive' = FALSE
  /\ reply' = Void
  /\ UNCHANGED log

(* ndb_set that found a slot and, in a transaction, room in the journal.   *)
Set(k, v) ==
  \E i \in Target(entries, k) :
    /\ txActive => JournalHasRoom
    /\ log' = IF txActive
              THEN Append(log, [slot  |-> i % IndexRange,
                                val   |-> entries[i].val,
                                flags |-> entries[i].flags])
              ELSE log
    /\ entries' = [entries EXCEPT ![i] =
         [key   |-> Stored[k],
          val   |-> v,
          flags |-> {"ACTIVE", "DIRTY"} \cup
                    (IF txActive THEN {"TRANSACTION"} ELSE {})]]
    /\ reply' = TRUE
    /\ UNCHANGED txActive

(* ndb_set that returned false: no slot, or a full journal. *)
SetRefused(k) ==
  /\ \/ Target(entries, k) = {}
     \/ txActive /\ ~JournalHasRoom
  /\ reply' = FALSE
  /\ UNCHANGED <<entries, log, txActive>>

Get(k) ==
  /\ reply' = IF Matches(entries, k) = {}
              THEN Missing
              ELSE entries[Min(Matches(entries, k))].val
  /\ UNCHANGED <<entries, log, txActive>>

Next ==
  \/ TxBegin
  \/ TxCommit
  \/ TxRollback
  \/ \E k \in Keys, v \in Values : Set(k, v)
  \/ \E k \in Keys : SetRefused(k)
  \/ \E k \in Keys : Get(k)

Spec == Init /\ [][Next]_vars

-------------------------------------------------------------------------------
(* Under which conditions on its users the database keeps its promises.    *)

(* Every key fits in DbEntry.key with its terminator. *)
ShortKeys == LongKeys = {}

(* Every slot number fits in RollbackEntry.entry_index. *)
SmallTable == Capacity <= IndexRange

-------------------------------------------------------------------------------
(* Properties.                                                             *)

(* No two active slots hold the same key, so the upward scans of           *)
(* find_key_index and ndb_get all mean the same slot (db.h: "Unique        *)
(* null-terminated key string").                                           *)
UniqueKeys ==
  \A i, j \in Slots :
    IsActive(entries, i) /\ IsActive(entries, j) /\ entries[i].key = entries[j].key
      => i = j

(* A slot is locked only while the transaction that wrote it is open, and  *)
(* the journal names every locked slot: what ndb_tx_commit and             *)
(* ndb_tx_rollback walk is enough to unlock everything.                    *)
LocksAreJournalled ==
  \A i \in Slots :
    "TRANSACTION" \in entries[i].flags => txActive /\ RecordsOf(log, i) # {}

(* Undone, which says in one step what a rollback leaves, agrees with the  *)
(* loop of ndb_tx_rollback on every journal the program can build, however *)
(* often it names a slot (db.c:32-43).                                     *)
UndoneIsTheLoop == Undone(entries, log) = RollbackLoop(entries, log)

(* The map callers see through ndb_get. *)
Visible(e) ==
  [k \in Keys |-> IF Matches(e, k) = {} THEN Missing ELSE e[Min(Matches(e, k))].val]

(* The table implements the abstract store: the map a rollback returns to  *)
(* is the one the journal, undone from its newest record to its oldest,    *)
(* leads back to.                                                          *)
Store == INSTANCE AtomicStore WITH
  store  <- Visible(entries),
  active <- txActive,
  saved  <- IF txActive THEN Visible(Undone(entries, log)) ELSE Visible(entries)

ImplementsAtomicStore == Store!Spec

(* The strengthening of UniqueKeys and LocksAreJournalled that every step  *)
(* preserves: while a transaction is open the journal names only slots in  *)
(* use, and the oldest record of a slot dates from before it was locked.   *)
JournalInv ==
  txActive =>
    \A i \in Slots : RecordsOf(log, i) # {} =>
      /\ IsActive(entries, i)
      /\ "TRANSACTION" \notin Oldest(log, i).flags
===============================================================================
