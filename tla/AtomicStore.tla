----------------------------- MODULE AtomicStore -----------------------------
(***************************************************************************)
(* What the CalcOS in-memory database promises its callers: a map from    *)
(* keys to values with one transaction at a time.  Writes made inside a    *)
(* transaction are visible at once; a rollback puts back the map that      *)
(* existed when the transaction began; a write may be refused (table full, *)
(* journal full), and a refused write changes nothing.                     *)
(***************************************************************************)
CONSTANTS
  Keys,     (* keys a caller may use                     *)
  Values,   (* payloads                                  *)
  Missing,  (* the value of a key that is not stored     *)
  Void      (* the reply of an operation without reply   *)

VARIABLES
  store,    (* the map the callers see                         *)
  active,   (* TRUE while a transaction is open                *)
  saved,    (* the map the open transaction can go back to     *)
  reply     (* what the last call returned                     *)

vars == <<store, active, saved, reply>>

Maps == [Keys -> Values \cup {Missing}]

Init ==
  /\ store = [k \in Keys |-> Missing]
  /\ active = FALSE
  /\ saved = store
  /\ reply = Void

(* A second begin is refused and the open transaction goes on. *)
Begin ==
  /\ reply' = ~active
  /\ active' = TRUE
  /\ saved' = IF active THEN saved ELSE store
  /\ UNCHANGED store

Commit ==
  /\ active' = FALSE
  /\ saved' = store
  /\ reply' = Void
  /\ UNCHANGED store

Rollback ==
  /\ store' = IF active THEN saved ELSE store
  /\ active' = FALSE
  /\ saved' = store'
  /\ reply' = Void

(* Outside a transaction a write is final: it moves the saved map too. *)
Set(k, v) ==
  /\ store' = [store EXCEPT ![k] = v]
  /\ saved' = IF active THEN saved ELSE store'
  /\ reply' = TRUE
  /\ UNCHANGED active

Refuse ==
  /\ reply' = FALSE
  /\ UNCHANGED <<store, active, saved>>

Get(k) ==
  /\ reply' = store[k]
  /\ UNCHANGED <<store, active, saved>>

Next ==
  \/ Begin
  \/ Commit
  \/ Rollback
  \/ Refuse
  \/ \E k \in Keys : Get(k) \/ \E v \in Values : Set(k, v)

Spec == Init /\ [][Next]_vars
==============================================================================
