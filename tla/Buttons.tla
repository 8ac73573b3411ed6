-------------------------------- MODULE Buttons --------------------------------
(***************************************************************************)
(* The buttons of the ESP32 (Platform/Embedded/esp32_buttons.c): each scan *)
(* compares the pins with the levels last accepted and accepts a change    *)
(* only outside the time in which contacts bounce.                         *)
(*                                                                         *)
(* Buttons are numbered in the order of the scan.  The tick counter wraps, *)
(* and differences of ticks wrap with it.                                  *)
(***************************************************************************)
EXTENDS Integers

CONSTANTS
  KeyMap,      (* the key of each button                                   *)
  Debounce,    (* pdMS_TO_TICKS(50)                                        *)
  TickRange    (* values of TickType_t, 2^32 in the code                   *)

ButtonSet == DOMAIN KeyMap

ASSUME ButtonAssumption ==
  /\ ButtonSet \subseteq Nat
  /\ Debounce \in Nat
  /\ TickRange \in Nat /\ TickRange > Debounce + 1

VARIABLES
  down,      (* the buttons held down: their pins are low                  *)
  lastDown,  (* the same as last accepted, last_state                      *)
  lastTick,  (* when                                                       *)
  now,       (* xTaskGetTickCount                                          *)
  sinceKey,  (* ticks since the button's last key, as far as they matter   *)
  polled     (* a scan was made in this tick                               *)

buttonVars == <<down, lastDown, lastTick, now, sinceKey, polled>>

(* Two full times of bouncing are all that ever has to be told apart. *)
Enough == 2 * (Debounce + 1)

Capped(n) == IF n < Enough THEN n ELSE Enough

(* esp_input_init: a button held at the start is not pressed. *)
ButtonInit ==
  /\ now \in 0 .. TickRange - 1
  /\ down \in SUBSET ButtonSet
  /\ lastDown = down
  /\ lastTick = [b \in ButtonSet |-> now]
  /\ sinceKey = [b \in ButtonSet |-> Enough]
  /\ polled = FALSE

(* Contacts: pressed, released or bouncing. *)
Contact(b) ==
  /\ down' = IF b \in down THEN down \ {b} ELSE down \cup {b}
  /\ UNCHANGED <<lastDown, lastTick, now, sinceKey, polled>>

(* A loop that does nothing but scan makes at least one scan in a tick. *)
Tick ==
  /\ polled
  /\ now' = (now + 1) % TickRange
  /\ sinceKey' = [b \in ButtonSet |-> Capped(sinceKey[b] + 1)]
  /\ polled' = FALSE
  /\ UNCHANGED <<down, lastDown, lastTick>>

-------------------------------------------------------------------------------
(* Mutant: the comparison of ticks is not done modulo their range. *)
MutElapsed(b) == now - lastTick[b]

Elapsed(b) == (now - lastTick[b]) % TickRange

(* The changes a scan may accept. *)
Settled == {b \in ButtonSet : (b \in down) # (b \in lastDown) /\ Elapsed(b) > Debounce}

Pressed == Settled \cap down

(* Mutant: a press does not start the time of bouncing anew. *)
MutAccept(S) ==
  /\ lastDown' = (lastDown \ S) \cup (S \cap down)
  /\ lastTick' = [b \in ButtonSet |-> IF b \in S \ down THEN now ELSE lastTick[b]]

Accept(S) ==
  /\ lastDown' = (lastDown \ S) \cup (S \cap down)
  /\ lastTick' = [b \in ButtonSet |-> IF b \in S THEN now ELSE lastTick[b]]

(* esp_key_available found no press: every change was a release. *)
ScanNothing ==
  /\ Pressed = {}
  /\ Accept(Settled)
  /\ polled' = TRUE
  /\ UNCHANGED <<down, now, sinceKey>>

(* esp_key_available stops at the first press, and esp_read_key, which     *)
(* follows at once, answers its key: no other press is noted then.         *)
ScanPress(k) ==
  /\ \E b \in Pressed :
       /\ \A c \in Pressed : b <= c
       /\ Accept({c \in Settled : c <= b})
       /\ k = KeyMap[b]
       /\ sinceKey' = [sinceKey EXCEPT ![b] = 0]
  /\ polled' = TRUE
  /\ UNCHANGED <<down, now>>

Scan == ScanNothing \/ \E b \in ButtonSet : ScanPress(KeyMap[b])

ButtonNext == Tick \/ Scan \/ \E b \in ButtonSet : Contact(b)

(* Ticks go on, and something scans. *)
ButtonSpec ==
  /\ ButtonInit /\ [][ButtonNext]_buttonVars
  /\ WF_buttonVars(Tick) /\ WF_buttonVars(Scan)

-------------------------------------------------------------------------------
(* A button that is held down is noticed, whatever the tick counter stood  *)
(* at and whatever the other buttons do (esp32_buttons.c:60-81).           *)
PressIsNoticed ==
  \A b \in ButtonSet : b \in down /\ b \notin lastDown ~> b \in lastDown \/ b \notin down

(* Bouncing contacts do not repeat a key: between two keys of one button   *)
(* lie the time of bouncing of its release and of its press                *)
(* (esp32_buttons.c:70-77).                                                *)
KeyAgain(b) == sinceKey[b] # 0 /\ sinceKey'[b] = 0 => sinceKey[b] = Enough

PressesAreSpaced == [][\A b \in ButtonSet : KeyAgain(b)]_buttonVars
================================================================================
