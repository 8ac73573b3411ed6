------------------------------- MODULE HostInput -------------------------------
(***************************************************************************)
(* The input drivers of the hosted program (Platform/Host/host_input.c):   *)
(* bytes of a terminal or a pipe, decoded into keys, and the events of a   *)
(* window.                                                                 *)
(*                                                                         *)
(* typed is everything the other end has written, taken how much of it the *)
(* program has read.  A read of a terminal in raw mode answers at once,    *)
(* with nothing if nothing is there; a read of a pipe waits for a byte or  *)
(* for the end.  An escape sequence is read byte by byte, and bytes arrive *)
(* in between.                                                             *)
(*                                                                         *)
(* A byte that can be typed is itself as a character; "CR", "LF", "DEL",   *)
(* "ESC" and "TAIL" (a continuation byte of UTF-8) are the bytes with a    *)
(* meaning of their own.                                                   *)
(***************************************************************************)
EXTENDS Integers, Sequences

CONSTANTS
  Bytes,       (* the bytes that may be typed                              *)
  FinalBytes,  (* those of them that are "~" or a capital letter           *)
  EscapeMax,   (* bytes of an escape sequence, 7 in the code               *)
  MaxTyped,    (* bound: bytes written in a run                            *)
  WindowKeys,  (* keys of the window's keyboard                            *)
  MaxEvents    (* bound: events waiting in the window's queue              *)

ASSUME InputAssumption ==
  /\ FinalBytes \subseteq Bytes \ {"ESC"}
  /\ EscapeMax \in Nat /\ EscapeMax > 1
  /\ MaxTyped \in Nat /\ MaxEvents \in Nat

VARIABLES
  driver,    (* where keys come from                                       *)
  typed,     (* the bytes written so far                                   *)
  taken,     (* how many of them were read                                 *)
  closed,    (* the other end has hung up                                  *)
  escape,    (* escape_buf[0 .. escape_len), while a sequence is read      *)
  events     (* SDL's queue                                                *)

inVars == <<driver, typed, taken, closed, escape, events>>

Streams == {"terminal", "pipe", "batch"}

Keyboards == {"terminal", "pipe"}

InputInit ==
  /\ typed = <<>> /\ taken = 0 /\ closed = FALSE
  /\ escape = <<>>
  /\ events = <<>>

-------------------------------------------------------------------------------
(* The user.                                                               *)

Type(b) ==
  /\ driver \in Streams /\ ~closed
  /\ Len(typed) < MaxTyped
  /\ typed' = Append(typed, b)
  /\ UNCHANGED <<driver, taken, closed, escape, events>>

HangUp ==
  /\ driver \in Streams /\ ~closed
  /\ closed' = TRUE
  /\ UNCHANGED <<driver, typed, taken, escape, events>>

(* A key of the keyboard, a key the driver has no name for, or the button  *)
(* that closes the window.                                                 *)
Post(e) ==
  /\ driver = "window"
  /\ Len(events) < MaxEvents
  /\ events' = Append(events, e)
  /\ UNCHANGED <<driver, typed, taken, closed, escape>>

Unnamed == "UNNAMED"
Close == "CLOSE"

-------------------------------------------------------------------------------
(* Decoding.                                                               *)

(* Mutant: only the code 8 erases, which most terminals do not send. *)
MutKeyOfByte(b) ==
  CASE b \in {"CR", "LF"} -> "ENTER"
    [] b = "TAIL" -> "NONE"
    [] OTHER      -> b

(* What a byte outside an escape sequence means: TAIL bytes mean nothing. *)
KeyOfByte(b) ==
  CASE b = "DEL"  -> "BACKSPACE"
    [] b \in {"CR", "LF"} -> "ENTER"
    [] b = "TAIL" -> "NONE"
    [] OTHER      -> b

(* term_parse_escape.  Home and End are keys nothing handles.  The codes   *)
(* for which a digit is expected behind a "~" cannot occur: the "~" is the *)
(* last byte read.                                                         *)
KeyOfEscape(s) ==
  IF Len(s) = 1 \/ s[2] # "[" THEN "ESCAPE"
  ELSE IF Len(s) < 3 THEN "NONE"
  ELSE CASE s[3] = "A" -> "UP"   [] s[3] = "B" -> "DOWN"
         [] s[3] = "C" -> "RIGHT" [] s[3] = "D" -> "LEFT"
         [] OTHER -> "NONE"

-------------------------------------------------------------------------------
(* host_key_available and host_read_key.                                   *)

Waiting == taken < Len(typed)

NextByte == typed[taken + 1]

(* The window is asked for keys only: an event that closes it is not seen  *)
(* before a key is behind it.                                              *)
KeyPending == \E i \in DOMAIN events : events[i] # Close

(* Events are dropped up to the first one that has a meaning. *)
EventRead ==
  LET named == {i \in DOMAIN events : events[i] # Unnamed}
  IN  IF named = {} THEN Len(events) ELSE CHOOSE i \in named : \A j \in named : i <= j

KeyOfEvent(e) ==
  CASE e = Close   -> "ESCAPE"
    [] e = Unnamed -> "NONE"
    [] OTHER       -> e

(* The key read_key is about to return. *)
KeyRead ==
  IF driver = "window" THEN KeyOfEvent(events[EventRead])
  ELSE IF escape # <<>> THEN KeyOfEscape(escape)
  ELSE IF Waiting THEN KeyOfByte(NextByte)
  ELSE "EOF"

Take == taken' = taken + 1 /\ UNCHANGED <<driver, typed, closed, events>>

(* The first byte is a key of its own. *)
ReadByte ==
  /\ driver \in Keyboards /\ escape = <<>>
  /\ Waiting /\ NextByte # "ESC"
  /\ Take /\ UNCHANGED escape

(* The first byte is ESC: read_key goes on reading.                        *)
StartEscape ==
  /\ driver \in Keyboards /\ escape = <<>>
  /\ Waiting /\ NextByte = "ESC"
  /\ escape' = <<"ESC">>
  /\ Take

(* Mutant: one byte more is read of a sequence that has no last byte. *)
MutComplete(s) == Len(s) > EscapeMax \/ s[Len(s)] \in FinalBytes

(* The sequence is complete with the bytes s. *)
Complete(s) == Len(s) >= EscapeMax \/ s[Len(s)] \in FinalBytes

(* Another byte of the sequence, and it is not over. *)
EscapeGoesOn ==
  /\ escape # <<>> /\ ~Complete(escape)
  /\ Waiting
  /\ escape' = Append(escape, NextByte)
  /\ Take

(* The sequence is over: by its length, by its last byte, by the end of    *)
(* the input, or, on a terminal, because no byte was there.                *)
EndEscape ==
  /\ escape # <<>>
  /\ Complete(escape) \/ (~Waiting /\ (closed \/ driver = "terminal"))
  /\ escape' = <<>>
  /\ UNCHANGED <<driver, typed, taken, closed, events>>

(* select reports the end of the input as something to read. *)
ReadEnd ==
  /\ driver \in Keyboards /\ escape = <<>>
  /\ ~Waiting /\ closed
  /\ UNCHANGED inVars

ReadEvent ==
  /\ driver = "window" /\ KeyPending
  /\ events' = SubSeq(events, EventRead + 1, Len(events))
  /\ UNCHANGED <<driver, typed, taken, closed, escape>>

ReadKey == ReadByte \/ EndEscape \/ ReadEnd \/ ReadEvent
================================================================================
