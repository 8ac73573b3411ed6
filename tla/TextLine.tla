------------------------------- MODULE TextLine -------------------------------
(***************************************************************************)
(* What a line editor promises: a text with a gap in it.  The gap is where *)
(* the user types; left and right are the characters on its two sides.     *)
(* Lines already submitted can be called back, and nothing else can.       *)
(***************************************************************************)
EXTENDS Naturals, SequencesExt

CONSTANTS
  Chars,     (* what can be typed                *)
  MaxLine    (* the longest line                 *)

VARIABLES
  left,      (* the text before the gap          *)
  right,     (* the text after the gap           *)
  past       (* the lines that can be recalled   *)

vars == <<left, right, past>>

Line == left \o right

Init == left = <<>> /\ right = <<>> /\ past = {}

Type(c) ==
  /\ Len(Line) < MaxLine
  /\ left' = Append(left, c)
  /\ UNCHANGED <<right, past>>

RubOut ==
  /\ left # <<>>
  /\ left' = Front(left)
  /\ UNCHANGED <<right, past>>

DeleteNext ==
  /\ right # <<>>
  /\ right' = Tail(right)
  /\ UNCHANGED <<left, past>>

MoveLeft ==
  /\ left # <<>>
  /\ left' = Front(left)
  /\ right' = <<Last(left)>> \o right
  /\ UNCHANGED past

MoveRight ==
  /\ right # <<>>
  /\ left' = Append(left, Head(right))
  /\ right' = Tail(right)
  /\ UNCHANGED past

(* The line becomes one of the past lines; which old ones are forgotten is *)
(* not said.                                                               *)
Submit ==
  /\ Line # <<>>
  /\ left' = <<>> /\ right' = <<>>
  /\ Line \in past' /\ past' \subseteq past \cup {Line}

Clear == left' = <<>> /\ right' = <<>> /\ UNCHANGED past

Recall ==
  /\ left' \in past
  /\ right' = <<>>
  /\ UNCHANGED past

Next ==
  \/ \E c \in Chars : Type(c)
  \/ RubOut \/ DeleteNext \/ MoveLeft \/ MoveRight
  \/ Submit \/ Clear \/ Recall

Spec == Init /\ [][Next]_vars
===============================================================================
