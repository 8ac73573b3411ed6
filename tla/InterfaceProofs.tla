---------------------------- MODULE InterfaceProofs ----------------------------
(***************************************************************************)
(* The line editor and the programs around it.                             *)
(*                                                                         *)
(* LineEditor, for every alphabet, every length of a line and of the       *)
(* history, and every parser: the array with its cursor is a text with a   *)
(* gap, and only submitted lines come back.                                *)
(*                                                                         *)
(* CalcApp, for every alphabet, every length of the line, of the history   *)
(* and of the log, and every parser, with crashes at any step: what was    *)
(* typed is in the log, and between keys the log tells the outcome on      *)
(* display.                                                                *)
(*                                                                         *)
(* UILoop, for every driver, every keyboard, every parser and every size   *)
(* of the editor: what is typed arrives; unless drawing is due, a display  *)
(* that is drawn whole shows the line, and one that is drawn in parts has  *)
(* it with perhaps the end of a longer one behind, while a window shows    *)
(* nothing of it; and what was proved of the editor and of the buttons     *)
(* alone holds of them below the loop.                                     *)
(***************************************************************************)
EXTENDS CalcApp, UILoop, Induction, FiniteSetTheorems, SequenceTheorems, TLAPS

USE SizeAssumption

(* The line, the cursor in it and the place in the history; the operands   *)
(* and the symbols are the parser's affair.                                *)
EditorInv ==
  /\ buffer \in Seq(Chars) /\ Len(buffer) <= InputMax
  /\ cursor \in 0 .. Len(buffer)
  /\ history \in Seq(Seq(Chars))
  /\ \A i \in DOMAIN history : Len(history[i]) <= InputMax
  /\ historyPos \in -1 .. Len(history) - 1

Before(line, at) == SubSeq(line, 1, at)
Behind(line, at) == SubSeq(line, at + 1, Len(line))
Past == {history[i] : i \in DOMAIN history}

(* The two sides of the gap, by index.                                     *)
LEMMA Halves ==
  ASSUME NEW s \in Seq(Chars), NEW at \in 0 .. Len(s)
  PROVE  /\ Before(s, at) \in Seq(Chars) /\ Behind(s, at) \in Seq(Chars)
         /\ Len(Before(s, at)) = at /\ Len(Behind(s, at)) = Len(s) - at
         /\ \A i \in 1 .. at : Before(s, at)[i] = s[i]
         /\ \A i \in 1 .. Len(s) - at : Behind(s, at)[i] = s[at + i]
         /\ Before(s, at) \o Behind(s, at) = s
<1>. USE LenProperties
<1>1. Len(s) \in Nat /\ at \in Nat /\ \A i \in 1 .. Len(s) : s[i] \in Chars
  BY ElementOfSeq
<1>2. /\ Before(s, at) \in Seq(Chars) /\ Len(Before(s, at)) = at
      /\ \A i \in 1 .. at : Before(s, at)[i] = s[i]
  <2>1. \A i \in 1 .. at : s[i] \in Chars
    BY <1>1
  <2>. QED
    BY <1>1, <2>1, SubSeqProperties DEF Before
<1>3. /\ Behind(s, at) \in Seq(Chars) /\ Len(Behind(s, at)) = Len(s) - at
      /\ \A i \in 1 .. Len(s) - at : Behind(s, at)[i] = s[at + i]
  <2>1. \A i \in at + 1 .. Len(s) : s[i] \in Chars
    BY <1>1
  <2>2. /\ SubSeq(s, at + 1, Len(s)) \in Seq(Chars)
        /\ Len(SubSeq(s, at + 1, Len(s))) = IF at + 1 <= Len(s) THEN Len(s) - (at + 1) + 1 ELSE 0
        /\ \A i \in 1 .. Len(s) - (at + 1) + 1 : SubSeq(s, at + 1, Len(s))[i] = s[at + 1 + i - 1]
    BY <1>1, <2>1, SubSeqProperties
  <2>. QED
    BY <1>1, <2>2 DEF Behind
<1>4. Before(s, at) \o Behind(s, at) = s
  <2>. DEFINE t == Before(s, at) \o Behind(s, at)
  <2>1. /\ t \in Seq(Chars) /\ Len(t) = at + (Len(s) - at)
        /\ \A i \in 1 .. at + (Len(s) - at) :
             t[i] = IF i <= at THEN Before(s, at)[i] ELSE Behind(s, at)[i - at]
    BY <1>2, <1>3, ConcatProperties
  <2>. HIDE DEF t
  <2>2. Len(t) = Len(s)
    BY <1>1, <2>1
  <2>3. ASSUME NEW i \in 1 .. Len(t) PROVE t[i] = s[i]
    <3>1. CASE i <= at
      BY <1>1, <1>2, <2>1, <2>2, <3>1
    <3>2. CASE i > at
      <4>1. i - at \in 1 .. Len(s) - at /\ at + (i - at) = i
        BY <1>1, <2>2, <3>2
      <4>. QED
        BY <1>1, <1>3, <2>1, <2>2, <3>2, <4>1
    <3>. QED
      BY <1>1, <2>2, <3>1, <3>2
  <2>4. t = s
    BY <2>1, <2>2, <2>3, SeqEqual
  <2>. QED
    BY <2>4 DEF t
<1>. QED
  BY <1>2, <1>3, <1>4

(* The shifts of the code, on the two sides of the gap.                    *)
LEMMA InsertedAtGap ==
  ASSUME NEW s \in Seq(Chars), NEW at \in 0 .. Len(s), NEW c \in Chars
  PROVE  /\ Inserted(s, at, c) \in Seq(Chars) /\ Len(Inserted(s, at, c)) = Len(s) + 1
         /\ Before(Inserted(s, at, c), at + 1) = Append(Before(s, at), c)
         /\ Behind(Inserted(s, at, c), at + 1) = Behind(s, at)
<1>. DEFINE t == Inserted(s, at, c)
<1>1. Len(s) \in Nat /\ at \in Nat /\ \A i \in 1 .. Len(s) : s[i] \in Chars
  BY LenProperties, ElementOfSeq
<1>2. /\ t \in Seq(Chars) /\ Len(t) = Len(s) + 1
      /\ \A i \in 1 .. Len(s) + 1 :
           t[i] = IF i <= at THEN s[i] ELSE IF i = at + 1 THEN c ELSE s[i - 1]
  BY <1>1 DEF Inserted
<1>. HIDE DEF t
<1>3. at + 1 \in 0 .. Len(t)
  BY <1>1, <1>2
<1>4. Before(t, at + 1) = Append(Before(s, at), c)
  <2>. DEFINE u == Append(Before(s, at), c)
  <2>. DEFINE v == Before(t, at + 1)
  <2>1. /\ u \in Seq(Chars) /\ Len(u) = at + 1
        /\ \A i \in 1 .. at : u[i] = s[i]
        /\ u[at + 1] = c
    BY Halves, AppendProperties
  <2>2. v \in Seq(Chars) /\ Len(v) = at + 1 /\ \A i \in 1 .. at + 1 : v[i] = t[i]
    BY <1>2, <1>3, Halves
  <2>. HIDE DEF u, v
  <2>3. ASSUME NEW i \in 1 .. Len(v) PROVE v[i] = u[i]
    <3>1. i \in 1 .. at + 1 /\ v[i] = t[i] /\ i \in 1 .. Len(s) + 1
      BY <1>1, <2>2
    <3>2. CASE i <= at
      <4>1. i \in 1 .. at /\ t[i] = s[i]
        BY <1>1, <1>2, <3>1, <3>2
      <4>. QED BY <2>1, <3>1, <4>1
    <3>3. CASE ~(i <= at)
      <4>1. i = at + 1 /\ ~(at + 1 <= at)
        BY <1>1, <3>1, <3>3
      <4>2. t[i] = c
        BY <1>2, <3>1, <3>3, <4>1
      <4>. QED BY <2>1, <3>1, <4>1, <4>2
    <3>. QED BY <3>2, <3>3
  <2>4. v = u
    BY <2>1, <2>2, <2>3, SeqEqual
  <2>. QED
    BY <2>4 DEF u, v
<1>5. Behind(t, at + 1) = Behind(s, at)
  <2>. DEFINE u == Behind(s, at)
  <2>. DEFINE v == Behind(t, at + 1)
  <2>1. u \in Seq(Chars) /\ Len(u) = Len(s) - at /\ \A i \in 1 .. Len(s) - at : u[i] = s[at + i]
    BY Halves
  <2>2. /\ v \in Seq(Chars) /\ Len(v) = Len(t) - (at + 1)
        /\ \A i \in 1 .. Len(t) - (at + 1) : v[i] = t[at + 1 + i]
    BY <1>2, <1>3, Halves
  <2>. HIDE DEF u, v
  <2>3. ASSUME NEW i \in 1 .. Len(v) PROVE v[i] = u[i]
    <3>1. i \in 1 .. Len(s) - at /\ i \in 1 .. Len(t) - (at + 1) /\ at + 1 + i \in 1 .. Len(s) + 1
          /\ ~(at + 1 + i <= at) /\ at + 1 + i # at + 1 /\ (at + 1 + i) - 1 = at + i
      BY <1>1, <1>2, <2>2
    <3>2. t[at + 1 + i] = s[at + i]
      BY <1>2, <3>1
    <3>. QED
      BY <2>1, <2>2, <3>1, <3>2
  <2>4. Len(v) = Len(u)
    BY <1>1, <1>2, <2>1, <2>2
  <2>5. v = u
    BY <2>1, <2>2, <2>3, <2>4, SeqEqual
  <2>. QED
    BY <2>5 DEF u, v
<1>. QED
  BY <1>2, <1>4, <1>5 DEF t

(* A text without its last character, by index.                            *)
LEMMA Fronts ==
  ASSUME NEW s \in Seq(Chars), Len(s) > 0
  PROVE  /\ Front(s) \in Seq(Chars) /\ Len(Front(s)) = Len(s) - 1
         /\ \A i \in 1 .. Len(s) - 1 : Front(s)[i] = s[i]
<1>1. Len(s) - 1 \in 0 .. Len(s)
  BY LenProperties
<1>2. Front(s) = Before(s, Len(s) - 1)
  BY DEF Front, Before
<1>. QED
  BY <1>1, <1>2, Halves

LEMMA Tails ==
  ASSUME NEW s \in Seq(Chars), Len(s) > 0
  PROVE  /\ s # <<>> /\ Head(s) = s[1]
         /\ Tail(s) \in Seq(Chars) /\ Len(Tail(s)) = Len(s) - 1
         /\ \A i \in 1 .. Len(s) - 1 : Tail(s)[i] = s[i + 1]
<1>1. s # <<>>
  BY EmptySeq
<1>. QED
  BY <1>1, HeadTailProperties

LEMMA RemovedByIndex ==
  ASSUME NEW s \in Seq(Chars), NEW n \in 1 .. Len(s)
  PROVE  /\ Removed(s, n) \in Seq(Chars) /\ Len(Removed(s, n)) = Len(s) - 1
         /\ \A i \in 1 .. Len(s) - 1 : Removed(s, n)[i] = IF i < n THEN s[i] ELSE s[i + 1]
<1>1. Len(s) \in Nat /\ Len(s) - 1 \in Nat /\ \A i \in 1 .. Len(s) : s[i] \in Chars
  BY LenProperties, ElementOfSeq
<1>. QED
  BY <1>1 DEF Removed

(* The text before the gap without its last character, and that character. *)
LEMMA Lefts ==
  ASSUME NEW s \in Seq(Chars), NEW at \in 1 .. Len(s)
  PROVE  /\ Before(s, at) # <<>> /\ Last(Before(s, at)) = s[at]
         /\ Front(Before(s, at)) \in Seq(Chars) /\ Len(Front(Before(s, at))) = at - 1
         /\ \A i \in 1 .. at - 1 : Front(Before(s, at))[i] = s[i]
<1>. DEFINE h == Before(s, at)
<1>1. Len(s) \in Nat /\ at \in 0 .. Len(s) /\ at \in 1 .. at
  BY LenProperties
<1>2. h \in Seq(Chars) /\ Len(h) = at /\ \A i \in 1 .. at : h[i] = s[i]
  BY <1>1, Halves
<1>. HIDE DEF h
<1>3. h # <<>> /\ Last(h) = s[at]
  BY <1>1, <1>2, EmptySeq DEF Last
<1>4. /\ Front(h) \in Seq(Chars) /\ Len(Front(h)) = Len(h) - 1
      /\ \A i \in 1 .. Len(h) - 1 : Front(h)[i] = h[i]
  <2>1. h \in Seq(Chars) /\ Len(h) > 0
    BY <1>1, <1>2
  <2>. QED
    BY ONLY <2>1, Fronts
<1>. QED
  BY <1>1, <1>2, <1>3, <1>4 DEF h

(* The cursor one to the left.                                             *)
LEMMA MovedLeft ==
  ASSUME NEW s \in Seq(Chars), NEW at \in 1 .. Len(s)
  PROVE  /\ Before(s, at - 1) = Front(Before(s, at))
         /\ Behind(s, at - 1) = <<Last(Before(s, at))>> \o Behind(s, at)
<1>1. Len(s) \in Nat /\ at \in Nat /\ at \in 0 .. Len(s) /\ at - 1 \in 0 .. Len(s)
      /\ s[at] \in Chars
  BY LenProperties, ElementOfSeq
<1>2. Before(s, at - 1) = Front(Before(s, at))
  <2>. DEFINE u == Front(Before(s, at))
  <2>. DEFINE v == Before(s, at - 1)
  <2>1. u \in Seq(Chars) /\ Len(u) = at - 1 /\ \A i \in 1 .. at - 1 : u[i] = s[i]
    BY <1>1, Lefts
  <2>2. v \in Seq(Chars) /\ Len(v) = at - 1 /\ \A i \in 1 .. at - 1 : v[i] = s[i]
    BY <1>1, Halves
  <2>. HIDE DEF u, v
  <2>3. v = u
    BY <2>1, <2>2, SeqEqual
  <2>. QED
    BY <2>3 DEF u, v
<1>3. Behind(s, at - 1) = <<Last(Before(s, at))>> \o Behind(s, at)
  <2>. DEFINE w == <<Last(Before(s, at))>>
  <2>. DEFINE u == w \o Behind(s, at)
  <2>. DEFINE v == Behind(s, at - 1)
  <2>. DEFINE h == Behind(s, at)
  <2>1. w \in Seq(Chars) /\ Len(w) = 1 /\ w[1] = s[at]
    <3>1. Last(Before(s, at)) = s[at]
      BY <1>1, Lefts
    <3>. QED
      BY <1>1, <3>1
  <2>a. h \in Seq(Chars) /\ Len(h) = Len(s) - at /\ \A i \in 1 .. Len(s) - at : h[i] = s[at + i]
    BY <1>1, Halves
  <2>. HIDE DEF w, h
  <2>2. /\ u \in Seq(Chars) /\ Len(u) = 1 + (Len(s) - at)
        /\ \A i \in 1 .. 1 + (Len(s) - at) : u[i] = IF i <= 1 THEN w[i] ELSE h[i - 1]
    <3>1. w \o h \in Seq(Chars) /\ Len(w \o h) = Len(w) + Len(h)
          /\ \A i \in 1 .. Len(w) + Len(h) :
               (w \o h)[i] = IF i <= Len(w) THEN w[i] ELSE h[i - Len(w)]
      BY <2>1, <2>a, ConcatProperties
    <3>2. u = w \o h
      BY DEF h
    <3>. QED
      BY <2>1, <2>a, <3>1, <3>2
  <2>3. /\ v \in Seq(Chars) /\ Len(v) = Len(s) - (at - 1)
        /\ \A i \in 1 .. Len(s) - (at - 1) : v[i] = s[at - 1 + i]
    BY <1>1, Halves
  <2>. HIDE DEF u, v
  <2>4. Len(v) = Len(u)
    BY <1>1, <2>2, <2>3
  <2>5. ASSUME NEW i \in 1 .. Len(v) PROVE v[i] = u[i]
    <3>1. CASE i = 1
      <4>1. 1 \in 1 .. Len(s) - (at - 1) /\ 1 \in 1 .. 1 + (Len(s) - at) /\ at - 1 + 1 = at
        BY <1>1
      <4>2. v[1] = s[at]
        BY <2>3, <4>1
      <4>3. u[1] = w[1]
        BY <2>2, <4>1
      <4>. QED
        BY <2>1, <3>1, <4>2, <4>3
    <3>2. CASE i # 1
      <4>1. i - 1 \in 1 .. Len(s) - at /\ at + (i - 1) = at - 1 + i /\ ~(i <= 1)
        BY <1>1, <2>3, <3>2
      <4>2. h[i - 1] = s[at + (i - 1)]
        BY <2>a, <4>1
      <4>. QED
        BY <1>1, <2>2, <2>3, <2>4, <4>1, <4>2
    <3>. QED
      BY <3>1, <3>2
  <2>6. v = u
    BY <2>2, <2>3, <2>4, <2>5, SeqEqual
  <2>. QED
    BY <2>6 DEF u, v, w
<1>. QED
  BY <1>2, <1>3

(* The cursor one to the right.                                            *)
LEMMA MovedRight ==
  ASSUME NEW s \in Seq(Chars), NEW at \in 0 .. Len(s) - 1
  PROVE  /\ Behind(s, at) # <<>>
         /\ Before(s, at + 1) = Append(Before(s, at), Head(Behind(s, at)))
         /\ Behind(s, at + 1) = Tail(Behind(s, at))
<1>1. Len(s) \in Nat /\ at \in Nat /\ at \in 0 .. Len(s) /\ at + 1 \in 0 .. Len(s)
      /\ s[at + 1] \in Chars
  BY LenProperties, ElementOfSeq
<1>2. /\ Behind(s, at) # <<>> /\ Head(Behind(s, at)) = s[at + 1]
      /\ Tail(Behind(s, at)) \in Seq(Chars) /\ Len(Tail(Behind(s, at))) = Len(s) - at - 1
      /\ \A i \in 1 .. Len(s) - at - 1 : Tail(Behind(s, at))[i] = s[at + 1 + i]
  <2>. DEFINE h == Behind(s, at)
  <2>1. h \in Seq(Chars) /\ Len(h) = Len(s) - at /\ \A i \in 1 .. Len(s) - at : h[i] = s[at + i]
    BY <1>1, Halves
  <2>. HIDE DEF h
  <2>2. /\ h # <<>> /\ Head(h) = h[1] /\ Tail(h) \in Seq(Chars) /\ Len(Tail(h)) = Len(h) - 1
        /\ \A i \in 1 .. Len(h) - 1 : Tail(h)[i] = h[i + 1]
    BY <1>1, <2>1, Tails
  <2>3. ASSUME NEW i \in 1 .. Len(s) - at - 1 PROVE Tail(h)[i] = s[at + 1 + i]
    <3>1. i \in 1 .. Len(h) - 1 /\ i + 1 \in 1 .. Len(s) - at /\ at + (i + 1) = at + 1 + i
      BY <1>1, <2>1
    <3>. QED
      BY <2>1, <2>2, <3>1
  <2>4. Head(h) = s[at + 1] /\ Len(Tail(h)) = Len(s) - at - 1
    BY <1>1, <2>1, <2>2
  <2>. QED
    BY <2>2, <2>3, <2>4 DEF h
<1>3. Before(s, at + 1) = Append(Before(s, at), s[at + 1])
  <2>. DEFINE h == Before(s, at)
  <2>. DEFINE u == Append(h, s[at + 1])
  <2>. DEFINE v == Before(s, at + 1)
  <2>a. h \in Seq(Chars) /\ Len(h) = at /\ \A i \in 1 .. at : h[i] = s[i]
    BY <1>1, Halves
  <2>. HIDE DEF h
  <2>1. u \in Seq(Chars) /\ Len(u) = at + 1 /\ (\A i \in 1 .. at : u[i] = s[i]) /\ u[at + 1] = s[at + 1]
    BY <1>1, <2>a, AppendProperties
  <2>2. v \in Seq(Chars) /\ Len(v) = at + 1 /\ \A i \in 1 .. at + 1 : v[i] = s[i]
    BY <1>1, Halves
  <2>. HIDE DEF u, v
  <2>3. \A i \in 1 .. Len(v) : v[i] = u[i]
    BY <1>1, <2>1, <2>2
  <2>4. v = u
    BY <2>1, <2>2, <2>3, SeqEqual
  <2>. QED
    BY <2>4 DEF u, v, h
<1>4. Behind(s, at + 1) = Tail(Behind(s, at))
  <2>. DEFINE u == Tail(Behind(s, at))
  <2>. DEFINE v == Behind(s, at + 1)
  <2>1. u \in Seq(Chars) /\ Len(u) = Len(s) - at - 1 /\ \A i \in 1 .. Len(s) - at - 1 : u[i] = s[at + 1 + i]
    BY <1>2
  <2>2. /\ v \in Seq(Chars) /\ Len(v) = Len(s) - (at + 1)
        /\ \A i \in 1 .. Len(s) - (at + 1) : v[i] = s[at + 1 + i]
    BY <1>1, Halves
  <2>. HIDE DEF u, v
  <2>3. Len(v) = Len(u) /\ \A i \in 1 .. Len(v) : v[i] = u[i]
    BY <1>1, <2>1, <2>2
  <2>4. v = u
    BY <2>1, <2>2, <2>3, SeqEqual
  <2>. QED
    BY <2>4 DEF u, v
<1>. QED
  BY <1>2, <1>3, <1>4

(* What is left of the two sides when the character n is taken out.        *)
LEMMA RemovedAtGap ==
  ASSUME NEW s \in Seq(Chars), NEW n \in 1 .. Len(s)
  PROVE  /\ Removed(s, n) \in Seq(Chars) /\ Len(Removed(s, n)) = Len(s) - 1
         /\ Before(Removed(s, n), n - 1) = Before(s, n - 1)
         /\ Behind(Removed(s, n), n - 1) = Behind(s, n)
<1>. DEFINE t == Removed(s, n)
<1>1. Len(s) \in Nat /\ n \in 0 .. Len(s) /\ n - 1 \in 0 .. Len(s) /\ n - 1 \in 0 .. Len(s) - 1
  BY LenProperties
<1>2. /\ t \in Seq(Chars) /\ Len(t) = Len(s) - 1
      /\ \A i \in 1 .. Len(s) - 1 : t[i] = IF i < n THEN s[i] ELSE s[i + 1]
  BY RemovedByIndex
<1>. HIDE DEF t
<1>a. n - 1 \in 0 .. Len(t)
  BY <1>1, <1>2
<1>3. Before(t, n - 1) = Before(s, n - 1)
  <2>. DEFINE u == Before(s, n - 1)
  <2>. DEFINE v == Before(t, n - 1)
  <2>1. u \in Seq(Chars) /\ Len(u) = n - 1 /\ \A i \in 1 .. n - 1 : u[i] = s[i]
    BY <1>1, Halves
  <2>2. v \in Seq(Chars) /\ Len(v) = n - 1 /\ \A i \in 1 .. n - 1 : v[i] = t[i]
    BY <1>2, <1>a, Halves
  <2>. HIDE DEF u, v
  <2>3. ASSUME NEW i \in 1 .. Len(v) PROVE v[i] = u[i]
    <3>1. i \in 1 .. n - 1 /\ i \in 1 .. Len(s) - 1 /\ i < n
      BY <1>1, <2>2
    <3>2. t[i] = s[i]
      BY <1>2, <3>1
    <3>. QED
      BY <2>1, <2>2, <3>1, <3>2
  <2>4. v = u
    BY <2>1, <2>2, <2>3, SeqEqual
  <2>. QED
    BY <2>4 DEF u, v
<1>4. Behind(t, n - 1) = Behind(s, n)
  <2>. DEFINE u == Behind(s, n)
  <2>. DEFINE v == Behind(t, n - 1)
  <2>1. u \in Seq(Chars) /\ Len(u) = Len(s) - n /\ \A i \in 1 .. Len(s) - n : u[i] = s[n + i]
    BY <1>1, Halves
  <2>2. /\ v \in Seq(Chars) /\ Len(v) = Len(t) - (n - 1)
        /\ \A i \in 1 .. Len(t) - (n - 1) : v[i] = t[n - 1 + i]
    BY <1>2, <1>a, Halves
  <2>. HIDE DEF u, v
  <2>3. ASSUME NEW i \in 1 .. Len(v) PROVE v[i] = u[i]
    <3>1. /\ i \in 1 .. Len(s) - n /\ i \in 1 .. Len(t) - (n - 1)
          /\ n - 1 + i \in 1 .. Len(s) - 1 /\ ~(n - 1 + i < n) /\ (n - 1 + i) + 1 = n + i
      BY <1>1, <1>2, <2>2
    <3>2. t[n - 1 + i] = s[n + i]
      BY <1>2, <3>1
    <3>. QED
      BY <2>1, <2>2, <3>1, <3>2
  <2>4. Len(v) = Len(u)
    BY <1>1, <1>2, <2>1, <2>2
  <2>5. v = u
    BY <2>1, <2>2, <2>3, <2>4, SeqEqual
  <2>. QED
    BY <2>5 DEF u, v
<1>. QED
  BY <1>2, <1>3, <1>4 DEF t

(* The cursor at the end: all of the line is before the gap.               *)
LEMMA Whole ==
  ASSUME NEW s \in Seq(Chars)
  PROVE  Before(s, Len(s)) = s /\ Behind(s, Len(s)) = <<>>
<1>1. Len(s) \in Nat /\ Len(s) \in 0 .. Len(s)
  BY LenProperties
<1>. DEFINE u == Before(s, Len(s))
<1>. DEFINE v == Behind(s, Len(s))
<1>2. /\ u \in Seq(Chars) /\ Len(u) = Len(s) /\ \A i \in 1 .. Len(s) : u[i] = s[i]
      /\ v \in Seq(Chars) /\ Len(v) = Len(s) - Len(s)
  BY <1>1, Halves
<1>. HIDE DEF u, v
<1>3. u = s
  BY <1>2, SeqEqual
<1>4. v = <<>>
  BY <1>1, <1>2, EmptySeq
<1>. QED
  BY <1>3, <1>4 DEF u, v

(* The newest line in front, the older ones behind it.                     *)
LEMMA PushedLines ==
  ASSUME NEW x \in Seq(Chars), NEW h \in Seq(Seq(Chars))
  PROVE  LET p == Pushed(x, h, HistoryLines)
         IN  /\ p \in Seq(Seq(Chars)) /\ 1 \in DOMAIN p /\ p[1] = x
             /\ \A i \in DOMAIN p : p[i] = x \/ \E j \in DOMAIN h : p[i] = h[j]
<1>. DEFINE w == <<x>>
<1>. DEFINE u == w \o h
<1>. DEFINE m == Min({Len(h) + 1, HistoryLines})
<1>. DEFINE p == Pushed(x, h, HistoryLines)
<1>1. Len(h) \in Nat /\ DOMAIN h = 1 .. Len(h) /\ \A i \in 1 .. Len(h) : h[i] \in Seq(Chars)
  BY LenProperties, ElementOfSeq
<1>2. w \in Seq(Seq(Chars)) /\ Len(w) = 1 /\ w[1] = x
  OBVIOUS
<1>. HIDE DEF w
<1>3. /\ u \in Seq(Seq(Chars)) /\ Len(u) = 1 + Len(h)
      /\ \A i \in 1 .. 1 + Len(h) : u[i] = IF i <= 1 THEN w[i] ELSE h[i - 1]
  <2>1. /\ w \o h \in Seq(Seq(Chars)) /\ Len(w \o h) = Len(w) + Len(h)
        /\ \A i \in 1 .. Len(w) + Len(h) :
             (w \o h)[i] = IF i <= Len(w) THEN w[i] ELSE h[i - Len(w)]
    BY <1>2, ConcatProperties
  <2>. QED
    BY <1>2, <2>1
<1>. HIDE DEF u
<1>4. m \in 1 .. Len(h) + 1
  <2>1. \E y \in {Len(h) + 1, HistoryLines} : \A z \in {Len(h) + 1, HistoryLines} : y <= z
    BY <1>1
  <2>2. m \in {Len(h) + 1, HistoryLines} /\ \A z \in {Len(h) + 1, HistoryLines} : m <= z
    BY <2>1 DEF Min
  <2>. QED
    BY <1>1, <2>2
<1>. HIDE DEF m
<1>5. p = SubSeq(u, 1, m)
  BY DEF Pushed, u, w, m
<1>. HIDE DEF p
<1>6. \A i \in 1 .. m : u[i] \in Seq(Chars)
  BY <1>1, <1>3, <1>4, ElementOfSeq
<1>7. p \in Seq(Seq(Chars)) /\ Len(p) = m /\ \A i \in 1 .. m : p[i] = u[i]
  BY <1>4, <1>5, <1>6, SubSeqProperties
<1>8. DOMAIN p = 1 .. m
  BY <1>7, LenProperties
<1>9. ASSUME NEW i \in 1 .. m PROVE p[i] = x \/ \E j \in 1 .. Len(h) : p[i] = h[j]
  <2>1. CASE i = 1
    BY <1>1, <1>2, <1>3, <1>4, <1>7, <2>1
  <2>2. CASE i # 1
    <3>1. i - 1 \in 1 .. Len(h) /\ ~(i <= 1) /\ i \in 1 .. 1 + Len(h)
      BY <1>1, <1>4, <2>2
    <3>2. p[i] = h[i - 1]
      BY <1>3, <1>7, <3>1
    <3>. QED
      BY <3>1, <3>2
  <2>. QED
    BY <2>1, <2>2
<1>10. 1 \in 1 .. m /\ p[1] = x
  <2>1. 1 \in 1 .. m /\ 1 \in 1 .. 1 + Len(h)
    BY <1>1, <1>4
  <2>2. u[1] = w[1]
    BY <1>3, <2>1
  <2>. QED
    BY <1>2, <1>7, <2>1, <2>2
<1>. QED
  BY <1>1, <1>7, <1>8, <1>9, <1>10 DEF p

-------------------------------------------------------------------------------
(* What the two sides are before a key is handled.                         *)
LEMMA GapLine ==
  ASSUME EditorInv
  PROVE  /\ Gap!Line = buffer /\ Len(buffer) \in Nat
         /\ cursor > 0 => Before(buffer, cursor) # <<>>
<1>1. /\ Len(buffer) \in Nat /\ Before(buffer, cursor) \o Behind(buffer, cursor) = buffer
      /\ Before(buffer, cursor) \in Seq(Chars) /\ Len(Before(buffer, cursor)) = cursor
  BY Halves, LenProperties DEF EditorInv
<1>2. Gap!Line = buffer
  BY <1>1 DEF Gap!Line, Before, Behind
<1>3. cursor > 0 => Before(buffer, cursor) # <<>>
  <2>. DEFINE h == Before(buffer, cursor)
  <2>1. h \in Seq(Chars) /\ Len(h) = cursor
    BY <1>1
  <2>. HIDE DEF h
  <2>2. cursor > 0 => h # <<>>
    BY <2>1, EmptySeq
  <2>. QED
    BY <2>2 DEF h
<1>. QED
  BY <1>1, <1>2, <1>3

LEMMA KeyTyped ==
  ASSUME EditorInv, NEW c \in Chars, Insert(c)
  PROVE  EditorInv' /\ Gap!Type(c)
<1>1. /\ Len(buffer) < InputMax
      /\ buffer' = Inserted(buffer, cursor, c) /\ cursor' = cursor + 1
      /\ UNCHANGED <<history, historyPos>>
  BY DEF Insert
<1>2. /\ buffer' \in Seq(Chars) /\ Len(buffer') = Len(buffer) + 1
      /\ Before(buffer', cursor') = Append(Before(buffer, cursor), c)
      /\ Behind(buffer', cursor') = Behind(buffer, cursor)
  BY <1>1, InsertedAtGap DEF EditorInv
<1>3. EditorInv'
  BY <1>1, <1>2, GapLine DEF EditorInv
<1>4. Gap!Type(c)
  <2>1. Gap!Line = buffer
    BY GapLine
  <2>. QED
    BY <1>1, <1>2, <2>1 DEF Gap!Type, Before, Behind
<1>. QED
  BY <1>3, <1>4

LEMMA KeyRubsOut ==
  ASSUME EditorInv, Backspace
  PROVE  EditorInv' /\ Gap!RubOut
<1>1. /\ cursor > 0
      /\ buffer' = Removed(buffer, cursor) /\ cursor' = cursor - 1
      /\ UNCHANGED <<history, historyPos>>
  BY DEF Backspace
<1>2. buffer \in Seq(Chars) /\ cursor \in 1 .. Len(buffer)
  BY <1>1, GapLine DEF EditorInv
<1>3. /\ buffer' \in Seq(Chars) /\ Len(buffer') = Len(buffer) - 1
      /\ Before(buffer', cursor') = Front(Before(buffer, cursor))
      /\ Behind(buffer', cursor') = Behind(buffer, cursor)
  BY <1>1, <1>2, RemovedAtGap, MovedLeft
<1>4. EditorInv'
  BY <1>1, <1>2, <1>3, GapLine DEF EditorInv
<1>5. Gap!RubOut
  <2>1. Before(buffer, cursor) # <<>>
    BY <1>1, GapLine
  <2>. QED
    BY <1>1, <1>3, <2>1 DEF Gap!RubOut, Gap!Front, Front, Before, Behind
<1>. QED
  BY <1>4, <1>5

LEMMA KeyDeletes ==
  ASSUME EditorInv, Delete
  PROVE  EditorInv' /\ Gap!DeleteNext
<1>1. /\ cursor < Len(buffer)
      /\ buffer' = Removed(buffer, cursor + 1) /\ cursor' = cursor
      /\ UNCHANGED <<history, historyPos>>
  BY DEF Delete
<1>2. /\ buffer \in Seq(Chars) /\ cursor \in 0 .. Len(buffer) - 1
      /\ cursor + 1 \in 1 .. Len(buffer) /\ (cursor + 1) - 1 = cursor
  BY <1>1, GapLine DEF EditorInv
<1>3. /\ buffer' \in Seq(Chars) /\ Len(buffer') = Len(buffer) - 1
      /\ Before(buffer', cursor) = Before(buffer, cursor)
      /\ Behind(buffer', cursor) = Behind(buffer, cursor + 1)
  <2>1. /\ buffer' \in Seq(Chars) /\ Len(buffer') = Len(buffer) - 1
        /\ Before(buffer', (cursor + 1) - 1) = Before(buffer, (cursor + 1) - 1)
        /\ Behind(buffer', (cursor + 1) - 1) = Behind(buffer, cursor + 1)
    BY <1>1, <1>2, RemovedAtGap
  <2>. QED
    BY <1>2, <2>1
<1>4. EditorInv'
  BY <1>1, <1>2, <1>3, GapLine DEF EditorInv
<1>5. Gap!DeleteNext
  <2>1. Behind(buffer, cursor) # <<>> /\ Behind(buffer, cursor + 1) = Tail(Behind(buffer, cursor))
    BY <1>2, MovedRight
  <2>. QED
    BY <1>1, <1>3, <2>1 DEF Gap!DeleteNext, Before, Behind
<1>. QED
  BY <1>4, <1>5

LEMMA KeyMovesLeft ==
  ASSUME EditorInv, Left
  PROVE  EditorInv' /\ Gap!MoveLeft
<1>1. cursor > 0 /\ cursor' = cursor - 1 /\ UNCHANGED <<buffer, history, historyPos>>
  BY DEF Left
<1>2. buffer \in Seq(Chars) /\ cursor \in 1 .. Len(buffer)
  BY <1>1, GapLine DEF EditorInv
<1>3. EditorInv'
  BY <1>1, <1>2, GapLine DEF EditorInv
<1>4. Gap!MoveLeft
  <2>1. /\ Before(buffer, cursor) # <<>>
        /\ Before(buffer, cursor - 1) = Front(Before(buffer, cursor))
        /\ Behind(buffer, cursor - 1) = <<Last(Before(buffer, cursor))>> \o Behind(buffer, cursor)
    BY <1>1, <1>2, GapLine, MovedLeft
  <2>. QED
    BY <1>1, <2>1 DEF Gap!MoveLeft, Gap!Front, Gap!Last, Front, Last, Before, Behind
<1>. QED
  BY <1>3, <1>4

LEMMA KeyMovesRight ==
  ASSUME EditorInv, Right
  PROVE  EditorInv' /\ Gap!MoveRight
<1>1. cursor < Len(buffer) /\ cursor' = cursor + 1 /\ UNCHANGED <<buffer, history, historyPos>>
  BY DEF Right
<1>2. buffer \in Seq(Chars) /\ cursor \in 0 .. Len(buffer) - 1
  BY <1>1, GapLine DEF EditorInv
<1>3. EditorInv'
  BY <1>1, <1>2, GapLine DEF EditorInv
<1>4. Gap!MoveRight
  <2>1. /\ Behind(buffer, cursor) # <<>>
        /\ Before(buffer, cursor + 1) = Append(Before(buffer, cursor), Head(Behind(buffer, cursor)))
        /\ Behind(buffer, cursor + 1) = Tail(Behind(buffer, cursor))
    BY <1>2, MovedRight
  <2>. QED
    BY <1>1, <2>1 DEF Gap!MoveRight, Before, Behind
<1>. QED
  BY <1>3, <1>4

(* A line shown anew has its gap at the end.                               *)
LEMMA ShownLine ==
  ASSUME NEW line \in Seq(Chars), Show(line)
  PROVE  /\ buffer' = line /\ cursor' = Len(line) /\ cursor' \in 0 .. Len(line)
         /\ Before(buffer', cursor') = line /\ Behind(buffer', cursor') = <<>>
<1>1. buffer' = line /\ cursor' = Len(line) /\ Len(line) \in Nat
  BY LenProperties DEF Show
<1>. QED
  BY <1>1, Whole

LEMMA EmptyLine ==
  ASSUME Show(<<>>)
  PROVE  /\ buffer' = <<>> /\ cursor' = 0
         /\ Before(buffer', cursor') = <<>> /\ Behind(buffer', cursor') = <<>>
<1>1. <<>> \in Seq(Chars) /\ Len(<<>>) = 0
  OBVIOUS
<1>. QED
  BY <1>1, ShownLine

LEMMA KeyRecalls ==
  ASSUME EditorInv, Up
  PROVE  EditorInv' /\ Gap!Recall
<1>1. /\ historyPos < Len(history) - 1 /\ historyPos' = historyPos + 1
      /\ Show(history[historyPos' + 1]) /\ UNCHANGED history
  BY DEF Up
<1>2. /\ Len(history) \in Nat /\ DOMAIN history = 1 .. Len(history)
      /\ \A i \in 1 .. Len(history) : history[i] \in Seq(Chars)
  BY LenProperties, ElementOfSeq DEF EditorInv
<1>3. historyPos' + 1 \in 1 .. Len(history) /\ historyPos' \in -1 .. Len(history) - 1
  BY <1>1, <1>2 DEF EditorInv
<1>. DEFINE line == history[historyPos' + 1]
<1>4. line \in Seq(Chars) /\ line \in Past /\ Len(line) <= InputMax
  BY <1>2, <1>3 DEF EditorInv, Past
<1>5. Show(line)
  BY <1>1
<1>. HIDE DEF line
<1>6. /\ buffer' = line /\ cursor' \in 0 .. Len(line)
      /\ Before(buffer', cursor') = line /\ Behind(buffer', cursor') = <<>>
  BY <1>4, <1>5, ShownLine
<1>7. EditorInv'
  BY <1>1, <1>3, <1>4, <1>6 DEF EditorInv
<1>8. Gap!Recall
  BY <1>1, <1>4, <1>6 DEF Gap!Recall, Before, Behind, Past
<1>. QED
  BY <1>7, <1>8

LEMMA KeyClears ==
  ASSUME EditorInv, Show(<<>>), UNCHANGED history, historyPos' \in -1 .. Len(history) - 1
  PROVE  EditorInv' /\ Gap!Clear
<1>1. /\ buffer' = <<>> /\ cursor' = 0
      /\ Before(buffer', cursor') = <<>> /\ Behind(buffer', cursor') = <<>>
  BY EmptyLine
<1>2. EditorInv'
  BY <1>1 DEF EditorInv
<1>3. Gap!Clear
  BY <1>1 DEF Gap!Clear, Before, Behind
<1>. QED
  BY <1>2, <1>3

LEMMA KeyLeavesHistory ==
  ASSUME EditorInv, Down
  PROVE  EditorInv' /\ (Gap!Recall \/ Gap!Clear)
<1>1. /\ historyPos >= 0 /\ historyPos' = historyPos - 1
      /\ Show(IF historyPos > 0 THEN history[historyPos] ELSE <<>>) /\ UNCHANGED history
  BY DEF Down
<1>2. /\ Len(history) \in Nat /\ DOMAIN history = 1 .. Len(history)
      /\ \A i \in 1 .. Len(history) : history[i] \in Seq(Chars)
  BY LenProperties, ElementOfSeq DEF EditorInv
<1>3. historyPos' \in -1 .. Len(history) - 1
  BY <1>1, <1>2 DEF EditorInv
<1>4. CASE historyPos > 0
  <2>. DEFINE line == history[historyPos]
  <2>1. line \in Seq(Chars) /\ line \in Past /\ Len(line) <= InputMax
    <3>1. historyPos \in 1 .. Len(history)
      BY <1>2, <1>4 DEF EditorInv
    <3>. QED
      BY <1>2, <3>1 DEF EditorInv, Past
  <2>2. Show(line)
    BY <1>1, <1>4
  <2>. HIDE DEF line
  <2>3. /\ buffer' = line /\ cursor' \in 0 .. Len(line)
        /\ Before(buffer', cursor') = line /\ Behind(buffer', cursor') = <<>>
    BY <2>1, <2>2, ShownLine
  <2>4. EditorInv'
    BY <1>1, <1>3, <2>1, <2>3 DEF EditorInv
  <2>5. Gap!Recall
    BY <1>1, <2>1, <2>3 DEF Gap!Recall, Before, Behind, Past
  <2>. QED
    BY <2>4, <2>5
<1>5. CASE ~(historyPos > 0)
  <2>1. Show(<<>>)
    BY <1>1, <1>5
  <2>. QED
    BY <1>1, <1>3, <2>1, KeyClears
<1>. QED
  BY <1>4, <1>5

LEMMA KeySubmits ==
  ASSUME EditorInv, Enter
  PROVE  EditorInv' /\ Gap!Submit
<1>. DEFINE p == Pushed(buffer, history, HistoryLines)
<1>1. /\ buffer # <<>> /\ history' = p /\ historyPos' = -1 /\ Show(<<>>)
  BY DEF Enter
<1>2. /\ p \in Seq(Seq(Chars)) /\ 1 \in DOMAIN p /\ p[1] = buffer
      /\ \A i \in DOMAIN p : p[i] = buffer \/ \E j \in DOMAIN history : p[i] = history[j]
  BY PushedLines DEF EditorInv
<1>. HIDE DEF p
<1>3. /\ buffer' = <<>> /\ cursor' = 0
      /\ Before(buffer', cursor') = <<>> /\ Behind(buffer', cursor') = <<>>
  BY <1>1, EmptyLine
<1>4. EditorInv'
  <2>1. \A i \in DOMAIN p : Len(p[i]) <= InputMax
    BY <1>2 DEF EditorInv
  <2>2. Len(p) \in Nat
    BY <1>2, LenProperties
  <2>. QED
    BY <1>1, <1>2, <1>3, <2>1, <2>2 DEF EditorInv
<1>5. Gap!Submit
  <2>1. Gap!Line = buffer
    BY GapLine
  <2>2. buffer \in Past' /\ Past' \subseteq Past \cup {buffer}
    BY <1>1, <1>2 DEF Past
  <2>. QED
    BY <1>1, <1>3, <2>1, <2>2 DEF Gap!Submit, Before, Behind, Past
<1>. QED
  BY <1>4, <1>5

(* Every key is a step of the abstract line, or none. *)
LEMMA HandleStep ==
  ASSUME EditorInv, NEW k, Handle(k)
  PROVE  EditorInv' /\ [Gap!Next]_(Gap!vars)
<1>1. CASE k \in Chars /\ Insert(k)
  BY <1>1, KeyTyped DEF Gap!Next
<1>2. CASE k = "BACKSPACE" /\ Backspace
  BY <1>2, KeyRubsOut DEF Gap!Next
<1>3. CASE k = "DELETE" /\ Delete
  BY <1>3, KeyDeletes DEF Gap!Next
<1>4. CASE k = "LEFT" /\ Left
  BY <1>4, KeyMovesLeft DEF Gap!Next
<1>5. CASE k = "RIGHT" /\ Right
  BY <1>5, KeyMovesRight DEF Gap!Next
<1>6. CASE k = "UP" /\ Up
  BY <1>6, KeyRecalls DEF Gap!Next
<1>7. CASE k = "DOWN" /\ Down
  BY <1>7, KeyLeavesHistory DEF Gap!Next
<1>8. CASE k = "ESCAPE" /\ Escape
  <2>1. /\ Show(<<>>) /\ UNCHANGED history
        /\ historyPos' = -1 /\ Len(history) \in Nat
    BY <1>8, LenProperties DEF Escape, EditorInv
  <2>. QED
    BY <2>1, KeyClears DEF Gap!Next
<1>9. CASE k = "ENTER" /\ Enter
  BY <1>9, KeySubmits DEF Gap!Next
<1>10. CASE Ignore(k)
  BY <1>10 DEF Ignore, edVars, EditorInv, Gap!vars
<1>. QED
  BY <1>1, <1>2, <1>3, <1>4, <1>5, <1>6, <1>7, <1>8, <1>9, <1>10 DEF Handle

LEMMA BlankEditor ==
  ASSUME buffer = <<>>, cursor = 0, history = <<>>, historyPos = -1
  PROVE  EditorInv
BY DEF EditorInv

LEMMA BlankIsStart ==
  ASSUME Init
  PROVE  EditorInv /\ Gap!Init
<1>1. buffer = <<>> /\ cursor = 0 /\ history = <<>> /\ historyPos = -1
  BY DEF Init, Blank
<1>2. EditorInv
  BY <1>1, BlankEditor
<1>3. Gap!Init
  <2>1. Before(buffer, cursor) = <<>> /\ Behind(buffer, cursor) = <<>>
    <3>1. <<>> \in Seq(Chars) /\ Len(<<>>) = 0
      OBVIOUS
    <3>. QED
      BY <1>1, <3>1, Whole
  <2>2. Past = {}
    BY <1>1 DEF Past
  <2>. QED
    BY <2>1, <2>2 DEF Gap!Init, Before, Behind, Past
<1>. QED
  BY <1>2, <1>3

(* The editor is a text with a gap, key by key, and only submitted lines   *)
(* come back: for every alphabet, every length of the array and of the     *)
(* history, and whatever the parser makes of a line (ui_core.c:170-294).   *)
THEOREM EditorIsTextLine == Spec => ImplementsTextLine
<1>1. Init => EditorInv /\ Gap!Init
  BY BlankIsStart
<1>2. EditorInv /\ [Next]_edVars => EditorInv' /\ [Gap!Next]_(Gap!vars)
  <2>. SUFFICES ASSUME EditorInv, [Next]_edVars PROVE EditorInv' /\ [Gap!Next]_(Gap!vars)
    OBVIOUS
  <2>1. CASE Next
    BY <2>1, HandleStep DEF Next
  <2>2. CASE UNCHANGED edVars
    BY <2>2 DEF edVars, EditorInv, Gap!vars
  <2>. QED
    BY <2>1, <2>2
<1>. QED
  BY <1>1, <1>2, PTL DEF Spec, ImplementsTextLine, Gap!Spec

-------------------------------------------------------------------------------
(* Results on display.                                                     *)

(* The newest first, the one before it behind, if there is room for it.    *)
LEMMA PushedByIndex ==
  ASSUME NEW S, NEW x \in S, NEW seq \in Seq(S), NEW max \in Nat \ {0}
  PROVE  LET p == Pushed(x, seq, max)
         IN  /\ p \in Seq(S) /\ p # <<>> /\ p[1] = x
             /\ Len(p) > 1 => seq # <<>> /\ p[2] = Head(seq)
             /\ max > 1 /\ seq # <<>> => Len(p) > 1
<1>. DEFINE w == <<x>>
            u == w \o seq
            m == Min({Len(seq) + 1, max})
            p == Pushed(x, seq, max)
<1>1. Len(seq) \in Nat /\ \A i \in 1 .. Len(seq) : seq[i] \in S
  BY LenProperties, ElementOfSeq
<1>2. w \in Seq(S) /\ Len(w) = 1 /\ w[1] = x
  OBVIOUS
<1>. HIDE DEF w
<1>3. /\ u \in Seq(S) /\ Len(u) = 1 + Len(seq)
      /\ \A i \in 1 .. 1 + Len(seq) : u[i] = IF i <= 1 THEN w[i] ELSE seq[i - 1]
  <2>1. /\ w \o seq \in Seq(S) /\ Len(w \o seq) = Len(w) + Len(seq)
        /\ \A i \in 1 .. Len(w) + Len(seq) :
             (w \o seq)[i] = IF i <= Len(w) THEN w[i] ELSE seq[i - Len(w)]
    BY <1>2, ConcatProperties
  <2>. QED BY <1>2, <2>1
<1>. HIDE DEF u
<1>4. m \in {Len(seq) + 1, max} /\ m \in 1 .. Len(seq) + 1 /\ m <= max
  <2>1. \E y \in {Len(seq) + 1, max} : \A z \in {Len(seq) + 1, max} : y <= z
    BY <1>1
  <2>2. m \in {Len(seq) + 1, max} /\ \A z \in {Len(seq) + 1, max} : m <= z
    BY <2>1 DEF Min
  <2>. QED BY <1>1, <2>2
<1>. HIDE DEF m
<1>5. p = SubSeq(u, 1, m)
  BY DEF Pushed, u, w, m
<1>. HIDE DEF p
<1>6. \A i \in 1 .. m : u[i] \in S
  BY <1>1, <1>3, <1>4, ElementOfSeq
<1>7. p \in Seq(S) /\ Len(p) = m /\ \A i \in 1 .. m : p[i] = u[i]
  BY <1>4, <1>5, <1>6, SubSeqProperties
<1>8. p # <<>>
  BY <1>4, <1>7, EmptySeq
<1>9. p[1] = x
  <2>1. 1 \in 1 .. m /\ 1 \in 1 .. 1 + Len(seq) /\ 1 <= 1
    BY <1>1, <1>4
  <2>2. p[1] = u[1]
    BY <1>7, <2>1
  <2>3. u[1] = w[1]
    BY <1>3, <2>1
  <2>. QED BY <1>2, <2>2, <2>3
<1>10. ASSUME Len(p) > 1 PROVE seq # <<>> /\ p[2] = Head(seq)
  <2>1. 2 \in 1 .. m /\ 2 \in 1 .. 1 + Len(seq) /\ ~(2 <= 1) /\ Len(seq) > 0 /\ 2 - 1 = 1
    BY <1>1, <1>4, <1>7, <1>10
  <2>2. p[2] = u[2]
    BY <1>7, <2>1
  <2>3. u[2] = seq[1]
    BY <1>3, <2>1
  <2>4. seq # <<>>
    BY <2>1, EmptySeq
  <2>. QED BY <2>2, <2>3, <2>4, HeadTailProperties
<1>11. ASSUME max > 1, seq # <<>> PROVE Len(p) > 1
  <2>1. Len(seq) > 0
    BY <1>1, <1>11, EmptySeq
  <2>. QED BY <1>1, <1>4, <1>7, <1>11, <2>1
<1>. QED BY <1>7, <1>8, <1>9, <1>10, <1>11 DEF p

(* The parser answers the line of the editor with a number and a table.    *)
LEMMA LineIsAnswered ==
  ASSUME EditorInv, NEW ans \in Values, NEW table \in Symbols
  PROVE  LET r == Parse(buffer, ans, table)
         IN  r.symbols \in Symbols /\ (r.ok => r.value \in Values)
<1>1. buffer \in Seq(Chars) /\ Len(buffer) \in 0 .. InputMax
  BY LenProperties DEF EditorInv
<1>2. buffer \in [1 .. Len(buffer) -> Chars]
  BY <1>1
<1>. QED BY <1>1, <1>2, ParseAssumption

(* What the parser makes of the newest line is what the editor holds.      *)
Outcome(ans, table) ==
  LET r == Parse(history[1], ans, table)
  IN  /\ r.ok /\ operands[1] = r.value /\ symbols = r.symbols
      /\ StackDepth > 1 => ans = IF Len(operands) > 1 THEN operands[2] ELSE Zero

OutcomeShown ==
  /\ buffer = <<>> /\ historyPos = -1
  /\ history # <<>> /\ operands # <<>>
  /\ \E ans \in Values, table \in Symbols : Outcome(ans, table)

(* With the types of the stack and the table, from which Ans is taken.     *)
ResultInv ==
  /\ EditorInv
  /\ operands \in Seq(Values) /\ symbols \in Symbols
  /\ lastEvent = "RESULT" => OutcomeShown

LEMMA ShownIsSettled == (lastEvent = "RESULT" => OutcomeShown) <=> ResultIsSettled
BY DEF OutcomeShown, Outcome, ResultIsSettled

LEMMA AnsIsValue ==
  ASSUME operands \in Seq(Values)
  PROVE  Ans \in Values
<1>1. CASE operands = <<>>
  BY <1>1, ParseAssumption DEF Ans
<1>2. CASE operands # <<>>
  BY <1>2, HeadTailProperties DEF Ans
<1>. QED BY <1>1, <1>2

LEMMA EnterSettles ==
  ASSUME ResultInv, Enter
  PROVE  /\ operands' \in Seq(Values) /\ symbols' \in Symbols
         /\ lastEvent' = "RESULT" => OutcomeShown'
<1>. DEFINE r == Parse(buffer, Ans, symbols)
            p == Pushed(r.value, operands, StackDepth)
<1>1. EditorInv /\ operands \in Seq(Values) /\ symbols \in Symbols /\ Ans \in Values
  BY AnsIsValue DEF ResultInv
<1>2. /\ buffer' = <<>> /\ historyPos' = -1
      /\ history' = Pushed(buffer, history, HistoryLines)
      /\ operands' = IF r.ok THEN p ELSE operands
      /\ symbols' = r.symbols
      /\ lastEvent' = "RESULT" => r.ok
  BY DEF Enter, Show
<1>3. r.symbols \in Symbols /\ (r.ok => r.value \in Values)
  BY <1>1, LineIsAnswered
<1>4. history' # <<>> /\ history'[1] = buffer
  <2>1. buffer \in Seq(Chars) /\ history \in Seq(Seq(Chars))
    BY <1>1 DEF EditorInv
  <2>. QED BY <1>2, <2>1, PushedByIndex
<1>. HIDE DEF r
<1>5. CASE ~r.ok
  BY <1>1, <1>2, <1>3, <1>5
<1>6. CASE r.ok
  <2>1. /\ p \in Seq(Values) /\ p # <<>> /\ p[1] = r.value
        /\ Len(p) > 1 => operands # <<>> /\ p[2] = Head(operands)
        /\ StackDepth > 1 /\ operands # <<>> => Len(p) > 1
    BY <1>1, <1>3, <1>6, PushedByIndex
  <2>. HIDE DEF p
  <2>2. operands' = p /\ symbols' = r.symbols
    BY <1>2, <1>6
  <2>3. StackDepth > 1 => Ans = IF Len(operands') > 1 THEN operands'[2] ELSE Zero
    BY <2>1, <2>2 DEF Ans
  <2>4. r = Parse(history'[1], Ans, symbols)
    BY <1>4 DEF r
  <2>5. \E ans \in Values, table \in Symbols : Outcome(ans, table)'
    <3>1. LET q == Parse(history'[1], Ans, symbols)
          IN  /\ q.ok /\ operands'[1] = q.value /\ symbols' = q.symbols
              /\ StackDepth > 1 => Ans = IF Len(operands') > 1 THEN operands'[2] ELSE Zero
      BY <1>6, <2>1, <2>2, <2>3, <2>4
    <3>2. \A ans \in Values, table \in Symbols :
            (LET q == Parse(history'[1], ans, table)
             IN  /\ q.ok /\ operands'[1] = q.value /\ symbols' = q.symbols
                 /\ StackDepth > 1 => ans = IF Len(operands') > 1 THEN operands'[2] ELSE Zero)
            => Outcome(ans, table)'
      BY DEF Outcome
    <3>. QED BY <1>1, <3>1, <3>2
  <2>. QED BY <1>2, <1>3, <1>4, <2>1, <2>2, <2>5 DEF OutcomeShown
<1>. QED BY <1>5, <1>6

LEMMA HandleSettles ==
  ASSUME ResultInv, NEW k, Handle(k)
  PROVE  ResultInv'
<1>1. /\ EditorInv' /\ operands \in Seq(Values) /\ symbols \in Symbols
      /\ lastEvent = "RESULT" => OutcomeShown
  BY HandleStep DEF ResultInv
<1>2. CASE Enter
  BY <1>1, <1>2, EnterSettles DEF ResultInv
<1>3. CASE \/ k \in Chars /\ Insert(k)
           \/ Backspace \/ Delete \/ Left \/ Right \/ Up \/ Down
  <2>1. lastEvent' = "INPUT_CHANGE" /\ UNCHANGED <<operands, symbols>>
    BY <1>3 DEF Insert, Backspace, Delete, Left, Right, Up, Down, Changed
  <2>. QED BY <1>1, <2>1 DEF ResultInv
<1>4. CASE Escape
  BY <1>1, <1>4 DEF Escape, ResultInv
<1>5. CASE Ignore(k)
  BY <1>1, <1>5 DEF Ignore, edVars, ResultInv, OutcomeShown, Outcome
<1>. QED BY <1>2, <1>3, <1>4, <1>5 DEF Handle

LEMMA ResultStarts == Init => ResultInv
<1>. SUFFICES ASSUME Init PROVE ResultInv
  OBVIOUS
<1>1. <<>> \in Seq(Values)
  OBVIOUS
<1>. QED BY <1>1, BlankIsStart, ParseAssumption DEF Init, Blank, ResultInv

(* A result on display is the outcome of the newest line, which has left   *)
(* the editor, and its value is on the stack: for every editor and parser  *)
(* (ui_core.c:76-168).                                                     *)
THEOREM ResultStaysSettled == Spec => []ResultIsSettled
<1>1. Init => ResultInv
  BY ResultStarts
<1>2. ResultInv /\ [Next]_edVars => ResultInv'
  <2>1. ResultInv /\ UNCHANGED edVars => ResultInv'
    BY DEF ResultInv, OutcomeShown, Outcome, EditorInv, edVars
  <2>. QED BY <2>1, HandleSettles DEF Next
<1>3. ResultInv => ResultIsSettled
  BY ShownIsSettled DEF ResultInv
<1>. QED BY <1>1, <1>2, <1>3, PTL DEF Spec

-------------------------------------------------------------------------------
(* Counting a character of a line.                                         *)

Places(line, c) == {i \in DOMAIN line : line[i] = c}

LEMMA CountIsFinite ==
  ASSUME NEW S, NEW s \in Seq(S), NEW c
  PROVE  /\ IsFiniteSet(Places(s, c)) /\ Count(s, c) \in Nat
         /\ Count(s, c) = Cardinality(Places(s, c))
         /\ Places(s, c) \subseteq 1 .. Len(s)
<1>1. Len(s) \in Nat /\ DOMAIN s = 1 .. Len(s)
  BY LenProperties
<1>2. Places(s, c) \subseteq 1 .. Len(s)
  BY <1>1 DEF Places
<1>3. IsFiniteSet(1 .. Len(s))
  BY <1>1, FS_Interval
<1>4. IsFiniteSet(Places(s, c))
  BY <1>2, <1>3, FS_Subset
<1>5. Count(s, c) = Cardinality(Places(s, c))
  BY DEF Count, Places
<1>. QED BY <1>2, <1>4, <1>5, FS_CardinalityType

LEMMA CountOfNothing ==
  ASSUME NEW c
  PROVE  Count(<<>>, c) = 0
<1>1. {i \in DOMAIN <<>> : <<>>[i] = c} = {}
  OBVIOUS
<1>. QED BY <1>1, FS_EmptySet DEF Count

LEMMA CountOfAppend ==
  ASSUME NEW S, NEW s \in Seq(S), NEW e \in S, NEW c
  PROVE  Count(Append(s, e), c) = Count(s, c) + (IF c = e THEN 1 ELSE 0)
<1>. DEFINE t == Append(s, e)
<1>1. /\ t \in Seq(S) /\ Len(t) = Len(s) + 1 /\ Len(s) \in Nat
      /\ \A i \in 1 .. Len(s) : t[i] = s[i]
      /\ t[Len(s) + 1] = e
      /\ DOMAIN s = 1 .. Len(s) /\ DOMAIN t = 1 .. Len(t)
  BY AppendProperties, LenProperties
<1>. HIDE DEF t
<1>2. Places(t, c) = IF c = e THEN Places(s, c) \cup {Len(s) + 1} ELSE Places(s, c)
  <2>1. \A i \in 1 .. Len(t) : i \in 1 .. Len(s) \/ i = Len(s) + 1
    BY <1>1
  <2>2. \A i \in 1 .. Len(s) : i \in 1 .. Len(t)
    BY <1>1
  <2>3. Len(s) + 1 \in 1 .. Len(t)
    BY <1>1
  <2>. QED BY <1>1, <2>1, <2>2, <2>3 DEF Places
<1>3. Len(s) + 1 \notin Places(s, c)
  BY <1>1 DEF Places
<1>4. Cardinality(Places(t, c)) = Cardinality(Places(s, c)) + (IF c = e THEN 1 ELSE 0)
  <2>1. IsFiniteSet(Places(s, c)) /\ Cardinality(Places(s, c)) \in Nat
    BY CountIsFinite
  <2>2. Cardinality(Places(s, c) \cup {Len(s) + 1}) = Cardinality(Places(s, c)) + 1
    BY <1>3, <2>1, FS_AddElement
  <2>. QED BY <1>2, <2>1, <2>2
<1>. QED BY <1>1, <1>4, CountIsFinite DEF t

(* Where the characters of a line come from, each from another place.      *)
LEMMA CountFrom ==
  ASSUME NEW S, NEW s \in Seq(S), NEW c, NEW A, NEW f \in Injection(A, Places(s, c))
  PROVE  IsFiniteSet(A) /\ Cardinality(A) <= Count(s, c)
BY CountIsFinite, FS_Injection

LEMMA CountOfInserted ==
  ASSUME NEW s \in Seq(Chars), NEW at \in 0 .. Len(s), NEW e \in Chars, NEW c
  PROVE  Count(Inserted(s, at, e), c) <= Count(s, c) + (IF c = e THEN 1 ELSE 0)
<1>. DEFINE t == Inserted(s, at, e)
            A == Places(t, c) \ {at + 1}
            f == [i \in A |-> IF i <= at THEN i ELSE i - 1]
<1>1. /\ t \in Seq(Chars) /\ Len(t) = Len(s) + 1 /\ Len(s) \in Nat /\ at \in Nat
      /\ DOMAIN s = 1 .. Len(s) /\ DOMAIN t = 1 .. Len(s) + 1
      /\ \A i \in 1 .. Len(s) + 1 :
           t[i] = IF i <= at THEN s[i] ELSE IF i = at + 1 THEN e ELSE s[i - 1]
  <2>1. t \in Seq(Chars) /\ Len(t) = Len(s) + 1 /\ Len(s) \in Nat
    BY InsertedAtGap, LenProperties
  <2>2. \A i \in 1 .. Len(s) + 1 :
          t[i] = IF i <= at THEN s[i] ELSE IF i = at + 1 THEN e ELSE s[i - 1]
    BY DEF Inserted
  <2>. HIDE DEF t
  <2>. QED BY <2>1, <2>2, LenProperties
<1>. HIDE DEF t
<1>2. ASSUME NEW i \in A
      PROVE  /\ i \in 1 .. Len(s) + 1 /\ i # at + 1
             /\ f[i] \in Places(s, c)
  <2>1. i \in 1 .. Len(s) + 1 /\ i # at + 1 /\ t[i] = c
    BY <1>1 DEF Places
  <2>2. f[i] \in 1 .. Len(s)
    BY <1>1, <2>1
  <2>3. s[f[i]] = c
    BY <1>1, <2>1
  <2>. QED BY <1>1, <2>1, <2>2, <2>3 DEF Places
<1>3. \A i, j \in A : f[i] = f[j] => i = j
  BY <1>1, <1>2
<1>. HIDE DEF A
<1>4. f \in Injection(A, Places(s, c))
  <2>1. f \in [A -> Places(s, c)]
    BY <1>2
  <2>2. \A i, j \in DOMAIN f : f[i] = f[j] => i = j
    BY <1>3
  <2>. HIDE DEF f
  <2>. QED BY <2>1, <2>2 DEF Injection, IsInjective
<1>. HIDE DEF f
<1>5. IsFiniteSet(A) /\ Cardinality(A) <= Count(s, c) /\ Cardinality(A) \in Nat /\ Count(s, c) \in Nat
  BY <1>4, CountFrom, CountIsFinite, FS_CardinalityType
<1>6. CASE c = e
  <2>1. at + 1 \notin A
    BY DEF A
  <2>2. Places(t, c) \subseteq A \cup {at + 1} /\ IsFiniteSet(A \cup {at + 1})
    BY <1>5, FS_AddElement DEF A
  <2>3. Cardinality(Places(t, c)) <= Cardinality(A \cup {at + 1})
    BY <2>2, FS_Subset
  <2>4. Cardinality(A \cup {at + 1}) = Cardinality(A) + 1
    BY <1>5, <2>1, FS_AddElement
  <2>5. Count(t, c) = Cardinality(Places(t, c)) /\ Count(t, c) \in Nat
    BY <1>1, CountIsFinite
  <2>. QED BY <1>5, <1>6, <2>3, <2>4, <2>5 DEF t
<1>7. CASE c # e
  <2>1. at + 1 \notin Places(t, c)
    BY <1>1, <1>7 DEF Places
  <2>2. Places(t, c) = A
    BY <2>1 DEF A
  <2>3. Count(t, c) = Cardinality(A)
    BY <1>1, <2>2, CountIsFinite
  <2>. QED BY <1>5, <1>7, <2>3 DEF t
<1>. QED BY <1>6, <1>7

LEMMA CountOfRemoved ==
  ASSUME NEW s \in Seq(Chars), NEW n \in 1 .. Len(s), NEW c
  PROVE  Count(Removed(s, n), c) <= Count(s, c)
<1>. DEFINE t == Removed(s, n)
            A == Places(t, c)
            f == [i \in A |-> IF i < n THEN i ELSE i + 1]
<1>1. /\ t \in Seq(Chars) /\ Len(s) \in Nat /\ n \in Nat
      /\ DOMAIN s = 1 .. Len(s) /\ DOMAIN t = 1 .. Len(s) - 1
      /\ \A i \in 1 .. Len(s) - 1 : t[i] = IF i < n THEN s[i] ELSE s[i + 1]
  <2>1. /\ t \in Seq(Chars) /\ Len(t) = Len(s) - 1 /\ Len(s) \in Nat
        /\ \A i \in 1 .. Len(s) - 1 : t[i] = IF i < n THEN s[i] ELSE s[i + 1]
    BY RemovedByIndex, LenProperties
  <2>. HIDE DEF t
  <2>. QED BY <2>1, LenProperties
<1>. HIDE DEF t
<1>2. ASSUME NEW i \in A
      PROVE  i \in 1 .. Len(s) - 1 /\ f[i] \in Places(s, c)
  <2>1. i \in 1 .. Len(s) - 1 /\ t[i] = c
    BY <1>1 DEF Places
  <2>2. f[i] \in 1 .. Len(s) /\ s[f[i]] = c
    BY <1>1, <2>1
  <2>. QED BY <1>1, <2>1, <2>2 DEF Places
<1>3. \A i, j \in A : f[i] = f[j] => i = j
  BY <1>1, <1>2
<1>. HIDE DEF A
<1>4. f \in Injection(A, Places(s, c))
  <2>1. f \in [A -> Places(s, c)]
    BY <1>2
  <2>2. \A i, j \in DOMAIN f : f[i] = f[j] => i = j
    BY <1>3
  <2>. HIDE DEF f
  <2>. QED BY <2>1, <2>2 DEF Injection, IsInjective
<1>. HIDE DEF f
<1>5. Cardinality(A) <= Count(s, c)
  BY <1>4, CountFrom
<1>. QED BY <1>1, <1>5, CountIsFinite DEF A, t

-------------------------------------------------------------------------------
(* The line at the end of the log.                                         *)

Logs == Seq(Chars \cup {Newline})

LineStart == IF LineBreaks = {} THEN 1 ELSE Max(LineBreaks) + 1

LEMMA LineStarts ==
  ASSUME log \in Logs
  PROVE  /\ Len(log) \in Nat /\ LineStart \in 1 .. Len(log) + 1
         /\ LastLine = SubSeq(log, LineStart, Len(log))
         /\ LastLine \in Seq(Chars \cup {Newline})
         /\ Len(LastLine) = Len(log) + 1 - LineStart
         /\ \A i \in 1 .. Len(log) + 1 - LineStart : LastLine[i] = log[LineStart - 1 + i]
<1>. DEFINE N == Len(log)
            at == LineStart
<1>1. N \in Nat /\ DOMAIN log = 1 .. N /\ \A i \in 1 .. N : log[i] \in Chars \cup {Newline}
  BY LenProperties, ElementOfSeq DEF Logs
<1>2. at \in 1 .. N + 1
  <2>1. LineBreaks \in SUBSET (0 .. N) /\ \A x \in LineBreaks : x \in 1 .. N
    BY <1>1 DEF LineBreaks
  <2>2. LineBreaks # {} => Max(LineBreaks) \in 1 .. N
    BY <1>1, <2>1, MaxIsGreatest
  <2>. HIDE DEF N
  <2>. QED BY <1>1, <2>2 DEF LineStart
<1>3. LastLine = SubSeq(log, at, N)
  BY DEF LastLine, LineStart
<1>. HIDE DEF N, at
<1>4. \A i \in at .. N : log[i] \in Chars \cup {Newline}
  BY <1>1, <1>2
<1>5. /\ LastLine \in Seq(Chars \cup {Newline})
      /\ Len(LastLine) = IF at <= N THEN N - at + 1 ELSE 0
      /\ \A i \in 1 .. N - at + 1 : LastLine[i] = log[at + i - 1]
  BY <1>1, <1>2, <1>3, <1>4, SubSeqProperties
<1>6. Len(LastLine) = N + 1 - at /\ \A i \in 1 .. N + 1 - at : LastLine[i] = log[at - 1 + i]
  <2>1. /\ N - at + 1 = N + 1 - at /\ (at <= N \/ N + 1 - at = 0)
        /\ \A i \in 1 .. N + 1 - at : at + i - 1 = at - 1 + i
    BY <1>1, <1>2
  <2>. QED BY <1>5, <2>1
<1>. QED BY <1>1, <1>2, <1>3, <1>5, <1>6 DEF N, at

LEMMA LineGrows ==
  ASSUME log \in Logs, NEW c \in Chars, log' = Append(log, c)
  PROVE  LastLine' = Append(LastLine, c)
<1>. DEFINE S == Chars \cup {Newline}
            N == Len(log)
            at == LineStart
            line == LastLine
<1>1. /\ log' \in Seq(S) /\ Len(log') = N + 1 /\ N \in Nat
      /\ \A i \in 1 .. N : log'[i] = log[i]
      /\ log'[N + 1] = c /\ c # Newline
      /\ DOMAIN log = 1 .. N /\ DOMAIN log' = 1 .. N + 1
  <2>1. log \in Seq(S) /\ c \in S
    BY DEF Logs
  <2>2. c # Newline
    BY LogAssumption DEF Keys
  <2>3. log' \in Seq(S) /\ Len(log') = N + 1 /\ \A i \in 1 .. N : log'[i] = log[i]
    BY <2>1, AppendProperties
  <2>4. log'[N + 1] = c
    BY <2>1, AppendProperties
  <2>. HIDE DEF S
  <2>. QED BY <2>1, <2>2, <2>3, <2>4, LenProperties
<1>2. LineBreaks' = LineBreaks
  <2>1. \A i \in 1 .. N + 1 : i \in 1 .. N \/ i = N + 1
    BY <1>1
  <2>2. \A i \in 1 .. N : i \in 1 .. N + 1
    BY <1>1
  <2>. HIDE DEF N
  <2>. QED BY <1>1, <2>1, <2>2 DEF LineBreaks
<1>3. LineStart' = at
  BY <1>2 DEF LineStart
<1>4. /\ at \in 1 .. N + 1 /\ line \in Seq(S) /\ Len(line) = N + 1 - at
      /\ \A i \in 1 .. N + 1 - at : line[i] = log[at - 1 + i]
  BY LineStarts
<1>5. /\ LastLine' \in Seq(S) /\ Len(LastLine') = N + 2 - at
      /\ \A i \in 1 .. N + 2 - at : LastLine'[i] = log'[at - 1 + i]
  <2>. DEFINE M == Len(log')
  <2>1. log' \in Logs
    BY <1>1 DEF Logs
  <2>2. /\ LastLine' \in Seq(S) /\ Len(LastLine') = M + 1 - LineStart'
        /\ \A i \in 1 .. M + 1 - LineStart' : LastLine'[i] = log'[LineStart' - 1 + i]
    <3>1. log \in Logs => /\ LastLine \in Seq(S) /\ Len(LastLine) = N + 1 - LineStart
                          /\ \A i \in 1 .. N + 1 - LineStart : LastLine[i] = log[LineStart - 1 + i]
      BY LineStarts
    <3>2. (log \in Logs => /\ LastLine \in Seq(S) /\ Len(LastLine) = N + 1 - LineStart
                           /\ \A i \in 1 .. N + 1 - LineStart : LastLine[i] = log[LineStart - 1 + i])'
      BY LineStarts, PTL
    <3>. QED BY <2>1, <3>2
  <2>3. M + 1 - at = N + 2 - at
    BY <1>1, <1>4
  <2>. QED BY <1>3, <2>2, <2>3
<1>6. /\ Append(line, c) \in Seq(S) /\ Len(Append(line, c)) = N + 2 - at
      /\ \A i \in 1 .. N + 1 - at : Append(line, c)[i] = line[i]
      /\ Append(line, c)[N + 2 - at] = c
  <2>1. c \in S
    OBVIOUS
  <2>. HIDE DEF S, line, at, N
  <2>2. N + 1 - at + 1 = N + 2 - at
    BY <1>1, <1>4
  <2>. QED BY <1>4, <2>1, <2>2, AppendProperties
<1>. HIDE DEF at, N, line, S
<1>7. \A i \in 1 .. Len(LastLine') : LastLine'[i] = Append(line, c)[i]
  <2>. TAKE i \in 1 .. Len(LastLine')
  <2>1. CASE i = N + 2 - at
    <3>1. at - 1 + i = N + 1 /\ i \in 1 .. N + 2 - at
      BY <1>1, <1>4, <2>1
    <3>. QED BY <1>1, <1>5, <1>6, <2>1, <3>1
  <2>2. CASE i # N + 2 - at
    <3>1. i \in 1 .. N + 1 - at /\ i \in 1 .. N + 2 - at /\ at - 1 + i \in 1 .. N
      BY <1>1, <1>4, <1>5, <2>2
    <3>. QED BY <1>1, <1>4, <1>5, <1>6, <3>1
  <2>. QED BY <2>1, <2>2
<1>8. LastLine' = Append(line, c)
  <2>. DEFINE u == LastLine'
              v == Append(line, c)
  <2>1. u \in Seq(S) /\ v \in Seq(S) /\ Len(u) = Len(v) /\ \A i \in 1 .. Len(u) : u[i] = v[i]
    BY <1>5, <1>6, <1>7
  <2>. HIDE DEF u, v
  <2>2. u = v
    BY <2>1, SeqEqual
  <2>. QED BY <2>2 DEF u, v
<1>. QED BY <1>8 DEF line

-------------------------------------------------------------------------------
(* The inductive invariant.                                                *)

(* A line that gave an outcome has left the editor.                        *)
Submitted == lastEvent \in {"RESULT", "ERROR"} => buffer = <<>> /\ historyPos = -1 /\ InputMax > 0

Basics ==
  /\ EditorInv /\ Submitted
  /\ log \in Logs
  /\ pc \in {"idle", "process", "settle", "down"}
  /\ key \in Keys \cup {"none"}
  /\ pc = "process" => key \in Keys
  /\ pc = "down" => lastEvent = "NONE" /\ buffer = <<>>

TellsOutcome ==
  /\ lastEvent = "RESULT" => log = <<>>
  /\ lastEvent = "ERROR" => Closed

(* A character on its way into the editor will replace the outcome; ENTER  *)
(* has closed the log before its line is judged.                           *)
OutcomeInv ==
  /\ pc = "process" /\ key = "ENTER" => Closed
  /\ pc = "process" /\ key \notin Chars \cup {"ENTER"} => TellsOutcome
  /\ pc = "settle" => IF key = "ENTER" THEN Closed ELSE TellsOutcome
  /\ pc = "idle" => TellsOutcome

(* A character on its way into the editor is in the log already.           *)
Pending(c) == IF pc = "process" /\ key = c THEN 1 ELSE 0

TypedInv ==
  historyPos = -1 /\ Len(log) < LogMax /\ ~(pc = "process" /\ key = "ENTER") =>
    \A c \in Chars : Count(buffer, c) + Pending(c) <= Count(LastLine, c)

(* What a key does to the outcome on display and to the typed characters.  *)
LEMMA HandleEffects ==
  ASSUME EditorInv, Submitted, NEW k \in Keys, Handle(k)
  PROVE  /\ EditorInv' /\ Submitted'
         /\ k \in Chars => lastEvent' \notin {"RESULT", "ERROR"}
         /\ k \notin Chars \cup {"ENTER"} =>
              lastEvent' = lastEvent \/ lastEvent' \notin {"RESULT", "ERROR"}
         /\ historyPos' = -1 =>
              \A c \in Chars :
                \/ Count(buffer', c) = 0
                \/ /\ historyPos = -1 /\ k # "ENTER"
                   /\ Count(buffer', c) <= Count(buffer, c) + (IF k = c THEN 1 ELSE 0)
<1>1. EditorInv' /\ buffer \in Seq(Chars) /\ Len(buffer) <= InputMax /\ Len(buffer) \in Nat
  BY HandleStep, LenProperties DEF EditorInv
<1>2. \A c : Count(buffer, c) \in Nat
  BY <1>1, CountIsFinite
<1>3. k \in ControlKeys => k \notin Chars
  BY KeyAssumption
<1>4. ASSUME lastEvent' = "INPUT_CHANGE" \/ lastEvent' = "CLEAR"
      PROVE  Submitted' /\ lastEvent' \notin {"RESULT", "ERROR"}
  BY <1>4 DEF Submitted
<1>5. CASE k \in Chars /\ Insert(k)
  <2>1. lastEvent' = "INPUT_CHANGE" /\ buffer' = Inserted(buffer, cursor, k) /\ historyPos' = historyPos
    BY <1>5 DEF Insert, Changed
  <2>2. \A c \in Chars : Count(buffer', c) <= Count(buffer, c) + (IF k = c THEN 1 ELSE 0)
    BY <1>5, <2>1, CountOfInserted DEF EditorInv
  <2>3. k # "ENTER"
    BY <1>5, KeyAssumption DEF ControlKeys
  <2>. QED BY <1>1, <1>4, <1>5, <2>1, <2>2, <2>3
<1>6. CASE k = "BACKSPACE" /\ Backspace
  <2>1. /\ lastEvent' = "INPUT_CHANGE" /\ buffer' = Removed(buffer, cursor)
        /\ cursor \in 1 .. Len(buffer) /\ historyPos' = historyPos
    BY <1>6, <1>1 DEF Backspace, Changed, EditorInv
  <2>2. \A c \in Chars : Count(buffer', c) <= Count(buffer, c) + (IF k = c THEN 1 ELSE 0)
    <3>1. k \notin Chars
      BY <1>3, <1>6 DEF ControlKeys
    <3>2. \A c \in Chars : Count(buffer', c) <= Count(buffer, c)
      BY <1>1, <2>1, CountOfRemoved
    <3>. QED BY <3>1, <3>2, <1>2
  <2>3. k \notin Chars /\ k # "ENTER"
    BY <1>3, <1>6 DEF ControlKeys
  <2>. QED BY <1>1, <1>4, <2>1, <2>2, <2>3
<1>7. CASE k = "DELETE" /\ Delete
  <2>1. /\ lastEvent' = "INPUT_CHANGE" /\ buffer' = Removed(buffer, cursor + 1)
        /\ cursor + 1 \in 1 .. Len(buffer) /\ historyPos' = historyPos
    BY <1>7, <1>1 DEF Delete, Changed, EditorInv
  <2>2. \A c \in Chars : Count(buffer', c) <= Count(buffer, c) + (IF k = c THEN 1 ELSE 0)
    <3>1. k \notin Chars
      BY <1>3, <1>7 DEF ControlKeys
    <3>2. \A c \in Chars : Count(buffer', c) <= Count(buffer, c)
      BY <1>1, <2>1, CountOfRemoved
    <3>. QED BY <3>1, <3>2, <1>2
  <2>3. k \notin Chars /\ k # "ENTER"
    BY <1>3, <1>7 DEF ControlKeys
  <2>. QED BY <1>1, <1>4, <2>1, <2>2, <2>3
<1>8. CASE (k = "LEFT" /\ Left) \/ (k = "RIGHT" /\ Right)
  <2>1. lastEvent' = "INPUT_CHANGE" /\ buffer' = buffer /\ historyPos' = historyPos
    BY <1>8 DEF Left, Right, Changed
  <2>2. k \notin Chars /\ k # "ENTER"
    BY <1>3, <1>8 DEF ControlKeys
  <2>3. \A c \in Chars : Count(buffer', c) <= Count(buffer, c) + (IF k = c THEN 1 ELSE 0)
    BY <1>2, <2>1, <2>2
  <2>. QED BY <1>1, <1>4, <2>1, <2>2, <2>3
<1>9. CASE k = "UP" /\ Up
  <2>1. lastEvent' = "INPUT_CHANGE" /\ historyPos' = historyPos + 1
    BY <1>9 DEF Up, Changed
  <2>2. historyPos \in Int /\ historyPos >= -1
    <3>1. Len(history) \in Nat
      BY LenProperties DEF EditorInv
    <3>. QED BY <3>1 DEF EditorInv
  <2>3. historyPos' # -1
    BY <2>1, <2>2
  <2>4. k \notin Chars
    BY <1>3, <1>9 DEF ControlKeys
  <2>. QED BY <1>1, <1>4, <2>1, <2>3, <2>4
<1>10. CASE k = "DOWN" /\ Down
  <2>1. /\ lastEvent' = "INPUT_CHANGE" /\ historyPos' = historyPos - 1 /\ historyPos >= 0
        /\ historyPos > 0 \/ buffer' = <<>>
    BY <1>10 DEF Down, Changed, Show
  <2>2. historyPos \in Int
    <3>1. Len(history) \in Nat
      BY LenProperties DEF EditorInv
    <3>. QED BY <3>1 DEF EditorInv
  <2>3. historyPos' = -1 => buffer' = <<>>
    BY <2>1, <2>2
  <2>4. k \notin Chars
    BY <1>3, <1>10 DEF ControlKeys
  <2>5. historyPos' = -1 => \A c \in Chars : Count(buffer', c) = 0
    BY <2>3, CountOfNothing
  <2>. QED BY <1>1, <1>4, <2>1, <2>4, <2>5
<1>11. CASE k = "ESCAPE" /\ Escape
  <2>1. lastEvent' = "CLEAR" /\ buffer' = <<>>
    BY <1>11 DEF Escape, Show
  <2>2. k \notin Chars
    BY <1>3, <1>11 DEF ControlKeys
  <2>3. \A c \in Chars : Count(buffer', c) = 0
    BY <2>1, CountOfNothing
  <2>. QED BY <1>1, <1>4, <2>1, <2>2, <2>3
<1>12. CASE k = "ENTER" /\ Enter
  <2>1. buffer # <<>> /\ buffer' = <<>> /\ historyPos' = -1
    BY <1>12 DEF Enter, Show
  <2>2. InputMax > 0
    <3>1. Len(buffer) \in Nat \ {0}
      BY <1>1, <2>1, EmptySeq
    <3>. QED BY <1>1, <3>1, SizeAssumption
  <2>3. k \notin Chars
    BY <1>3, <1>12 DEF ControlKeys
  <2>4. \A c \in Chars : Count(buffer', c) = 0
    BY <2>1, CountOfNothing
  <2>. QED BY <1>1, <1>12, <2>1, <2>2, <2>3, <2>4 DEF Submitted
<1>13. CASE Ignore(k)
  <2>1. UNCHANGED <<buffer, historyPos, lastEvent>> /\ ~Responds(k)
    BY <1>13 DEF Ignore, edVars
  <2>2. Submitted'
    BY <2>1 DEF Submitted
  <2>3. k \in Chars => lastEvent \notin {"RESULT", "ERROR"}
    <3>1. k \in Chars => ~(Len(buffer) < InputMax)
      BY <2>1 DEF Responds
    <3>2. lastEvent \in {"RESULT", "ERROR"} => Len(buffer) = 0 /\ InputMax > 0
      BY EmptySeq DEF Submitted
    <3>. QED BY <3>1, <3>2
  <2>4. k = "ENTER" => buffer = <<>>
    BY <2>1 DEF Responds
  <2>5. ASSUME NEW c \in Chars
        PROVE  \/ Count(buffer', c) = 0
               \/ k # "ENTER" /\ Count(buffer', c) <= Count(buffer, c) + (IF k = c THEN 1 ELSE 0)
    <3>1. CASE k = "ENTER"
      BY <3>1, <2>1, <2>4, CountOfNothing
    <3>2. CASE k # "ENTER"
      BY <3>2, <2>1, <1>2
    <3>. QED BY <3>1, <3>2
  <2>. QED BY <1>1, <2>1, <2>2, <2>3, <2>5
<1>. QED
  BY <1>5, <1>6, <1>7, <1>8, <1>9, <1>10, <1>11, <1>12, <1>13 DEF Handle

CalcInv == Basics /\ OutcomeInv /\ TypedInv

LEMMA CalcStarts == CalcInit => CalcInv
<1>. SUFFICES ASSUME CalcInit
              PROVE  CalcInv
  OBVIOUS
<1>1. /\ buffer = <<>> /\ cursor = 0 /\ history = <<>> /\ historyPos = -1
      /\ lastEvent = "NONE" /\ log = <<>> /\ pc = "idle" /\ key = "none"
  BY DEF CalcInit, Blank
<1>2. log \in Logs
  BY <1>1, EmptySeq DEF Logs
<1>3. Basics
  <2>1. EditorInv
    BY <1>1, BlankEditor
  <2>2. Submitted
    BY <1>1 DEF Submitted
  <2>. QED BY <1>1, <1>2, <2>1, <2>2 DEF Basics
<1>4. OutcomeInv
  BY <1>1 DEF OutcomeInv, TellsOutcome
<1>5. TypedInv
  <2>1. \A c : Count(LastLine, c) \in Nat /\ Count(buffer, c) = 0
    BY <1>1, <1>2, LineStarts, CountIsFinite, CountOfNothing
  <2>. QED BY <1>1, <2>1 DEF TypedInv, Pending
<1>. QED BY <1>3, <1>4, <1>5 DEF CalcInv

LEMMA SameLine ==
  ASSUME UNCHANGED log
  PROVE  LastLine' = LastLine /\ Closed' = Closed
<1>1. LineBreaks' = LineBreaks
  BY DEF LineBreaks
<1>. QED BY <1>1 DEF LastLine, Closed

LEMMA KeyPressStep ==
  ASSUME CalcInv, NEW k \in Keys, KeyPress(k)
  PROVE  CalcInv'
<1>1. /\ pc = "idle" /\ pc' = "process" /\ key' = k
      /\ k \in Chars => log' = Logged(k)
      /\ k = "ENTER" => log' = Logged(Newline)
      /\ k \notin Chars \cup {"ENTER"} => log' = log
      /\ UNCHANGED <<buffer, cursor, history, historyPos, lastEvent>>
  <2>1. k = "ENTER" => k \notin Chars
    BY KeyAssumption DEF ControlKeys
  <2>. QED BY <2>1 DEF KeyPress, edVars
<1>2. EditorInv /\ Submitted /\ log \in Logs /\ TellsOutcome /\ TypedInv
  BY <1>1 DEF CalcInv, Basics, OutcomeInv
<1>3. EditorInv' /\ Submitted'
  BY <1>1, <1>2 DEF EditorInv, Submitted
<1>4. /\ log \in Seq(Chars \cup {Newline}) /\ Len(log) \in Nat
      /\ \A c \in Chars \cup {Newline} : Logged(c) \in Seq(Chars \cup {Newline})
  <2>1. \A c \in Chars \cup {Newline} : Append(log, c) \in Seq(Chars \cup {Newline})
    BY <1>2, AppendProperties DEF Logs
  <2>. QED BY <1>2, <2>1, LenProperties DEF Logs, Logged
<1>5. log' \in Logs
  <2>1. k \in Chars \/ k = "ENTER" \/ k \notin Chars \cup {"ENTER"}
    OBVIOUS
  <2>. QED BY <1>1, <1>4, <2>1 DEF Logs
<1>6. Basics'
  BY <1>1, <1>3, <1>5 DEF Basics
<1>7. k = "ENTER" => Closed'
  <2>. SUFFICES ASSUME k = "ENTER", Len(log') < LogMax
                PROVE  log' # <<>> /\ Last(log') = Newline
    BY DEF Closed
  <2>1. log' = Append(log, Newline)
    BY <1>1 DEF Logged
  <2>2. log' \in Seq(Chars \cup {Newline}) /\ Len(log') = Len(log) + 1 /\ log'[Len(log) + 1] = Newline /\ log' # <<>>
    <3>1. Newline \in Chars \cup {Newline}
      OBVIOUS
    <3>. QED BY <1>4, <2>1, <3>1, AppendProperties
  <2>. QED BY <2>2 DEF Last
<1>8. k \notin Chars \cup {"ENTER"} => TellsOutcome'
  BY <1>1, <1>2, SameLine DEF TellsOutcome
<1>9. OutcomeInv'
  BY <1>1, <1>7, <1>8 DEF OutcomeInv
<1>10. TypedInv'
  <2>. SUFFICES ASSUME historyPos' = -1, Len(log') < LogMax, k # "ENTER", NEW c \in Chars
                PROVE  Count(buffer, c) + Pending(c)' <= Count(LastLine', c)
    BY <1>1 DEF TypedInv
  <2>1. Pending(c)' = IF k = c THEN 1 ELSE 0
    BY <1>1 DEF Pending
  <2>2. ASSUME Len(log) < LogMax
        PROVE  Count(buffer, c) <= Count(LastLine, c)
    <3>1. Pending(c) = 0
      BY <1>1 DEF Pending
    <3>2. Count(buffer, c) \in Nat
      BY <1>2, CountIsFinite DEF EditorInv
    <3>3. Count(buffer, c) + Pending(c) <= Count(LastLine, c)
      BY <1>1, <1>2, <2>2 DEF TypedInv
    <3>. QED BY <3>1, <3>2, <3>3
  <2>3. /\ Count(buffer, c) \in Nat /\ Count(LastLine, c) \in Nat
        /\ LastLine \in Seq(Chars \cup {Newline})
    BY <1>2, LineStarts, CountIsFinite DEF EditorInv
  <2>4. CASE k \in Chars
    <3>1. Len(log) < LogMax /\ log' = Append(log, k)
      <4>1. log' = IF Len(log) < LogMax THEN Append(log, k) ELSE log
        BY <1>1, <2>4 DEF Logged
      <4>. QED BY <4>1
    <3>2. LastLine' = Append(LastLine, k)
      BY <1>2, <2>4, <3>1, LineGrows
    <3>3. Count(LastLine', c) = Count(LastLine, c) + (IF c = k THEN 1 ELSE 0)
      <4>1. k \in Chars \cup {Newline}
        BY <2>4
      <4>. QED BY <2>3, <3>2, <4>1, CountOfAppend
    <3>. QED BY <2>1, <2>2, <2>3, <3>1, <3>3
  <2>5. CASE k \notin Chars
    <3>1. log' = log /\ k # c
      BY <1>1, <2>5
    <3>2. LastLine' = LastLine
      BY <3>1, SameLine
    <3>. QED BY <2>1, <2>2, <2>3, <3>1, <3>2
  <2>. QED BY <2>4, <2>5
<1>. QED BY <1>6, <1>9, <1>10 DEF CalcInv

LEMMA ProcessStep ==
  ASSUME CalcInv, Process
  PROVE  CalcInv'
<1>1. /\ pc = "process" /\ pc' = "settle" /\ Handle(key)
      /\ UNCHANGED <<log, key>> /\ key \in Keys
      /\ EditorInv /\ Submitted /\ log \in Logs
  BY DEF Process, CalcInv, Basics
<1>2. Basics'
  BY <1>1, HandleEffects DEF Basics
<1>3. OutcomeInv'
  <2>1. CASE key = "ENTER"
    <3>1. Closed'
      BY <1>1, <2>1, SameLine DEF CalcInv, OutcomeInv
    <3>. QED BY <1>1, <2>1, <3>1 DEF OutcomeInv
  <2>2. CASE key \in Chars /\ key # "ENTER"
    <3>1. lastEvent' \notin {"RESULT", "ERROR"}
      BY <1>1, <2>2, HandleEffects
    <3>2. TellsOutcome'
      BY <3>1 DEF TellsOutcome
    <3>. QED BY <1>1, <2>2, <3>2 DEF OutcomeInv
  <2>3. CASE key \notin Chars \cup {"ENTER"}
    <3>1. lastEvent' = lastEvent \/ lastEvent' \notin {"RESULT", "ERROR"}
      BY <1>1, <2>3, HandleEffects
    <3>2. TellsOutcome
      BY <1>1, <2>3 DEF CalcInv, OutcomeInv
    <3>3. TellsOutcome'
      BY <1>1, <3>1, <3>2, SameLine DEF TellsOutcome
    <3>. QED BY <1>1, <2>3, <3>3 DEF OutcomeInv
  <2>. QED BY <2>1, <2>2, <2>3
<1>4. TypedInv'
  <2>. SUFFICES ASSUME historyPos' = -1, Len(log') < LogMax, NEW c \in Chars
                PROVE  Count(buffer', c) + Pending(c)' <= Count(LastLine', c)
    BY DEF TypedInv
  <2>1. Pending(c)' = 0 /\ LastLine' = LastLine
    BY <1>1, SameLine DEF Pending
  <2>2. /\ Count(buffer, c) \in Nat /\ Count(LastLine, c) \in Nat /\ Count(buffer', c) \in Nat
    BY <1>1, <1>2, LineStarts, CountIsFinite DEF EditorInv, Basics
  <2>3. CASE Count(buffer', c) = 0
    BY <2>1, <2>2, <2>3
  <2>4. CASE /\ historyPos = -1 /\ key # "ENTER"
             /\ Count(buffer', c) <= Count(buffer, c) + (IF key = c THEN 1 ELSE 0)
    <3>1. Count(buffer, c) + Pending(c) <= Count(LastLine, c)
      BY <1>1, <2>4 DEF CalcInv, TypedInv
    <3>2. Pending(c) = IF key = c THEN 1 ELSE 0
      BY <1>1 DEF Pending
    <3>. QED BY <2>1, <2>2, <2>4, <3>1, <3>2
  <2>. QED BY <1>1, <2>3, <2>4, HandleEffects
<1>. QED BY <1>2, <1>3, <1>4 DEF CalcInv

LEMMA SettleStep ==
  ASSUME CalcInv, Settle
  PROVE  CalcInv'
<1>1. /\ pc = "settle" /\ pc' = "idle" /\ key' = "none"
      /\ log' = IF key = "ENTER" /\ lastEvent = "RESULT" THEN <<>> ELSE log
      /\ UNCHANGED <<buffer, cursor, history, historyPos, lastEvent>>
      /\ EditorInv /\ Submitted /\ log \in Logs
  BY DEF Settle, CalcInv, Basics, edVars
<1>2. log' \in Logs
  BY <1>1, EmptySeq DEF Logs
<1>3. Basics'
  BY <1>1, <1>2 DEF Basics, EditorInv, Submitted
<1>4. OutcomeInv'
  <2>1. CASE key = "ENTER" /\ lastEvent = "RESULT"
    BY <1>1, <2>1 DEF OutcomeInv, TellsOutcome
  <2>2. CASE ~(key = "ENTER" /\ lastEvent = "RESULT")
    <3>1. TellsOutcome
      BY <1>1, <2>2 DEF CalcInv, OutcomeInv, TellsOutcome
    <3>2. TellsOutcome'
      BY <1>1, <2>2, <3>1, SameLine DEF TellsOutcome
    <3>. QED BY <1>1, <3>2 DEF OutcomeInv
  <2>. QED BY <2>1, <2>2
<1>5. TypedInv'
  <2>. SUFFICES ASSUME historyPos' = -1, Len(log') < LogMax, NEW c \in Chars
                PROVE  Count(buffer, c) + Pending(c)' <= Count(LastLine', c)
    BY <1>1 DEF TypedInv
  <2>1. Pending(c)' = 0 /\ Pending(c) = 0 /\ Count(buffer, c) \in Nat
    BY <1>1, CountIsFinite DEF Pending, EditorInv
  <2>2. CASE key = "ENTER" /\ lastEvent = "RESULT"
    <3>1. Count(buffer, c) = 0
      BY <1>1, <2>2, CountOfNothing DEF Submitted
    <3>2. Count(LastLine', c) \in Nat
      <4>1. (log \in Logs => LastLine \in Seq(Chars \cup {Newline}))'
        BY LineStarts, PTL
      <4>. QED BY <1>2, <4>1, CountIsFinite
    <3>. QED BY <2>1, <3>1, <3>2
  <2>3. CASE ~(key = "ENTER" /\ lastEvent = "RESULT")
    <3>1. log' = log /\ LastLine' = LastLine
      BY <1>1, <2>3, SameLine
    <3>2. Count(buffer, c) + Pending(c) <= Count(LastLine, c)
      BY <1>1, <3>1 DEF CalcInv, TypedInv
    <3>. QED BY <2>1, <3>1, <3>2
  <2>. QED BY <2>2, <2>3
<1>. QED BY <1>3, <1>4, <1>5 DEF CalcInv

(* A crash leaves an empty line, and any log is ahead of that.             *)
LEMMA StopStep ==
  ASSUME CalcInv, Stop, log' \in {log, <<>>}
  PROVE  CalcInv'
<1>1. /\ pc' = "down" /\ key' = "none" /\ lastEvent' = "NONE"
      /\ buffer' = <<>> /\ cursor' = 0 /\ history' = <<>> /\ historyPos' = -1
      /\ log \in Logs
  BY DEF Stop, CalcInv, Basics
<1>2. log' \in Logs
  BY <1>1, EmptySeq DEF Logs
<1>3. Basics'
  <2>1. (buffer = <<>> /\ cursor = 0 /\ history = <<>> /\ historyPos = -1 => EditorInv)'
    BY BlankEditor, PTL
  <2>2. Submitted'
    BY <1>1 DEF Submitted
  <2>. QED BY <1>1, <1>2, <2>1, <2>2 DEF Basics
<1>4. OutcomeInv'
  BY <1>1 DEF OutcomeInv
<1>5. TypedInv'
  <2>1. (log \in Logs => LastLine \in Seq(Chars \cup {Newline}))'
    BY LineStarts, PTL
  <2>2. \A c : Count(LastLine', c) \in Nat /\ Count(buffer', c) = 0
    BY <1>1, <1>2, <2>1, CountIsFinite, CountOfNothing
  <2>3. \A c : Pending(c)' = 0
    BY <1>1 DEF Pending
  <2>. QED BY <2>2, <2>3 DEF TypedInv
<1>. QED BY <1>3, <1>4, <1>5 DEF CalcInv

LEMMA BootStep ==
  ASSUME CalcInv, Boot
  PROVE  CalcInv'
<1>1. /\ pc = "down" /\ pc' = "idle"
      /\ UNCHANGED <<buffer, cursor, history, historyPos, lastEvent, log, key>>
      /\ EditorInv /\ Submitted /\ log \in Logs /\ lastEvent = "NONE" /\ key \in Keys \cup {"none"}
  BY DEF Boot, CalcInv, Basics
<1>2. Basics'
  BY <1>1 DEF Basics, EditorInv, Submitted
<1>3. OutcomeInv'
  BY <1>1 DEF OutcomeInv, TellsOutcome
<1>4. TypedInv'
  <2>1. LastLine' = LastLine /\ \A c : Pending(c)' = 0 /\ Pending(c) = 0
    BY <1>1, SameLine DEF Pending
  <2>. QED BY <1>1, <2>1 DEF CalcInv, TypedInv
<1>. QED BY <1>2, <1>3, <1>4 DEF CalcInv

LEMMA CalcSteps == CalcInv /\ [CalcNext]_calcVars => CalcInv'
<1>. SUFFICES ASSUME CalcInv, [CalcNext]_calcVars
              PROVE  CalcInv'
  OBVIOUS
<1>1. ASSUME NEW k \in Keys, KeyPress(k)
      PROVE  CalcInv'
  BY <1>1, KeyPressStep
<1>2. CASE Process
  BY <1>2, ProcessStep
<1>3. CASE Settle
  BY <1>3, SettleStep
<1>4. CASE Crash \/ PowerLoss
  BY <1>4, StopStep DEF Crash, PowerLoss
<1>5. CASE Boot
  BY <1>5, BootStep
<1>6. CASE UNCHANGED calcVars
  <2>1. UNCHANGED <<buffer, cursor, history, historyPos, lastEvent, log, pc, key>>
    BY <1>6 DEF calcVars, edVars
  <2>2. Basics' /\ OutcomeInv'
    BY <2>1, SameLine DEF CalcInv, Basics, EditorInv, Submitted, OutcomeInv, TellsOutcome
  <2>3. LastLine' = LastLine /\ \A c : Pending(c)' = Pending(c)
    BY <2>1, SameLine DEF Pending
  <2>4. TypedInv'
    BY <2>1, <2>3 DEF CalcInv, TypedInv
  <2>. QED BY <2>2, <2>4 DEF CalcInv
<1>. QED BY <1>1, <1>2, <1>3, <1>4, <1>5, <1>6 DEF CalcNext

-------------------------------------------------------------------------------
(* The log is written ahead: for every editor, log and parser, and with a  *)
(* crash between any two steps, a typed character is in the last line of   *)
(* the log as long as the log has room (CalculatorApp.c:43-48).            *)
THEOREM NothingTypedIsLost == CalcSpec => []TypedIsLogged
<1>1. CalcInv => TypedIsLogged
  <2>. SUFFICES ASSUME CalcInv, historyPos = -1, Len(log) < LogMax,
                       ~(pc = "process" /\ key = "ENTER"), NEW c \in Chars
                PROVE  Count(buffer, c) <= Count(LastLine, c)
    BY DEF TypedIsLogged
  <2>1. Count(buffer, c) + Pending(c) <= Count(LastLine, c)
    BY DEF CalcInv, TypedInv
  <2>2. Count(buffer, c) \in Nat /\ Count(LastLine, c) \in Nat /\ Pending(c) \in {0, 1}
    BY LineStarts, CountIsFinite DEF CalcInv, Basics, EditorInv, Pending
  <2>. QED BY <2>1, <2>2
<1>. QED BY <1>1, CalcStarts, CalcSteps, PTL DEF CalcSpec

(* Between keys the log is empty after a result and ends with the refused  *)
(* line after an error, through crashes and ignored keys; from the press   *)
(* of ENTER until its line has been evaluated and settled, the log ends    *)
(* with that line (CalculatorApp.c:43-56).                                 *)
THEOREM LogAlwaysMatches == CalcSpec => []LogMatchesOutcome
<1>1. CalcInv => LogMatchesOutcome
  BY DEF CalcInv, OutcomeInv, TellsOutcome, Closed, LogMatchesOutcome
<1>. QED BY <1>1, CalcStarts, CalcSteps, PTL DEF CalcSpec

-------------------------------------------------------------------------------
(* The buttons alone.                                                      *)

USE ButtonAssumption

(* Differences and successors of ticks, whether the counter wrapped in     *)
(* between or not.                                                         *)
LEMMA Around ==
  ASSUME NEW R \in Nat \ {0}, NEW n \in 0 .. R - 1, NEW l \in 0 .. R - 1
  PROVE  /\ (n - l) % R = IF n >= l THEN n - l ELSE n - l + R
         /\ (n + 1) % R = IF n = R - 1 THEN 0 ELSE n + 1
  OBVIOUS

(* A tick makes a difference greater by one, or the counter has gone all   *)
(* the way round and it is zero.                                           *)
LEMMA NextTick ==
  ASSUME NEW R \in Nat \ {0}, NEW n \in 0 .. R - 1, NEW l \in 0 .. R - 1
  PROVE  /\ (n - l) % R \in 0 .. R - 1
         /\ (n + 1) % R \in 0 .. R - 1
         /\ (((n + 1) % R) - l) % R \in {((n - l) % R) + 1, 0}
<1>. DEFINE m == (n + 1) % R
<1>1. m = IF n = R - 1 THEN 0 ELSE n + 1
  BY Around
<1>2. m \in 0 .. R - 1
  BY <1>1
<1>3. (n - l) % R = IF n >= l THEN n - l ELSE n - l + R
  BY Around
<1>. HIDE DEF m
<1>4. (m - l) % R = IF m >= l THEN m - l ELSE m - l + R
  BY <1>2, Around
<1>. QED
  BY <1>1, <1>2, <1>3, <1>4 DEF m

-------------------------------------------------------------------------------
TypesOK ==
  /\ down \in SUBSET ButtonSet
  /\ lastDown \in SUBSET ButtonSet
  /\ lastTick \in [ButtonSet -> 0 .. TickRange - 1]
  /\ now \in 0 .. TickRange - 1
  /\ sinceKey \in [ButtonSet -> 0 .. Enough]

(* The last key of a button is at least as long ago as its last change; if *)
(* that was its release, which was accepted only after a time of bouncing, *)
(* longer by that time.                                                    *)
KeyIsOld(b) ==
  sinceKey[b] >= Capped(IF b \in lastDown THEN Elapsed(b) ELSE Debounce + 1 + Elapsed(b))

IInv == TypesOK /\ \A b \in ButtonSet : KeyIsOld(b)

LEMMA ElapsedType ==
  ASSUME TypesOK, NEW b \in ButtonSet
  PROVE  Elapsed(b) \in 0 .. TickRange - 1
<1>1. lastTick[b] \in 0 .. TickRange - 1 /\ now \in 0 .. TickRange - 1 /\ TickRange \in Nat \ {0}
  BY DEF TypesOK
<1>. QED
  BY <1>1, NextTick DEF Elapsed

LEMMA Initially == ButtonInit => IInv
<1>. SUFFICES ASSUME ButtonInit PROVE IInv
  OBVIOUS
<1>1. TypesOK
  BY DEF ButtonInit, TypesOK, Enough
<1>2. ASSUME NEW b \in ButtonSet PROVE KeyIsOld(b)
  <2>1. Elapsed(b) \in Nat
    BY <1>1, ElapsedType
  <2>2. sinceKey[b] = Enough
    BY DEF ButtonInit
  <2>. QED
    BY <2>1, <2>2 DEF KeyIsOld, Capped, Enough
<1>. QED
  BY <1>1, <1>2 DEF IInv

(* A tick makes every key older, and every change by as much or less. *)
LEMMA TickStep == IInv /\ Tick => IInv'
<1>. SUFFICES ASSUME IInv, Tick PROVE IInv'
  OBVIOUS
<1>1. now' \in 0 .. TickRange - 1
  <2>1. now \in 0 .. TickRange - 1 /\ TickRange \in Nat \ {0}
    BY DEF IInv, TypesOK
  <2>. QED
    BY <2>1, NextTick DEF Tick
<1>2. TypesOK'
  BY <1>1 DEF IInv, Tick, TypesOK, Capped, Enough
<1>3. ASSUME NEW b \in ButtonSet PROVE KeyIsOld(b)'
  <2>1. lastTick[b] \in 0 .. TickRange - 1 /\ now \in 0 .. TickRange - 1 /\ TickRange \in Nat \ {0}
    BY DEF IInv, TypesOK
  <2>2. Elapsed(b)' \in {Elapsed(b) + 1, 0}
    BY <2>1, NextTick DEF Tick, Elapsed
  <2>3. Elapsed(b) \in Nat /\ sinceKey[b] \in 0 .. Enough
    BY ElapsedType DEF IInv, TypesOK
  <2>4. sinceKey'[b] = Capped(sinceKey[b] + 1)
    BY DEF Tick
  <2>5. lastDown' = lastDown /\ KeyIsOld(b)
    BY DEF IInv, Tick
  <2>. QED
    BY <2>2, <2>3, <2>4, <2>5 DEF KeyIsOld, Capped, Enough
<1>. QED
  BY <1>2, <1>3 DEF IInv

(* What a scan accepts: releases, and at most the one press it answers. *)
LEMMA AcceptStep ==
  ASSUME IInv, NEW S \in SUBSET Settled, Accept(S), UNCHANGED <<down, now>>,
         sinceKey' \in [ButtonSet -> 0 .. Enough],
         NEW b \in ButtonSet, b \notin S \cap down => sinceKey'[b] = sinceKey[b]
  PROVE  KeyIsOld(b)'
<1>1. TypesOK
  BY DEF IInv
<1>2. Elapsed(b) \in Nat /\ sinceKey[b] \in 0 .. Enough /\ KeyIsOld(b)
  BY <1>1, ElapsedType DEF IInv, TypesOK
<1>3. lastTick[b] \in 0 .. TickRange - 1 /\ now \in 0 .. TickRange - 1 /\ TickRange \in Nat \ {0}
  BY <1>1 DEF TypesOK
<1>4. CASE b \in S
  <2>1. Elapsed(b)' = 0
    BY <1>3, <1>4, Around DEF Accept, Elapsed
  <2>2. CASE b \in down
    <3>1. b \in lastDown' /\ sinceKey'[b] \in Nat
      BY <1>4, <2>2 DEF Accept, Enough
    <3>. QED
      BY <2>1, <3>1 DEF KeyIsOld, Capped, Enough
  <2>3. CASE b \notin down
    <3>1. b \in lastDown /\ b \notin lastDown' /\ Elapsed(b) > Debounce /\ sinceKey'[b] = sinceKey[b]
      BY <1>4, <2>3 DEF Accept, Settled
    <3>. QED
      BY <1>2, <2>1, <3>1 DEF KeyIsOld, Capped, Enough
  <2>. QED
    BY <2>2, <2>3
<1>5. CASE b \notin S
  BY <1>2, <1>5 DEF Accept, KeyIsOld, Elapsed, Capped, Enough
<1>. QED
  BY <1>4, <1>5

LEMMA AcceptTypes ==
  ASSUME TypesOK, NEW S \in SUBSET Settled, Accept(S), UNCHANGED <<down, now>>,
         sinceKey' \in [ButtonSet -> 0 .. Enough]
  PROVE  TypesOK'
  BY DEF TypesOK, Accept, Settled

LEMMA ScanStep == IInv /\ Scan => IInv'
<1>. SUFFICES ASSUME IInv, Scan PROVE IInv'
  OBVIOUS
<1>1. CASE ScanNothing
  <2>1. sinceKey' = sinceKey /\ sinceKey' \in [ButtonSet -> 0 .. Enough]
    BY <1>1 DEF ScanNothing, IInv, TypesOK
  <2>2. Accept(Settled) /\ UNCHANGED <<down, now>>
    BY <1>1 DEF ScanNothing
  <2>3. TypesOK'
    BY <2>1, <2>2, AcceptTypes DEF IInv
  <2>4. \A b \in ButtonSet : KeyIsOld(b)'
    BY <2>1, <2>2, AcceptStep
  <2>. QED
    BY <2>3, <2>4 DEF IInv
<1>2. ASSUME NEW k, ScanPress(k) PROVE IInv'
  <2>1. PICK b \in Pressed :
          /\ \A c \in Pressed : b <= c
          /\ Accept({c \in Settled : c <= b})
          /\ sinceKey' = [sinceKey EXCEPT ![b] = 0]
    BY <1>2 DEF ScanPress
  <2>. DEFINE S == {c \in Settled : c <= b}
  <2>2. S \in SUBSET Settled /\ Accept(S) /\ UNCHANGED <<down, now>>
    BY <1>2, <2>1 DEF ScanPress
  <2>3. b \in ButtonSet /\ b \in Settled /\ b \in down /\ Settled \subseteq ButtonSet
    BY DEF Pressed, Settled
  <2>4. S \cap down = {b}
    <3>1. b <= b /\ \A c \in Settled \cap down : b <= c /\ (c <= b => c = b)
      BY <2>1, <2>3 DEF Pressed
    <3>. QED
      BY <2>3, <3>1
  <2>5. sinceKey' \in [ButtonSet -> 0 .. Enough]
    <3>1. 0 \in 0 .. Enough
      BY DEF Enough
    <3>. QED
      BY <2>1, <3>1 DEF IInv, TypesOK
  <2>6. \A c \in ButtonSet : c \notin S \cap down => sinceKey'[c] = sinceKey[c]
    BY <2>1, <2>4 DEF IInv, TypesOK
  <2>. HIDE DEF S
  <2>7. TypesOK'
    BY <2>2, <2>5, AcceptTypes DEF IInv
  <2>8. \A c \in ButtonSet : KeyIsOld(c)'
    BY <2>2, <2>5, <2>6, AcceptStep
  <2>. QED
    BY <2>7, <2>8 DEF IInv
<1>. QED
  BY <1>1, <1>2 DEF Scan

LEMMA ContactStep ==
  ASSUME IInv, NEW b \in ButtonSet, Contact(b)
  PROVE  IInv'
<1>1. TypesOK'
  BY DEF IInv, TypesOK, Contact
<1>2. \A c \in ButtonSet : KeyIsOld(c)'
  BY DEF IInv, KeyIsOld, Elapsed, Contact
<1>. QED
  BY <1>1, <1>2 DEF IInv

LEMMA StutterStep == IInv /\ UNCHANGED buttonVars => IInv'
  BY DEF IInv, TypesOK, KeyIsOld, Elapsed, buttonVars

LEMMA ButtonStep == IInv /\ [ButtonNext]_buttonVars => IInv'
  BY TickStep, ScanStep, ContactStep, StutterStep DEF ButtonNext

(* A key that comes again comes from a press that was accepted, and before *)
(* it the release was: twice a time of bouncing has passed.                *)
LEMMA Spaced ==
  ASSUME IInv, [ButtonNext]_buttonVars, NEW b \in ButtonSet
  PROVE  KeyAgain(b)
<1>. SUFFICES ASSUME sinceKey[b] # 0, sinceKey'[b] = 0 PROVE sinceKey[b] = Enough
  BY DEF KeyAgain
<1>1. sinceKey[b] \in 0 .. Enough /\ Elapsed(b) \in Nat
  BY ElapsedType DEF IInv, TypesOK
<1>2. ~ UNCHANGED sinceKey
  OBVIOUS
<1>3. ~ Tick
  BY <1>1 DEF Tick, Capped, Enough
<1>4. PICK k : ScanPress(k)
  BY <1>2, <1>3 DEF ButtonNext, Scan, ScanNothing, Contact, buttonVars
<1>5. PICK p \in Pressed : sinceKey' = [sinceKey EXCEPT ![p] = 0]
  BY <1>4 DEF ScanPress
<1>6. p = b
  BY <1>5 DEF IInv, TypesOK
<1>7. b \notin lastDown /\ Elapsed(b) > Debounce
  BY <1>5, <1>6 DEF Pressed, Settled
<1>8. sinceKey[b] >= Capped(Debounce + 1 + Elapsed(b))
  BY <1>7 DEF IInv, KeyIsOld
<1>. QED
  BY <1>1, <1>7, <1>8 DEF Capped, Enough

(* Between two keys of one button lie the time of bouncing of its release  *)
(* and that of its press, for every keypad, every time of bouncing and     *)
(* every range of the tick counter that is greater                         *)
(* (esp32_buttons.c:60-81).                                                *)
THEOREM BouncingNeverRepeats == ButtonSpec => PressesAreSpaced
<1>1. ButtonInit => IInv
  BY Initially
<1>2. IInv /\ [ButtonNext]_buttonVars => IInv'
  BY ButtonStep
<1>3. IInv /\ [ButtonNext]_buttonVars => [\A b \in ButtonSet : KeyAgain(b)]_buttonVars
  BY Spaced
<1>. QED
  BY <1>1, <1>2, <1>3, PTL DEF ButtonSpec, PressesAreSpaced

-------------------------------------------------------------------------------
(* The loops. *)

(* What a line written over another begins with.                           *)
LEMMA OverBegins ==
  ASSUME NEW s \in Seq(Chars), NEW old \in Seq(Chars)
  PROVE  Over(s, old) \in Seq(Chars) /\ IsPrefix(s, Over(s, old))
<1>. DEFINE rest == SubSeq(old, Len(s) + 1, Len(old))
            t == s \o rest
            u == SubSeq(s, 1, Len(s))
            v == SubSeq(t, 1, Len(s))
<1>1. Len(s) \in Nat /\ Len(old) \in Nat /\ \A i \in 1 .. Len(s) : s[i] \in Chars
  BY LenProperties, ElementOfSeq
<1>2. rest \in Seq(Chars)
  <2>1. \A i \in Len(s) + 1 .. Len(old) : old[i] \in Chars
    BY <1>1, ElementOfSeq
  <2>. QED BY <1>1, <2>1, SubSeqProperties
<1>. HIDE DEF rest
<1>3. /\ t \in Seq(Chars) /\ Len(t) = Len(s) + Len(rest) /\ Len(rest) \in Nat
      /\ \A i \in 1 .. Len(s) : t[i] = s[i]
  <2>1. Len(rest) \in Nat
    BY <1>2, LenProperties
  <2>2. /\ s \o rest \in Seq(Chars) /\ Len(s \o rest) = Len(s) + Len(rest)
        /\ \A i \in 1 .. Len(s) + Len(rest) :
             (s \o rest)[i] = IF i <= Len(s) THEN s[i] ELSE rest[i - Len(s)]
    BY <1>2, ConcatProperties
  <2>. QED BY <1>1, <2>1, <2>2
<1>. HIDE DEF t
<1>4. u \in Seq(Chars) /\ Len(u) = Len(s) /\ \A i \in 1 .. Len(s) : u[i] = s[i]
  BY <1>1, SubSeqProperties
<1>5. v \in Seq(Chars) /\ Len(v) = Len(s) /\ \A i \in 1 .. Len(s) : v[i] = t[i]
  <2>1. \A i \in 1 .. Len(s) : t[i] \in Chars
    BY <1>1, <1>3
  <2>. QED BY <1>1, <1>3, <2>1, SubSeqProperties
<1>. HIDE DEF u, v
<1>6. u = v
  BY <1>3, <1>4, <1>5, SeqEqual
<1>7. Len(s) <= Len(t)
  BY <1>1, <1>3
<1>. QED BY <1>3, <1>6, <1>7 DEF Over, IsPrefix, rest, t, u, v

(* The event of a key, and where it leaves the line.                       *)
LEMMA KeyIsEvent ==
  ASSUME EditorInv, NEW k, Handle(k)
  PROVE  \/ UNCHANGED <<buffer, lastEvent, history>>
         \/ lastEvent' = "INPUT_CHANGE" /\ k # "ENTER"
         \/ lastEvent' = "CLEAR" /\ k # "ENTER"
         \/ /\ lastEvent' \in {"RESULT", "ERROR"} /\ buffer # <<>>
            /\ buffer' = <<>> /\ history'[1] = buffer
<1>1. CASE Ignore(k)
  BY <1>1 DEF Ignore, edVars
<1>2. CASE k = "ENTER" /\ Enter
  <2>1. buffer \in Seq(Chars) /\ history \in Seq(Seq(Chars))
    BY DEF EditorInv
  <2>2. /\ lastEvent' \in {"RESULT", "ERROR"} /\ buffer # <<>> /\ buffer' = <<>>
        /\ history' = Pushed(buffer, history, HistoryLines)
    BY <1>2 DEF Enter, Show
  <2>. QED BY <2>1, <2>2, PushedByIndex
<1>3. CASE k \in Chars /\ Insert(k)
  BY <1>3, KeyAssumption DEF Insert, Changed, ControlKeys
<1>4. CASE k = "BACKSPACE" /\ Backspace
  BY <1>4 DEF Backspace, Changed
<1>5. CASE k = "DELETE" /\ Delete
  BY <1>5 DEF Delete, Changed
<1>6. CASE (k = "LEFT" /\ Left) \/ (k = "RIGHT" /\ Right)
  BY <1>6 DEF Left, Right, Changed
<1>7. CASE (k = "UP" /\ Up) \/ (k = "DOWN" /\ Down)
  BY <1>7 DEF Up, Down, Changed
<1>8. CASE k = "ESCAPE" /\ Escape
  BY <1>8 DEF Escape
<1>. QED
  BY <1>1, <1>2, <1>3, <1>4, <1>5, <1>6, <1>7, <1>8 DEF Handle

(* With what the line is while an outcome is on display, and which drivers *)
(* render in parts: all is drawn once, before the first key.               *)
LineIsGone == lastEvent \in {"RESULT", "ERROR"} => buffer = <<>>

InParts == partial => driver = "keyboard" /\ escape = <<>> /\ (redraw => lastEvent = "INIT")

ScreenInv ==
  /\ EditorInv /\ LineIsGone
  /\ screen \in Seq(Chars)
  /\ InParts
  /\ ScreenIsDue

LEMMA KeyKeepsLine ==
  ASSUME EditorInv, LineIsGone, NEW k, Handle(k)
  PROVE  EditorInv' /\ LineIsGone'
BY HandleStep, KeyIsEvent DEF LineIsGone

(* What the default loop draws after a key is enough. *)
LEMMA RespondShows ==
  ASSUME ScreenInv, ~redraw, driver # "window", NEW k, Respond(k)
  PROVE  ScreenInv'
<1>1. /\ Handle(k) /\ screen' = Shown(Event(k))
      /\ UNCHANGED <<redraw, partial, driver, escape>>
  BY DEF Respond, inVars
<1>2. /\ EditorInv /\ LineIsGone /\ screen \in Seq(Chars) /\ InParts
      /\ IF ~partial \/ lastEvent \in {"INIT", "CLEAR"} THEN screen = buffer
         ELSE IF lastEvent \in {"RESULT", "ERROR"} THEN IsPrefix(history[1], screen)
         ELSE IsPrefix(buffer, screen)
  BY DEF ScreenInv, ScreenIsDue
<1>3. EditorInv' /\ LineIsGone' /\ InParts'
  BY <1>1, <1>2, KeyKeepsLine DEF InParts
<1>4. buffer \in Seq(Chars) /\ buffer' \in Seq(Chars)
  BY <1>2, <1>3 DEF EditorInv
<1>5. Over(buffer', screen) \in Seq(Chars) /\ IsPrefix(buffer', Over(buffer', screen))
  BY <1>2, <1>4, OverBegins
<1>6. screen' \in Seq(Chars)
  BY <1>1, <1>2, <1>4, <1>5 DEF Shown
<1>7. CASE UNCHANGED <<buffer, lastEvent, history>>
  <2>1. Event(k) \in {"NONE", lastEvent}
    BY <1>7 DEF Event
  <2>2. history'[1] = history[1] /\ buffer' = buffer /\ lastEvent' = lastEvent
    BY <1>7
  <2>3. CASE ~partial
    <3>1. screen' = buffer'
      BY <1>1, <1>2, <2>2, <2>3 DEF Shown
    <3>. QED BY <1>1, <1>3, <1>6, <2>3, <3>1 DEF ScreenInv, ScreenIsDue
  <2>4. CASE partial /\ screen' = screen
    <3>1. ScreenIsDue'
      BY <1>1, <1>2, <2>2, <2>4 DEF ScreenIsDue
    <3>. QED BY <1>3, <1>6, <3>1 DEF ScreenInv
  <2>5. CASE partial /\ screen' # screen
    <3>1. Event(k) = lastEvent /\ lastEvent \notin {"RESULT", "ERROR"}
      BY <1>1, <2>1, <2>5 DEF Shown
    <3>2. \/ lastEvent = "INPUT_CHANGE" /\ screen' = Over(buffer', screen)
          \/ lastEvent # "INPUT_CHANGE" /\ screen' = buffer'
      BY <1>1, <2>5, <3>1 DEF Shown
    <3>3. IsPrefix(buffer', buffer')
      BY <1>4, LenProperties DEF IsPrefix
    <3>4. ScreenIsDue'
      BY <1>1, <1>5, <2>2, <2>5, <3>1, <3>2, <3>3 DEF ScreenIsDue
    <3>. QED BY <1>3, <1>6, <3>4 DEF ScreenInv
  <2>. QED BY <2>3, <2>4, <2>5
<1>8. CASE lastEvent' = "INPUT_CHANGE" /\ k # "ENTER"
  BY <1>1, <1>3, <1>5, <1>6, <1>8 DEF ScreenInv, ScreenIsDue, Shown, Event
<1>9. CASE lastEvent' = "CLEAR" /\ k # "ENTER"
  BY <1>1, <1>3, <1>6, <1>9 DEF ScreenInv, ScreenIsDue, Shown, Event
<1>10. CASE /\ lastEvent' \in {"RESULT", "ERROR"} /\ buffer # <<>>
            /\ buffer' = <<>> /\ history'[1] = buffer
  <2>1. Event(k) = lastEvent' /\ lastEvent \notin {"RESULT", "ERROR"}
    BY <1>2, <1>10 DEF Event, LineIsGone
  <2>2. CASE ~partial
    BY <1>1, <1>3, <1>6, <1>10, <2>1, <2>2 DEF ScreenInv, ScreenIsDue, Shown
  <2>3. CASE partial
    <3>1. screen' = screen /\ partial'
      BY <1>1, <1>10, <2>1, <2>3 DEF Shown
    <3>2. IsPrefix(buffer, screen)
      <4>1. IsPrefix(buffer, buffer)
        BY <1>4, LenProperties DEF IsPrefix
      <4>. QED BY <1>2, <2>1, <2>3, <4>1
    <3>. QED BY <1>3, <1>6, <1>10, <3>1, <3>2 DEF ScreenInv, ScreenIsDue
  <2>. QED BY <2>2, <2>3
<1>. QED
  BY <1>1, <1>2, <1>7, <1>8, <1>9, <1>10, KeyIsEvent

(* The loop of the hosted program draws before it asks for the next key.   *)
LEMMA HostKeyShows ==
  ASSUME ScreenInv, HostKey
  PROVE  ScreenInv'
<1>. DEFINE k == KeyRead
<1>1. Receive(k) /\ ReadKey /\ UNCHANGED <<partial, screen>>
  BY DEF HostKey
<1>. HIDE DEF k
<1>2. driver' = driver /\ (driver = "keyboard" => escape # <<>>)
  BY <1>1 DEF ReadKey, ReadByte, EndEscape, ReadEnd, ReadEvent, Take, Keyboards, inVars
<1>3. ~partial /\ InParts'
  BY <1>1, <1>2 DEF ScreenInv, InParts
<1>4. CASE k = "EOF" \/ k = "ESCAPE"
  <2>1. UNCHANGED <<edVars, redraw>>
    BY <1>1, <1>4 DEF Receive, OnEscape
  <2>. QED
    BY <1>1, <1>2, <1>3, <2>1 DEF ScreenInv, ScreenIsDue, EditorInv, LineIsGone, edVars
<1>5. CASE k # "EOF" /\ k # "ESCAPE"
  <2>1. redraw' = TRUE /\ Handle(k)
    BY <1>1, <1>5 DEF Receive, OnKey
  <2>2. EditorInv' /\ LineIsGone'
    BY <2>1, KeyKeepsLine DEF ScreenInv
  <2>. QED
    BY <1>1, <1>3, <2>1, <2>2 DEF ScreenInv, ScreenIsDue
<1>. QED
  BY <1>4, <1>5

LEMMA ScreenStep ==
  ASSUME ScreenInv, [LoopNext]_uiVars
  PROVE  ScreenInv'
<1>1. CASE Draw
  <2>1. /\ screen' = IF driver = "window" THEN screen ELSE buffer
        /\ redraw /\ redraw' = FALSE
        /\ UNCHANGED <<buffer, cursor, history, historyPos, lastEvent, driver, escape, partial>>
    BY <1>1 DEF Draw, edVars, inVars
  <2>2. screen' \in Seq(Chars)
    BY <2>1 DEF ScreenInv, EditorInv
  <2>3. ScreenIsDue'
    BY <2>1 DEF ScreenInv, InParts, ScreenIsDue
  <2>. QED BY <2>1, <2>2, <2>3 DEF ScreenInv, EditorInv, LineIsGone, InParts
<1>2. CASE HostKey
  BY <1>2, HostKeyShows
<1>3. CASE ButtonKey \/ BoardKey
  BY <1>3, RespondShows DEF ButtonKey, BoardKey
<1>4. CASE HostEscape
  <2>1. driver' = driver /\ (driver = "keyboard" => escape # <<>>)
    BY <1>4 DEF HostEscape, StartEscape, EscapeGoesOn, Take, Keyboards
  <2>2. UNCHANGED <<edVars, screen, redraw, partial>>
    BY <1>4 DEF HostEscape, loopVars
  <2>. QED BY <2>1, <2>2 DEF ScreenInv, EditorInv, LineIsGone, InParts, ScreenIsDue, edVars
<1>5. CASE BatchLine \/ BatchEnd \/ ButtonIdle \/ User \/ World \/ UNCHANGED uiVars
  <2>1. UNCHANGED <<buffer, cursor, history, historyPos, lastEvent, driver, escape, screen, redraw, partial>>
    <3>1. CASE BatchLine \/ BatchEnd
      BY <3>1 DEF BatchLine, BatchEnd, edVars, inVars
    <3>2. CASE ButtonIdle \/ World
      BY <3>2 DEF ButtonIdle, World, edVars, inVars, loopVars
    <3>3. CASE User
      BY <3>3 DEF User, Type, HangUp, Post, edVars, loopVars
    <3>4. CASE UNCHANGED uiVars
      BY <3>4 DEF uiVars, edVars, inVars, loopVars
    <3>. QED BY <1>5, <3>1, <3>2, <3>3, <3>4
  <2>. QED BY <2>1 DEF ScreenInv, EditorInv, LineIsGone, InParts, ScreenIsDue
<1>. QED
  BY <1>1, <1>2, <1>3, <1>4, <1>5 DEF LoopNext, Program

(* Unless drawing is due, a terminal and a driver that renders all show    *)
(* the line of the editor and nothing else; a driver that renders in parts *)
(* shows it and perhaps the end of a longer one, and the submitted line    *)
(* while it shows an outcome.  Nothing is said of the window, where the    *)
(* line is never drawn (main_host.c:133-160 and :178, ui_core.c:422-462    *)
(* and :487-493).                                                          *)
THEOREM ScreenIsNeverForgotten == LoopSpec => []ScreenIsDue
<1>1. LoopInit => ScreenInv
  <2>. SUFFICES ASSUME LoopInit PROVE ScreenInv
    OBVIOUS
  <2>1. <<>> \in Seq(Chars)
    OBVIOUS
  <2>2. /\ buffer = <<>> /\ screen = <<>> /\ lastEvent = "INIT" /\ escape = <<>>
        /\ partial => driver = "keyboard"
    BY DEF LoopInit, InputInit, Init, Blank
  <2>. QED
    BY <2>1, <2>2, BlankIsStart DEF LoopInit, ScreenInv, LineIsGone, InParts, ScreenIsDue
<1>2. ScreenInv /\ [LoopNext]_uiVars => ScreenInv'
  BY ScreenStep
<1>3. ScreenInv => ScreenIsDue
  BY DEF ScreenInv
<1>. QED
  BY <1>1, <1>2, <1>3, PTL DEF LoopSpec

-------------------------------------------------------------------------------
(* The loop does to the buttons what the module of the buttons allows.     *)
LEMMA LoopStepsButtons == [LoopNext]_uiVars => [ButtonNext]_buttonVars
<1>. SUFFICES ASSUME [LoopNext]_uiVars PROVE [ButtonNext]_buttonVars
  OBVIOUS
<1>1. CASE Draw \/ HostKey \/ HostEscape \/ BatchLine \/ BatchEnd \/ BoardKey \/ User
  BY <1>1 DEF Draw, HostKey, HostEscape, BatchLine, BatchEnd, BoardKey, User
<1>2. CASE ButtonKey
  BY <1>2 DEF ButtonKey, ButtonNext, Scan
<1>3. CASE ButtonIdle
  BY <1>3 DEF ButtonIdle, ButtonNext, Scan
<1>4. CASE World
  BY <1>4 DEF World, ButtonNext
<1>5. CASE UNCHANGED uiVars
  BY <1>5 DEF uiVars
<1>. QED
  BY <1>1, <1>2, <1>3, <1>4, <1>5 DEF LoopNext, Program

LEMMA LoopStartsButtons == LoopInit => IInv
<1>. SUFFICES ASSUME LoopInit PROVE IInv
  OBVIOUS
<1>1. CASE driver = "buttons"
  BY <1>1, Initially DEF LoopInit
<1>2. CASE driver # "buttons"
  <2>1. /\ now = 0 /\ down = {} /\ lastDown = {}
        /\ lastTick = [b \in ButtonSet |-> 0]
        /\ sinceKey = [b \in ButtonSet |-> Enough]
    BY <1>2 DEF LoopInit
  <2>2. TypesOK
    BY <2>1, ButtonAssumption DEF TypesOK, Enough
  <2>3. ASSUME NEW b \in ButtonSet PROVE KeyIsOld(b)
    <3>1. Elapsed(b) \in Nat
      BY <2>2, ElapsedType
    <3>. QED
      BY <2>1, <3>1, ButtonAssumption DEF KeyIsOld, Capped, Enough
  <2>. QED
    BY <2>2, <2>3 DEF IInv
<1>. QED
  BY <1>1, <1>2

(* Bouncing contacts repeat no key below the loop either                   *)
(* (esp32_buttons.c:60-81, ui_core.c:475-501).                             *)
THEOREM LoopNeverRepeatsKeys == LoopSpec => PressesAreSpaced
<1>1. LoopInit => IInv
  BY LoopStartsButtons
<1>2. IInv /\ [LoopNext]_uiVars => IInv'
  BY LoopStepsButtons, ButtonStep
<1>3. IInv /\ [LoopNext]_uiVars => [\A b \in ButtonSet : KeyAgain(b)]_buttonVars
  BY LoopStepsButtons, Spaced
<1>. QED
  BY <1>1, <1>2, <1>3, PTL DEF LoopSpec, PressesAreSpaced

-------------------------------------------------------------------------------
(* A loop gives the editor keys and does nothing else to it. *)
LEMMA LoopStepsEditor ==
  ASSUME [LoopNext]_uiVars
  PROVE  \/ \E k : Handle(k)
         \/ UNCHANGED <<buffer, cursor, history, historyPos, lastEvent, operands>>
<1>1. CASE HostKey
  <2>. DEFINE k == KeyRead
  <2>1. Receive(k)
    BY <1>1 DEF HostKey
  <2>. HIDE DEF k
  <2>2. CASE k = "EOF" \/ k = "ESCAPE"
    BY <2>1, <2>2 DEF Receive, OnEscape, edVars
  <2>3. CASE k # "EOF" /\ k # "ESCAPE"
    BY <2>1, <2>3 DEF Receive, OnKey
  <2>. QED
    BY <2>2, <2>3
<1>2. CASE BoardKey \/ ButtonKey
  BY <1>2 DEF BoardKey, ButtonKey, Respond
<1>3. CASE Draw \/ HostEscape \/ BatchLine \/ BatchEnd
  BY <1>3 DEF Draw, HostEscape, BatchLine, BatchEnd, edVars
<1>4. CASE ButtonIdle \/ User \/ World
  BY <1>4 DEF ButtonIdle, User, World, edVars
<1>5. CASE UNCHANGED uiVars
  BY <1>5 DEF uiVars, edVars
<1>. QED
  BY <1>1, <1>2, <1>3, <1>4, <1>5 DEF LoopNext, Program

(* Behind every driver the editor is a text with a gap, and only submitted *)
(* lines come back (main_host.c:133-160, ui_core.c:170-294, 475-501).      *)
THEOREM LoopEditsTextLine == LoopSpec => ImplementsTextLine
<1>1. LoopInit => EditorInv /\ Gap!Init
  BY BlankIsStart DEF LoopInit
<1>2. EditorInv /\ [LoopNext]_uiVars => EditorInv' /\ [Gap!Next]_(Gap!vars)
  <2>. SUFFICES ASSUME EditorInv, [LoopNext]_uiVars PROVE EditorInv' /\ [Gap!Next]_(Gap!vars)
    OBVIOUS
  <2>1. ASSUME NEW k, Handle(k) PROVE EditorInv' /\ [Gap!Next]_(Gap!vars)
    BY <2>1, HandleStep
  <2>2. CASE UNCHANGED <<buffer, cursor, history, historyPos>>
    BY <2>2 DEF EditorInv, Gap!vars
  <2>. QED
    BY <2>1, <2>2, LoopStepsEditor
<1>. QED
  BY <1>1, <1>2, PTL DEF LoopSpec, ImplementsTextLine, Gap!Spec

(* So does it to the stack and the symbols, except that a batch gives the  *)
(* parser its lines without the editor.                                    *)
LEMMA LoopStepsOutcomes ==
  ASSUME [LoopNext]_uiVars, driver = "batch" => escape = <<>>
  PROVE  /\ driver' = driver
         /\ driver = "batch" => UNCHANGED <<lastEvent, escape>>
         /\ driver # "batch" => (\E k : Handle(k)) \/ UNCHANGED edVars
<1>1. CASE HostKey
  <2>. DEFINE k == KeyRead
  <2>1. Receive(k) /\ ReadKey
    BY <1>1 DEF HostKey
  <2>. HIDE DEF k
  <2>2. driver' = driver /\ driver # "batch"
    BY <2>1 DEF ReadKey, ReadByte, EndEscape, ReadEnd, ReadEvent, Take, Keyboards, inVars
  <2>3. CASE k = "EOF" \/ k = "ESCAPE"
    BY <2>1, <2>2, <2>3 DEF Receive, OnEscape
  <2>4. CASE k # "EOF" /\ k # "ESCAPE"
    BY <2>1, <2>2, <2>4 DEF Receive, OnKey
  <2>. QED BY <2>2, <2>3, <2>4
<1>2. CASE BoardKey \/ ButtonKey
  BY <1>2 DEF BoardKey, ButtonKey, Respond, inVars
<1>3. CASE HostEscape
  BY <1>3 DEF HostEscape, StartEscape, EscapeGoesOn, Take, Keyboards
<1>4. CASE BatchLine
  BY <1>4 DEF BatchLine
<1>5. CASE Draw \/ BatchEnd \/ ButtonIdle \/ World
  BY <1>5 DEF Draw, BatchEnd, ButtonIdle, World, edVars, inVars
<1>6. CASE User
  BY <1>6 DEF User, Type, HangUp, Post, edVars
<1>7. CASE UNCHANGED uiVars
  BY <1>7 DEF uiVars, edVars, inVars
<1>. QED
  BY <1>1, <1>2, <1>3, <1>4, <1>5, <1>6, <1>7 DEF LoopNext, Program

(* A batch, whose editor rests, never has a result on display.             *)
LoopResultInv ==
  /\ driver = "batch" => lastEvent # "RESULT" /\ escape = <<>>
  /\ driver # "batch" => ResultInv

(* So does a result on display stay what the newest line comes to, behind  *)
(* every driver (ui_core.c:76-168, 475-501).                               *)
THEOREM LoopSettlesResults == LoopSpec => []ResultIsSettled
<1>1. LoopInit => LoopResultInv
  BY ResultStarts DEF LoopInit, InputInit, Init, Blank, LoopResultInv
<1>2. LoopResultInv /\ [LoopNext]_uiVars => LoopResultInv'
  <2>. SUFFICES ASSUME LoopResultInv, [LoopNext]_uiVars PROVE LoopResultInv'
    OBVIOUS
  <2>1. /\ driver' = driver
        /\ driver = "batch" => UNCHANGED <<lastEvent, escape>>
        /\ driver # "batch" => (\E k : Handle(k)) \/ UNCHANGED edVars
    BY LoopStepsOutcomes DEF LoopResultInv
  <2>2. CASE driver = "batch"
    BY <2>1, <2>2 DEF LoopResultInv
  <2>3. CASE driver # "batch"
    <3>1. ASSUME NEW k, Handle(k) PROVE ResultInv'
      BY <2>3, <3>1, HandleSettles DEF LoopResultInv
    <3>2. UNCHANGED edVars => ResultInv'
      BY <2>3 DEF LoopResultInv, ResultInv, OutcomeShown, Outcome, EditorInv, edVars
    <3>. QED BY <2>1, <2>3, <3>1, <3>2 DEF LoopResultInv
  <2>. QED BY <2>2, <2>3
<1>3. LoopResultInv => ResultIsSettled
  BY ShownIsSettled DEF LoopResultInv, ResultInv, ResultIsSettled
<1>. QED
  BY <1>1, <1>2, <1>3, PTL DEF LoopSpec

-------------------------------------------------------------------------------
(* Text.                                                                   *)

Papers == [line : Seq(Chars), past : Seq(Seq(Chars))]

LEMMA WriteType ==
  ASSUME NEW w \in Papers, NEW b
  PROVE  Write(w, b) \in Papers
<1>1. w.line \in Seq(Chars) /\ w.past \in Seq(Seq(Chars))
      /\ w = [line |-> w.line, past |-> w.past]
  BY DEF Papers
<1>2. CASE b \in Chars /\ Len(w.line) < InputMax
  <2>1. Append(w.line, b) \in Seq(Chars)
    BY <1>1, <1>2, AppendProperties
  <2>2. Write(w, b) = [w EXCEPT !.line = Append(@, b)]
    BY <1>2, NameAssumption DEF Write
  <2>. QED BY <1>1, <2>1, <2>2 DEF Papers
<1>3. CASE b = "DEL" /\ w.line # <<>>
  <2>1. Front(w.line) \in Seq(Chars)
    <3>1. Len(w.line) > 0
      BY <1>1, <1>3, EmptySeq, LenProperties
    <3>. QED BY <1>1, <3>1, Fronts
  <2>2. b \notin Chars
    BY <1>3, NameAssumption
  <2>3. Write(w, b) = [w EXCEPT !.line = Front(@)]
    BY <1>3, <2>2 DEF Write
  <2>. QED BY <1>1, <2>1, <2>3 DEF Papers
<1>4. CASE b \in {"CR", "LF"} /\ w.line # <<>>
  <2>1. Pushed(w.line, w.past, HistoryLines) \in Seq(Seq(Chars))
    BY <1>1, PushedLines
  <2>2. b \notin Chars /\ b # "DEL" /\ <<>> \in Seq(Chars)
    BY <1>4, NameAssumption
  <2>3. Write(w, b) = [line |-> <<>>, past |-> Pushed(w.line, w.past, HistoryLines)]
    BY <1>4, <2>2 DEF Write
  <2>. QED BY <2>1, <2>2, <2>3 DEF Papers
<1>5. CASE /\ ~(b \in Chars /\ Len(w.line) < InputMax)
           /\ ~(b = "DEL" /\ w.line # <<>>)
           /\ ~(b \in {"CR", "LF"} /\ w.line # <<>>)
  BY <1>5 DEF Write
<1>. QED BY <1>2, <1>3, <1>4, <1>5

(* The recursion of Written has one solution, after every byte.            *)
Writes(g, bytes) ==
  /\ \A n \in 0 .. Len(bytes) : g[n] \in Papers
  /\ g[0] = [line |-> <<>>, past |-> <<>>]
  /\ \A n \in 1 .. Len(bytes) : g[n] = Write(g[n - 1], bytes[n])

LEMMA WrittenIsRecursion ==
  ASSUME NEW bytes, Len(bytes) \in Nat
  PROVE  \E g : Writes(g, bytes) /\ Written(bytes) = g[Len(bytes)]
<1>. DEFINE N == Len(bytes)
            base == [line |-> <<>>, past |-> <<>>]
            Rhs(f) == [i \in 0 .. Len(bytes) |-> IF i = 0 THEN base ELSE Write(f[i - 1], bytes[i])]
            step == [n \in 1 .. N |-> [w \in Papers |-> Write(w, bytes[n])]]
            after == CHOOSE f : f = Rhs(f)
<1>1. step \in [1 .. N -> [Papers -> Papers]]
  <2>1. \A n \in 1 .. N : \A w \in Papers : Write(w, bytes[n]) \in Papers
    BY WriteType
  <2>. QED BY <2>1
<1>2. base \in Papers
  BY DEF Papers
<1>3. PICK g : Iterates(g, N, Papers, base, step)
  <2>. HIDE DEF step, base
  <2>. QED BY <1>1, <1>2, Iteration
<1>. DEFINE h == [n \in 0 .. N |-> g[n]]
<1>4. h = Rhs(h)
  <2>1. ASSUME NEW n \in 0 .. N
        PROVE  h[n] = Rhs(h)[n]
    <3>1. CASE n = 0
      BY <3>1, <1>3 DEF Iterates
    <3>2. CASE n # 0
      <4>1. n \in 1 .. N /\ n - 1 \in 0 .. N
        BY <3>2
      <4>2. g[n - 1] \in Papers /\ h[n - 1] = g[n - 1] /\ h[n] = step[n][g[n - 1]]
        BY <4>1, <1>3 DEF Iterates
      <4>3. step[n][g[n - 1]] = Write(g[n - 1], bytes[n])
        BY <4>1, <4>2
      <4>. QED BY <3>2, <4>1, <4>2, <4>3
    <3>. QED BY <3>1, <3>2
  <2>. QED BY <2>1
<1>5. after = Rhs(after)
  <2>. HIDE DEF Rhs
  <2>. QED BY <1>4
<1>6. Written(bytes) = after[N]
  BY DEF Written
<1>7. after[0] = base /\ \A n \in 1 .. N : after[n] = Write(after[n - 1], bytes[n])
  <2>. HIDE DEF after
  <2>1. after = [i \in 0 .. N |-> IF i = 0 THEN base ELSE Write(after[i - 1], bytes[i])]
    BY <1>5 DEF Rhs
  <2>2. 0 \in 0 .. N /\ \A n \in 1 .. N : n # 0 /\ n \in 0 .. N
    OBVIOUS
  <2>. HIDE DEF base
  <2>. QED BY <2>1, <2>2
<1>8. \A n \in 0 .. N : after[n] \in Papers
  <2>. HIDE DEF after
  <2>. DEFINE T == {n \in 0 .. N : after[n] \in Papers}
  <2>1. 0 \in T
    BY <1>2, <1>7
  <2>2. \A n \in 1 .. N : n - 1 \in T => n \in T
    BY <1>7, WriteType
  <2>. HIDE DEF T
  <2>3. \A n \in 0 .. N : n \in T
    BY <2>1, <2>2, BoundedInduction
  <2>. QED BY <2>3 DEF T
<1>. HIDE DEF after
<1>. QED BY <1>6, <1>7, <1>8 DEF Writes

(* What is written before a byte does not depend on what comes behind it.  *)
LEMMA WrittenStep ==
  ASSUME NEW s \in Seq(Bytes), NEW n \in 0 .. Len(s), n < Len(s)
  PROVE  Written(SubSeq(s, 1, n + 1)) = Write(Written(SubSeq(s, 1, n)), s[n + 1])
<1>. DEFINE t == SubSeq(s, 1, n)
            u == SubSeq(s, 1, n + 1)
<1>1. /\ Len(t) = n /\ \A i \in 1 .. n : t[i] = s[i]
      /\ Len(u) = n + 1 /\ \A i \in 1 .. n + 1 : u[i] = s[i]
      /\ n \in Nat /\ n + 1 \in Nat
  <2>1. Len(s) \in Nat /\ \A i \in 1 .. Len(s) : s[i] \in Bytes
    BY LenProperties, ElementOfSeq
  <2>2. \A m \in 0 .. Len(s) : /\ Len(SubSeq(s, 1, m)) = m
                               /\ \A i \in 1 .. m : SubSeq(s, 1, m)[i] = s[i]
    <3>. TAKE m \in 0 .. Len(s)
    <3>1. \A i \in 1 .. m : s[i] \in Bytes
      BY <2>1
    <3>. QED BY <2>1, <3>1, SubSeqProperties
  <2>3. n \in 0 .. Len(s) /\ n + 1 \in 0 .. Len(s)
    BY <2>1
  <2>. QED BY <2>1, <2>2, <2>3
<1>. HIDE DEF t, u
<1>2. PICK g : Writes(g, t) /\ Written(t) = g[Len(t)]
  BY <1>1, WrittenIsRecursion
<1>3. PICK h : Writes(h, u) /\ Written(u) = h[Len(u)]
  BY <1>1, WrittenIsRecursion
<1>4. \A m \in 0 .. n : g[m] = h[m]
  <2>. DEFINE T == {m \in 0 .. n : g[m] = h[m]}
  <2>1. 0 \in T
    BY <1>1, <1>2, <1>3 DEF Writes
  <2>2. \A m \in 1 .. n : m - 1 \in T => m \in T
    <3>. SUFFICES ASSUME NEW m \in 1 .. n, m - 1 \in T PROVE m \in T
      OBVIOUS
    <3>1. m \in 1 .. Len(t) /\ m \in 1 .. Len(u) /\ t[m] = u[m] /\ g[m - 1] = h[m - 1]
      BY <1>1
    <3>2. g[m] = Write(g[m - 1], t[m]) /\ h[m] = Write(h[m - 1], u[m])
      BY <3>1, <1>2, <1>3 DEF Writes
    <3>. QED BY <3>1, <3>2
  <2>. HIDE DEF T
  <2>3. \A m \in 0 .. n : m \in T
    BY <1>1, <2>1, <2>2, BoundedInduction
  <2>. QED BY <2>3 DEF T
<1>5. h[n + 1] = Write(h[n], u[n + 1])
  <2>1. n + 1 \in 1 .. Len(u) /\ (n + 1) - 1 = n
    BY <1>1
  <2>. QED BY <2>1, <1>3 DEF Writes
<1>6. g[n] = h[n] /\ u[n + 1] = s[n + 1]
  BY <1>1, <1>4
<1>7. Written(u) = Write(Written(t), s[n + 1])
  BY <1>1, <1>2, <1>3, <1>5, <1>6
<1>. QED BY <1>7 DEF t, u

-------------------------------------------------------------------------------
(* A character at the end of the line, and one less at the end.            *)
LEMMA TypedAtEnd ==
  ASSUME NEW s \in Seq(Chars), NEW c \in Chars
  PROVE  Inserted(s, Len(s), c) = Append(s, c)
<1>. DEFINE t == Inserted(s, Len(s), c)
            u == Append(s, c)
<1>1. Len(s) \in Nat /\ \A i \in 1 .. Len(s) : s[i] \in Chars
  BY LenProperties, ElementOfSeq
<1>2. /\ t \in Seq(Chars) /\ Len(t) = Len(s) + 1
      /\ \A i \in 1 .. Len(s) + 1 :
           t[i] = IF i <= Len(s) THEN s[i] ELSE IF i = Len(s) + 1 THEN c ELSE s[i - 1]
  BY <1>1 DEF Inserted
<1>3. /\ u \in Seq(Chars) /\ Len(u) = Len(s) + 1
      /\ \A i \in 1 .. Len(s) : u[i] = s[i]
      /\ u[Len(s) + 1] = c
  BY AppendProperties
<1>. HIDE DEF t, u
<1>4. \A i \in 1 .. Len(t) : t[i] = u[i]
  BY <1>1, <1>2, <1>3
<1>5. t = u
  BY <1>2, <1>3, <1>4, SeqEqual
<1>. QED BY <1>5 DEF t, u

LEMMA RubbedAtEnd ==
  ASSUME NEW s \in Seq(Chars), Len(s) > 0
  PROVE  Removed(s, Len(s)) = Front(s) /\ Len(Front(s)) = Len(s) - 1
<1>. DEFINE t == Removed(s, Len(s))
            u == Front(s)
<1>1. Len(s) \in Nat /\ Len(s) \in 1 .. Len(s)
  BY LenProperties
<1>2. /\ t \in Seq(Chars) /\ Len(t) = Len(s) - 1
      /\ \A i \in 1 .. Len(s) - 1 : t[i] = IF i < Len(s) THEN s[i] ELSE s[i + 1]
  BY <1>1, RemovedByIndex
<1>3. u \in Seq(Chars) /\ Len(u) = Len(s) - 1 /\ \A i \in 1 .. Len(s) - 1 : u[i] = s[i]
  BY Fronts
<1>. HIDE DEF t, u
<1>4. \A i \in 1 .. Len(t) : t[i] = u[i]
  BY <1>1, <1>2, <1>3
<1>5. t = u
  BY <1>2, <1>3, <1>4, SeqEqual
<1>. QED BY <1>3, <1>5 DEF t, u

(* While nobody moves the cursor and nothing is recalled, the editor is a  *)
(* typewriter.                                                             *)
Paper == [line |-> buffer, past |-> history]

LEMMA EditorWrites ==
  ASSUME EditorInv, cursor = Len(buffer), historyPos = -1,
         NEW b \in Bytes, b # "ESC", Handle(KeyOfByte(b))
  PROVE  /\ cursor' = Len(buffer') /\ historyPos' = -1
         /\ Paper' = Write(Paper, b)
<1>. DEFINE k == KeyOfByte(b)
<1>1. /\ buffer \in Seq(Chars) /\ Len(buffer) \in Nat
      /\ Paper.line = buffer /\ Paper.past = history
  BY LenProperties DEF EditorInv, Paper
<1>2. buffer = <<>> <=> Len(buffer) = 0
  BY <1>1, EmptySeq
<1>3. /\ b \notin ControlKeys
      /\ b \in Chars => b \notin {"CR", "LF", "DEL", "ESC", "TAIL"}
      /\ \A x \in Chars : x \notin ControlKeys /\ x # "NONE"
  BY NameAssumption, KeyAssumption
<1>4. CASE b \in Chars /\ Len(buffer) < InputMax
  <2>1. k = b
    BY <1>3, <1>4 DEF KeyOfByte
  <2>2. Insert(b)
    <3>1. Responds(b)
      BY <1>4 DEF Responds
    <3>. QED BY <1>3, <2>1, <3>1 DEF Handle, Ignore, ControlKeys
  <2>3. buffer' = Append(buffer, b) /\ UNCHANGED <<history, historyPos>>
        /\ cursor' = Len(buffer) + 1
    BY <1>1, <1>4, <2>2, TypedAtEnd DEF Insert
  <2>4. Write(Paper, b) = [Paper EXCEPT !.line = Append(@, b)]
    BY <1>1, <1>3, <1>4 DEF Write
  <2>5. Len(buffer') = Len(buffer) + 1
    BY <1>1, <1>4, <2>3, AppendProperties
  <2>. QED BY <1>1, <2>3, <2>4, <2>5 DEF Paper
<1>5. CASE b = "DEL" /\ buffer # <<>>
  <2>1. k = "BACKSPACE"
    BY <1>5 DEF KeyOfByte
  <2>2. Backspace
    <3>1. Responds(k)
      BY <1>1, <1>2, <1>5, <2>1 DEF Responds
    <3>. QED BY <1>3, <2>1, <3>1 DEF Handle, Ignore, ControlKeys
  <2>3. buffer' = Front(buffer) /\ UNCHANGED <<history, historyPos>>
        /\ cursor' = Len(buffer) - 1 /\ Len(buffer') = Len(buffer) - 1
    BY <1>1, <1>2, <1>5, <2>2, RubbedAtEnd DEF Backspace
  <2>4. Write(Paper, b) = [Paper EXCEPT !.line = Front(@)]
    BY <1>1, <1>3, <1>5 DEF Write
  <2>. QED BY <1>1, <2>3, <2>4 DEF Paper
<1>6. CASE b \in {"CR", "LF"} /\ buffer # <<>>
  <2>1. k = "ENTER"
    BY <1>6 DEF KeyOfByte
  <2>2. Enter
    <3>1. Responds(k)
      BY <1>6, <2>1 DEF Responds
    <3>. QED BY <1>3, <2>1, <3>1 DEF Handle, Ignore, ControlKeys
  <2>3. /\ buffer' = <<>> /\ cursor' = 0 /\ historyPos' = -1
        /\ history' = Pushed(buffer, history, HistoryLines)
    BY <2>2, EmptyLine DEF Enter
  <2>4. Write(Paper, b) = [line |-> <<>>, past |-> Pushed(buffer, history, HistoryLines)]
    BY <1>1, <1>3, <1>6 DEF Write
  <2>5. Len(buffer') = 0
    BY <2>3
  <2>. QED BY <2>3, <2>4, <2>5 DEF Paper
<1>7. CASE /\ ~(b \in Chars /\ Len(buffer) < InputMax)
           /\ ~(b = "DEL" /\ buffer # <<>>)
           /\ ~(b \in {"CR", "LF"} /\ buffer # <<>>)
  <2>1. Write(Paper, b) = Paper
    BY <1>1, <1>7 DEF Write
  <2>2. k \in {b, "NONE", "BACKSPACE", "ENTER"} /\ (k = "BACKSPACE" => b = "DEL")
        /\ (k = "ENTER" => b \in {"CR", "LF"})
    <3>1. b # "BACKSPACE" /\ b # "ENTER"
      BY <1>3 DEF ControlKeys
    <3>. QED BY <3>1 DEF KeyOfByte
  <2>3. ~Responds(k)
    <3>1. ~(k \in Chars /\ Len(buffer) < InputMax)
      BY <1>3, <1>7, <2>2 DEF ControlKeys
    <3>2. ~(k = "ENTER" /\ buffer # <<>>) /\ ~(k = "BACKSPACE" /\ cursor > 0)
      BY <1>1, <1>2, <1>7, <2>2
    <3>3. k \notin {"LEFT", "DELETE", "RIGHT", "UP", "DOWN", "ESCAPE"}
      BY <1>3, <2>2 DEF ControlKeys
    <3>. QED BY <3>1, <3>2, <3>3 DEF Responds
  <2>4. UNCHANGED edVars
    BY <1>1, <1>2, <1>3, <2>2, <2>3 DEF Handle, Responds, Insert, Backspace, Enter, Ignore, ControlKeys
  <2>. QED BY <2>1, <2>4 DEF edVars, Paper
<1>. QED BY <1>4, <1>5, <1>6, <1>7

-------------------------------------------------------------------------------
(* A byte more behind any bytes.                                           *)
LEMMA WrittenAppend ==
  ASSUME NEW s \in Seq(Bytes), NEW b \in Bytes
  PROVE  Written(s \o <<b>>) = Write(Written(s), b)
<1>. DEFINE t == s \o <<b>>
            n == Len(s)
<1>1. n \in Nat /\ <<b>> \in Seq(Bytes) /\ Len(<<b>>) = 1 /\ <<b>>[1] = b
  BY LenProperties
<1>2. t \in Seq(Bytes) /\ Len(t) = n + 1 /\ (\A i \in 1 .. n : t[i] = s[i]) /\ t[n + 1] = b
  <2>1. /\ s \o <<b>> \in Seq(Bytes) /\ Len(s \o <<b>>) = Len(s) + Len(<<b>>)
        /\ \A i \in 1 .. Len(s) + Len(<<b>>) :
             (s \o <<b>>)[i] = IF i <= Len(s) THEN s[i] ELSE <<b>>[i - Len(s)]
    BY <1>1, ConcatProperties
  <2>2. n + 1 \in 1 .. n + 1 /\ ~(n + 1 <= n) /\ (n + 1) - n = 1
    BY <1>1
  <2>. QED BY <1>1, <2>1, <2>2
<1>. HIDE DEF t
<1>3. SubSeq(t, 1, n + 1) = t
  BY <1>2, SubSeqFull
<1>4. SubSeq(t, 1, n) = s
  <2>. DEFINE u == SubSeq(t, 1, n)
  <2>1. \A i \in 1 .. n : t[i] \in Bytes
    BY <1>1, <1>2, ElementOfSeq
  <2>2. u \in Seq(Bytes) /\ Len(u) = n /\ \A i \in 1 .. n : u[i] = t[i]
    BY <1>1, <2>1, SubSeqProperties
  <2>. HIDE DEF u
  <2>3. u = s
    BY <1>2, <2>2, SeqEqual
  <2>. QED BY <2>3 DEF u
<1>5. n \in 0 .. Len(t) /\ n < Len(t)
  BY <1>1, <1>2
<1>. HIDE DEF n
<1>6. Written(SubSeq(t, 1, n + 1)) = Write(Written(SubSeq(t, 1, n)), t[n + 1])
  BY <1>2, <1>5, WrittenStep
<1>. QED BY <1>2, <1>3, <1>4, <1>6 DEF t

-------------------------------------------------------------------------------
(* Where the sequence that begins at p ends, and what is outside it.       *)
BytesOK == driver \in Keyboards => typed \in Seq(Bytes) /\ taken \in 0 .. Len(typed)

EscapeAt(p) == p \in DOMAIN typed /\ typed[p] = "ESC"

LEMMA EndIsLeast ==
  ASSUME typed \in Seq(Bytes), NEW p \in 1 .. Len(typed)
  PROVE  /\ End(p) \in p .. Len(typed)
         /\ Ends(p) = {} => End(p) = Len(typed)
         /\ Ends(p) # {} => End(p) \in Ends(p)
         /\ \A j \in Ends(p) : End(p) <= j
<1>1. Len(typed) \in Nat
  BY LenProperties
<1>2. Ends(p) \in SUBSET Nat /\ \A j \in Ends(p) : j \in p .. Len(typed)
  BY <1>1 DEF Ends
<1>3. CASE Ends(p) = {}
  BY <1>1, <1>3 DEF End
<1>4. CASE Ends(p) # {}
  <2>1. Min(Ends(p)) \in Ends(p) /\ \A j \in Ends(p) : Min(Ends(p)) <= j
    BY <1>2, <1>4, MinIsLeast
  <2>. QED BY <1>2, <1>4, <2>1 DEF End
<1>. QED BY <1>3, <1>4

LEMMA OutsideAhead ==
  ASSUME typed \in Seq(Bytes), NEW p \in 1 .. Len(typed), taken \in 0 .. Len(typed), taken < p
  PROVE  Outside(p) = SubSeq(typed, 1, taken)
<1>1. Len(typed) \in Nat /\ taken \in Nat /\ End(p) \in Nat /\ taken < End(p) + 1
  BY EndIsLeast, LenProperties
<1>2. Min({taken, p - 1}) = taken
  <2>1. taken \in {taken, p - 1} /\ \A y \in {taken, p - 1} : taken <= y
    BY <1>1
  <2>2. {taken, p - 1} \in SUBSET Nat
    BY <1>1
  <2>3. Min({taken, p - 1}) \in {taken, p - 1} /\ \A y \in {taken, p - 1} : Min({taken, p - 1}) <= y
    BY <2>1, <2>2, MinIsLeast
  <2>. QED BY <1>1, <2>3
<1>3. SubSeq(typed, End(p) + 1, taken) = <<>>
  BY <1>1, SubSeqEmpty
<1>4. SubSeq(typed, 1, taken) \in Seq(Bytes)
  <2>1. \A i \in 1 .. taken : typed[i] \in Bytes
    BY <1>1, ElementOfSeq
  <2>. QED BY <1>1, <2>1, SubSeqProperties
<1>. QED BY <1>2, <1>3, <1>4, ConcatEmptySeq DEF Outside

LEMMA FirstPart ==
  ASSUME typed \in Seq(Bytes), NEW p \in 1 .. Len(typed), taken \in p .. Len(typed)
  PROVE  /\ Outside(p) = SubSeq(typed, 1, p - 1) \o SubSeq(typed, End(p) + 1, taken)
         /\ SubSeq(typed, 1, p - 1) \in Seq(Bytes)
<1>1. Len(typed) \in Nat /\ taken \in Nat
  BY LenProperties
<1>2. Min({taken, p - 1}) = p - 1
  <2>1. {taken, p - 1} \in SUBSET Nat
    BY <1>1
  <2>2. Min({taken, p - 1}) \in {taken, p - 1} /\ \A y \in {taken, p - 1} : Min({taken, p - 1}) <= y
    BY <2>1, MinIsLeast
  <2>. QED BY <1>1, <2>2
<1>3. \A i \in 1 .. p - 1 : typed[i] \in Bytes
  BY <1>1, ElementOfSeq
<1>4. SubSeq(typed, 1, p - 1) \in Seq(Bytes)
  BY <1>1, <1>3, SubSeqProperties
<1>. QED BY <1>2, <1>4 DEF Outside

LEMMA OutsideInside ==
  ASSUME typed \in Seq(Bytes), NEW p \in 1 .. Len(typed), taken \in p .. Len(typed), taken <= End(p)
  PROVE  Outside(p) = SubSeq(typed, 1, p - 1)
<1>1. taken \in Nat /\ End(p) \in Nat /\ taken < End(p) + 1
  BY EndIsLeast, LenProperties
<1>2. SubSeq(typed, End(p) + 1, taken) = <<>>
  BY <1>1, SubSeqEmpty
<1>3. /\ Outside(p) = SubSeq(typed, 1, p - 1) \o <<>>
      /\ SubSeq(typed, 1, p - 1) \in Seq(Bytes)
  BY <1>2, FirstPart
<1>4. SubSeq(typed, 1, p - 1) \o <<>> = SubSeq(typed, 1, p - 1)
  BY <1>3, ConcatEmptySeq
<1>. QED BY <1>3, <1>4

(* What is outside the sequence with the bytes up to n read.               *)
OutsideUpTo(p, n) == SubSeq(typed, 1, p - 1) \o SubSeq(typed, End(p) + 1, n)

LEMMA OutsideGrows ==
  ASSUME typed \in Seq(Bytes), NEW p \in 1 .. Len(typed), NEW n \in End(p) .. Len(typed) - 1
  PROVE  /\ OutsideUpTo(p, n) \in Seq(Bytes)
         /\ OutsideUpTo(p, n + 1) = OutsideUpTo(p, n) \o <<typed[n + 1]>>
<1>. DEFINE e == End(p)
            before == SubSeq(typed, 1, p - 1)
<1>1. /\ Len(typed) \in Nat /\ e \in p .. Len(typed) /\ n \in Nat /\ n + 1 \in 1 .. Len(typed)
      /\ e + 1 \in 1 .. Len(typed) /\ n + 1 \in e + 1 .. Len(typed)
      /\ \A i \in 1 .. Len(typed) : typed[i] \in Bytes
  BY EndIsLeast, LenProperties, ElementOfSeq
<1>2. before \in Seq(Bytes) /\ SubSeq(typed, e + 1, n) \in Seq(Bytes)
  <2>1. \A i \in 1 .. p - 1 : typed[i] \in Bytes
    BY <1>1
  <2>2. \A i \in e + 1 .. n : typed[i] \in Bytes
    BY <1>1
  <2>. QED BY <1>1, <2>1, <2>2, SubSeqProperties
<1>. HIDE DEF e, before
<1>3. SubSeq(typed, e + 1, n + 1) = SubSeq(typed, e + 1, n) \o <<typed[n + 1]>>
  <2>1. SubSeq(typed, e + 1, n + 1) = SubSeq(typed, e + 1, (n + 1) - 1) \o <<typed[n + 1]>>
    BY <1>1, SubSeqRecursiveSecond
  <2>2. (n + 1) - 1 = n
    BY <1>1
  <2>. QED BY <2>1, <2>2
<1>4. <<typed[n + 1]>> \in Seq(Bytes)
  BY <1>1
<1>5. (before \o SubSeq(typed, e + 1, n)) \o <<typed[n + 1]>>
        = before \o (SubSeq(typed, e + 1, n) \o <<typed[n + 1]>>)
  <2>. DEFINE middle == SubSeq(typed, e + 1, n)
              last == <<typed[n + 1]>>
  <2>1. before \in Seq(Bytes) /\ middle \in Seq(Bytes) /\ last \in Seq(Bytes)
    BY <1>2, <1>4
  <2>. HIDE DEF middle, last
  <2>2. (before \o middle) \o last = before \o (middle \o last)
    BY ONLY <2>1, ConcatAssociative
  <2>. QED BY <2>2 DEF middle, last
<1>6. before \o SubSeq(typed, e + 1, n) \in Seq(Bytes)
  BY <1>2, ConcatProperties
<1>. QED BY <1>3, <1>5, <1>6 DEF OutsideUpTo, e, before

-------------------------------------------------------------------------------
(* The bytes.                                                              *)
NoEscape == driver \in Keyboards /\ \A i \in DOMAIN typed : typed[i] # "ESC"

OnePipe(p) ==
  /\ driver = "pipe" /\ EscapeAt(p)
  /\ \A i \in DOMAIN typed : typed[i] = "ESC" => i = p

EndsRight == ~running => closed /\ ~Waiting

(* The editor is a typewriter that has written the bytes. *)
Wrote(bytes) ==
  cursor = Len(buffer) /\ historyPos = -1 /\ Paper = Written(bytes)

(* Without ESC the editor holds what a typewriter has written, and the     *)
(* program has ended only behind the last byte.                            *)
Typewritten ==
  /\ escape = <<>> /\ ~armed
  /\ Wrote(SubSeq(typed, 1, taken))
  /\ EndsRight

(* The one sequence of a pipe lies ahead, is being read, or is read.       *)
Ahead(p) ==
  /\ taken < p /\ escape = <<>> /\ ~armed
  /\ Wrote(SubSeq(typed, 1, taken))

Inside(p) ==
  /\ p <= taken /\ escape = SubSeq(typed, p, taken) /\ ~armed
  /\ \A j \in Ends(p) : taken <= j
  /\ Wrote(SubSeq(typed, 1, p - 1))

Passed(p) ==
  /\ End(p) <= taken /\ escape = <<>>
  /\ Ends(p) = {} => closed
  /\ ~IsArrow(p) => Wrote(OutsideUpTo(p, taken))

Sequenced(p) == EndsRight /\ (Ahead(p) \/ Inside(p) \/ Passed(p))

TextInv ==
  /\ EditorInv
  /\ BytesOK
  /\ NoEscape => Typewritten
  /\ \A p : OnePipe(p) => Sequenced(p)

LEMMA TextStarts == LoopInit => TextInv
<1>. SUFFICES ASSUME LoopInit PROVE TextInv
  OBVIOUS
<1>1. /\ typed = <<>> /\ taken = 0 /\ escape = <<>> /\ running = TRUE /\ armed = FALSE
      /\ buffer = <<>> /\ cursor = 0 /\ history = <<>> /\ historyPos = -1
  BY DEF LoopInit, InputInit, Init, Blank
<1>2. EditorInv
  BY BlankIsStart DEF LoopInit
<1>3. BytesOK
  BY <1>1 DEF BytesOK
<1>4. Typewritten
  <2>1. SubSeq(typed, 1, taken) = <<>> /\ Len(<<>>) = 0 /\ 0 \in Nat
    BY <1>1
  <2>2. PICK g : Writes(g, <<>>) /\ Written(<<>>) = g[Len(<<>>)]
    BY <2>1, WrittenIsRecursion
  <2>3. Written(<<>>) = [line |-> <<>>, past |-> <<>>]
    BY <2>1, <2>2 DEF Writes
  <2>. QED BY <1>1, <2>1, <2>3 DEF Typewritten, Wrote, EndsRight, Paper
<1>5. \A p : ~OnePipe(p)
  BY <1>1 DEF OnePipe, EscapeAt
<1>. QED BY <1>2, <1>3, <1>4, <1>5 DEF TextInv

(* The types that the steps below need.                                    *)
LEMMA TypedBytes ==
  ASSUME TextInv, driver \in Keyboards
  PROVE  /\ typed \in Seq(Bytes) /\ Len(typed) \in Nat /\ DOMAIN typed = 1 .. Len(typed)
         /\ taken \in 0 .. Len(typed) /\ taken \in Nat /\ EditorInv
BY LenProperties DEF TextInv, BytesOK

LEMMA EscapeIsShort == ~Complete(<<"ESC">>)
<1>1. Len(<<"ESC">>) = 1 /\ <<"ESC">>[1] = "ESC"
  OBVIOUS
<1>. QED BY <1>1, InputAssumption DEF Complete

(* While a sequence is read it is complete where it ends.                  *)
LEMMA CompleteIsEnd ==
  ASSUME typed \in Seq(Bytes), taken \in 0 .. Len(typed), NEW p \in 1 .. Len(typed),
         EscapeAt(p), Inside(p)
  PROVE  /\ escape # <<>> /\ Len(escape) = taken - p + 1
         /\ Complete(escape) <=> taken \in Ends(p)
<1>1. Len(typed) \in Nat /\ taken \in p .. Len(typed) /\ typed[p] = "ESC"
      /\ \A i \in 1 .. Len(typed) : typed[i] \in Bytes
  BY LenProperties, ElementOfSeq DEF Inside, EscapeAt
<1>2. /\ escape \in Seq(Bytes) /\ Len(escape) = taken - p + 1
      /\ \A i \in 1 .. taken - p + 1 : escape[i] = typed[p + i - 1]
  <2>1. \A i \in p .. taken : typed[i] \in Bytes
    BY <1>1
  <2>2. escape = SubSeq(typed, p, taken)
    BY DEF Inside
  <2>. QED BY <1>1, <2>1, <2>2, SubSeqProperties
<1>3. escape[Len(escape)] = typed[taken]
  <2>1. Len(escape) \in 1 .. taken - p + 1 /\ p + Len(escape) - 1 = taken
    BY <1>1, <1>2
  <2>. QED BY <1>2, <2>1
<1>4. escape # <<>>
  BY <1>1, <1>2, EmptySeq
<1>5. Complete(escape) <=> taken - p + 1 >= EscapeMax \/ typed[taken] \in FinalBytes
  BY <1>2, <1>3 DEF Complete
<1>6. ASSUME taken - p + 1 >= EscapeMax PROVE taken \in Ends(p)
  <2>1. p + EscapeMax - 1 \in p + 1 .. Len(typed) /\ p + EscapeMax - 1 <= taken
    BY <1>1, <1>6, InputAssumption
  <2>2. p + EscapeMax - 1 \in Ends(p)
    BY <2>1 DEF Ends
  <2>3. taken <= p + EscapeMax - 1
    BY <2>2 DEF Inside
  <2>. QED BY <1>1, <2>1, <2>2, <2>3, InputAssumption
<1>7. ASSUME typed[taken] \in FinalBytes PROVE taken \in Ends(p)
  <2>1. taken # p
    BY <1>1, <1>7, InputAssumption
  <2>2. taken \in p + 1 .. Len(typed)
    BY <1>1, <2>1
  <2>. QED BY <1>7, <2>2 DEF Ends
<1>8. ASSUME taken \in Ends(p)
      PROVE  taken - p + 1 >= EscapeMax \/ typed[taken] \in FinalBytes
  BY <1>1, <1>8, InputAssumption DEF Ends
<1>. QED BY <1>2, <1>4, <1>5, <1>6, <1>7, <1>8

-------------------------------------------------------------------------------
(* The steps behind a terminal or a pipe.                                  *)

(* A key that a byte without ESC means. *)
LEMMA ByteKey ==
  ASSUME NEW b \in Bytes
  PROVE  KeyOfByte(b) # "EOF" /\ KeyOfByte(b) # "ESCAPE"
<1>1. b # "EOF" /\ b # "ESCAPE"
  BY NameAssumption DEF ControlKeys
<1>. QED BY <1>1 DEF KeyOfByte

LEMMA ByteRead ==
  ASSUME TextInv, driver \in Keyboards, HostKey, ReadByte
  PROVE  TextInv'
<1>. DEFINE b == NextByte
<1>1. /\ escape = <<>> /\ escape' = <<>> /\ taken' = taken + 1 /\ taken < Len(typed)
      /\ UNCHANGED <<driver, typed, closed>> /\ b # "ESC" /\ b = typed[taken + 1]
      /\ running
  BY DEF HostKey, ReadByte, Take, Waiting, NextByte
<1>2. /\ typed \in Seq(Bytes) /\ Len(typed) \in Nat /\ DOMAIN typed = 1 .. Len(typed)
      /\ taken \in 0 .. Len(typed) /\ taken \in Nat /\ EditorInv
  BY TypedBytes
<1>3. taken + 1 \in 1 .. Len(typed) /\ b \in Bytes
  BY <1>1, <1>2, ElementOfSeq
<1>4. KeyRead = KeyOfByte(b)
  BY <1>1 DEF KeyRead, Keyboards, Waiting
<1>. HIDE DEF b
<1>5. Handle(KeyOfByte(b)) /\ UNCHANGED <<running, armed>>
  BY <1>3, <1>4, ByteKey DEF HostKey, Receive, OnKey
<1>6. EditorInv'
  BY <1>2, <1>5, HandleStep
<1>7. BytesOK'
  BY <1>1, <1>2, <1>3 DEF BytesOK
<1>8. EndsRight'
  BY <1>1, <1>5 DEF EndsRight
<1>9. ASSUME NEW bytes \in Seq(Bytes), Wrote(bytes)
      PROVE  /\ cursor' = Len(buffer') /\ historyPos' = -1
             /\ Paper' = Written(bytes \o <<b>>)
  <2>1. cursor' = Len(buffer') /\ historyPos' = -1 /\ Paper' = Write(Paper, b)
    BY <1>1, <1>2, <1>3, <1>5, <1>9, EditorWrites DEF Wrote
  <2>. QED BY <1>3, <1>9, <2>1, WrittenAppend DEF Wrote
<1>10. ASSUME Wrote(SubSeq(typed, 1, taken))
       PROVE  Wrote(SubSeq(typed, 1, taken))'
  <2>1. SubSeq(typed, 1, taken) \in Seq(Bytes)
    <3>1. \A i \in 1 .. taken : typed[i] \in Bytes
      BY <1>2, ElementOfSeq
    <3>. QED BY <1>2, <3>1, SubSeqProperties
  <2>2. SubSeq(typed, 1, taken + 1) = SubSeq(typed, 1, taken) \o <<b>>
    <3>1. SubSeq(typed, 1, taken + 1) = SubSeq(typed, 1, (taken + 1) - 1) \o <<typed[taken + 1]>>
      <4>1. 1 \in 1 .. Len(typed) /\ taken + 1 \in 1 .. Len(typed)
        BY <1>2, <1>3
      <4>. QED BY <1>2, <4>1, SubSeqRecursiveSecond
    <3>2. (taken + 1) - 1 = taken
      BY <1>2
    <3>. QED BY <1>1, <3>1, <3>2
  <2>. QED BY <1>1, <1>9, <1>10, <2>1, <2>2 DEF Wrote
<1>11. ASSUME NoEscape' PROVE Typewritten'
  <2>1. NoEscape /\ Typewritten
    BY <1>1, <1>11 DEF NoEscape, TextInv
  <2>. QED BY <1>1, <1>5, <1>8, <1>10, <2>1 DEF Typewritten
<1>12. ASSUME NEW p, OnePipe(p)' PROVE Sequenced(p)'
  <2>1. OnePipe(p) /\ Sequenced(p) /\ p \in 1 .. Len(typed) /\ typed[p] = "ESC" /\ EscapeAt(p)
    BY <1>1, <1>2, <1>12 DEF OnePipe, EscapeAt, TextInv
  <2>2. ~Inside(p)
    BY <1>1, <1>2, <2>1, CompleteIsEnd
  <2>3. CASE Ahead(p)
    <3>1. taken + 1 < p
      BY <1>1, <1>2, <2>1, <2>3 DEF Ahead
    <3>2. Ahead(p)'
      BY <1>1, <1>5, <1>10, <2>3, <3>1 DEF Ahead
    <3>. QED BY <1>8, <3>2 DEF Sequenced
  <2>4. CASE Passed(p)
    <3>1. Ends(p)' = Ends(p) /\ End(p)' = End(p) /\ IsArrow(p)' = IsArrow(p)
      BY <1>1 DEF Ends, End, IsArrow
    <3>2. End(p) \in p .. Len(typed) /\ taken \in End(p) .. Len(typed) - 1
      BY <1>1, <1>2, <2>1, <2>4, EndIsLeast DEF Passed
    <3>3. ASSUME ~IsArrow(p) PROVE Wrote(OutsideUpTo(p, taken))'
      <4>1. Wrote(OutsideUpTo(p, taken))
        BY <2>4, <3>3 DEF Passed
      <4>2. /\ OutsideUpTo(p, taken) \in Seq(Bytes)
            /\ OutsideUpTo(p, taken + 1) = OutsideUpTo(p, taken) \o <<b>>
        BY <1>1, <1>2, <2>1, <3>2, OutsideGrows
      <4>3. OutsideUpTo(p, taken)' = OutsideUpTo(p, taken + 1)
        BY <1>1, <3>1 DEF OutsideUpTo
      <4>. QED BY <1>9, <4>1, <4>2, <4>3 DEF Wrote
    <3>4. Passed(p)'
      <4>1. End(p) <= taken + 1
        BY <1>2, <3>2
      <4>. QED BY <1>1, <2>4, <3>1, <3>3, <4>1 DEF Passed
    <3>. QED BY <1>8, <3>4 DEF Sequenced
  <2>. QED BY <2>1, <2>2, <2>3, <2>4 DEF Sequenced
<1>. QED BY <1>6, <1>7, <1>11, <1>12 DEF TextInv

LEMMA SequenceRead ==
  ASSUME TextInv, driver \in Keyboards, HostKey, EndEscape
  PROVE  TextInv'
<1>1. /\ escape # <<>> /\ escape' = <<>> /\ UNCHANGED <<driver, typed, taken, closed>>
      /\ Complete(escape) \/ (~Waiting /\ (closed \/ driver = "terminal"))
  BY DEF EndEscape
<1>2. /\ typed \in Seq(Bytes) /\ Len(typed) \in Nat /\ DOMAIN typed = 1 .. Len(typed)
      /\ taken \in 0 .. Len(typed) /\ taken \in Nat /\ EditorInv
  BY TypedBytes
<1>. DEFINE k == KeyOfEscape(escape)
            arrow == k \in {"UP", "DOWN", "LEFT", "RIGHT"}
<1>3. KeyRead = k
  BY <1>1 DEF KeyRead, Keyboards
<1>4. k \in {"ESCAPE", "NONE", "UP", "DOWN", "RIGHT", "LEFT"}
  BY DEF KeyOfEscape
<1>a. k = KeyOfEscape(escape)
  OBVIOUS
<1>. HIDE DEF k
<1>5. Receive(k)
  BY <1>3 DEF HostKey
<1>6. Handle(k) \/ UNCHANGED edVars
  BY <1>4, <1>5 DEF Receive, OnEscape, OnKey
<1>7. EditorInv'
  <2>1. CASE Handle(k)
    BY <1>2, <2>1, HandleStep
  <2>2. CASE UNCHANGED edVars
    BY <1>2, <2>2 DEF EditorInv, edVars
  <2>. QED BY <1>6, <2>1, <2>2
<1>8. BytesOK'
  BY <1>1 DEF TextInv, BytesOK
<1>9. ~NoEscape'
  BY <1>1 DEF TextInv, NoEscape, Typewritten
<1>10. ~armed => running' = running
  BY <1>4, <1>5 DEF Receive, OnEscape, OnKey
<1>11. ~arrow => UNCHANGED <<buffer, cursor, history, historyPos>>
  <2>1. CASE k = "ESCAPE"
    BY <1>5, <2>1 DEF Receive, OnEscape, edVars
  <2>2. CASE k = "NONE"
    <3>1. Handle("NONE")
      BY <1>5, <2>2 DEF Receive, OnKey
    <3>2. "NONE" \notin Chars
      BY NameAssumption
    <3>3. Ignore("NONE")
      BY <3>1, <3>2 DEF Handle
    <3>. QED BY <3>3 DEF Ignore, edVars
  <2>. QED BY <1>4, <2>1, <2>2
<1>12. ASSUME NEW p, OnePipe(p)' PROVE Sequenced(p)'
  <2>1. OnePipe(p) /\ Sequenced(p) /\ p \in 1 .. Len(typed) /\ typed[p] = "ESC" /\ EscapeAt(p)
    BY <1>1, <1>2, <1>12 DEF OnePipe, EscapeAt, TextInv
  <2>2. Inside(p) /\ EndsRight
    BY <1>1, <2>1 DEF Sequenced, Ahead, Passed
  <2>3. Complete(escape) <=> taken \in Ends(p)
    BY <1>2, <2>1, <2>2, CompleteIsEnd
  <2>4. Complete(escape) \/ (~Waiting /\ closed)
    BY <1>1, <2>1 DEF OnePipe
  <2>5. End(p) = taken
    <3>1. /\ End(p) \in p .. Len(typed)
          /\ Ends(p) = {} => End(p) = Len(typed)
          /\ Ends(p) # {} => End(p) \in Ends(p)
          /\ \A j \in Ends(p) : End(p) <= j
      BY <1>2, <2>1, EndIsLeast
    <3>2. Ends(p) # {} => taken <= End(p)
      BY <2>2, <3>1 DEF Inside
    <3>3. CASE Complete(escape)
      <4>1. taken \in Ends(p)
        BY <2>3, <3>3
      <4>2. End(p) <= taken /\ taken <= End(p)
        BY <3>1, <3>2, <4>1
      <4>. QED BY <1>2, <3>1, <4>2
    <3>4. CASE ~Waiting
      <4>1. ~(taken < Len(typed))
        BY <3>4 DEF Waiting
      <4>2. taken = Len(typed)
        <5>1. Len(typed) \in Nat /\ taken \in Nat /\ taken <= Len(typed)
          BY <1>2
        <5>. QED BY ONLY <4>1, <5>1
      <4>. QED BY <1>2, <3>1, <3>2, <4>2
    <3>. QED BY <2>4, <3>3, <3>4
  <2>6. Ends(p)' = Ends(p) /\ End(p)' = End(p) /\ IsArrow(p)' = IsArrow(p)
    BY <1>1 DEF Ends, End, IsArrow
  <2>7. IsArrow(p) = arrow
    BY <1>a, <2>2, <2>5 DEF IsArrow, Inside
  <2>8. OutsideUpTo(p, taken)' = SubSeq(typed, 1, p - 1)
    <3>1. SubSeq(typed, taken + 1, taken) = <<>>
      BY <1>2, SubSeqEmpty
    <3>2. SubSeq(typed, 1, p - 1) \in Seq(Bytes)
      <4>1. p \in 1 .. Len(typed) /\ taken \in p .. Len(typed)
        BY <1>2, <2>1, <2>2 DEF Inside
      <4>. QED BY <1>2, <4>1, FirstPart
    <3>3. OutsideUpTo(p, taken)' = SubSeq(typed, 1, p - 1) \o SubSeq(typed, taken + 1, taken)
      BY <1>1, <2>5, <2>6 DEF OutsideUpTo
    <3>. QED BY <3>1, <3>2, <3>3, ConcatEmptySeq
  <2>9. ~IsArrow(p)' => Wrote(OutsideUpTo(p, taken))'
    <3>. SUFFICES ASSUME ~IsArrow(p)' PROVE Wrote(OutsideUpTo(p, taken))'
      OBVIOUS
    <3>1. UNCHANGED <<buffer, cursor, history, historyPos>>
      BY <1>11, <2>6, <2>7
    <3>2. Wrote(SubSeq(typed, 1, p - 1))
      BY <2>2 DEF Inside
    <3>. QED BY <2>8, <3>1, <3>2 DEF Wrote, Paper
  <2>10. Ends(p)' = {} => closed'
    BY <1>1, <2>3, <2>4, <2>6
  <2>11. End(p)' <= taken'
    BY <1>1, <1>2, <2>5, <2>6
  <2>12. EndsRight'
    BY <1>1, <1>10, <2>2 DEF EndsRight, Inside, Waiting
  <2>. QED BY <1>1, <2>9, <2>10, <2>11, <2>12 DEF Sequenced, Passed
<1>. QED BY <1>7, <1>8, <1>9, <1>12 DEF TextInv

LEMMA EndRead ==
  ASSUME TextInv, driver \in Keyboards, HostKey, ReadEnd
  PROVE  TextInv'
<1>1. /\ escape = <<>> /\ ~Waiting /\ closed
      /\ UNCHANGED <<driver, typed, taken, closed, escape>>
  BY DEF ReadEnd, inVars
<1>2. KeyRead = "EOF"
  BY <1>1 DEF KeyRead, Keyboards
<1>3. UNCHANGED <<buffer, cursor, history, historyPos, armed>>
  BY <1>2 DEF HostKey, Receive, edVars
<1>4. EndsRight'
  BY <1>1 DEF EndsRight, Waiting
<1>5. NoEscape' => Typewritten'
  BY <1>1, <1>3, <1>4 DEF TextInv, NoEscape, Typewritten, Wrote, Paper
<1>6. ASSUME NEW p, OnePipe(p)' PROVE Sequenced(p)'
  <2>1. Sequenced(p)
    BY <1>1, <1>6 DEF TextInv, OnePipe, EscapeAt
  <2>2. Ends(p)' = Ends(p) /\ End(p)' = End(p) /\ IsArrow(p)' = IsArrow(p)
        /\ OutsideUpTo(p, taken)' = OutsideUpTo(p, taken)
    BY <1>1 DEF Ends, End, IsArrow, OutsideUpTo
  <2>3. Ahead(p) => Ahead(p)'
    BY <1>1, <1>3 DEF Ahead, Wrote, Paper
  <2>4. Inside(p) => Inside(p)'
    BY <1>1, <1>3, <2>2 DEF Inside, Wrote, Paper
  <2>5. Passed(p) => Passed(p)'
    BY <1>1, <1>3, <2>2 DEF Passed, Wrote, Paper
  <2>. QED BY <1>4, <2>1, <2>3, <2>4, <2>5 DEF Sequenced
<1>7. EditorInv' /\ BytesOK'
  BY <1>1, <1>3 DEF TextInv, EditorInv, BytesOK
<1>. QED BY <1>5, <1>6, <1>7 DEF TextInv

LEMMA SequenceGoesOn ==
  ASSUME TextInv, driver \in Keyboards, HostEscape
  PROVE  TextInv'
<1>1. /\ UNCHANGED <<driver, typed, closed, running, armed, buffer, cursor, history, historyPos>>
      /\ taken' = taken + 1 /\ taken < Len(typed) /\ running
      /\ \/ escape = <<>> /\ NextByte = "ESC" /\ escape' = <<"ESC">>
         \/ escape # <<>> /\ ~Complete(escape) /\ escape' = Append(escape, NextByte)
  BY DEF HostEscape, StartEscape, EscapeGoesOn, Take, Waiting, edVars, loopVars
<1>2. /\ typed \in Seq(Bytes) /\ Len(typed) \in Nat /\ DOMAIN typed = 1 .. Len(typed)
      /\ taken \in 0 .. Len(typed) /\ taken \in Nat /\ EditorInv
  BY TypedBytes
<1>3. taken + 1 \in 1 .. Len(typed) /\ NextByte = typed[taken + 1]
  BY <1>1, <1>2 DEF NextByte
<1>4. EditorInv' /\ BytesOK'
  BY <1>1, <1>2, <1>3 DEF EditorInv, BytesOK
<1>5. ~NoEscape'
  BY <1>1, <1>2, <1>3 DEF TextInv, NoEscape, Typewritten
<1>6. EndsRight'
  BY <1>1 DEF EndsRight
<1>7. ASSUME NEW p, OnePipe(p)' PROVE Sequenced(p)'
  <2>1. OnePipe(p) /\ Sequenced(p) /\ p \in 1 .. Len(typed) /\ typed[p] = "ESC" /\ EscapeAt(p)
    BY <1>1, <1>2, <1>7 DEF OnePipe, EscapeAt, TextInv
  <2>2. Ends(p)' = Ends(p)
    BY <1>1 DEF Ends
  <2>3. CASE escape = <<>> /\ NextByte = "ESC" /\ escape' = <<"ESC">>
    <3>1. p = taken + 1
      BY <1>2, <1>3, <2>1, <2>3 DEF OnePipe
    <3>2. Ahead(p)
      BY <1>2, <2>1, <2>3, <3>1, CompleteIsEnd, EndIsLeast DEF Sequenced, Passed
    <3>3. SubSeq(typed, p, p) = <<"ESC">>
      <4>1. SubSeq(typed, p, p) = <<typed[p]>> \o SubSeq(typed, p + 1, p)
        BY <1>2, <2>1, SubSeqRecursiveFirst
      <4>2. SubSeq(typed, p + 1, p) = <<>>
        BY <2>1, SubSeqEmpty
      <4>3. <<typed[p]>> \in Seq(Bytes)
        BY <1>2, <2>1, ElementOfSeq
      <4>. QED BY <2>1, <4>1, <4>2, <4>3, ConcatEmptySeq
    <3>4. \A j \in Ends(p) : taken + 1 <= j
      BY <1>2, <3>1 DEF Ends
    <3>5. taken = p - 1
      BY <1>2, <3>1
    <3>6. Inside(p)'
      <4>1. Wrote(SubSeq(typed, 1, p - 1))'
        BY <1>1, <3>2, <3>5 DEF Ahead, Wrote, Paper
      <4>2. escape' = SubSeq(typed', p, taken')
        BY <1>1, <2>3, <3>1, <3>3
      <4>3. p <= taken' /\ ~armed' /\ \A j \in Ends(p)' : taken' <= j
        BY <1>1, <1>2, <2>1, <2>2, <3>1, <3>2, <3>4 DEF Ahead
      <4>. QED BY <4>1, <4>2, <4>3 DEF Inside
    <3>. QED BY <1>6, <3>6 DEF Sequenced
  <2>4. CASE escape # <<>> /\ ~Complete(escape) /\ escape' = Append(escape, NextByte)
    <3>1. Inside(p)
      BY <2>1, <2>4 DEF Sequenced, Ahead, Passed
    <3>2. taken \notin Ends(p)
      BY <1>2, <2>1, <2>4, <3>1, CompleteIsEnd
    <3>3. \A j \in Ends(p) : taken + 1 <= j
      <4>1. \A j \in Ends(p) : j \in Nat
        BY <1>2, <2>1 DEF Ends
      <4>. QED BY <1>2, <3>1, <3>2, <4>1 DEF Inside
    <3>4. SubSeq(typed, p, taken + 1) = Append(SubSeq(typed, p, taken), typed[taken + 1])
      <4>1. taken + 1 \in p .. Len(typed) /\ (taken + 1) - 1 = taken
        BY <1>2, <1>3, <2>1, <3>1 DEF Inside
      <4>2. SubSeq(typed, p, taken + 1) = SubSeq(typed, p, (taken + 1) - 1) \o <<typed[taken + 1]>>
        BY <1>2, <2>1, <4>1, SubSeqRecursiveSecond
      <4>3. SubSeq(typed, p, taken) \in Seq(Bytes) /\ typed[taken + 1] \in Bytes
        <5>1. \A i \in p .. taken : typed[i] \in Bytes
          BY <1>2, <2>1, ElementOfSeq
        <5>. QED BY <1>2, <1>3, <2>1, <5>1, SubSeqProperties, ElementOfSeq
      <4>. QED BY <4>1, <4>2, <4>3, AppendIsConcat
    <3>5. Inside(p)'
      <4>1. Wrote(SubSeq(typed, 1, p - 1))'
        BY <1>1, <3>1 DEF Inside, Wrote, Paper
      <4>2. p <= taken + 1
        BY <1>2, <2>1, <3>1 DEF Inside
      <4>. QED BY <1>1, <1>3, <2>2, <2>4, <3>1, <3>3, <3>4, <4>1, <4>2 DEF Inside
    <3>. QED BY <1>6, <3>5 DEF Sequenced
  <2>. QED BY <1>1, <2>3, <2>4
<1>. QED BY <1>4, <1>5, <1>7 DEF TextInv

(* Bytes typed behind do not change what lies before.                      *)
LEMMA TypedBehind ==
  ASSUME typed \in Seq(Bytes), NEW b \in Bytes, typed' = Append(typed, b)
  PROVE  /\ typed' \in Seq(Bytes) /\ Len(typed') = Len(typed) + 1
         /\ DOMAIN typed' = 1 .. Len(typed) + 1
         /\ \A i \in 1 .. Len(typed) : typed'[i] = typed[i]
         /\ \A m \in 1 .. Len(typed) + 1 : \A n \in 0 .. Len(typed) :
              SubSeq(typed', m, n) = SubSeq(typed, m, n)
<1>1. /\ typed' \in Seq(Bytes) /\ Len(typed') = Len(typed) + 1 /\ Len(typed) \in Nat
      /\ DOMAIN typed' = 1 .. Len(typed) + 1
      /\ \A i \in 1 .. Len(typed) : typed'[i] = typed[i] /\ typed[i] \in Bytes
  BY AppendProperties, LenProperties, ElementOfSeq
<1>2. ASSUME NEW m \in 1 .. Len(typed) + 1, NEW n \in 0 .. Len(typed)
      PROVE  SubSeq(typed', m, n) = SubSeq(typed, m, n)
  <2>. DEFINE t == SubSeq(typed', m, n)
              u == SubSeq(typed, m, n)
  <2>1. \A i \in m .. n : typed[i] \in Bytes /\ typed'[i] = typed[i]
    BY <1>1
  <2>2. /\ t \in Seq(Bytes) /\ Len(t) = IF m <= n THEN n - m + 1 ELSE 0
        /\ \A i \in 1 .. n - m + 1 : t[i] = typed'[m + i - 1]
    BY <1>1, <2>1, SubSeqProperties
  <2>3. /\ u \in Seq(Bytes) /\ Len(u) = IF m <= n THEN n - m + 1 ELSE 0
        /\ \A i \in 1 .. n - m + 1 : u[i] = typed[m + i - 1]
    BY <1>1, <2>1, SubSeqProperties
  <2>. HIDE DEF t, u
  <2>4. ASSUME NEW i \in 1 .. Len(t) PROVE t[i] = u[i]
    <3>1. i \in 1 .. n - m + 1 /\ m + i - 1 \in m .. n
      BY <1>1, <2>2
    <3>. QED BY <2>1, <2>2, <2>3, <3>1
  <2>5. t = u
    BY <2>2, <2>3, <2>4, SeqEqual
  <2>. QED BY <2>5 DEF t, u
<1>. QED BY <1>1, <1>2

LEMMA UserTypes ==
  ASSUME TextInv, driver \in Keyboards, User
  PROVE  TextInv'
<1>1. /\ UNCHANGED <<driver, taken, escape, running, armed, buffer, cursor, history, historyPos>>
      /\ running
      /\ \/ \E b \in Bytes : ~closed /\ typed' = Append(typed, b) /\ closed' = closed
         \/ typed' = typed /\ closed' = TRUE
  BY DEF User, Type, HangUp, Post, Keyboards, edVars, loopVars
<1>2. /\ typed \in Seq(Bytes) /\ Len(typed) \in Nat /\ DOMAIN typed = 1 .. Len(typed)
      /\ taken \in 0 .. Len(typed) /\ taken \in Nat /\ EditorInv
  BY TypedBytes
<1>3. EditorInv' /\ EndsRight'
  BY <1>1, <1>2 DEF EditorInv, EndsRight
<1>4. CASE typed' = typed /\ closed' = TRUE
  <2>1. NoEscape' => Typewritten'
    BY <1>1, <1>3, <1>4 DEF TextInv, NoEscape, Typewritten, Wrote, Paper
  <2>2. ASSUME NEW p, OnePipe(p)' PROVE Sequenced(p)'
    <3>1. Sequenced(p)
      BY <1>1, <1>4, <2>2 DEF TextInv, OnePipe, EscapeAt
    <3>2. Ends(p)' = Ends(p) /\ End(p)' = End(p) /\ IsArrow(p)' = IsArrow(p)
          /\ OutsideUpTo(p, taken)' = OutsideUpTo(p, taken)
      BY <1>1, <1>4 DEF Ends, End, IsArrow, OutsideUpTo
    <3>3. Ahead(p) => Ahead(p)'
      BY <1>1, <1>4 DEF Ahead, Wrote, Paper
    <3>4. Inside(p) => Inside(p)'
      BY <1>1, <1>4, <3>2 DEF Inside, Wrote, Paper
    <3>5. Passed(p) => Passed(p)'
      BY <1>1, <1>4, <3>2 DEF Passed, Wrote, Paper
    <3>. QED BY <1>3, <3>1, <3>3, <3>4, <3>5 DEF Sequenced
  <2>3. BytesOK'
    BY <1>1, <1>2, <1>4 DEF BytesOK
  <2>. QED BY <1>3, <2>1, <2>2, <2>3 DEF TextInv
<1>5. CASE \E b \in Bytes : ~closed /\ typed' = Append(typed, b) /\ closed' = closed
  <2>1. /\ typed' \in Seq(Bytes) /\ Len(typed') = Len(typed) + 1 /\ ~closed
        /\ DOMAIN typed' = 1 .. Len(typed) + 1
        /\ \A i \in 1 .. Len(typed) : typed'[i] = typed[i]
        /\ \A m \in 1 .. Len(typed) + 1 : \A n \in 0 .. Len(typed) :
             SubSeq(typed', m, n) = SubSeq(typed, m, n)
    BY <1>2, <1>5, TypedBehind
  <2>2. BytesOK'
    BY <1>1, <1>2, <2>1 DEF BytesOK
  <2>3. Wrote(SubSeq(typed, 1, taken)) => Wrote(SubSeq(typed, 1, taken))'
    <3>1. SubSeq(typed', 1, taken') = SubSeq(typed, 1, taken)
      BY <1>1, <1>2, <2>1
    <3>. QED BY <1>1, <3>1 DEF Wrote, Paper
  <2>4. ASSUME NoEscape' PROVE Typewritten'
    <3>1. NoEscape
      BY <1>1, <1>2, <2>1, <2>4 DEF NoEscape
    <3>2. Typewritten
      BY <3>1 DEF TextInv
    <3>. QED BY <1>1, <1>3, <2>3, <3>2 DEF Typewritten
  <2>5. ASSUME NEW p, OnePipe(p)' PROVE Sequenced(p)'
    <3>1. /\ driver = "pipe" /\ p \in 1 .. Len(typed) + 1
          /\ \A i \in 1 .. Len(typed) : typed[i] = "ESC" => i = p
          /\ p \in 1 .. Len(typed) => typed[p] = "ESC"
      BY <1>1, <1>2, <2>1, <2>5 DEF OnePipe, EscapeAt
    <3>2. CASE p = Len(typed) + 1
      <4>1. NoEscape
        BY <1>2, <3>1, <3>2 DEF NoEscape
      <4>2. Typewritten /\ taken < p
        BY <1>2, <3>2, <4>1 DEF TextInv
      <4>3. Ahead(p)'
        BY <1>1, <2>3, <4>2 DEF Typewritten, Ahead
      <4>. QED BY <1>3, <4>3 DEF Sequenced
    <3>3. CASE p \in 1 .. Len(typed)
      <4>1. OnePipe(p) /\ Sequenced(p)
        BY <1>2, <3>1, <3>3 DEF OnePipe, EscapeAt, TextInv
      <4>2. /\ End(p) \in p .. Len(typed)
            /\ Ends(p) # {} => End(p) \in Ends(p)
            /\ \A j \in Ends(p) : End(p) <= j
        BY <1>2, <3>3, EndIsLeast
      <4>3. /\ Ends(p) \subseteq Ends(p)'
            /\ \A j \in Ends(p)' : j \in Ends(p) \/ j = Len(typed) + 1
        BY <1>2, <2>1, <3>3 DEF Ends
      <4>4. Ahead(p) => Ahead(p)'
        BY <1>1, <2>3 DEF Ahead
      <4>5. Inside(p) => Inside(p)'
        <5>. SUFFICES ASSUME Inside(p) PROVE Inside(p)'
          OBVIOUS
        <5>1. /\ SubSeq(typed', p, taken) = SubSeq(typed, p, taken)
              /\ SubSeq(typed', 1, p - 1) = SubSeq(typed, 1, p - 1)
          <6>1. p \in 1 .. Len(typed) + 1 /\ 1 \in 1 .. Len(typed) + 1 /\ p - 1 \in 0 .. Len(typed)
            BY <1>2, <3>3
          <6>. QED BY <1>2, <2>1, <6>1
        <5>2. \A j \in Ends(p)' : taken <= j
          BY <1>2, <4>3 DEF Inside
        <5>3. Wrote(SubSeq(typed, 1, p - 1))'
          BY <1>1, <5>1 DEF Inside, Wrote, Paper
        <5>. QED BY <1>1, <5>1, <5>2, <5>3 DEF Inside
      <4>6. Passed(p) => Passed(p)'
        <5>. SUFFICES ASSUME Passed(p) PROVE Passed(p)'
          OBVIOUS
        <5>1. End(p) \in Ends(p) /\ Ends(p)' # {}
          BY <2>1, <4>2, <4>3 DEF Passed
        <5>2. End(p)' = End(p)
          <6>1. /\ End(p)' \in p .. Len(typed) + 1 /\ End(p)' \in Ends(p)'
                /\ \A j \in Ends(p)' : End(p)' <= j
            <7>1. Ends(p)' \in SUBSET Nat /\ \A j \in Ends(p)' : j \in p .. Len(typed) + 1
              BY <1>2, <3>3, <4>3 DEF Ends
            <7>2. Min(Ends(p)') \in Ends(p)' /\ \A j \in Ends(p)' : Min(Ends(p)') <= j
              BY <5>1, <7>1, MinIsLeast
            <7>3. End(p)' = Min(Ends(p)')
              BY <5>1 DEF End
            <7>. QED BY <7>1, <7>2, <7>3
          <6>2. End(p)' <= End(p)
            BY <4>3, <5>1, <6>1
          <6>3. End(p)' \in Ends(p)
            BY <1>2, <4>2, <4>3, <6>1, <6>2
          <6>4. End(p) <= End(p)'
            BY <4>2, <6>3
          <6>. QED BY <4>2, <6>1, <6>2, <6>4
        <5>3. /\ SubSeq(typed', p, End(p)) = SubSeq(typed, p, End(p))
              /\ SubSeq(typed', 1, p - 1) = SubSeq(typed, 1, p - 1)
              /\ SubSeq(typed', End(p) + 1, taken) = SubSeq(typed, End(p) + 1, taken)
          <6>1. /\ p \in 1 .. Len(typed) + 1 /\ 1 \in 1 .. Len(typed) + 1 /\ p - 1 \in 0 .. Len(typed)
                /\ End(p) \in 0 .. Len(typed) /\ End(p) + 1 \in 1 .. Len(typed) + 1
            BY <1>2, <3>3, <4>2
          <6>. QED BY <1>2, <2>1, <6>1
        <5>4. IsArrow(p)' = IsArrow(p)
          BY <5>2, <5>3 DEF IsArrow
        <5>5. OutsideUpTo(p, taken)' = OutsideUpTo(p, taken)
          BY <1>1, <5>2, <5>3 DEF OutsideUpTo
        <5>6. ~IsArrow(p)' => Wrote(OutsideUpTo(p, taken))'
          BY <1>1, <5>4, <5>5 DEF Passed, Wrote, Paper
        <5>. QED BY <1>1, <5>1, <5>2, <5>6 DEF Passed
      <4>. QED BY <1>3, <4>1, <4>4, <4>5, <4>6 DEF Sequenced
    <3>. QED BY <1>2, <3>1, <3>2, <3>3
  <2>. QED BY <1>3, <2>2, <2>4, <2>5 DEF TextInv
<1>. QED BY <1>1, <1>4, <1>5

(* Behind every other driver there are no bytes. *)
LEMMA TextStep == TextInv /\ [LoopNext]_uiVars => TextInv'
<1>. SUFFICES ASSUME TextInv, [LoopNext]_uiVars PROVE TextInv'
  OBVIOUS
<1>1. CASE driver \notin Keyboards
  <2>1. driver' = driver
    <3>1. CASE HostKey \/ HostEscape
      BY <3>1 DEF HostKey, HostEscape, ReadKey, ReadByte, StartEscape, EscapeGoesOn, EndEscape, Take,
         ReadEnd, ReadEvent, inVars
    <3>2. CASE Draw \/ BatchLine \/ BatchEnd \/ ButtonKey \/ ButtonIdle \/ BoardKey \/ World
      BY <3>2 DEF Draw, BatchLine, BatchEnd, ButtonKey, ButtonIdle, BoardKey, World, Respond, inVars
    <3>3. CASE User
      BY <3>3 DEF User, Type, HangUp, Post
    <3>4. CASE UNCHANGED uiVars
      BY <3>4 DEF uiVars, inVars
    <3>. QED BY <3>1, <3>2, <3>3, <3>4 DEF LoopNext, Program
  <2>2. EditorInv'
    <3>1. EditorInv
      BY DEF TextInv
    <3>2. ASSUME NEW k, Handle(k) PROVE EditorInv'
      BY <3>1, <3>2, HandleStep
    <3>3. CASE UNCHANGED <<buffer, cursor, history, historyPos>>
      BY <3>1, <3>3 DEF EditorInv
    <3>. QED BY <3>2, <3>3, LoopStepsEditor
  <2>. QED BY <1>1, <2>1, <2>2 DEF TextInv, BytesOK, NoEscape, OnePipe, Keyboards
<1>2. CASE driver \in Keyboards
  <2>1. CASE HostKey
    <3>1. ~ReadEvent
      BY <1>2 DEF ReadEvent, Keyboards
    <3>. QED BY <1>2, <2>1, <3>1, ByteRead, SequenceRead, EndRead DEF HostKey, ReadKey
  <2>2. CASE HostEscape
    BY <1>2, <2>2, SequenceGoesOn
  <2>3. CASE User
    BY <1>2, <2>3, UserTypes
  <2>4. CASE Draw \/ UNCHANGED uiVars
    <3>1. UNCHANGED <<buffer, cursor, history, historyPos, driver, typed, taken, closed, escape,
                      running, armed>>
      BY <2>4 DEF Draw, uiVars, edVars, inVars, loopVars
    <3>2. EditorInv' /\ BytesOK' /\ (NoEscape' => Typewritten')
      BY <3>1 DEF TextInv, EditorInv, BytesOK, NoEscape, Typewritten, Wrote, Paper, EndsRight, Waiting
    <3>3. ASSUME NEW p, OnePipe(p)' PROVE Sequenced(p)'
      <4>1. Sequenced(p)
        BY <3>1, <3>3 DEF TextInv, OnePipe, EscapeAt
      <4>2. Ends(p)' = Ends(p) /\ End(p)' = End(p) /\ IsArrow(p)' = IsArrow(p)
            /\ OutsideUpTo(p, taken)' = OutsideUpTo(p, taken)
        BY <3>1 DEF Ends, End, IsArrow, OutsideUpTo
      <4>3. (Ahead(p) => Ahead(p)') /\ (EndsRight => EndsRight')
        BY <3>1 DEF Ahead, Wrote, Paper, EndsRight, Waiting
      <4>4. Inside(p) => Inside(p)'
        BY <3>1, <4>2 DEF Inside, Wrote, Paper
      <4>5. Passed(p) => Passed(p)'
        BY <3>1, <4>2 DEF Passed, Wrote, Paper
      <4>. QED BY <4>1, <4>3, <4>4, <4>5 DEF Sequenced
    <3>. QED BY <3>2, <3>3 DEF TextInv
  <2>5. ~(BatchLine \/ BatchEnd \/ ButtonKey \/ ButtonIdle \/ BoardKey \/ World)
    BY <1>2 DEF Keyboards, BatchLine, BatchEnd, ButtonKey, ButtonIdle, BoardKey, World
  <2>. QED BY <2>1, <2>2, <2>3, <2>4, <2>5 DEF LoopNext, Program
<1>. QED BY <1>1, <1>2

LEMMA WroteHolds ==
  ASSUME NEW bytes, Wrote(bytes)
  PROVE  Holds(Written(bytes))
BY DEF Wrote, Paper, Holds

LEMMA TextInvSays == TextInv => TextArrives
<1>. SUFFICES ASSUME TextInv PROVE TextArrives
  OBVIOUS
<1>. DEFINE escs == {i \in DOMAIN typed : typed[i] = "ESC"}
<1>1. ASSUME driver \in Keyboards, escs = {}
      PROVE  /\ Holds(Written(SubSeq(typed, 1, taken)))
             /\ ~running => closed /\ ~Waiting
  <2>1. Typewritten
    BY <1>1 DEF TextInv, NoEscape
  <2>. QED BY <2>1, WroteHolds DEF Typewritten, EndsRight
<1>2. ASSUME NEW p \in escs, driver = "pipe", escs = {p}
      PROVE  /\ ~IsArrow(p) => Holds(Written(Outside(p)))
             /\ ~running => closed /\ ~Waiting
  <2>1. /\ typed \in Seq(Bytes) /\ DOMAIN typed = 1 .. Len(typed) /\ Len(typed) \in Nat
        /\ taken \in 0 .. Len(typed)
    BY <1>2, TypedBytes DEF Keyboards
  <2>2. p \in 1 .. Len(typed) /\ OnePipe(p) /\ EscapeAt(p)
    <3>1. \A i \in DOMAIN typed : typed[i] = "ESC" => i \in escs
      OBVIOUS
    <3>2. p \in DOMAIN typed /\ typed[p] = "ESC"
      OBVIOUS
    <3>. HIDE DEF escs
    <3>. QED BY <1>2, <2>1, <3>1, <3>2 DEF OnePipe, EscapeAt
  <2>3. Sequenced(p)
    BY <2>2 DEF TextInv
  <2>4. ASSUME ~IsArrow(p) PROVE Wrote(Outside(p))
    <3>1. CASE Ahead(p)
      BY <2>1, <2>2, <3>1, OutsideAhead DEF Ahead
    <3>2. CASE Inside(p)
      <4>1. taken \in p .. Len(typed)
        BY <2>1, <2>2, <3>2 DEF Inside
      <4>2. taken <= End(p)
        BY <2>1, <2>2, <3>2, EndIsLeast DEF Inside
      <4>. QED BY <2>1, <2>2, <3>2, <4>1, <4>2, OutsideInside DEF Inside
    <3>3. CASE Passed(p)
      <4>1. taken \in p .. Len(typed)
        BY <2>1, <2>2, <3>3, EndIsLeast DEF Passed
      <4>2. Outside(p) = OutsideUpTo(p, taken)
        BY <2>1, <2>2, <4>1, FirstPart DEF OutsideUpTo
      <4>. QED BY <2>4, <3>3, <4>2 DEF Passed
    <3>. QED BY <2>3, <3>1, <3>2, <3>3 DEF Sequenced
  <2>. QED BY <2>3, <2>4, WroteHolds DEF Sequenced, EndsRight
<1>. QED BY <1>1, <1>2 DEF TextArrives

(* What is typed arrives: for every editor, every parser and every number  *)
(* of bytes, on a terminal without ESC and on a pipe with one, however the *)
(* reading and the typing interleave (host_input.c:202-288,                *)
(* main_host.c:140-160).                                                   *)
THEOREM TextAlwaysArrives == LoopSpec => []TextArrives
<1>1. LoopInit => TextInv
  BY TextStarts
<1>2. TextInv /\ [LoopNext]_uiVars => TextInv'
  BY TextStep
<1>3. TextInv => TextArrives
  BY TextInvSays
<1>. QED
  BY <1>1, <1>2, <1>3, PTL DEF LoopSpec
================================================================================
