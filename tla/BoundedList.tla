------------------------------ MODULE BoundedList ------------------------------
(***************************************************************************)
(* What the lists of Kernel/State promise.  A history has the latest       *)
(* entries, the newest first, as many as it has room for.  From a queue    *)
(* elements leave in the order they came, and none is accepted beyond its  *)
(* room.                                                                   *)
(***************************************************************************)
EXTENDS Naturals, Sequences

CONSTANTS Elements, Room

VARIABLE items

Init == items = <<>>

Empty == items' = <<>>

Kept(e) ==
  LET all == <<e>> \o items
  IN  SubSeq(all, 1, IF Len(all) < Room THEN Len(all) ELSE Room)

Add == \E e \in Elements : items' = Kept(e)

Accept == Len(items) < Room /\ \E e \in Elements : items' = Append(items, e)

Serve == items # <<>> /\ items' = Tail(items)

HistoryNext == Add \/ Empty

QueueNext == Accept \/ Serve \/ Empty

HistorySpec == Init /\ [][HistoryNext]_items

QueueSpec == Init /\ [][QueueNext]_items
===============================================================================
