---------------------------- MODULE BoundedFifo ----------------------------
(***************************************************************************)
(* What the ring buffer of S3/queue.c promises its callers: a first-in     *)
(* first-out list of at most Capacity items, whose insertion is refused    *)
(* only when the list is full and whose removal fails only when it is      *)
(* empty.  rv is the result of the last call, out the item it returned.    *)
(***************************************************************************)
EXTENDS Integers, Sequences

CONSTANTS Items,     \* the queue items (function, recur, next, name)
          NoItem,    \* no item returned
          Capacity   \* how many items the list may hold

VARIABLES fifo, rv, out

vars == <<fifo, rv, out>>

Init ==
  /\ fifo = << >>
  /\ rv = 0
  /\ out = NoItem

Insert(item) ==
  /\ Len(fifo) < Capacity
  /\ fifo' = Append(fifo, item)
  /\ rv' = 0
  /\ out' = NoItem

RefuseInsert ==
  /\ Len(fifo) = Capacity
  /\ rv' = -1
  /\ out' = NoItem
  /\ UNCHANGED fifo

Take ==
  /\ fifo # << >>
  /\ out' = Head(fifo)
  /\ fifo' = Tail(fifo)
  /\ rv' = 0

RefuseTake ==
  /\ fifo = << >>
  /\ rv' = -1
  /\ out' = NoItem
  /\ UNCHANGED fifo

Next ==
  \/ \E item \in Items : Insert(item)
  \/ RefuseInsert
  \/ Take
  \/ RefuseTake

Spec == Init /\ [][Next]_vars
=============================================================================
