----------------------------- MODULE TaskRing -----------------------------
(***************************************************************************)
(* The ring buffer under the scheduler of S3/queue.c: the three counters   *)
(* queueStart, queueEnd and itemsInQueue, the array scheduleQueue, and the *)
(* two functions that touch them, internalScheduleFunction and             *)
(* scheduleQueueGetTop.  Nothing else in the file reads or writes the ring,*)
(* and the interrupt routine does not, so each call is one step.           *)
(*                                                                         *)
(* One slot always stays free: the ring is full when advancing queueEnd    *)
(* would reach queueStart.  itemsInQueue, which bounds every loop of the   *)
(* scheduler, is kept beside the two indices and never recomputed.         *)
(***************************************************************************)
EXTENDS Integers, Sequences

CONSTANTS Depth,    \* QUEUE_DEPTH
          Items,    \* the possible queue items
          NoItem    \* the zeroed memory of a slot never written

ASSUME DepthAssumption == Depth \in Nat /\ Depth >= 2
ASSUME NoItemAssumption == NoItem \notin Items

VARIABLES
  queueStart,       \* index of the oldest item
  queueEnd,         \* index of the slot the next item goes to
  itemsInQueue,     \* how many items the ring holds
  scheduleQueue,    \* the array
  rv, out           \* result code and item of the last call

ringVars == <<queueStart, queueEnd, itemsInQueue, scheduleQueue, rv, out>>

Positions == 0 .. Depth - 1

(* The index after k, as (k + 1) % QUEUE_DEPTH (for the mutation runs: one   *)
(* slot is never used).                                                      *)
ShortAdvance(k) == (k + 1) % (Depth - 1)

Advance(k) == (k + 1) % Depth

RingInit ==
  /\ queueStart = 0
  /\ queueEnd = 0
  /\ itemsInQueue = 0
  /\ scheduleQueue = [k \in Positions |-> NoItem]
  /\ rv = 0
  /\ out = NoItem

(* The ring is full (for the mutation runs: one item too early).             *)
FullEarly == Advance(Advance(queueEnd)) = queueStart

Full == Advance(queueEnd) = queueStart

internalScheduleFunction(item) ==
  /\ out' = NoItem
  /\ UNCHANGED queueStart
  /\ \/ /\ ~Full
        /\ scheduleQueue' = [scheduleQueue EXCEPT ![queueEnd] = item]
        /\ queueEnd' = Advance(queueEnd)
        /\ itemsInQueue' = itemsInQueue + 1
        /\ rv' = 0
     \/ /\ Full
        /\ rv' = -1
        /\ UNCHANGED <<scheduleQueue, queueEnd, itemsInQueue>>

scheduleQueueGetTop ==
  /\ UNCHANGED <<scheduleQueue, queueEnd>>
  /\ \/ /\ queueEnd # queueStart
        /\ out' = scheduleQueue[queueStart]
        /\ queueStart' = Advance(queueStart)
        /\ itemsInQueue' = itemsInQueue - 1
        /\ rv' = 0
     \/ /\ queueEnd = queueStart
        /\ rv' = -1
        /\ out' = NoItem
        /\ UNCHANGED <<queueStart, itemsInQueue>>

RingNext ==
  \/ \E item \in Items : internalScheduleFunction(item)
  \/ scheduleQueueGetTop

RingSpec == RingInit /\ [][RingNext]_ringVars

-----------------------------------------------------------------------------
(* Where item number k (from 1, the oldest) of the ring is stored. *)
SlotOf(k) == IF queueStart + k <= Depth THEN queueStart + k - 1
                                      ELSE queueStart + k - 1 - Depth

(* The variables hold values of their C types within the array's bounds. *)
RingTypeOK ==
  /\ queueStart \in Positions
  /\ queueEnd \in Positions
  /\ itemsInQueue \in 0 .. Depth - 1
  /\ scheduleQueue \in [Positions -> Items \cup {NoItem}]
  /\ rv \in {-1, 0}
  /\ out \in Items \cup {NoItem}

(* The counter that bounds the loops of scheduleRun, scheduleChangeFunction *)
(* and scheduleRemoveFunction agrees with the two indices: a loop that sees *)
(* i < itemsInQueue always finds an item, so their "rv = -1; break" is never*)
(* reached.                                                                 *)
CountMatchesIndices ==
  queueEnd = IF queueStart + itemsInQueue < Depth
             THEN queueStart + itemsInQueue
             ELSE queueStart + itemsInQueue - Depth

(* Every live slot holds an item that was inserted, never zeroed memory     *)
(* (whose function pointer scheduleRun would call).                         *)
LiveSlotsFilled == \A k \in 1 .. itemsInQueue : scheduleQueue[SlotOf(k)] \in Items

(* The three together, which holds after every sequence of insertions and   *)
(* removals, however often the indices have gone round.                     *)
RingInv == RingTypeOK /\ CountMatchesIndices /\ LiveSlotsFilled

(* The ring implements the bounded list: oldest item first, capacity one    *)
(* less than the array, refusal exactly when full or empty.                 *)
List == [k \in 1 .. itemsInQueue |-> scheduleQueue[SlotOf(k)]]

Fifo == INSTANCE BoundedFifo WITH fifo <- List, Capacity <- Depth - 1

ImplementsFifo == Fifo!Spec
=============================================================================
