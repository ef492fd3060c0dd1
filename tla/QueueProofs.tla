----------------------------- MODULE QueueProofs -----------------------------
(***************************************************************************)
(* Theorems about S3/queue.c.                                              *)
(*                                                                         *)
(* The ring buffer is right for every depth and every set of items: its    *)
(* counter and indices stay consistent (RingInv is inductive as it stands) *)
(* and it implements the bounded first-in first-out list.                  *)
(*                                                                         *)
(* The scheduler is type correct for every set of names, every capacity    *)
(* and every width of queue_time_t: the loop counters never pass the       *)
(* number of items, the queue never exceeds the ring, and every time in it *)
(* is a value of queue_time_t.  A change leaves the order of the queue as   *)
(* it was, and with one item per name the loops over the ring are single   *)
(* steps on a table of tasks (TaskTable).                                  *)
(***************************************************************************)
EXTENDS TaskScheduler, TaskRing, SequenceTheorems, FiniteSetTheorems, TLAPS

(* What (k + 1) % QUEUE_DEPTH is for an index of the array: the remainder  *)
(* the code computes only ever wraps the last slot to the first.           *)
LEMMA AdvanceWraps ==
  ASSUME NEW k \in Positions
  PROVE  /\ Advance(k) \in Positions
         /\ Advance(k) = IF k + 1 = Depth THEN 0 ELSE k + 1
  BY DepthAssumption DEF Positions, Advance

(* The two indices coincide exactly when the counter says the ring is empty,*)
(* and one more insertion would make them coincide exactly when it says the *)
(* ring is full.                                                            *)
LEMMA EmptyAndFull ==
  ASSUME RingTypeOK, CountMatchesIndices
  PROVE  /\ queueEnd = queueStart <=> itemsInQueue = 0
         /\ Advance(queueEnd) = queueStart <=> itemsInQueue = Depth - 1
  BY DepthAssumption, AdvanceWraps DEF RingTypeOK, CountMatchesIndices, Positions

(* The slots of the stored items are distinct indices of the array, and the *)
(* next item goes into the slot behind the last of them.                    *)
LEMMA SlotFacts ==
  ASSUME RingTypeOK, CountMatchesIndices
  PROVE  /\ \A k \in 1 .. itemsInQueue :
              SlotOf(k) \in Positions /\ (itemsInQueue < Depth - 1 => SlotOf(k) # queueEnd)
         /\ itemsInQueue < Depth - 1 => SlotOf(itemsInQueue + 1) = queueEnd
<1>1. /\ Depth \in Nat /\ Depth >= 2 /\ queueStart \in Nat /\ queueStart < Depth
      /\ itemsInQueue \in Nat /\ itemsInQueue <= Depth - 1
  BY DepthAssumption DEF RingTypeOK, Positions
<1>2. ASSUME NEW k \in 1 .. itemsInQueue
      PROVE  SlotOf(k) \in Positions /\ (itemsInQueue < Depth - 1 => SlotOf(k) # queueEnd)
  <2>1. k \in Nat /\ 1 <= k /\ k <= itemsInQueue
    BY <1>1
  <2>2. CASE queueStart + k <= Depth
    BY <1>1, <2>1, <2>2 DEF SlotOf, Positions, CountMatchesIndices
  <2>3. CASE queueStart + k > Depth
    BY <1>1, <2>1, <2>3 DEF SlotOf, Positions, CountMatchesIndices
  <2>4. QED BY <1>1, <2>1, <2>2, <2>3
<1>3. itemsInQueue < Depth - 1 => SlotOf(itemsInQueue + 1) = queueEnd
  BY <1>1 DEF SlotOf, CountMatchesIndices
<1>4. QED BY <1>2, <1>3

(* Taking the oldest item shifts the slots by one.                          *)
LEMMA SlotShift ==
  ASSUME RingTypeOK, itemsInQueue > 0,
         queueStart' = Advance(queueStart), itemsInQueue' = itemsInQueue - 1
  PROVE  \A k \in 1 .. itemsInQueue - 1 : SlotOf(k)' = SlotOf(k + 1)
<1>1. /\ Depth \in Nat /\ Depth >= 2 /\ queueStart \in Nat /\ queueStart < Depth
      /\ itemsInQueue \in Nat /\ itemsInQueue <= Depth - 1
  BY DepthAssumption DEF RingTypeOK, Positions
<1>2. queueStart' = IF queueStart + 1 = Depth THEN 0 ELSE queueStart + 1
  BY AdvanceWraps DEF RingTypeOK
<1>3. SUFFICES ASSUME NEW k \in 1 .. itemsInQueue - 1
               PROVE  SlotOf(k)' = SlotOf(k + 1)
  OBVIOUS
<1>4. k \in Nat /\ 1 <= k /\ k + 1 <= itemsInQueue
  BY <1>1
<1>5. CASE queueStart + 1 = Depth
  BY <1>1, <1>2, <1>4, <1>5 DEF SlotOf
<1>6. CASE queueStart + 1 # Depth
  <2>1. queueStart' = queueStart + 1
    BY <1>2, <1>6
  <2>2. CASE queueStart + 1 + k <= Depth
    BY <1>1, <1>4, <2>1, <2>2 DEF SlotOf
  <2>3. CASE queueStart + 1 + k > Depth
    BY <1>1, <1>4, <2>1, <2>3 DEF SlotOf
  <2>4. QED BY <1>1, <1>4, <2>2, <2>3
<1>7. QED BY <1>5, <1>6

(* Every step keeps the ring consistent, under the names of the C functions.*)
LEMMA StepKeepsRing ==
  ASSUME RingInv, [RingNext]_ringVars
  PROVE  RingInv'
<1> USE DEF RingInv
<1>1. ASSUME NEW item \in Items, internalScheduleFunction(item)
      PROVE  RingInv'
  <2>1. CASE Advance(queueEnd) # queueStart
    <3>1. itemsInQueue < Depth - 1
      BY <2>1, EmptyAndFull, DepthAssumption DEF RingTypeOK
    <3>2. /\ scheduleQueue' = [scheduleQueue EXCEPT ![queueEnd] = item]
          /\ queueEnd' = Advance(queueEnd)
          /\ itemsInQueue' = itemsInQueue + 1
          /\ queueStart' = queueStart
          /\ rv' = 0 /\ out' = NoItem
      BY <1>1, <2>1 DEF internalScheduleFunction, Full
    <3>3. RingTypeOK'
      BY <3>1, <3>2, AdvanceWraps, DepthAssumption DEF RingTypeOK, Positions
    <3>4. CountMatchesIndices'
      BY <3>1, <3>2, AdvanceWraps, DepthAssumption
      DEF RingTypeOK, CountMatchesIndices, Positions
    <3>5. \A k \in 1 .. itemsInQueue + 1 :
            SlotOf(k)' = SlotOf(k) /\ (k \in 1 .. itemsInQueue \/ k = itemsInQueue + 1)
      BY <3>2 DEF SlotOf, RingTypeOK
    <3>6. LiveSlotsFilled'
      BY <3>1, <3>2, <3>5, SlotFacts DEF RingTypeOK, LiveSlotsFilled
    <3>7. QED BY <3>3, <3>4, <3>6
  <2>2. CASE Advance(queueEnd) = queueStart
    BY <1>1, <2>2
    DEF internalScheduleFunction, Full, RingTypeOK, CountMatchesIndices, LiveSlotsFilled, SlotOf, Positions
  <2>3. QED BY <2>1, <2>2
<1>2. CASE scheduleQueueGetTop
  <2>1. CASE queueEnd # queueStart
    <3>1. itemsInQueue > 0
      BY <2>1, EmptyAndFull DEF RingTypeOK
    <3>2. /\ out' = scheduleQueue[queueStart]
          /\ queueStart' = Advance(queueStart)
          /\ itemsInQueue' = itemsInQueue - 1
          /\ queueEnd' = queueEnd /\ scheduleQueue' = scheduleQueue
          /\ rv' = 0
      BY <1>2, <2>1 DEF scheduleQueueGetTop
    <3>3. RingTypeOK'
      BY <3>1, <3>2, AdvanceWraps, DepthAssumption DEF RingTypeOK, Positions
    <3>4. queueStart' = IF queueStart + 1 = Depth THEN 0 ELSE queueStart + 1
      BY <3>2, AdvanceWraps DEF RingTypeOK
    <3>5. CountMatchesIndices'
      BY <3>1, <3>2, <3>4, DepthAssumption DEF RingTypeOK, CountMatchesIndices, Positions
    <3>6. \A k \in 1 .. itemsInQueue' : k + 1 \in 1 .. itemsInQueue /\ SlotOf(k)' = SlotOf(k + 1)
      BY <3>1, <3>2, SlotShift DEF RingTypeOK
    <3>7. LiveSlotsFilled'
      BY <3>2, <3>6 DEF LiveSlotsFilled
    <3>8. QED BY <3>3, <3>5, <3>7
  <2>2. CASE queueEnd = queueStart
    BY <1>2, <2>2
    DEF scheduleQueueGetTop, RingTypeOK, CountMatchesIndices, LiveSlotsFilled, SlotOf, Positions
  <2>3. QED BY <2>1, <2>2
<1>3. CASE UNCHANGED ringVars
  BY <1>3 DEF ringVars, RingTypeOK, CountMatchesIndices, LiveSlotsFilled, SlotOf, Positions
<1>4. QED BY <1>1, <1>2, <1>3 DEF RingNext

(* The ring of S3/queue.c is consistent in every reachable state.          *)
THEOREM RingStaysConsistent == RingSpec => []RingInv
<1>1. RingInit => RingInv
  BY DepthAssumption
  DEF RingInit, RingInv, RingTypeOK, CountMatchesIndices, LiveSlotsFilled, Positions
<1>2. RingInv /\ [RingNext]_ringVars => RingInv'
  BY StepKeepsRing
<1>3. QED BY <1>1, <1>2, PTL DEF RingSpec

(* queueStart, queueEnd, itemsInQueue and the array keep their ranges: no   *)
(* index ever leaves the array and the counter never exceeds QUEUE_DEPTH-1. *)
THEOREM RingTypeCorrect == RingSpec => []RingTypeOK
<1>1. RingInv => RingTypeOK
  BY DEF RingInv
<1>2. QED BY <1>1, RingStaysConsistent, PTL

(* itemsInQueue always agrees with the indices, so that a loop bounded by   *)
(* it never takes from an empty ring.                                       *)
THEOREM CounterAgrees == RingSpec => []CountMatchesIndices
<1>1. RingInv => CountMatchesIndices
  BY DEF RingInv
<1>2. QED BY <1>1, RingStaysConsistent, PTL

(* The scheduler never gets an item nobody inserted out of the ring.        *)
THEOREM NeverHandsOutGarbage == RingSpec => []LiveSlotsFilled
<1>1. RingInv => LiveSlotsFilled
  BY DEF RingInv
<1>2. QED BY <1>1, RingStaysConsistent, PTL

-----------------------------------------------------------------------------
(* The ring's contents, oldest first, form a sequence of items.            *)
LEMMA ListIsSequence ==
  ASSUME RingInv
  PROVE  List \in Seq(Items) /\ Len(List) = itemsInQueue
  BY DEF RingInv, RingTypeOK, LiveSlotsFilled, List

(* internalScheduleFunction appends to the list, or refuses when it holds   *)
(* Depth - 1 items.                                                         *)
LEMMA InsertAppends ==
  ASSUME RingInv, NEW item \in Items, internalScheduleFunction(item)
  PROVE  Fifo!Insert(item) \/ Fifo!RefuseInsert
<1>1. Len(List) = itemsInQueue /\ List \in Seq(Items)
  BY ListIsSequence
<1> USE DEF RingInv
<1>2. CASE Advance(queueEnd) # queueStart
  <2>1. itemsInQueue < Depth - 1
    BY <1>2, EmptyAndFull, DepthAssumption DEF RingTypeOK
  <2>2. /\ scheduleQueue' = [scheduleQueue EXCEPT ![queueEnd] = item]
        /\ itemsInQueue' = itemsInQueue + 1
        /\ queueStart' = queueStart
        /\ rv' = 0 /\ out' = NoItem
    BY <1>2 DEF internalScheduleFunction, Full
  <2>0. \A k : SlotOf(k)' = SlotOf(k)
    BY <2>2 DEF SlotOf
  <2>3. \A k \in 1 .. itemsInQueue : scheduleQueue'[SlotOf(k)'] = scheduleQueue[SlotOf(k)]
    BY <2>0, <2>1, <2>2, SlotFacts DEF RingTypeOK
  <2>4. \A k \in Nat : k = itemsInQueue + 1 => scheduleQueue'[SlotOf(k)'] = item
    BY <2>0, <2>1, <2>2, SlotFacts DEF RingTypeOK
  <2>5. List' = Append(List, item)
    <3>1. List' = [k \in 1 .. itemsInQueue + 1 |-> scheduleQueue'[SlotOf(k)']]
      BY <2>2 DEF List
    <3>2. \A k \in 1 .. itemsInQueue + 1 :
            k \in Nat /\ (k = itemsInQueue + 1 \/ k \in 1 .. itemsInQueue)
      BY DEF RingTypeOK
    <3>3. \A k \in 1 .. itemsInQueue + 1 : List'[k] \in Items
      BY <1>1, <2>3, <2>4, <3>1, <3>2 DEF LiveSlotsFilled
    <3>4. List' \in Seq(Items) /\ Len(List') = itemsInQueue + 1
      BY <3>1, <3>3 DEF RingTypeOK
    <3>5. /\ Append(List, item) \in Seq(Items)
          /\ Len(Append(List, item)) = itemsInQueue + 1
          /\ \A k \in 1 .. itemsInQueue : Append(List, item)[k] = List[k]
          /\ Append(List, item)[itemsInQueue + 1] = item
      BY <1>1, AppendProperties
    <3>6. \A k \in 1 .. itemsInQueue + 1 : List'[k] = Append(List, item)[k]
      BY <2>3, <2>4, <3>1, <3>2, <3>5 DEF List
    <3>7. QED BY <3>4, <3>5, <3>6, SeqEqual
  <2>6. QED BY <1>1, <2>1, <2>2, <2>5 DEF Fifo!Insert
<1>3. CASE Advance(queueEnd) = queueStart
  <2>1. itemsInQueue = Depth - 1
    BY <1>3, EmptyAndFull
  <2>2. /\ UNCHANGED <<queueStart, scheduleQueue, itemsInQueue>>
        /\ rv' = -1 /\ out' = NoItem
    BY <1>3 DEF internalScheduleFunction, Full
  <2>3. List' = List
    BY <2>2 DEF List, SlotOf
  <2>4. QED BY <1>1, <2>1, <2>2, <2>3 DEF Fifo!RefuseInsert
<1>4. QED BY <1>2, <1>3

(* scheduleQueueGetTop hands out the head of the list, or fails when the    *)
(* list is empty.                                                           *)
LEMMA GetTopTakes ==
  ASSUME RingInv, scheduleQueueGetTop
  PROVE  Fifo!Take \/ Fifo!RefuseTake
<1>1. Len(List) = itemsInQueue /\ List \in Seq(Items)
  BY ListIsSequence
<1> USE DEF RingInv
<1>2. CASE queueEnd # queueStart
  <2>1. itemsInQueue > 0
    BY <1>2, EmptyAndFull DEF RingTypeOK
  <2>2. /\ out' = scheduleQueue[queueStart]
        /\ queueStart' = Advance(queueStart)
        /\ itemsInQueue' = itemsInQueue - 1
        /\ scheduleQueue' = scheduleQueue
        /\ rv' = 0
    BY <1>2 DEF scheduleQueueGetTop
  <2>3. out' = Head(List) /\ List # << >>
    <3>1. List # << >> /\ Head(List) = List[1]
      BY <1>1, <2>1 DEF RingTypeOK
    <3>2. 1 \in 1 .. itemsInQueue /\ SlotOf(1) = queueStart
      BY <2>1, DepthAssumption DEF RingTypeOK, SlotOf, Positions
    <3>3. QED BY <2>2, <3>1, <3>2 DEF List
  <2>4. \A k \in 1 .. itemsInQueue - 1 : SlotOf(k)' = SlotOf(k + 1)
    BY <2>1, <2>2, SlotShift
  <2>5. List' = Tail(List)
    <3>1. List' = [k \in 1 .. itemsInQueue - 1 |-> scheduleQueue[SlotOf(k)']]
      BY <2>2 DEF List
    <3>2. \A k \in 1 .. itemsInQueue - 1 : k + 1 \in 1 .. itemsInQueue
      BY DEF RingTypeOK
    <3>3. \A k \in 1 .. itemsInQueue - 1 : List'[k] = List[k + 1]
      BY <2>4, <3>1, <3>2 DEF List
    <3>4. List' \in Seq(Items) /\ Len(List') = itemsInQueue - 1
      BY <1>1, <2>1, <3>1, <3>2, <3>3 DEF RingTypeOK
    <3>5. /\ Tail(List) \in Seq(Items)
          /\ Len(Tail(List)) = itemsInQueue - 1
          /\ \A k \in 1 .. itemsInQueue - 1 : Tail(List)[k] = List[k + 1]
      BY <1>1, <2>3, HeadTailProperties
    <3>6. QED BY <3>3, <3>4, <3>5, SeqEqual
  <2>6. QED BY <2>2, <2>3, <2>5 DEF Fifo!Take
<1>3. CASE queueEnd = queueStart
  <2>1. itemsInQueue = 0
    BY <1>3, EmptyAndFull
  <2>2. /\ UNCHANGED <<queueStart, scheduleQueue, itemsInQueue>>
        /\ rv' = -1 /\ out' = NoItem
    BY <1>3 DEF scheduleQueueGetTop
  <2>3. List' = List
    BY <2>2 DEF List, SlotOf
  <2>4. QED BY <1>1, <2>1, <2>2, <2>3 DEF Fifo!RefuseTake
<1>4. QED BY <1>2, <1>3

(* For every depth and every set of items, the ring buffer with its three   *)
(* counters behaves as the bounded first-in first-out list its callers use. *)
THEOREM RingImplementsFifo == RingSpec => ImplementsFifo
<1>1. RingInit => Fifo!Init
  BY DEF RingInit, Fifo!Init, List
<1>2. RingInv /\ [RingNext]_ringVars => [Fifo!Next]_Fifo!vars
  <2> SUFFICES ASSUME RingInv, [RingNext]_ringVars
               PROVE  [Fifo!Next]_Fifo!vars
    OBVIOUS
  <2>1. ASSUME NEW item \in Items, internalScheduleFunction(item)
        PROVE  Fifo!Next
    BY <2>1, InsertAppends DEF Fifo!Next
  <2>2. CASE scheduleQueueGetTop
    BY <2>2, GetTopTakes DEF Fifo!Next
  <2>3. CASE UNCHANGED ringVars
    BY <2>3 DEF ringVars, Fifo!vars, List, SlotOf
  <2>4. QED BY <2>1, <2>2, <2>3 DEF RingNext
<1>3. QED BY <1>1, <1>2, RingStaysConsistent, PTL DEF RingSpec, ImplementsFifo, Fifo!Spec

-----------------------------------------------------------------------------
(* Putting an item at the end of the queue keeps it a list of at most       *)
(* Capacity items.                                                          *)
LEMMA InsertType ==
  ASSUME NEW q \in TaskList, NEW item \in Item
  PROVE  Insert(q, item) \in TaskList
<1>1. CASE Len(q) < Capacity
  <2>1. Append(q, item) \in Seq(Item) /\ Len(Append(q, item)) = Len(q) + 1
    BY AppendProperties DEF TaskList
  <2>2. QED BY <1>1, <2>1, SchedulerAssumption DEF Insert, TaskList
<1>2. CASE ~(Len(q) < Capacity)
  BY <1>2 DEF Insert
<1>3. QED BY <1>1, <1>2

(* Taking the oldest item of a queue that is not empty.                     *)
LEMMA TakeType ==
  ASSUME NEW q \in TaskList, Len(q) > 0
  PROVE  Head(q) \in Item /\ Tail(q) \in TaskList /\ Len(Tail(q)) = Len(q) - 1
<1>1. q \in Seq(Item) /\ q # << >>
  BY DEF TaskList
<1>2. Head(q) \in Item /\ Tail(q) \in Seq(Item) /\ Len(Tail(q)) = Len(q) - 1
  BY <1>1, HeadTailProperties
<1>3. QED BY <1>2, SchedulerAssumption DEF TaskList

(* The next run of a recurring item is a value of queue_time_t.             *)
LEMMA RescheduledType ==
  ASSUME NEW q \in TaskList, NEW item \in Item, NEW now \in Time
  PROVE  Rescheduled(item, now, q) \in TaskList
<1>1. item.name \in Names /\ item.recur \in Time /\ item.next \in Time
  BY DEF Item
<1>2. (now + item.recur) % W \in Time
  BY <1>1, SchedulerAssumption DEF Time
<1>3. [item EXCEPT !.next = (now + item.recur) % W] \in Item
  BY <1>2 DEF Item
<1>4. QED BY <1>3, InsertType DEF Rescheduled

(* One step of the scheduler, by the function that takes it.                *)
LEMMA StepKeepsTypes ==
  ASSUME TypeOK, [Next]_vars
  PROVE  TypeOK'
<1> USE SchedulerAssumption
<1>0. tasks \in TaskList /\ Len(tasks) \in Nat /\ Len(tasks) <= Capacity
  BY DEF TypeOK, TaskList
<1>1. ASSUME NEW n \in Names, NEW t \in Time, scheduleFunction(n, t)
      PROVE  TypeOK'
  <2>1. [name |-> n, recur |-> t, next |-> t] \in Item
    BY DEF Item
  <2>2. tasks' \in TaskList
    BY <1>0, <1>1, <2>1, InsertType DEF scheduleFunction
  <2>3. QED BY <1>1, <2>2 DEF scheduleFunction, TypeOK
<1>2. ASSUME NEW function \in {"remove", "change"}, NEW item \in Item,
             StartLoop(function, item)
      PROVE  TypeOK'
  <2>1. arg' = item /\ item # NoTask
    BY <1>2, NoTaskIsNoItem DEF StartLoop
  <2>2. /\ pc \in {"client", "callback"} /\ pc' = function
        /\ UNCHANGED <<tasks, runI, pNow, opI, running>>
    BY <1>2 DEF StartLoop, InClient
  <2>3. QED BY <2>1, <2>2 DEF TypeOK
<1>3. CASE RemoveRound
  <2>1. Head(tasks) \in Item /\ Tail(tasks) \in TaskList
    BY <1>0, <1>3, TakeType DEF RemoveRound, TypeOK
  <2>2. tasks' \in TaskList
    BY <1>3, <2>1, InsertType DEF RemoveRound, PutBack
  <2>3. opI' \in 0 .. Capacity
    BY <1>0, <1>3 DEF RemoveRound, TypeOK
  <2>4. QED BY <1>3, <2>2, <2>3 DEF RemoveRound, TypeOK
<1>4. CASE ChangeRound
  <2>1. Head(tasks) \in Item /\ Tail(tasks) \in TaskList
    BY <1>0, <1>4, TakeType DEF ChangeRound, TypeOK
  <2>2. arg \in Item
    BY <1>4 DEF ChangeRound, TypeOK
  <2>3. tasks' \in TaskList
    BY <1>4, <2>1, <2>2, InsertType DEF ChangeRound, Changed
  <2>4. opI' \in 0 .. Capacity
    BY <1>0, <1>4 DEF ChangeRound, TypeOK
  <2>5. QED BY <1>4, <2>3, <2>4 DEF ChangeRound, TypeOK
<1>5. ASSUME NEW function \in {"remove", "change"}, EndLoop(function)
      PROVE  TypeOK'
  <2>1. pc \in {"remove", "change"}
    BY <1>5 DEF EndLoop
  <2>2. running = NoTask => pc' = "client"
    BY <1>5 DEF EndLoop, Caller
  <2>3. running # NoTask => pc' = "callback"
    BY <1>5 DEF EndLoop, Caller
  <2>4. QED BY <1>5, <2>1, <2>2, <2>3 DEF EndLoop, TypeOK
<1>6. ASSUME NEW now \in Time, scheduleRun(now)
      PROVE  TypeOK'
  BY <1>6 DEF scheduleRun, TypeOK
<1>7. CASE RunRound
  <2>1. Head(tasks) \in Item /\ Tail(tasks) \in TaskList /\ pNow \in Time
    BY <1>0, <1>7, TakeType DEF RunRound, TypeOK
  <2>2. runI < Len(tasks) /\ runI \in Nat
    BY <1>7 DEF RunRound, TypeOK
  <2>3. CASE Head(tasks).next <= pNow
    <3>1. /\ tasks' = Rescheduled(Head(tasks), pNow, Tail(tasks))
          /\ running' = Head(tasks).name
          /\ pc' = "callback"
          /\ UNCHANGED <<runI, pNow, opI, arg>>
      BY <1>7, <2>1, <2>3 DEF RunRound, Due, PutBack, Item, Time
    <3>2. tasks' \in TaskList /\ running' \in Names /\ running' # NoTask
      BY <2>1, <3>1, RescheduledType DEF Item
    <3>3. arg = NoTask /\ runI < Capacity
      BY <1>0, <1>7, <2>2 DEF RunRound, TypeOK
    <3>4. QED BY <3>1, <3>2, <3>3 DEF TypeOK
  <2>4. CASE ~(Head(tasks).next <= pNow)
    <3>1. /\ tasks' = Insert(Tail(tasks), Head(tasks))
          /\ runI' = runI + 1
          /\ UNCHANGED <<pc, running, pNow, opI, arg>>
      BY <1>7, <2>1, <2>4 DEF RunRound, Due, PutBack, Item, Time
    <3>2. tasks' \in TaskList
      BY <2>1, <3>1, InsertType
    <3>3. QED BY <1>0, <1>7, <2>2, <3>1, <3>2 DEF RunRound, TypeOK
  <2>5. QED BY <2>3, <2>4
<1>8. CASE CallbackReturns
  BY <1>8 DEF CallbackReturns, TypeOK
<1>9. CASE RunReturns
  BY <1>9 DEF RunReturns, TypeOK, Time
<1>10. CASE UNCHANGED vars
  BY <1>10 DEF vars, TypeOK
<1>11. ASSUME NEW n \in Names, scheduleRemoveFunction(n)
       PROVE  TypeOK'
  <2>1. [name |-> n, recur |-> 0, next |-> 0] \in Item
    BY DEF Item, Time
  <2>2. QED BY <1>2, <1>11, <2>1 DEF scheduleRemoveFunction
<1>12. ASSUME NEW n \in Names, NEW next \in Time, NEW recur \in Time,
              scheduleChangeFunction(n, next, recur)
       PROVE  TypeOK'
  <2>1. [name |-> n, recur |-> recur, next |-> next] \in Item
    BY DEF Item
  <2>2. QED BY <1>2, <1>12, <2>1 DEF scheduleChangeFunction
<1>13. QED
  BY <1>1, <1>3, <1>4, <1>5, <1>6, <1>7, <1>8, <1>9, <1>10, <1>11, <1>12 DEF Next

(* In every reachable state of the scheduler, whatever its tasks do when    *)
(* they are called: the queue fits the ring and the counters of the loops   *)
(* stay within it.                                                          *)
THEOREM SchedulerTypeCorrect == Spec => []TypeOK
<1>1. Init => TypeOK
  BY SchedulerAssumption DEF Init, TypeOK, TaskList, Time
<1>2. TypeOK /\ [Next]_vars => TypeOK'
  BY StepKeepsTypes
<1>3. QED BY <1>1, <1>2, PTL DEF Spec

-----------------------------------------------------------------------------
(* The queue after its top went to the end, as item.                        *)
Turn(q, item) == Append(Tail(q), item)

(* Where every item of a queue is after a round that put the top back.      *)
LEMMA TurnIs ==
  ASSUME NEW q \in Seq(Item), Len(q) > 0, NEW item \in Item
  PROVE  /\ Turn(q, item) \in Seq(Item) /\ Len(Turn(q, item)) = Len(q)
         /\ \A k \in 1 .. Len(q) :
              Turn(q, item)[k] = IF k = Len(q) THEN item ELSE q[k + 1]
<1>1. q # << >> /\ Len(q) \in Nat
  OBVIOUS
<1>2. Tail(q) \in Seq(Item) /\ Len(Tail(q)) = Len(q) - 1
  BY <1>1, HeadTailProperties
<1>3. \A k \in 1 .. Len(q) - 1 : Tail(q)[k] = q[k + 1]
  BY <1>1
<1>4. /\ Append(Tail(q), item) \in Seq(Item) /\ Len(Append(Tail(q), item)) = Len(q)
      /\ \A k \in 1 .. Len(q) - 1 : Append(Tail(q), item)[k] = Tail(q)[k]
      /\ Append(Tail(q), item)[Len(q)] = item
  BY <1>1, <1>2, AppendProperties
<1>5. ASSUME NEW k \in 1 .. Len(q)
      PROVE  Append(Tail(q), item)[k] = IF k = Len(q) THEN item ELSE q[k + 1]
  <2>1. k = Len(q) \/ k \in 1 .. Len(q) - 1
    BY <1>1
  <2>2. CASE k = Len(q)
    BY <1>4, <2>2
  <2>3. CASE k # Len(q)
    BY <1>3, <1>4, <2>1, <2>3
  <2> QED
    BY <2>2, <2>3
<1> QED
  BY <1>4, <1>5, Zenon DEF Turn

(* The same, as each item moving one place forward and the top to the end.  *)
LEMMA TurnShift ==
  ASSUME NEW q \in Seq(Item), Len(q) > 0, NEW item \in Item
  PROVE  /\ Turn(q, item) \in Seq(Item) /\ Len(Turn(q, item)) = Len(q)
         /\ DOMAIN Turn(q, item) = DOMAIN q /\ DOMAIN q = 1 .. Len(q)
         /\ \A k \in DOMAIN q :
              \/ k = Len(q) /\ Turn(q, item)[k] = item
              \/ k # Len(q) /\ k + 1 \in DOMAIN q /\ Turn(q, item)[k] = q[k + 1]
<1> DEFINE r == Turn(q, item)
<1>1. /\ r \in Seq(Item) /\ Len(r) = Len(q) /\ Len(q) \in Nat
      /\ \A k \in 1 .. Len(q) : r[k] = IF k = Len(q) THEN item ELSE q[k + 1]
  BY TurnIs
<1> HIDE DEF r
<1>2. DOMAIN r = DOMAIN q /\ DOMAIN q = 1 .. Len(q)
  BY <1>1
<1>3. \A k \in 1 .. Len(q) : k # Len(q) => k + 1 \in 1 .. Len(q)
  BY <1>1
<1> QED
  BY <1>1, <1>2, <1>3 DEF r

(* The queue turned by k places, item by item.                              *)
LEMMA TurnedIs ==
  ASSUME NEW q \in Seq(Item), NEW k \in 0 .. Len(q)
  PROVE  Turned(q, k) = [i \in 1 .. Len(q) |-> IF i <= k THEN q[Len(q) - k + i] ELSE q[i - k]]
<1> DEFINE a == SubSeq(q, Len(q) - k + 1, Len(q))
           b == SubSeq(q, 1, Len(q) - k)
<1>1. Len(q) \in Nat
  OBVIOUS
<1>2. /\ a \in Seq(Item) /\ Len(a) = k
      /\ \A i \in 1 .. k : a[i] = q[Len(q) - k + i]
  BY <1>1
<1>3. /\ b \in Seq(Item) /\ Len(b) = Len(q) - k
      /\ \A i \in 1 .. Len(q) - k : b[i] = q[i]
  BY <1>1
<1>4. Turned(q, k) = a \o b
  BY DEF Turned
<1> HIDE DEF a, b
<1>5. /\ a \o b \in Seq(Item) /\ Len(a \o b) = Len(q)
      /\ \A i \in 1 .. k : (a \o b)[i] = a[i]
      /\ \A i \in k + 1 .. Len(q) : (a \o b)[i] = b[i - k]
  <2>1. a \o b \in Seq(Item) /\ Len(a \o b) = Len(a) + Len(b)
    BY <1>2, <1>3, ConcatProperties
  <2>2. Len(a) + Len(b) = Len(q) /\ Len(a) \in Nat /\ Len(b) \in Nat
    BY <1>1, <1>2, <1>3
  <2>3. \A i \in 1 .. k : (a \o b)[i] = a[i]
    BY <1>1, <1>2, <1>3
  <2>4. \A i \in k + 1 .. Len(q) : (a \o b)[i] = b[i - k]
    BY <1>1, <1>2, <1>3
  <2> QED
    BY <2>1, <2>2, <2>3, <2>4
<1>6. ASSUME NEW i \in 1 .. Len(q)
      PROVE  (a \o b)[i] = IF i <= k THEN q[Len(q) - k + i] ELSE q[i - k]
  <2>2. CASE i <= k
    <3>1. i \in 1 .. k
      BY <1>1, <2>2
    <3> QED
      BY <1>2, <1>5, <2>2, <3>1
  <2>3. CASE ~(i <= k)
    <3>1. i - k \in 1 .. Len(q) - k /\ i \in k + 1 .. Len(q)
      BY <1>1, <2>3
    <3>2. (a \o b)[i] = b[i - k] /\ b[i - k] = q[i - k]
      BY <1>3, <1>5, <3>1
    <3> QED
      BY <2>3, <3>2
  <2> QED
    BY <2>2, <2>3
<1> DEFINE c == a \o b
<1>7. DOMAIN c = 1 .. Len(q) /\ c = [i \in DOMAIN c |-> c[i]]
  <2>1. c \in Seq(Item) /\ Len(c) = Len(q)
    BY <1>5
  <2> HIDE DEF c
  <2> QED
    BY <2>1
<1> QED
  BY <1>4, <1>6, <1>7

(* A round of scheduleChangeFunction takes the top to the end under its own *)
(* name: what the loop's counter says the queue was turned by grows with    *)
(* it.                                                                      *)
LEMMA RoundKeepsOrder ==
  ASSUME TypeOK, ChangeRound
  PROVE  Renamed(Turned(tasks', opI')) = Renamed(Turned(tasks, opI))
<1> DEFINE item == IF Head(tasks).name = arg.name THEN arg ELSE Head(tasks)
           N == Len(tasks)
<1>1. /\ tasks \in Seq(Item) /\ N \in Nat /\ N <= Capacity /\ opI \in Nat /\ opI < N
      /\ opI' = opI + 1 /\ arg \in Item
  BY SchedulerAssumption DEF TypeOK, TaskList, ChangeRound
<1>2. Head(tasks) = tasks[1] /\ Head(tasks) \in Item
  BY <1>1
<1>3. item \in Item /\ item.name = tasks[1].name
  BY <1>1, <1>2
<1>4. tasks' = Turn(tasks, item)
  <2>1. Len(Tail(tasks)) = N - 1
    BY <1>1
  <2>2. Len(Tail(tasks)) < Capacity
    BY <1>1, <2>1, SchedulerAssumption
  <2> QED
    BY <2>2 DEF ChangeRound, Changed, Insert, Turn
<1> HIDE DEF item
<1>5. /\ tasks' \in Seq(Item) /\ Len(tasks') = N
      /\ \A k \in 1 .. N : tasks'[k] = IF k = N THEN item ELSE tasks[k + 1]
  <2>1. Len(tasks) > 0
    BY <1>1
  <2>2. /\ Turn(tasks, item) \in Seq(Item) /\ Len(Turn(tasks, item)) = Len(tasks)
        /\ \A k \in 1 .. Len(tasks) :
             Turn(tasks, item)[k] = IF k = Len(tasks) THEN item ELSE tasks[k + 1]
    BY <1>1, <1>3, <2>1, TurnIs
  <2> QED
    BY <1>4, <2>2, Zenon
<1> HIDE DEF N
<1>6. Turned(tasks, opI) =
        [i \in 1 .. N |-> IF i <= opI THEN tasks[N - opI + i] ELSE tasks[i - opI]]
  BY <1>1, TurnedIs DEF N
<1>7. Turned(tasks', opI') =
        [i \in 1 .. N |-> IF i <= opI + 1 THEN tasks'[N - (opI + 1) + i] ELSE tasks'[i - (opI + 1)]]
  <2>1. opI + 1 \in 0 .. Len(tasks') /\ tasks' \in Seq(Item)
    BY <1>1, <1>5
  <2>2. Turned(tasks', opI + 1) =
          [i \in 1 .. Len(tasks') |-> IF i <= opI + 1 THEN tasks'[Len(tasks') - (opI + 1) + i]
                                     ELSE tasks'[i - (opI + 1)]]
    BY <2>1, TurnedIs
  <2> QED
    BY <1>1, <1>5, <2>2
<1>8. \A i \in 1 .. N : Turned(tasks', opI')[i].name = Turned(tasks, opI)[i].name
  <2> SUFFICES ASSUME NEW i \in 1 .. N
               PROVE  Turned(tasks', opI')[i].name = Turned(tasks, opI)[i].name
    OBVIOUS
  <2>1. CASE i <= opI
    <3>1. N - (opI + 1) + i \in 1 .. N - 1
      BY <1>1, <2>1
    <3>2. tasks'[N - (opI + 1) + i] = tasks[N - (opI + 1) + i + 1]
      BY <1>1, <1>5, <3>1
    <3>3. N - (opI + 1) + i + 1 = N - opI + i
      BY <1>1
    <3> QED
      BY <1>1, <1>6, <1>7, <2>1, <3>2, <3>3
  <2>2. CASE i = opI + 1
    <3>1. N - (opI + 1) + i = N /\ i - opI = 1
      BY <1>1, <2>2
    <3>2. tasks'[N] = item
      BY <1>1, <1>5
    <3> QED
      BY <1>1, <1>3, <1>6, <1>7, <2>2, <3>1, <3>2
  <2>3. CASE i > opI + 1
    <3>1. i - (opI + 1) \in 1 .. N - 1 /\ i - (opI + 1) + 1 = i - opI
      BY <1>1, <2>3
    <3>2. tasks'[i - (opI + 1)] = tasks[i - opI]
      BY <1>1, <1>5, <3>1
    <3> QED
      BY <1>1, <1>6, <1>7, <2>3, <3>2
  <2> QED
    BY <1>1, <2>1, <2>2, <2>3
<1>9. DOMAIN Turned(tasks', opI') = 1 .. N /\ DOMAIN Turned(tasks, opI) = 1 .. N
  BY <1>6, <1>7
<1> QED
  BY <1>8, <1>9 DEF Renamed

(* Whoever calls scheduleChangeFunction, a task in the middle of            *)
(* scheduleRun included, the loop leaves the order of the queue as it was,  *)
(* for every number of tasks and every capacity.                            *)
THEOREM OrderIsKept == Spec => ChangeKeepsOrder
<1>1. TypeOK /\ [Next]_vars =>
        (pc = "change" /\ pc' = "change" =>
           Renamed(Turned(tasks', opI')) = Renamed(Turned(tasks, opI)))
  <2> SUFFICES ASSUME TypeOK, [Next]_vars, pc = "change", pc' = "change"
               PROVE  Renamed(Turned(tasks', opI')) = Renamed(Turned(tasks, opI))
    OBVIOUS
  <2>1. CASE ChangeRound
    BY <2>1, RoundKeepsOrder
  <2>2. CASE UNCHANGED vars
    BY <2>2 DEF vars
  <2>3. running # NoTask => Caller = "callback"
    BY DEF Caller
  <2> QED
    BY <2>1, <2>2
    DEF Next, scheduleFunction, scheduleRemoveFunction, scheduleChangeFunction, StartLoop, InClient,
        scheduleRun, RemoveRound, EndLoop, Caller, RunRound, CallbackReturns, RunReturns
<1> QED
  BY <1>1, SchedulerTypeCorrect, PTL DEF Spec, ChangeKeepsOrder

-----------------------------------------------------------------------------
-----------------------------------------------------------------------------
(* No two items of the queue have one name.                                 *)
Distinct(q) == \A j, k \in DOMAIN q : q[j].name = q[k].name => j = k

(* What the table says of an item.                                          *)
Row(item) == [next |-> item.next, recur |-> item.recur]

(* What the items of a queue say of a name.                                 *)
Lookup(q, n) ==
  IF n \notin NamesIn(q) THEN NoTask
  ELSE LET k == CHOOSE k \in DOMAIN q : q[k].name = n
       IN  [next |-> q[k].next, recur |-> q[k].recur]

(* The strengthening the refinement needs.  The names in the queue are      *)
(* distinct; an item that a remove or change in progress is to find has not *)
(* been passed over: it is among the items its counter has still to take (k *)
(* + opI is at most the length) or, for a change, carries the new times     *)
(* already.  Without it a loop could end with its item untouched, which the *)
(* abstract table says was changed when the loop began.                     *)
TableInv ==
  /\ TypeOK /\ Distinct(tasks)
  /\ arg = NoTask => opI = 0
  /\ \A k \in DOMAIN tasks :
       /\ pc = "remove" /\ tasks[k].name = arg.name => k + opI <= Len(tasks)
       /\ pc = "change" /\ tasks[k].name = arg.name => k + opI <= Len(tasks) \/ tasks[k] = arg

(* In a queue of distinct names a lookup finds the item at any of its       *)
(* places.                                                                  *)
LEMMA LookupIs ==
  ASSUME NEW q \in Seq(Item), Distinct(q), NEW k \in DOMAIN q
  PROVE  Lookup(q, q[k].name) = Row(q[k])
<1>1. q[k].name \in NamesIn(q)
  BY DEF NamesIn
<1> DEFINE i == CHOOSE i \in DOMAIN q : q[i].name = q[k].name
<1>2. i = k
  BY DEF Distinct
<1> QED
  BY <1>1, <1>2 DEF Lookup, Row

(* No scheduled task looks like a task that is not scheduled.               *)
LEMMA RowIsNoNoTask == \A item \in Item : Row(item) # NoTask
  BY NoTaskIsNoItem DEF Row, Item

(* Two queues of distinct names that hold the same items of a name say the  *)
(* same of it.                                                              *)
LEMMA LookupSame ==
  ASSUME NEW q \in Seq(Item), Distinct(q), NEW r \in Seq(Item), Distinct(r), NEW n,
         \A k \in DOMAIN q : q[k].name = n => \E j \in DOMAIN r : r[j] = q[k],
         \A k \in DOMAIN r : r[k].name = n => \E j \in DOMAIN q : q[j] = r[k]
  PROVE  Lookup(r, n) = Lookup(q, n)
<1>1. CASE n \in NamesIn(q)
  <2>1. PICK k \in DOMAIN q : q[k].name = n
    BY <1>1 DEF NamesIn
  <2>2. PICK j \in DOMAIN r : r[j] = q[k]
    BY <2>1
  <2>3. Lookup(q, n) = Row(q[k])
    BY <2>1, LookupIs
  <2>4. Lookup(r, n) = Row(r[j])
    BY <2>1, <2>2, LookupIs
  <2> QED
    BY <2>2, <2>3, <2>4
<1>2. CASE n \notin NamesIn(q)
  <2>1. n \notin NamesIn(r)
    BY <1>2 DEF NamesIn
  <2> QED
    BY <1>2, <2>1 DEF Lookup
<1> QED
  BY <1>1, <1>2

(* A round that puts the top back as item touches only its entry.           *)
LEMMA TurnLooksSame ==
  ASSUME NEW q \in Seq(Item), Len(q) > 0, Distinct(q), NEW item \in Item, item.name = q[1].name
  PROVE  /\ Distinct(Turn(q, item))
         /\ \A n : n # item.name => Lookup(Turn(q, item), n) = Lookup(q, n)
         /\ Lookup(Turn(q, item), item.name) = Row(item)
<1> DEFINE r == Turn(q, item)
           N == Len(q)
<1>1. /\ r \in Seq(Item) /\ Len(r) = N /\ N \in Nat \ {0}
      /\ \A k \in 1 .. N : r[k] = IF k = N THEN item ELSE q[k + 1]
  BY TurnIs
<1>2. DOMAIN r = 1 .. N /\ DOMAIN q = 1 .. N
  BY <1>1
<1> HIDE DEF r, N
<1>3. r[N] = item /\ N \in 1 .. N /\ 1 \in 1 .. N
  BY <1>1
<1>4. \A k \in 1 .. N : k # N => k + 1 \in 1 .. N /\ r[k] = q[k + 1]
  BY <1>1
<1>5. \A k \in 1 .. N : k # 1 => k - 1 \in 1 .. N /\ k - 1 # N /\ r[k - 1] = q[k]
  <2> SUFFICES ASSUME NEW k \in 1 .. N, k # 1
               PROVE  k - 1 \in 1 .. N /\ k - 1 # N /\ r[k - 1] = q[k]
    OBVIOUS
  <2>1. k - 1 \in 1 .. N /\ k - 1 # N /\ (k - 1) + 1 = k
    BY <1>1
  <2> QED
    BY <1>4, <2>1
<1>6. \A j, k \in 1 .. N : q[j].name = q[k].name => j = k
  BY <1>2 DEF Distinct
<1>7. \A k \in 1 .. N : k # N => r[k].name # item.name
  <2> SUFFICES ASSUME NEW k \in 1 .. N, k # N PROVE r[k].name # item.name
    OBVIOUS
  <2>1. k + 1 \in 1 .. N /\ k + 1 # 1 /\ r[k] = q[k + 1]
    BY <1>1, <1>4
  <2> QED
    BY <1>3, <1>6, <2>1
<1>8. Distinct(r)
  <2> SUFFICES ASSUME NEW j \in 1 .. N, NEW k \in 1 .. N, r[j].name = r[k].name PROVE j = k
    BY <1>2 DEF Distinct
  <2>1. CASE j = N \/ k = N
    BY <1>3, <1>7, <2>1
  <2>2. CASE j # N /\ k # N
    <3>1. /\ j + 1 \in 1 .. N /\ k + 1 \in 1 .. N /\ r[j] = q[j + 1] /\ r[k] = q[k + 1]
      BY <1>4, <2>2
    <3>2. j + 1 = k + 1
      BY <1>6, <3>1
    <3> QED
      BY <3>2
  <2> QED
    BY <2>1, <2>2
<1>9. ASSUME NEW n, n # item.name PROVE Lookup(r, n) = Lookup(q, n)
  <2>1. \A k \in DOMAIN q : q[k].name = n => \E j \in DOMAIN r : r[j] = q[k]
    BY <1>2, <1>5, <1>9
  <2>2. \A k \in DOMAIN r : r[k].name = n => \E j \in DOMAIN q : q[j] = r[k]
    BY <1>2, <1>3, <1>4, <1>9
  <2> QED
    BY <1>1, <1>8, <2>1, <2>2, LookupSame
<1>10. Lookup(r, item.name) = Row(item)
  <2>1. Lookup(r, r[N].name) = Row(r[N])
    BY <1>1, <1>2, <1>3, <1>8, LookupIs
  <2> QED
    BY <1>3, <2>1
<1> QED
  BY <1>8, <1>9, <1>10 DEF r

(* A round that does not put the top back removes only its entry.           *)
LEMMA TailLooksSame ==
  ASSUME NEW q \in Seq(Item), Len(q) > 0, Distinct(q)
  PROVE  /\ Tail(q) \in Seq(Item) /\ Distinct(Tail(q)) /\ q[1].name \notin NamesIn(Tail(q))
         /\ \A n : n # q[1].name => Lookup(Tail(q), n) = Lookup(q, n)
<1> DEFINE r == Tail(q)
           N == Len(q)
<1>1. /\ r \in Seq(Item) /\ N \in Nat \ {0} /\ DOMAIN q = 1 .. N /\ DOMAIN r = 1 .. N - 1
      /\ \A k \in 1 .. N - 1 : r[k] = q[k + 1]
  OBVIOUS
<1> HIDE DEF r, N
<1>2. \A k \in DOMAIN r : k + 1 \in DOMAIN q /\ k + 1 # 1 /\ r[k] = q[k + 1]
  BY <1>1
<1>3. \A k \in DOMAIN q : k # 1 => k - 1 \in DOMAIN r /\ r[k - 1] = q[k]
  <2> SUFFICES ASSUME NEW k \in 1 .. N, k # 1 PROVE k - 1 \in 1 .. N - 1 /\ r[k - 1] = q[k]
    BY <1>1
  <2>1. k - 1 \in 1 .. N - 1 /\ (k - 1) + 1 = k
    BY <1>1
  <2> QED
    BY <1>1, <2>1
<1>4. Distinct(r)
  <2> SUFFICES ASSUME NEW j \in DOMAIN r, NEW k \in DOMAIN r, r[j].name = r[k].name PROVE j = k
    BY DEF Distinct
  <2>1. j + 1 = k + 1
    BY <1>2 DEF Distinct
  <2> QED
    BY <1>1, <2>1
<1>5. 1 \in DOMAIN q
  BY <1>1
<1>6. q[1].name \notin NamesIn(r)
  BY <1>2, <1>5 DEF NamesIn, Distinct
<1>7. ASSUME NEW n, n # q[1].name PROVE Lookup(r, n) = Lookup(q, n)
  <2>1. \A k \in DOMAIN q : q[k].name = n => \E j \in DOMAIN r : r[j] = q[k]
    BY <1>3, <1>7
  <2>2. \A k \in DOMAIN r : r[k].name = n => \E j \in DOMAIN q : q[j] = r[k]
    BY <1>2
  <2> QED
    BY <1>1, <1>4, <2>1, <2>2, LookupSame
<1> QED
  BY <1>1, <1>4, <1>6, <1>7 DEF r

(* A new item adds its entry and touches no other.                          *)
LEMMA AppendLooksSame ==
  ASSUME NEW q \in Seq(Item), Distinct(q), NEW item \in Item, item.name \notin NamesIn(q)
  PROVE  /\ Append(q, item) \in Seq(Item) /\ Distinct(Append(q, item))
         /\ \A n : n # item.name => Lookup(Append(q, item), n) = Lookup(q, n)
         /\ Lookup(Append(q, item), item.name) = Row(item)
<1> DEFINE r == Append(q, item)
           N == Len(q)
<1>1. /\ r \in Seq(Item) /\ N \in Nat /\ DOMAIN q = 1 .. N /\ DOMAIN r = 1 .. N + 1
      /\ r[N + 1] = item /\ \A k \in 1 .. N : r[k] = q[k]
  BY AppendProperties
<1> HIDE DEF r, N
<1>2. \A k \in DOMAIN q : k \in DOMAIN r /\ r[k] = q[k] /\ q[k].name # item.name
  BY <1>1 DEF NamesIn
<1>3. \A k \in DOMAIN r : k = N + 1 \/ k \in DOMAIN q
  BY <1>1
<1>4. Distinct(r)
  BY <1>1, <1>2, <1>3 DEF Distinct
<1>5. ASSUME NEW n, n # item.name PROVE Lookup(r, n) = Lookup(q, n)
  BY <1>1, <1>2, <1>3, <1>4, <1>5, LookupSame
<1>6. N + 1 \in DOMAIN r
  BY <1>1
<1>7. Lookup(r, item.name) = Row(item)
  BY <1>1, <1>4, <1>6, LookupIs
<1> QED
  BY <1>1, <1>4, <1>5, <1>7 DEF r

(* The entry of a name: that of the queue, but for the name a remove or     *)
(* change in progress is about.                                             *)
LEMMA EntryIs ==
  ASSUME NEW n
  PROVE  /\ ~(pc \in {"remove", "change"} /\ arg.name = n) => Entry(n) = Lookup(tasks, n)
         /\ pc = "remove" /\ arg.name = n => Entry(n) = NoTask
         /\ pc = "change" /\ arg.name = n =>
              Entry(n) = IF n \in NamesIn(tasks) THEN Row(arg) ELSE NoTask
  BY DEF Entry, Lookup, Row

(* The top of a queue that is not empty, and the room its removal leaves.   *)
LEMMA RoundFacts ==
  ASSUME TableInv, Len(tasks) > 0
  PROVE  /\ tasks \in Seq(Item) /\ Len(tasks) \in Nat /\ Head(tasks) = tasks[1]
         /\ tasks[1] \in Item /\ 1 \in DOMAIN tasks /\ DOMAIN tasks = 1 .. Len(tasks)
         /\ \A item : Insert(Tail(tasks), item) = Turn(tasks, item)
<1>1. tasks \in Seq(Item) /\ Len(tasks) \in Nat /\ Len(tasks) <= Capacity
  BY DEF TableInv, TypeOK, TaskList
<1>2. Len(Tail(tasks)) = Len(tasks) - 1 /\ Len(tasks) - 1 < Capacity
  BY <1>1, SchedulerAssumption
<1>3. \A item : Insert(Tail(tasks), item) = Turn(tasks, item)
  BY <1>2 DEF Insert, Turn
<1> QED
  BY <1>1, <1>3

(* A name has an entry exactly when an item carries it.                     *)
LEMMA NamesOfRow ==
  ASSUME NEW q \in Seq(Item), NEW n, Distinct(q)
  PROVE  n \in NamesIn(q) <=> Lookup(q, n) # NoTask
<1>1. CASE n \in NamesIn(q)
  <2>1. PICK k \in DOMAIN q : q[k].name = n
    BY <1>1 DEF NamesIn
  <2>2. q[k] \in Item /\ Lookup(q, n) = Row(q[k])
    BY <2>1, LookupIs
  <2> QED
    BY <1>1, <2>2, RowIsNoNoTask
<1>2. CASE n \notin NamesIn(q)
  BY <1>2 DEF Lookup
<1> QED
  BY <1>1, <1>2

(* A round of scheduleRemoveFunction changes nothing in the table: the      *)
(* entry was gone when the loop began.                                      *)
LEMMA RemoveRoundHidden ==
  ASSUME TableInv, RemoveRound, TypeOK'
  PROVE  TableInv' /\ UNCHANGED <<Rows, running, pNow>>
<1>1. /\ pc = "remove" /\ opI < Len(tasks) /\ opI \in Nat /\ opI' = opI + 1
      /\ UNCHANGED <<pc, pNow, arg, running>> /\ arg \in Item /\ arg # NoTask
      /\ tasks' = IF tasks[1].name = arg.name THEN Tail(tasks) ELSE Turn(tasks, tasks[1])
      /\ tasks \in Seq(Item) /\ Len(tasks) \in Nat \ {0} /\ tasks[1] \in Item
      /\ 1 \in DOMAIN tasks /\ DOMAIN tasks = 1 .. Len(tasks) /\ Distinct(tasks)
  <2>1. opI \in Nat /\ opI < Len(tasks) /\ Len(tasks) \in Nat
    BY SchedulerAssumption DEF RemoveRound, TableInv, TypeOK, TaskList
  <2>2. Len(tasks) > 0
    BY <2>1
  <2> QED
    BY <2>1, <2>2, RoundFacts DEF RemoveRound, PutBack, TableInv, TypeOK
<1>2. CASE tasks[1].name = arg.name
  <2>1. /\ tasks' \in Seq(Item) /\ Distinct(tasks') /\ arg.name \notin NamesIn(tasks')
        /\ \A n : n # arg.name => Lookup(tasks', n) = Lookup(tasks, n)
    BY <1>1, <1>2, TailLooksSame
  <2>2. \A k \in DOMAIN tasks' : tasks'[k].name # arg'.name
    BY <1>1, <2>1 DEF NamesIn
  <2>3. TableInv'
    BY <1>1, <2>1, <2>2 DEF TableInv
  <2>4. \A n : Entry(n)' = Entry(n)
    <3> TAKE n
    <3>1. CASE arg.name = n
      BY <1>1, <3>1 DEF Entry
    <3>2. CASE arg.name # n
      <4>1. Entry(n) = Lookup(tasks, n)
        BY <3>2, EntryIs
      <4>2. Entry(n)' = Lookup(tasks', n)
        BY <1>1, <3>2 DEF Entry, Lookup
      <4> QED
        BY <2>1, <3>2, <4>1, <4>2
    <3> QED
      BY <3>1, <3>2
  <2> QED
    BY <1>1, <2>3, <2>4 DEF Rows
<1>3. CASE tasks[1].name # arg.name
  <2>1. /\ Distinct(tasks')
        /\ \A n : Lookup(tasks', n) = Lookup(tasks, n)
    <3>1. Lookup(tasks, tasks[1].name) = Row(tasks[1])
      BY <1>1, LookupIs
    <3> QED
      BY <1>1, <1>3, <3>1, TurnLooksSame
  <2>2. /\ Len(tasks') = Len(tasks) /\ DOMAIN tasks' = DOMAIN tasks
        /\ \A k \in DOMAIN tasks :
             \/ k = Len(tasks) /\ tasks'[k] = tasks[1]
             \/ k # Len(tasks) /\ k + 1 \in DOMAIN tasks /\ tasks'[k] = tasks[k + 1]
    <3> DEFINE item == tasks[1]
    <3>1. /\ Len(tasks) > 0 /\ tasks' = Turn(tasks, item) /\ tasks \in Seq(Item)
          /\ item \in Item
      BY <1>1, <1>3
    <3> HIDE DEF item
    <3>2. /\ Len(tasks') = Len(tasks) /\ DOMAIN tasks' = DOMAIN tasks
          /\ \A k \in DOMAIN tasks :
               \/ k = Len(tasks) /\ tasks'[k] = item
               \/ k # Len(tasks) /\ k + 1 \in DOMAIN tasks /\ tasks'[k] = tasks[k + 1]
      BY <3>1, TurnShift
    <3> QED
      BY <3>2 DEF item
  <2>3. ASSUME NEW k \in DOMAIN tasks', tasks'[k].name = arg.name
        PROVE  k + opI' <= Len(tasks')
    <3>1. k + 1 \in DOMAIN tasks /\ tasks[k + 1].name = arg.name
      BY <1>3, <2>2, <2>3
    <3>2. (k + 1) + opI <= Len(tasks)
      BY <1>1, <3>1 DEF TableInv
    <3>3. k \in 1 .. Len(tasks) /\ Len(tasks) \in Nat
      BY <1>1, <2>2
    <3>4. k \in Nat
      BY <3>3
    <3>5. opI' = opI + 1 /\ opI \in Nat /\ Len(tasks') = Len(tasks)
      BY <1>1, <2>2, Zenon
    <3> QED
      BY <3>2, <3>3, <3>4, <3>5
  <2>4. TableInv'
    BY <1>1, <2>1, <2>3 DEF TableInv
  <2>5. \A n : Entry(n)' = Entry(n)
    <3> TAKE n
    <3>1. CASE arg.name = n
      BY <1>1, <3>1 DEF Entry
    <3>2. CASE arg.name # n
      <4>1. Entry(n) = Lookup(tasks, n)
        BY <3>2, EntryIs
      <4>2. Entry(n)' = Lookup(tasks', n)
        BY <1>1, <3>2 DEF Entry, Lookup
      <4> QED
        BY <2>1, <4>1, <4>2
    <3> QED
      BY <3>1, <3>2
  <2> QED
    BY <1>1, <2>4, <2>5 DEF Rows
<1> QED
  BY <1>2, <1>3

(* A round of scheduleChangeFunction changes nothing in the table.          *)
LEMMA ChangeRoundHidden ==
  ASSUME TableInv, ChangeRound, TypeOK'
  PROVE  TableInv' /\ UNCHANGED <<Rows, running, pNow>>
<1> DEFINE item == IF tasks[1].name = arg.name THEN arg ELSE tasks[1]
<1>1. /\ pc = "change" /\ opI < Len(tasks) /\ opI \in Nat /\ opI' = opI + 1
      /\ UNCHANGED <<pc, pNow, arg, running>> /\ arg \in Item /\ arg # NoTask
      /\ tasks' = Turn(tasks, item)
      /\ tasks \in Seq(Item) /\ Len(tasks) \in Nat \ {0} /\ tasks[1] \in Item
      /\ 1 \in DOMAIN tasks /\ DOMAIN tasks = 1 .. Len(tasks) /\ Distinct(tasks)
  <2>1. opI \in Nat /\ opI < Len(tasks) /\ Len(tasks) \in Nat
    BY SchedulerAssumption DEF ChangeRound, TableInv, TypeOK, TaskList
  <2>2. Len(tasks) > 0
    BY <2>1
  <2> QED
    BY <2>1, <2>2, RoundFacts DEF ChangeRound, Changed, TableInv, TypeOK
<1>2. /\ item \in Item /\ item.name = tasks[1].name
      /\ item = arg \/ (item = tasks[1] /\ item.name # arg.name)
  BY <1>1
<1> HIDE DEF item
<1>3. /\ Distinct(tasks')
      /\ \A n : n # item.name => Lookup(tasks', n) = Lookup(tasks, n)
      /\ Lookup(tasks', item.name) = Row(item)
  BY <1>1, <1>2, TurnLooksSame
<1>4. /\ Len(tasks') = Len(tasks) /\ DOMAIN tasks' = DOMAIN tasks /\ tasks' \in Seq(Item)
      /\ \A k \in DOMAIN tasks :
           \/ k = Len(tasks) /\ tasks'[k] = item
           \/ k # Len(tasks) /\ k + 1 \in DOMAIN tasks /\ tasks'[k] = tasks[k + 1]
  <2>1. Len(tasks) > 0
    BY <1>1
  <2> QED
    BY <1>1, <1>2, <2>1, TurnShift
<1>5. ASSUME NEW k \in DOMAIN tasks', tasks'[k].name = arg.name
      PROVE  k + opI' <= Len(tasks') \/ tasks'[k] = arg
  <2>1. CASE tasks'[k] = item
    BY <1>2, <1>5, <2>1
  <2>2. CASE k + 1 \in DOMAIN tasks /\ tasks'[k] = tasks[k + 1]
    <3>1. (k + 1) + opI <= Len(tasks) \/ tasks[k + 1] = arg
      BY <1>1, <1>5, <2>2 DEF TableInv
    <3>2. k \in Nat
      BY <1>1, <1>4
    <3> QED
      BY <1>1, <1>4, <2>2, <3>1, <3>2
  <2> QED
    BY <1>4, <2>1, <2>2
<1>6. TableInv'
  BY <1>1, <1>3, <1>5 DEF TableInv
<1>7. \A n : n \in NamesIn(tasks) <=> n \in NamesIn(tasks')
  <2> TAKE n
  <2>1. n \in NamesIn(tasks) <=> Lookup(tasks, n) # NoTask
    BY <1>1, NamesOfRow
  <2>2. n \in NamesIn(tasks') <=> Lookup(tasks', n) # NoTask
    BY <1>3, <1>4, NamesOfRow
  <2>3. CASE n # item.name
    BY <1>3, <2>1, <2>2, <2>3
  <2>4. CASE n = item.name
    <3>1. n \in NamesIn(tasks)
      BY <1>1, <1>2, <2>4 DEF NamesIn
    <3> QED
      BY <1>2, <1>3, <2>2, <2>4, <3>1, RowIsNoNoTask
  <2> QED
    BY <2>3, <2>4
<1>8. \A n : Entry(n)' = Entry(n)
  <2> TAKE n
  <2>1. CASE arg.name = n
    BY <1>1, <1>7, <2>1 DEF Entry
  <2>2. CASE arg.name # n
    <3>1. Entry(n) = Lookup(tasks, n)
      BY <2>2, EntryIs
    <3>2. Entry(n)' = Lookup(tasks', n)
      BY <1>1, <2>2 DEF Entry, Lookup
    <3>3. Lookup(tasks', n) = Lookup(tasks, n)
      <4>1. CASE n = item.name
        <5>1. Lookup(tasks, tasks[1].name) = Row(tasks[1])
          BY <1>1, LookupIs
        <5> QED
          BY <1>2, <1>3, <2>2, <4>1, <5>1
      <4> QED
        BY <1>3, <4>1
    <3> QED
      BY <3>1, <3>2, <3>3
  <2> QED
    BY <2>1, <2>2
<1> QED
  BY <1>1, <1>6, <1>8 DEF Rows

(* Nor does the end of either loop: by then no item is left to be found,    *)
(* which is where the bound that shrinks when an item is not put back could *)
(* have ended the loop too early.                                           *)
LEMMA EndLoopHidden ==
  ASSUME TableInv, NEW function \in {"remove", "change"}, EndLoop(function), TypeOK'
  PROVE  TableInv' /\ UNCHANGED <<Rows, running, pNow>>
<1>1. /\ pc = function /\ opI >= Len(tasks) /\ pc' = Caller /\ opI' = 0 /\ arg' = NoTask
      /\ UNCHANGED <<tasks, runI, pNow, running>>
      /\ tasks \in Seq(Item) /\ DOMAIN tasks = 1 .. Len(tasks) /\ opI \in Nat /\ Len(tasks) \in Nat
      /\ Distinct(tasks)
  BY SchedulerAssumption DEF EndLoop, TableInv, TypeOK, TaskList
<1>2. pc' \notin {"remove", "change"}
  BY <1>1 DEF Caller
<1>3. TableInv'
  BY <1>1, <1>2 DEF TableInv
<1>4. ASSUME NEW k \in DOMAIN tasks, tasks[k].name = arg.name
      PROVE  pc = "change" /\ tasks[k] = arg
  <2>1. ~(k + opI <= Len(tasks))
    BY <1>1
  <2> QED
    BY <1>1, <1>4, <2>1 DEF TableInv
<1>5. \A n : Entry(n)' = Entry(n)
  <2> TAKE n
  <2>1. Entry(n)' = Lookup(tasks, n)
    BY <1>1, <1>2 DEF Entry, Lookup
  <2>2. CASE arg.name # n
    BY <2>1, <2>2, EntryIs
  <2>3. CASE arg.name = n /\ n \in NamesIn(tasks)
    <3>1. PICK k \in DOMAIN tasks : tasks[k].name = n
      BY <2>3 DEF NamesIn
    <3>2. pc = "change" /\ tasks[k] = arg
      BY <1>4, <2>3, <3>1
    <3>3. Lookup(tasks, n) = Row(arg)
      BY <1>1, <3>1, <3>2, LookupIs
    <3> QED
      BY <2>1, <2>3, <3>2, <3>3, EntryIs
  <2>4. CASE arg.name = n /\ n \notin NamesIn(tasks)
    BY <2>1, <2>4 DEF Entry, Lookup
  <2> QED
    BY <2>2, <2>3, <2>4
<1> QED
  BY <1>1, <1>3, <1>5 DEF Rows

(* The call of either function is the whole change of the table.            *)
LEMMA StartLoopRefined ==
  ASSUME TableInv, NEW function \in {"remove", "change"}, NEW item \in Item,
         StartLoop(function, item), TypeOK'
  PROVE  /\ TableInv'
         /\ UNCHANGED <<running, pNow>>
         /\ function = "remove" => Rows' = [Rows EXCEPT ![item.name] = NoTask]
         /\ function = "change" =>
              Rows' = IF Rows[item.name] = NoTask THEN Rows
                      ELSE [Rows EXCEPT ![item.name] = Row(item)]
<1>1. /\ pc \in {"client", "callback"} /\ pc' = function /\ arg' = item
      /\ UNCHANGED <<tasks, runI, pNow, opI, running>>
      /\ tasks \in Seq(Item) /\ Distinct(tasks) /\ item.name \in Names
      /\ DOMAIN tasks = 1 .. Len(tasks) /\ Len(tasks) \in Nat
  BY DEF StartLoop, InClient, TableInv, TypeOK, TaskList, Item
<1>2. opI = 0 /\ item # NoTask
  <2>1. arg = NoTask
    BY <1>1 DEF TableInv, TypeOK
  <2> QED
    BY <2>1, NoTaskIsNoItem DEF TableInv
<1>3. TableInv'
  <2>1. \A k \in DOMAIN tasks : k + 0 <= Len(tasks)
    BY <1>1
  <2> QED
    BY <1>1, <1>2, <2>1 DEF TableInv
<1>4. \A n : Entry(n) = Lookup(tasks, n)
  BY <1>1, EntryIs
<1>5. \A n : n # item.name => Entry(n)' = Lookup(tasks, n)
  BY <1>1 DEF Entry, Lookup
<1>6. function = "remove" => Entry(item.name)' = NoTask
  BY <1>1 DEF Entry
<1>7. function = "change" =>
        Entry(item.name)' = IF item.name \in NamesIn(tasks) THEN Row(item) ELSE NoTask
  BY <1>1 DEF Entry, Row
<1>8. item.name \in NamesIn(tasks) <=> Entry(item.name) # NoTask
  BY <1>1, <1>4, NamesOfRow
<1>9. /\ Rows \in [Names -> {Entry(n) : n \in Names}] /\ \A n \in Names : Rows[n] = Entry(n)
      /\ Rows' = [n \in Names |-> Entry(n)']
  BY DEF Rows
<1>10. function = "remove" => Rows' = [Rows EXCEPT ![item.name] = NoTask]
  BY <1>1, <1>4, <1>5, <1>6, <1>9
<1>11. function = "change" =>
         Rows' = IF Rows[item.name] = NoTask THEN Rows ELSE [Rows EXCEPT ![item.name] = Row(item)]
  <2> SUFFICES ASSUME function = "change"
               PROVE  Rows' = IF Rows[item.name] = NoTask THEN Rows
                              ELSE [Rows EXCEPT ![item.name] = Row(item)]
    OBVIOUS
  <2>1. CASE Rows[item.name] = NoTask
    <3>1. \A n \in Names : Entry(n)' = Entry(n)
      BY <1>1, <1>4, <1>5, <1>7, <1>8, <1>9, <2>1
    <3> QED
      BY <1>9, <2>1, <3>1 DEF Rows
  <2>2. CASE Rows[item.name] # NoTask
    <3>1. Entry(item.name)' = Row(item)
      BY <1>1, <1>7, <1>8, <1>9, <2>2
    <3>2. \A n \in Names : Entry(n)' = IF n = item.name THEN Row(item) ELSE Rows[n]
      BY <1>4, <1>5, <1>9, <3>1
    <3>3. DOMAIN Rows = Names
      BY <1>9
    <3>4. Rows' = [n \in Names |-> IF n = item.name THEN Row(item) ELSE Rows[n]]
      BY <1>9, <3>2
    <3> QED
      BY <1>1, <2>2, <3>3, <3>4
  <2> QED
    BY <2>1, <2>2
<1> QED
  BY <1>1, <1>3, <1>10, <1>11

(* Outside the two loops the table is what the queue says.                  *)
LEMMA QuietRows ==
  ASSUME pc \notin {"remove", "change"}, pc' \notin {"remove", "change"}
  PROVE  /\ Rows = [n \in Names |-> Lookup(tasks, n)]
         /\ Rows' = [n \in Names |-> Lookup(tasks', n)]
<1>1. \A n : Entry(n) = Lookup(tasks, n)
  BY EntryIs
<1>2. \A n : Entry(n)' = Lookup(tasks', n)
  BY DEF Entry, Lookup
<1> QED
  BY <1>1, <1>2 DEF Rows

(* With distinct names there are as many names as items, so that the ring   *)
(* is full exactly when the table is.                                       *)
LEMMA NumberOfTasks ==
  ASSUME NEW q \in Seq(Item), Distinct(q)
  PROVE  Cardinality(NamesIn(q)) = Len(q)
<1> DEFINE F == [k \in 1 .. Len(q) |-> q[k].name]
<1>1. Len(q) \in Nat /\ DOMAIN q = 1 .. Len(q)
  OBVIOUS
<1>2. F \in Bijection(1 .. Len(q), NamesIn(q))
  BY <1>1 DEF Bijection, Injection, Surjection, IsInjective, NamesIn, Distinct
<1>3. ExistsBijection(1 .. Len(q), NamesIn(q))
  BY <1>2 DEF ExistsBijection
<1> QED
  BY <1>1, <1>3, FS_CountingElements

(* scheduleFunction adds the entry, or leaves a full table alone.           *)
LEMMA AddRefined ==
  ASSUME TableInv, UniqueNames, NEW n \in Names, NEW t \in Time, scheduleFunction(n, t), TypeOK'
  PROVE  TableInv' /\ (AsTable!Add(n, t) \/ UNCHANGED <<Rows, running, pNow>>)
<1> DEFINE item == [name |-> n, recur |-> t, next |-> t]
<1>1. /\ pc \in {"client", "callback"} /\ n \notin NamesIn(tasks)
      /\ tasks' = Insert(tasks, item) /\ UNCHANGED <<pc, runI, pNow, opI, arg, running>>
      /\ tasks \in Seq(Item) /\ Distinct(tasks) /\ Len(tasks) <= Capacity /\ Len(tasks) \in Nat
      /\ arg = NoTask /\ item \in Item /\ item.name = n /\ Row(item) = [next |-> t, recur |-> t]
  BY DEF scheduleFunction, InClient, TableInv, TypeOK, TaskList, Item, Row
<1> HIDE DEF item
<1>2. /\ Rows = [m \in Names |-> Lookup(tasks, m)]
      /\ Rows' = [m \in Names |-> Lookup(tasks', m)]
  BY <1>1, QuietRows
<1>3. CASE ~(Len(tasks) < Capacity)
  <2>1. tasks' = tasks
    BY <1>1, <1>3 DEF Insert
  <2> QED
    BY <1>1, <1>2, <2>1 DEF TableInv
<1>4. CASE Len(tasks) < Capacity
  <2>1. tasks' = Append(tasks, item)
    BY <1>1, <1>4 DEF Insert
  <2>2. /\ Distinct(tasks') /\ Lookup(tasks', n) = [next |-> t, recur |-> t]
        /\ \A m : m # n => Lookup(tasks', m) = Lookup(tasks, m)
    BY <1>1, <2>1, AppendLooksSame
  <2>3. TableInv'
    BY <1>1, <2>2 DEF TableInv
  <2>4. AsTable!Scheduled = NamesIn(tasks)
    <3>1. AsTable!Scheduled = {m \in Names : Lookup(tasks, m) # NoTask}
      BY <1>2 DEF AsTable!Scheduled
    <3>2. ASSUME NEW k \in DOMAIN tasks
          PROVE  tasks[k].name \in Names
      <4>1. tasks \in Seq(Item)
        BY <1>1
      <4>2. tasks[k] \in Item
        BY <4>1
      <4> QED
        BY <4>2 DEF Item
    <3>3. NamesIn(tasks) \subseteq Names
      BY <3>2 DEF NamesIn
    <3> QED
      <4>1. \A m : m \in NamesIn(tasks) <=> Lookup(tasks, m) # NoTask
        BY <1>1, NamesOfRow
      <4> QED
        BY <3>1, <3>3, <4>1
  <2>5. Cardinality(AsTable!Scheduled) < Capacity
    BY <1>1, <1>4, <2>4, NumberOfTasks
  <2>6. Rows' = [Rows EXCEPT ![n] = [next |-> t, recur |-> t]]
    BY <1>2, <2>2
  <2> QED
    BY <1>1, <2>3, <2>4, <2>5, <2>6 DEF AsTable!Add, AsTable!Cardinality, Cardinality
<1> QED
  BY <1>3, <1>4

(* A round of scheduleRun calls the task at the top, having moved its next  *)
(* run or removed it, or changes nothing.                                   *)
LEMMA RunRoundRefined ==
  ASSUME TableInv, RunRound, TypeOK'
  PROVE  /\ TableInv'
         /\ AsTable!Call(tasks[1].name) \/ UNCHANGED <<Rows, running, pNow>>
         /\ tasks[1].name \in Names
<1>1. /\ pc = "run" /\ pc' \in {"run", "callback"} /\ arg = NoTask /\ running = NoTask
      /\ UNCHANGED <<pNow, opI, arg>> /\ pNow \in Time
      /\ runI < Len(tasks) /\ runI \in Nat /\ Distinct(tasks)
      /\ tasks \in Seq(Item) /\ Len(tasks) \in Nat /\ Len(tasks) <= Capacity
  BY SchedulerAssumption DEF RunRound, TableInv, TypeOK, TaskList
<1>2. Len(tasks) > 0
  BY <1>1
<1>3. /\ Head(tasks) = tasks[1] /\ tasks[1] \in Item /\ 1 \in DOMAIN tasks
      /\ tasks[1].name \in Names
      /\ \A item : Insert(Tail(tasks), item) = Turn(tasks, item)
  BY <1>2, RoundFacts DEF Item
<1>4. /\ Rows = [m \in Names |-> Lookup(tasks, m)]
      /\ Rows' = [m \in Names |-> Lookup(tasks', m)]
  BY <1>1, QuietRows
<1>5. Lookup(tasks, tasks[1].name) = Row(tasks[1])
  BY <1>1, <1>3, LookupIs
<1> DEFINE n == tasks[1].name
<1>6. CASE Due(tasks[1], pNow)
  <2> DEFINE item == [tasks[1] EXCEPT !.next = (pNow + tasks[1].recur) % W]
  <2>1. /\ tasks' = IF tasks[1].recur = 0 THEN Tail(tasks) ELSE Turn(tasks, item)
        /\ running' = n /\ tasks[1].next <= pNow
    BY <1>1, <1>3, <1>6 DEF RunRound, Rescheduled, Due
  <2>2. /\ item \in Item /\ item.name = n
        /\ Row(item) = [next |-> (pNow + tasks[1].recur) % W, recur |-> tasks[1].recur]
    <3>1. (pNow + tasks[1].recur) % W \in Time
      BY <1>1, <1>3, SchedulerAssumption DEF Time, Item
    <3> QED
      BY <1>3, <3>1 DEF Item, Row
  <2> HIDE DEF item
  <2>3. /\ Distinct(tasks') /\ \A m : m # n => Lookup(tasks', m) = Lookup(tasks, m)
        /\ Lookup(tasks', n) =
             IF tasks[1].recur = 0 THEN NoTask
             ELSE [next |-> (pNow + tasks[1].recur) % W, recur |-> tasks[1].recur]
    <3>1. CASE tasks[1].recur = 0
      <4>1. tasks' = Tail(tasks)
        BY <2>1, <3>1
      <4>2. /\ Distinct(tasks') /\ n \notin NamesIn(tasks')
            /\ \A m : m # n => Lookup(tasks', m) = Lookup(tasks, m)
        BY <1>1, <1>2, <4>1, TailLooksSame
      <4> QED
        BY <3>1, <4>2 DEF Lookup
    <3>2. CASE tasks[1].recur # 0
      <4>1. tasks' = Turn(tasks, item)
        BY <2>1, <3>2
      <4>2. /\ Distinct(tasks') /\ Lookup(tasks', item.name) = Row(item)
            /\ \A m : m # item.name => Lookup(tasks', m) = Lookup(tasks, m)
        BY <1>1, <1>2, <2>2, <4>1, TurnLooksSame
      <4> QED
        BY <2>2, <3>2, <4>2
    <3> QED
      BY <3>1, <3>2
  <2>4. TableInv'
    BY <1>1, <2>3 DEF TableInv
  <2>5. Rows[n] = [next |-> tasks[1].next, recur |-> tasks[1].recur] /\ Rows[n] # NoTask
    BY <1>3, <1>4, <1>5, RowIsNoNoTask DEF Row
  <2>6. Rows' = [Rows EXCEPT ![n] =
                   IF @.recur = 0 THEN NoTask
                   ELSE [next |-> (pNow + Rows[n].recur) % W, recur |-> Rows[n].recur]]
    <3>1. Rows[n].recur = tasks[1].recur
      BY <2>5
    <3> QED
      BY <1>3, <1>4, <2>3, <3>1
  <2>7. AsTable!Call(n)
    <3>1. n \in AsTable!Scheduled /\ Rows[n].next <= pNow
      BY <1>3, <2>1, <2>5 DEF AsTable!Scheduled
    <3> QED
      BY <1>1, <2>1, <2>6, <3>1 DEF AsTable!Call
  <2> QED
    BY <1>3, <2>4, <2>7
<1>7. CASE ~Due(tasks[1], pNow)
  <2>1. tasks' = Turn(tasks, tasks[1]) /\ UNCHANGED <<pc, running, pNow>>
    BY <1>1, <1>3, <1>7 DEF RunRound, PutBack
  <2>2. /\ Distinct(tasks')
        /\ \A m : Lookup(tasks', m) = Lookup(tasks, m)
    BY <1>1, <1>2, <1>3, <1>5, <2>1, TurnLooksSame
  <2>3. TableInv'
    BY <1>1, <2>1, <2>2 DEF TableInv
  <2> QED
    BY <1>3, <1>4, <2>1, <2>2, <2>3
<1> QED
  BY <1>6, <1>7

(* Every step of the scheduler is a step of the table or a stutter.         *)
LEMMA NextRefinesTable ==
  ASSUME UniqueNames, TableInv, [Next]_vars
  PROVE  TableInv' /\ [AsTable!Next]_AsTable!vars
<1>0. TypeOK'
  BY StepKeepsTypes DEF TableInv
<1>1. SUFFICES TableInv' /\ (AsTable!Next \/ UNCHANGED <<Rows, running, pNow>>)
  BY DEF AsTable!vars
<1>2. ASSUME NEW n \in Names, NEW t \in Time, scheduleFunction(n, t)
      PROVE  TableInv' /\ (AsTable!Next \/ UNCHANGED <<Rows, running, pNow>>)
  <2>1. AsTable!Time = Time
    BY DEF AsTable!Time, Time
  <2> QED
    BY <1>0, <1>2, <2>1, AddRefined DEF AsTable!Next
<1>3. ASSUME NEW n \in Names, scheduleRemoveFunction(n)
      PROVE  TableInv' /\ (AsTable!Next \/ UNCHANGED <<Rows, running, pNow>>)
  <2>1. [name |-> n, recur |-> 0, next |-> 0] \in Item
    BY SchedulerAssumption DEF Item, Time
  <2>2. TableInv' /\ AsTable!Remove(n)
    BY <1>0, <1>3, <2>1, StartLoopRefined DEF scheduleRemoveFunction, AsTable!Remove
  <2> QED
    BY <2>2 DEF AsTable!Next
<1>4. ASSUME NEW n \in Names, NEW next \in Time, NEW recur \in Time,
             scheduleChangeFunction(n, next, recur)
      PROVE  TableInv' /\ (AsTable!Next \/ UNCHANGED <<Rows, running, pNow>>)
  <2> DEFINE item == [name |-> n, recur |-> recur, next |-> next]
  <2>1. item \in Item /\ item.name = n /\ Row(item) = [next |-> next, recur |-> recur]
    BY DEF Item, Row
  <2>2. StartLoop("change", item)
    BY <1>4 DEF scheduleChangeFunction
  <2> HIDE DEF item
  <2>3. /\ TableInv' /\ UNCHANGED <<running, pNow>>
        /\ Rows' = IF Rows[n] = NoTask THEN Rows
                   ELSE [Rows EXCEPT ![n] = [next |-> next, recur |-> recur]]
    BY <1>0, <2>1, <2>2, StartLoopRefined
  <2>4. CASE Rows[n] = NoTask
    BY <2>3, <2>4
  <2>5. CASE Rows[n] # NoTask
    <3>1. AsTable!Change(n, next, recur)
      BY <2>3, <2>5 DEF AsTable!Change, AsTable!Scheduled
    <3>2. AsTable!Time = Time
      BY DEF AsTable!Time, Time
    <3> QED
      BY <2>3, <3>1, <3>2 DEF AsTable!Next
  <2> QED
    BY <2>4, <2>5
<1>5. ASSUME NEW now \in Time, scheduleRun(now)
      PROVE  TableInv' /\ (AsTable!Next \/ UNCHANGED <<Rows, running, pNow>>)
  <2>1. /\ pc = "client" /\ pc' = "run" /\ pNow' = now /\ UNCHANGED <<tasks, opI, arg, running>>
        /\ running = NoTask
    BY <1>5 DEF scheduleRun, TableInv, TypeOK
  <2>2. Rows' = Rows
    BY <2>1, QuietRows
  <2>3. TableInv'
    BY <1>0, <2>1 DEF TableInv
  <2>4. AsTable!Pass(now) /\ AsTable!Time = Time
    BY <2>1, <2>2 DEF AsTable!Pass, AsTable!Time, Time
  <2> QED
    BY <2>3, <2>4 DEF AsTable!Next
<1>6. CASE RunRound
  BY <1>0, <1>6, RunRoundRefined DEF AsTable!Next
<1>7. CASE CallbackReturns
  <2>1. /\ pc = "callback" /\ pc' = "run" /\ running' = NoTask
        /\ UNCHANGED <<tasks, pNow, opI, arg>>
    BY <1>7 DEF CallbackReturns
  <2>2. Rows' = Rows
    BY <2>1, QuietRows
  <2>3. TableInv'
    BY <1>0, <2>1 DEF TableInv
  <2>4. AsTable!Return
    BY <2>1, <2>2 DEF AsTable!Return
  <2> QED
    BY <2>3, <2>4 DEF AsTable!Next
<1>8. CASE RunReturns
  <2>1. /\ pc = "run" /\ pc' = "client" /\ pNow' = 0 /\ running = NoTask
        /\ UNCHANGED <<tasks, opI, arg, running>>
    BY <1>8 DEF RunReturns, TableInv, TypeOK
  <2>2. Rows' = Rows
    BY <2>1, QuietRows
  <2>3. TableInv'
    BY <1>0, <2>1 DEF TableInv
  <2>4. AsTable!Pass(0) /\ 0 \in AsTable!Time
    BY <2>1, <2>2, SchedulerAssumption DEF AsTable!Pass, AsTable!Time
  <2> QED
    BY <2>3, <2>4 DEF AsTable!Next
<1>9. CASE RemoveRound
  BY <1>0, <1>9, RemoveRoundHidden
<1>10. CASE ChangeRound
  BY <1>0, <1>10, ChangeRoundHidden
<1>11. ASSUME NEW function \in {"remove", "change"}, EndLoop(function)
       PROVE  TableInv' /\ (AsTable!Next \/ UNCHANGED <<Rows, running, pNow>>)
  BY <1>0, <1>11, EndLoopHidden
<1>12. CASE UNCHANGED vars
  BY <1>12 DEF vars, TableInv, TypeOK, Rows, Entry
<1> QED
  BY <1>2, <1>3, <1>4, <1>5, <1>6, <1>7, <1>8, <1>9, <1>10, <1>11, <1>12 DEF Next

(* With one item per name, for every set of names, capacity and width of    *)
(* queue_time_t, the scheduler's loops over the ring behave as single steps *)
(* on a table: no task is lost, run twice or left unchanged, however the    *)
(* rounds of scheduleRun and the calls its tasks make mix.                  *)
THEOREM SchedulerImplementsTable == UniqueNames => (Spec => ImplementsTable)
<1> SUFFICES ASSUME UniqueNames PROVE Spec => ImplementsTable
  OBVIOUS
<1>1. Init => TableInv /\ AsTable!Init
  <2> SUFFICES ASSUME Init PROVE TableInv /\ AsTable!Init
    OBVIOUS
  <2>1. tasks = << >> /\ pc = "client" /\ opI = 0 /\ arg = NoTask /\ running = NoTask /\ pNow = 0
    BY DEF Init
  <2>2. TypeOK
    BY SchedulerAssumption DEF Init, TypeOK, TaskList, Time
  <2>3. TableInv
    BY <2>1, <2>2 DEF TableInv, Distinct
  <2>4. Rows = [n \in Names |-> NoTask]
    BY <2>1 DEF Rows, Entry, NamesIn
  <2> QED
    BY <2>1, <2>3, <2>4 DEF AsTable!Init
<1>2. TableInv /\ [Next]_vars => TableInv' /\ [AsTable!Next]_AsTable!vars
  BY NextRefinesTable
<1> QED
  BY <1>1, <1>2, PTL DEF Spec, ImplementsTable, AsTable!Spec
=============================================================================
