--------------------------- MODULE TaskScheduler ---------------------------
(***************************************************************************)
(* The cooperative task scheduler of S3/queue.c over the bounded list that *)
(* its ring buffer implements (TaskRing): scheduleFunction,                *)
(* scheduleRemoveFunction, scheduleChangeFunction and scheduleRun.         *)
(*                                                                         *)
(* The last three are loops of the form                                    *)
(*     for (i = 0; i < itemsInQueue; ++i) take the top, maybe put it back  *)
(* whose bound is read anew in every round, so an item that is not put     *)
(* back ends the loop one round early.  One step is one round.  A task     *)
(* called by scheduleRun may call the other three functions before it      *)
(* returns, which is why the loop of scheduleRun has a counter of its own. *)
(* A task is known by its name; the function pointer goes with it.         *)
(***************************************************************************)
EXTENDS Integers, Sequences, FiniteSets, SequencesExt

CONSTANTS
  Names,        \* the names tasks are scheduled under
  W,            \* number of values of queue_time_t (2^16)
  Capacity,     \* how many items the ring holds (QUEUE_DEPTH - 1)
  NoTask,       \* no task
  UniqueNames   \* whether a name already in the queue is never added again,
                \* as the firmware's one scheduleFunction call per task

ASSUME SchedulerAssumption ==
  /\ W \in Nat \ {0}
  /\ Capacity \in Nat \ {0}
  /\ NoTask \notin Names
  /\ UniqueNames \in BOOLEAN

VARIABLES
  tasks,        \* the queue, oldest item first
  pc,           \* the function whose code runs next
  runI, pNow,   \* i and pNow of the scheduleRun in progress
  opI, arg,     \* i and the arguments of a remove or change in progress
  running       \* the task scheduleRun is calling

vars == <<tasks, pc, runI, pNow, opI, arg, running>>

Time == 0 .. W - 1
Item == [name : Names, recur : Time, next : Time]

ASSUME NoTaskIsNoItem == NoTask \notin Item /\ NoTask \notin [next : Time, recur : Time]

TaskList == {s \in Seq(Item) : Len(s) <= Capacity}

Insert(q, item) == IF Len(q) < Capacity THEN Append(q, item) ELSE q

NamesIn(q) == {q[k].name : k \in DOMAIN q}

(* The code that runs when a remove or change returns: the task that called *)
(* it, or the code outside the scheduler.                                   *)
Caller == IF running = NoTask THEN "client" ELSE "callback"

InClient == pc \in {"client", "callback"}

Init ==
  /\ tasks = << >>
  /\ pc = "client"
  /\ runI = 0 /\ pNow = 0
  /\ opI = 0 /\ arg = NoTask
  /\ running = NoTask

-----------------------------------------------------------------------------
scheduleFunction(pId, pInitialRun) ==
  /\ InClient
  /\ UniqueNames => pId \notin NamesIn(tasks)
  /\ tasks' = Insert(tasks, [name |-> pId, recur |-> pInitialRun, next |-> pInitialRun])
  /\ UNCHANGED <<pc, runI, pNow, opI, arg, running>>

StartLoop(function, item) ==
  /\ InClient
  /\ pc' = function
  /\ arg' = item
  /\ UNCHANGED <<tasks, runI, pNow, opI, running>>

(* A remove or change returns after the last round (for the mutation runs:   *)
(* the bound is off by one).                                                 *)
EndsPastLast(function) ==
  /\ pc = function
  /\ opI > Len(tasks)
  /\ pc' = Caller /\ opI' = 0 /\ arg' = NoTask
  /\ UNCHANGED <<tasks, runI, pNow, running>>

EndLoop(function) ==
  /\ pc = function
  /\ opI >= Len(tasks)
  /\ pc' = Caller
  /\ opI' = 0
  /\ arg' = NoTask
  /\ UNCHANGED <<tasks, runI, pNow, running>>

(* The queue after the top was taken and put back (for the mutation runs: in *)
(* front).                                                                   *)
StaysInFront(q) == q

PutBack(q) == Insert(Tail(q), Head(q))

scheduleRemoveFunction(pId) ==
  StartLoop("remove", [name |-> pId, recur |-> 0, next |-> 0])

RemoveRound ==
  /\ pc = "remove"
  /\ opI < Len(tasks)
  /\ tasks' = IF Head(tasks).name = arg.name THEN Tail(tasks) ELSE PutBack(tasks)
  /\ opI' = opI + 1
  /\ UNCHANGED <<pc, runI, pNow, arg, running>>

(* The queue after one round: the taken item goes to the end, changed if it *)
(* has the name.  (For the mutation runs: the item stays in front; the      *)
(* others are dropped.)                                                     *)
ChangesInFront(q, item) ==
  IF Head(q).name = item.name THEN <<item>> \o Tail(q) ELSE Insert(Tail(q), Head(q))
ChangeDropsOthers(q, item) ==
  IF Head(q).name = item.name THEN Insert(Tail(q), item) ELSE Tail(q)

Changed(q, item) ==
  Insert(Tail(q), IF Head(q).name = item.name THEN item ELSE Head(q))

scheduleChangeFunction(pId, pNewNext, pNewRecur) ==
  StartLoop("change", [name |-> pId, recur |-> pNewRecur, next |-> pNewNext])

ChangeRound ==
  /\ pc = "change"
  /\ opI < Len(tasks)
  /\ tasks' = Changed(tasks, arg)
  /\ opI' = opI + 1
  /\ UNCHANGED <<pc, runI, pNow, arg, running>>

scheduleRun(now) ==
  /\ pc = "client"
  /\ pc' = "run"
  /\ pNow' = now
  /\ UNCHANGED <<tasks, runI, opI, arg, running>>

(* What becomes of a due item: with a period it is put back, due one period *)
(* after pNow (modulo 2^16), before its function is called; without, it is  *)
(* gone.  (For the mutation runs: the period counts from the time that was  *)
(* due instead of from now.)                                                *)
PeriodFromDue(item, now, q) ==
  IF item.recur = 0 THEN q ELSE Insert(q, [item EXCEPT !.next = (@ + item.recur) % W])

Rescheduled(item, now, q) ==
  IF item.recur = 0 THEN q
  ELSE Insert(q, [item EXCEPT !.next = (now + item.recur) % W])

(* A task is due from its time on (for the mutation runs: only after it).    *)
DueAfter(item, now) == item.next < now

Due(item, now) == item.next <= now

RunRound ==
  /\ pc = "run"
  /\ runI < Len(tasks)
  /\ \/ /\ Due(Head(tasks), pNow)
        /\ tasks' = Rescheduled(Head(tasks), pNow, Tail(tasks))
        /\ running' = Head(tasks).name
        /\ pc' = "callback"
        /\ UNCHANGED runI
     \/ /\ ~Due(Head(tasks), pNow)
        /\ tasks' = PutBack(tasks)
        /\ runI' = runI + 1
        /\ UNCHANGED <<pc, running>>
  /\ UNCHANGED <<pNow, opI, arg>>

CallbackReturns ==
  /\ pc = "callback"
  /\ pc' = "run"
  /\ running' = NoTask
  /\ runI' = runI + 1
  /\ UNCHANGED <<tasks, pNow, opI, arg>>

RunReturns ==
  /\ pc = "run"
  /\ runI >= Len(tasks)
  /\ pc' = "client"
  /\ runI' = 0 /\ pNow' = 0
  /\ UNCHANGED <<tasks, opI, arg, running>>

Next ==
  \/ \E n \in Names :
        \/ \E t \in Time : scheduleFunction(n, t)
        \/ scheduleRemoveFunction(n)
        \/ \E next, recur \in Time : scheduleChangeFunction(n, next, recur)
  \/ \E now \in Time : scheduleRun(now)
  \/ RemoveRound
  \/ EndLoop("remove")
  \/ ChangeRound
  \/ EndLoop("change")
  \/ RunRound
  \/ CallbackReturns
  \/ RunReturns

Spec == Init /\ [][Next]_vars

-----------------------------------------------------------------------------
TypeOK ==
  /\ tasks \in TaskList
  /\ pc \in {"client", "callback", "run", "remove", "change"}
  /\ runI \in 0 .. Capacity
  /\ pNow \in Time
  /\ opI \in 0 .. Capacity
  /\ arg \in Item \cup {NoTask}
  /\ running \in Names \cup {NoTask}
  /\ pc \in {"remove", "change"} <=> arg # NoTask
  /\ pc = "callback" => running # NoTask
  /\ running # NoTask => pc \in {"callback", "remove", "change"} /\ runI < Capacity

(* scheduleChangeFunction, also when a running task calls it, leaves the     *)
(* order of the queue as it was, so that scheduleRun goes on with the item   *)
(* it would have taken next: in the middle of the loop the queue is the old  *)
(* one turned by opI places.                                                 *)
Turned(q, k) == SubSeq(q, Len(q) - k + 1, Len(q)) \o SubSeq(q, 1, Len(q) - k)

Renamed(q) == [k \in DOMAIN q |-> q[k].name]

ChangeKeepsOrder ==
  [][pc = "change" /\ pc' = "change" =>
       Renamed(Turned(tasks', opI')) = Renamed(Turned(tasks, opI))]_vars

-----------------------------------------------------------------------------
(* The table of the tasks, as the rest of the firmware sees it: a remove or *)
(* change in progress has already taken effect.                             *)
Entry(n) ==
  IF n \notin NamesIn(tasks) THEN NoTask
  ELSE IF pc = "remove" /\ arg.name = n THEN NoTask
  ELSE IF pc = "change" /\ arg.name = n THEN [next |-> arg.next, recur |-> arg.recur]
  ELSE LET k == CHOOSE k \in DOMAIN tasks : tasks[k].name = n
       IN  [next |-> tasks[k].next, recur |-> tasks[k].recur]

Rows == [n \in Names |-> Entry(n)]

AsTable == INSTANCE TaskTable WITH table <- Rows

(* With one item per name the loops are single steps on a table of tasks:   *)
(* a task is lost only when it was removed or ran without a period, however *)
(* the rounds of scheduleRun, its tasks' own calls and a full queue mix.    *)
ImplementsTable == AsTable!Spec
=============================================================================
