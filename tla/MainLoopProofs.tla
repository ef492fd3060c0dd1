--------------------------- MODULE MainLoopProofs ---------------------------
(***************************************************************************)
(* Proofs about the main loop, for every set of tasks, intervals and       *)
(* settings: no task leaves the queue, and a task that was due and not     *)
(* reached is reached by the next pass, torn reads of the clock and lost   *)
(* seconds included; and when the loop sees every second, no task is late. *)
(*                                                                         *)
(* A task leaves the queue only when it runs without a period.  StayInv    *)
(* adds to TasksStay that those that must stay (Guarded) have a period, in *)
(* the queue and in a change that is under way, and that nothing in the    *)
(* firmware removes a task.                                                *)
(*                                                                         *)
(* ServedInv says where in the queue a task is that was not reached.  Its  *)
(* place counts as if a change that is under way had not turned the queue. *)
(*                                                                         *)
(* OnTimeInv relates the clock, the queue and the history.  The next run   *)
(* of a task is planned an interval after its last one, across the wrap of *)
(* tickS (PeriodInv); no second is over before its pass (ClockInv); and in *)
(* a pass the items it has come to have begun a new interval (SinceInv).   *)
(***************************************************************************)
EXTENDS MainLoop, QueueProofs

Guarded == Fixed \cup (IF wasZero THEN {} ELSE {SendData})

(* The tasks of G are in the queue, and will be put back. *)
Safe(q, G) ==
  /\ G \subseteq NamesIn(q)
  /\ \A k \in DOMAIN q : q[k].name \in G => q[k].recur # 0

SettingsTypes ==
  /\ interval \in [{SendData} \cup ToSet(Settable) -> Intervals]
  /\ resched \in Seq(ToSet(Settable))
  /\ wasZero \in BOOLEAN

StayInv ==
  /\ TypeOK
  /\ SettingsTypes
  /\ pc # "remove"
  /\ pc = "change" /\ arg.name \in Guarded => arg.recur # 0
  /\ Safe(tasks, Guarded)

-----------------------------------------------------------------------------
(* The top goes to the end: the tasks stay. *)
LEMMA TurnKeepsSafe ==
  ASSUME NEW q \in TaskList, Len(q) > 0, NEW G, Safe(q, G),
         NEW item \in Item, item.name = Head(q).name,
         item.name \in G => item.recur # 0
  PROVE  Safe(Insert(Tail(q), item), G)
<1> DEFINE r == Append(Tail(q), item)
<1>1. q \in Seq(Item) /\ Len(q) \in Nat /\ Head(q) = q[1] /\ Len(Tail(q)) = Len(q) - 1
      /\ Tail(q) \in Seq(Item) /\ Len(q) <= Capacity
  BY DEF TaskList
<1>2. Insert(Tail(q), item) = r
  <2>1. Len(Tail(q)) < Capacity
    BY <1>1, SchedulerAssumption
  <2> QED BY <2>1, Zenon DEF Insert
<1>3. /\ DOMAIN q = 1 .. Len(q) /\ DOMAIN r = 1 .. Len(q)
      /\ \A k \in 1 .. Len(q) - 1 : r[k] = q[k + 1]
      /\ r[Len(q)] = item
  BY <1>1
<1>4. ASSUME NEW n \in G PROVE n \in NamesIn(r)
  <2>1. PICK k \in DOMAIN q : q[k].name = n
    BY DEF Safe, NamesIn
  <2>2. CASE k = 1
    <3>1. Len(q) \in DOMAIN r /\ r[Len(q)].name = n
      BY <1>1, <1>3, <2>1, <2>2
    <3> QED BY <3>1 DEF NamesIn
  <2>3. CASE k # 1
    <3>1. k - 1 \in 1 .. Len(q) - 1 /\ k - 1 + 1 = k /\ k - 1 \in DOMAIN r
      BY <1>1, <1>3, <2>1, <2>3
    <3>2. r[k - 1].name = n
      BY <1>3, <2>1, <3>1
    <3> QED BY <3>1, <3>2 DEF NamesIn
  <2> QED BY <2>2, <2>3
<1>5. ASSUME NEW k \in DOMAIN r, r[k].name \in G PROVE r[k].recur # 0
  <2>1. CASE k = Len(q)
    BY <1>3, <1>5, <2>1
  <2>2. CASE k # Len(q)
    <3>1. k \in 1 .. Len(q) - 1 /\ k + 1 \in DOMAIN q
      BY <1>1, <1>3, <2>2
    <3> QED BY <1>3, <1>5, <3>1 DEF Safe
  <2> QED BY <2>1, <2>2
<1> QED BY <1>2, <1>4, <1>5 DEF Safe

(* The top leaves the queue: what must stay stays when the top need not. *)
LEMMA TakeKeepsSafe ==
  ASSUME NEW q \in TaskList, Len(q) > 0, NEW G, Safe(q, G), Head(q).name \notin G
  PROVE  Safe(Tail(q), G)
<1>1. q \in Seq(Item) /\ Len(q) \in Nat /\ Head(q) = q[1] /\ Len(Tail(q)) = Len(q) - 1
      /\ Tail(q) \in Seq(Item)
  BY DEF TaskList
<1>2. /\ DOMAIN q = 1 .. Len(q) /\ DOMAIN Tail(q) = 1 .. Len(q) - 1
      /\ \A k \in 1 .. Len(q) - 1 : Tail(q)[k] = q[k + 1]
  BY <1>1
<1>3. ASSUME NEW n \in G PROVE n \in NamesIn(Tail(q))
  <2>1. PICK k \in DOMAIN q : q[k].name = n
    BY DEF Safe, NamesIn
  <2>2. k # 1
    BY <1>1, <2>1
  <2>3. k - 1 \in 1 .. Len(q) - 1 /\ k - 1 + 1 = k /\ k - 1 \in DOMAIN Tail(q)
    BY <1>1, <1>2, <2>1, <2>2
  <2>4. Tail(q)[k - 1].name = n
    BY <1>2, <2>1, <2>3
  <2> QED BY <2>3, <2>4 DEF NamesIn
<1>4. ASSUME NEW k \in DOMAIN Tail(q), Tail(q)[k].name \in G PROVE Tail(q)[k].recur # 0
  <2>1. k \in 1 .. Len(q) - 1 /\ k + 1 \in DOMAIN q
    BY <1>1, <1>2
  <2> QED BY <1>2, <1>4, <2>1 DEF Safe
<1> QED BY <1>3, <1>4 DEF Safe

(* Uploads that are switched off need not stay. *)
LEMMA FewerAreSafe ==
  ASSUME NEW q, NEW G, Safe(q, G), NEW H \in SUBSET G
  PROVE  Safe(q, H)
BY DEF Safe

-----------------------------------------------------------------------------
(* What is scheduled is a value of queue_time_t. *)
LEMMA Bytes ==
  /\ W \in Nat \ {0} /\ ByteValues \in 1 .. W
  /\ \A b \in Intervals : b \in Nat /\ b < W
<1>1. ByteValues \in 1 .. W /\ Intervals \subseteq 0 .. ByteValues - 1
  BY MainLoopAssumption, Zenon
<1>2. W \in Nat \ {0}
  BY SchedulerAssumption, Zenon
<1> QED BY <1>1, <1>2

LEMMA QuotientIsLess ==
  ASSUME NEW b \in Nat, NEW d \in Nat \ {0}
  PROVE  b \div d \in 0 .. b
<1>1. b \div d \in Int /\ b \div d >= 0
  OBVIOUS
<1>2. b \div d <= b
  OBVIOUS
<1> QED BY <1>1, <1>2

LEMMA IntervalTypes ==
  ASSUME SettingsTypes
  PROVE  /\ SendInterval \in Time
         /\ \A now \in Time : NextSend(now) \in Time
         /\ \A n \in ToSet(Settable) : SettableInterval(n) \in Time
<1>1. /\ interval \in [{SendData} \cup ToSet(Settable) -> Intervals]
      /\ SendUnit \in Nat /\ Divisor \in [ToSet(Settable) -> Nat \ {0}]
  BY MainLoopAssumption, Zenon DEF SettingsTypes
<1>2. SendInterval \in Time
  <2>1. interval[SendData] \in Nat
    BY <1>1, Bytes
  <2>2. interval[SendData] * SendUnit \in Nat
    BY <1>1, <2>1
  <2> QED BY <2>2, Bytes DEF SendInterval, Time
<1>3. ASSUME NEW now \in Time PROVE NextSend(now) \in Time
  BY <1>2, Bytes DEF NextSend, Time
<1>4. ASSUME NEW n \in ToSet(Settable) PROVE SettableInterval(n) \in Time
  <2>1. interval[n] \in Nat /\ interval[n] < W /\ Divisor[n] \in Nat \ {0}
    BY <1>1, Bytes
  <2>2. interval[n] \div Divisor[n] \in 0 .. interval[n]
    BY <2>1, QuotientIsLess
  <2> QED BY <2>1, <2>2, Bytes DEF SettableInterval, Time
<1> QED BY <1>2, <1>3, <1>4

(* At the start every task is in the queue, with the interval main computes. *)
LEMMA StayInitially == MainInit => StayInv
<1> SUFFICES ASSUME MainInit PROVE StayInv
  OBVIOUS
<1>1. SettingsTypes
  <2>1. << >> \in Seq(ToSet(Settable)) /\ (BootSendInterval = 0) \in BOOLEAN
    OBVIOUS
  <2> QED BY <2>1, Zenon DEF MainInit, SettingsTypes
<1>2. /\ Names = {SendData} \cup ToSet(Settable) \cup Fixed
      /\ FixedRecur \in [Fixed -> 1 .. W - 1]
      /\ SendUnit \in Nat
      /\ BootOrder \in Seq(Names) /\ ToSet(BootOrder) = Names
      /\ Len(BootOrder) = Cardinality(Names) /\ Cardinality(Names) <= Capacity
  BY MainLoopAssumption, Zenon
<1>3. ASSUME NEW n \in Names PROVE BootInterval(n) \in Time
  <2>1. CASE n = SendData
    <3>1. interval[SendData] \in Nat
      BY <1>1, Bytes DEF SettingsTypes
    <3>2. interval[SendData] * SendUnit \in Nat
      BY <1>2, <3>1
    <3>3. BootSendInterval \in 0 .. ByteValues - 1
      BY <3>2, Bytes DEF BootSendInterval
    <3> QED BY <2>1, <3>3, Bytes DEF BootInterval, Time
  <2>2. CASE n # SendData /\ n \in Fixed
    BY <1>2, <2>2, Bytes DEF BootInterval, Time
  <2>3. CASE n # SendData /\ n \notin Fixed
    BY <1>1, <1>2, <2>3, IntervalTypes DEF BootInterval
  <2> QED BY <2>1, <2>2, <2>3
<1>4. /\ DOMAIN BootOrder = 1 .. Len(BootOrder) /\ Len(BootOrder) \in Nat
      /\ Len(BootOrder) <= Capacity
      /\ \A k \in DOMAIN BootOrder : BootOrder[k] \in Names
  <2>1. BootOrder \in Seq(Names)
    BY <1>2
  <2>2. Len(BootOrder) <= Capacity
    BY <1>2, Zenon
  <2> QED BY <2>1, <2>2
<1> DEFINE Task(n) == [name |-> n, recur |-> BootInterval(n), next |-> BootInterval(n)]
<1>5. tasks = [k \in DOMAIN BootOrder |-> Task(BootOrder[k])]
  BY Zenon DEF MainInit
<1>6. \A n \in Names : Task(n) \in Item /\ Task(n).name = n
                        /\ Task(n).recur = BootInterval(n)
  BY <1>3 DEF Item
<1> HIDE DEF Task
<1>7. /\ DOMAIN tasks = DOMAIN BootOrder
      /\ \A k \in DOMAIN tasks : tasks[k].name = BootOrder[k]
                                /\ tasks[k].recur = BootInterval(BootOrder[k])
  BY <1>4, <1>5, <1>6
<1>8. tasks \in TaskList
  <2>1. tasks \in [1 .. Len(BootOrder) -> Item]
    BY <1>4, <1>5, <1>6
  <2>2. tasks \in Seq(Item) /\ Len(tasks) = Len(BootOrder)
    BY <1>4, <2>1, SeqDef
  <2> QED BY <1>4, <2>2 DEF TaskList
<1>9. TypeOK
  BY <1>8, SchedulerAssumption DEF TypeOK, MainInit, Time
<1>10. ASSUME NEW n \in Guarded PROVE n \in NamesIn(tasks)
  <2>1. n \in Names
    BY <1>2, Zenon DEF Guarded
  <2>2. PICK k \in DOMAIN BootOrder : BootOrder[k] = n
    BY <1>2, <2>1 DEF ToSet
  <2> QED BY <1>7, <2>2, Zenon DEF NamesIn
<1>11. ASSUME NEW k \in DOMAIN tasks, tasks[k].name \in Guarded PROVE tasks[k].recur # 0
  <2>1. tasks[k].recur = BootInterval(tasks[k].name)
    BY <1>7
  <2>2. CASE tasks[k].name = SendData /\ ~wasZero
    <3>1. BootSendInterval # 0
      BY <2>2, Zenon DEF MainInit
    <3> QED BY <2>1, <2>2, <3>1, Zenon DEF BootInterval
  <2>3. CASE tasks[k].name # SendData /\ tasks[k].name \in Fixed
    BY <1>2, <2>1, <2>3 DEF BootInterval
  <2>4. SendData \notin Fixed
    BY MainLoopAssumption, Zenon
  <2>5. tasks[k].name \in Fixed \/ (tasks[k].name = SendData /\ ~wasZero)
    BY <1>11, Zenon DEF Guarded
  <2> QED BY <2>2, <2>3, <2>4, <2>5
<1>12. Safe(tasks, Guarded)
  BY <1>10, <1>11 DEF Safe
<1>13. pc = "client"
  BY Zenon DEF MainInit
<1> QED BY <1>1, <1>9, <1>12, <1>13 DEF StayInv

-----------------------------------------------------------------------------
(* A due task that must stay is put back before it is called. *)
LEMMA RunRoundStays ==
  ASSUME StayInv, RunRound
  PROVE  Safe(tasks', Guarded)
<1>1. /\ tasks \in TaskList /\ Len(tasks) > 0 /\ Safe(tasks, Guarded)
      /\ Head(tasks) \in Item /\ Tail(tasks) \in TaskList /\ pNow \in Time
      /\ Head(tasks) = tasks[1] /\ 1 \in DOMAIN tasks
  <2>1. tasks \in TaskList /\ Len(tasks) \in Nat /\ Len(tasks) > 0 /\ Safe(tasks, Guarded)
        /\ pNow \in Time
    BY DEF StayInv, TypeOK, TaskList, RunRound
  <2>2. Head(tasks) = tasks[1] /\ 1 \in DOMAIN tasks
    BY <2>1 DEF TaskList
  <2> QED BY <2>1, <2>2, TakeType
<1>2. CASE tasks' = PutBack(tasks)
  <2>1. Head(tasks).name \in Guarded => Head(tasks).recur # 0
    BY <1>1 DEF Safe
  <2> QED BY <1>1, <1>2, <2>1, TurnKeepsSafe DEF PutBack
<1>3. CASE tasks' = Rescheduled(Head(tasks), pNow, Tail(tasks))
  <2>1. CASE Head(tasks).recur = 0
    <3>1. Head(tasks).name \notin Guarded
      BY <1>1, <2>1 DEF Safe
    <3>2. tasks' = Tail(tasks)
      BY <1>3, <2>1 DEF Rescheduled
    <3> QED BY <1>1, <3>1, <3>2, TakeKeepsSafe
  <2>2. CASE Head(tasks).recur # 0
    <3> DEFINE item == [Head(tasks) EXCEPT !.next = (pNow + Head(tasks).recur) % W]
    <3>1. (pNow + Head(tasks).recur) % W \in Time
      BY <1>1, SchedulerAssumption DEF Item, Time
    <3>2. item \in Item /\ item.name = Head(tasks).name /\ item.recur # 0
      BY <1>1, <2>2, <3>1 DEF Item
    <3>3. tasks' = Insert(Tail(tasks), item)
      BY <1>3, <2>2 DEF Rescheduled
    <3> HIDE DEF item
    <3> QED BY <1>1, <3>2, <3>3, TurnKeepsSafe
  <2> QED BY <2>1, <2>2
<1> QED BY <1>2, <1>3 DEF RunRound

(* A change gives a task that must stay another period, never none. *)
LEMMA ChangeRoundStays ==
  ASSUME StayInv, ChangeRound
  PROVE  Safe(tasks', Guarded)
<1>1. /\ tasks \in TaskList /\ Len(tasks) > 0 /\ Safe(tasks, Guarded)
      /\ Head(tasks) \in Item /\ arg \in Item
      /\ Head(tasks) = tasks[1] /\ 1 \in DOMAIN tasks
      /\ arg.name \in Guarded => arg.recur # 0
  <2>1. tasks \in TaskList /\ Len(tasks) \in Nat /\ Len(tasks) > 0 /\ Safe(tasks, Guarded)
        /\ arg \in Item /\ (arg.name \in Guarded => arg.recur # 0)
    BY DEF StayInv, TypeOK, TaskList, ChangeRound
  <2>2. Head(tasks) = tasks[1] /\ 1 \in DOMAIN tasks
    BY <2>1 DEF TaskList
  <2> QED BY <2>1, <2>2, TakeType
<1>2. CASE Head(tasks).name = arg.name
  <2>1. tasks' = Insert(Tail(tasks), arg)
    BY <1>2 DEF ChangeRound, Changed
  <2> QED BY <1>1, <1>2, <2>1, TurnKeepsSafe
<1>3. CASE Head(tasks).name # arg.name
  <2>1. tasks' = Insert(Tail(tasks), Head(tasks))
    BY <1>3 DEF ChangeRound, Changed
  <2>2. Head(tasks).name \in Guarded => Head(tasks).recur # 0
    BY <1>1 DEF Safe
  <2> QED BY <1>1, <2>1, <2>2, TurnKeepsSafe
<1> QED BY <1>2, <1>3

(* What one step of the program does to the scheduler is a step of it. *)
LEMMA SchedulerStep ==
  ASSUME StayInv, [MainNext]_mainVars
  PROVE  [Next]_vars
<1>1. CASE StartPass
  BY <1>1 DEF StartPass, Next
<1>2. CASE PassRound
  BY <1>2 DEF PassRound, Next
<1>3. CASE sendData
  <2>1. PICK now \in Time : scheduleChangeFunction(SendData, NextSend(now), SendInterval)
    BY <1>3 DEF sendData
  <2>2. SendData \in Names
    BY MainLoopAssumption, Zenon
  <2>3. NextSend(now) \in Time /\ SendInterval \in Time
    BY IntervalTypes DEF StayInv
  <2> QED BY <2>1, <2>2, <2>3, Zenon DEF Next
<1>4. CASE reScheduleTasks
  <2>1. resched # << >> /\ resched \in Seq(ToSet(Settable))
    BY <1>4 DEF reScheduleTasks, StayInv, SettingsTypes
  <2>2. Head(resched) \in ToSet(Settable)
    BY <2>1
  <2>3. Head(resched) \in Names
    BY <2>2, MainLoopAssumption, Zenon
  <2>4. SettableInterval(Head(resched)) \in Time
    BY <2>2, IntervalTypes DEF StayInv
  <2>5. PICK now \in Time :
          scheduleChangeFunction(Head(resched), (now + SettableInterval(Head(resched))) % W,
                                 SettableInterval(Head(resched)))
    BY <1>4, Zenon DEF reScheduleTasks
  <2>6. (now + SettableInterval(Head(resched))) % W \in Time
    BY <2>4, Bytes DEF Time
  <2> QED BY <2>3, <2>4, <2>5, <2>6, Zenon DEF Next
<1>5. CASE ChangeLoop
  BY <1>5 DEF ChangeLoop, Next
<1>6. CASE TaskReturns
  BY <1>6 DEF TaskReturns, Next
<1>7. CASE EndPass
  BY <1>7 DEF EndPass, Next
<1>8. CASE NoNewSecond \/ NetDone \/ Interrupt
  BY <1>8 DEF NoNewSecond, NetDone, Interrupt, vars
<1>9. CASE \E b \in Intervals : SaveUploadInterval(b)
  BY <1>9 DEF SaveUploadInterval, vars
<1>10. CASE \E b \in Intervals, n \in ToSet(Settable) : SaveSettings(n, b)
  BY <1>10 DEF SaveSettings, vars
<1>11. CASE UNCHANGED mainVars
  BY <1>11 DEF mainVars, vars
<1> QED BY <1>1, <1>2, <1>3, <1>4, <1>5, <1>6, <1>7, <1>8, <1>9, <1>10, <1>11
        DEF MainNext, MainStep

LEMMA SettingsStep ==
  ASSUME SettingsTypes, [MainNext]_mainVars
  PROVE  SettingsTypes' /\ Guarded' \in SUBSET Guarded
<1>1. CASE UNCHANGED <<interval, resched, wasZero>>
  BY <1>1 DEF SettingsTypes, Guarded
<1>2. CASE sendData
  BY <1>2 DEF sendData, SettingsTypes, Guarded
<1> DEFINE IntervalOK == interval \in [{SendData} \cup ToSet(Settable) -> Intervals]
<1>3. ASSUME UNCHANGED wasZero, IntervalOK', resched' \in Seq(ToSet(Settable))
      PROVE  SettingsTypes' /\ Guarded' \in SUBSET Guarded
  <2>1. wasZero' \in BOOLEAN /\ Guarded' = Guarded
    BY <1>3, Zenon DEF SettingsTypes, Guarded
  <2> QED BY <1>3, <2>1, Zenon DEF SettingsTypes
<1>4. CASE reScheduleTasks
  <2>1. resched \in Seq(ToSet(Settable)) /\ resched # << >> /\ resched' = Tail(resched)
        /\ UNCHANGED <<wasZero, interval>>
    BY <1>4, Zenon DEF reScheduleTasks, SettingsTypes, history
  <2>2. resched' \in Seq(ToSet(Settable))
    BY <2>1
  <2>3. IntervalOK'
    BY <2>1, Zenon DEF SettingsTypes
  <2> QED BY <1>3, <2>1, <2>2, <2>3, Zenon
<1>5. ASSUME NEW b \in Intervals, NEW n \in {SendData} \cup ToSet(Settable),
             interval' = [interval EXCEPT ![n] = b]
      PROVE  IntervalOK'
  BY <1>5 DEF SettingsTypes
<1>6. ASSUME NEW b \in Intervals, SaveUploadInterval(b)
      PROVE  SettingsTypes' /\ Guarded' \in SUBSET Guarded
  <2>1. interval' = [interval EXCEPT ![SendData] = b] /\ UNCHANGED <<wasZero, resched>>
    BY <1>6, Zenon DEF SaveUploadInterval, history
  <2>2. IntervalOK'
    BY <1>5, <2>1
  <2>3. resched' \in Seq(ToSet(Settable))
    BY <2>1, Zenon DEF SettingsTypes
  <2> QED BY <1>3, <2>1, <2>2, <2>3, Zenon
<1>7. ASSUME NEW b \in Intervals, NEW n \in ToSet(Settable), SaveSettings(n, b)
      PROVE  SettingsTypes' /\ Guarded' \in SUBSET Guarded
  <2>1. interval' = [interval EXCEPT ![n] = b] /\ resched' = Settable /\ UNCHANGED wasZero
    BY <1>7, Zenon DEF SaveSettings, history
  <2>2. IntervalOK'
    BY <1>5, <2>1
  <2>3. Settable \in Seq(ToSet(Settable))
    <3>1. Settable \in Seq(Names)
      BY MainLoopAssumption, Zenon
    <3>2. Len(Settable) \in Nat /\ DOMAIN Settable = 1 .. Len(Settable)
          /\ Settable = [k \in 1 .. Len(Settable) |-> Settable[k]]
      BY <3>1
    <3>3. \A k \in 1 .. Len(Settable) : Settable[k] \in ToSet(Settable)
      BY <3>2, Zenon DEF ToSet
    <3>4. Settable \in [1 .. Len(Settable) -> ToSet(Settable)]
      BY <3>2, <3>3
    <3> QED BY <3>2, <3>4, SeqDef
  <2> QED BY <1>3, <2>1, <2>2, <2>3, Zenon
<1>8. \/ UNCHANGED <<interval, resched, wasZero>> \/ sendData \/ reScheduleTasks
      \/ \E b \in Intervals : SaveUploadInterval(b)
      \/ \E b \in Intervals, n \in ToSet(Settable) : SaveSettings(n, b)
  BY DEF MainNext, MainStep, mainVars, loopVars, history, StartPass, NoNewSecond,
         PassRound, ChangeLoop, TaskReturns, EndPass, NetDone, Interrupt
<1> QED BY <1>1, <1>2, <1>4, <1>6, <1>7, <1>8

LEMMA StayStep == StayInv /\ [MainNext]_mainVars => StayInv'
<1> SUFFICES ASSUME StayInv, [MainNext]_mainVars PROVE StayInv'
  OBVIOUS
<1>1. TypeOK'
  BY SchedulerStep, StepKeepsTypes DEF StayInv
<1>2. SettingsTypes' /\ Guarded' \in SUBSET Guarded
  BY SettingsStep DEF StayInv
<1>3. ASSUME Safe(tasks', Guarded), pc' # "remove",
             pc' = "change" /\ arg'.name \in Guarded' => arg'.recur # 0
      PROVE  StayInv'
  <2>1. Safe(tasks', Guarded')
    BY <1>2, <1>3, FewerAreSafe
  <2> QED BY <1>1, <1>2, <1>3, <2>1 DEF StayInv
<1>4. CASE PassRound
  BY <1>3, <1>4, RunRoundStays DEF PassRound, RunRound, StayInv
<1>5. CASE ChangeLoop /\ ChangeRound
  BY <1>2, <1>3, <1>5, ChangeRoundStays DEF ChangeRound, StayInv
<1>6. CASE ChangeLoop /\ EndLoop("change")
  BY <1>3, <1>6 DEF EndLoop, Caller, StayInv
<1>7. CASE sendData
  <2>1. /\ pc' = "change" /\ tasks' = tasks /\ arg'.name = SendData
        /\ arg'.recur = SendInterval
    BY <1>7 DEF sendData, scheduleChangeFunction, StartLoop
  <2>2. SendData \in Guarded' => SendInterval # 0
    <3>1. wasZero' = (wasZero \/ SendInterval = 0)
      BY <1>7, Zenon DEF sendData
    <3>2. SendData \notin Fixed
      BY MainLoopAssumption, Zenon
    <3> QED BY <3>1, <3>2, Zenon DEF Guarded
  <2> QED BY <1>3, <2>1, <2>2 DEF StayInv
<1>8. CASE reScheduleTasks
  <2>1. /\ pc' = "change" /\ tasks' = tasks /\ arg'.name = Head(resched)
    BY <1>8 DEF reScheduleTasks, scheduleChangeFunction, StartLoop
  <2>2. Head(resched) \in ToSet(Settable)
    BY <1>8 DEF reScheduleTasks, StayInv, SettingsTypes
  <2>3. Head(resched) \notin Guarded
    BY <2>2, MainLoopAssumption, Zenon DEF Guarded
  <2> QED BY <1>2, <1>3, <2>1, <2>3 DEF StayInv
<1>9. CASE StartPass \/ TaskReturns \/ EndPass
  <2>1. tasks' = tasks /\ pc' \in {"run", "client"}
    BY <1>9 DEF StartPass, scheduleRun, TaskReturns, CallbackReturns, EndPass, RunReturns
  <2> QED BY <1>3, <2>1 DEF StayInv
<1>10. CASE UNCHANGED <<tasks, pc, arg>>
  BY <1>2, <1>3, <1>10 DEF StayInv
<1>11. UNCHANGED <<tasks, pc, arg>> \/ StartPass \/ PassRound \/ sendData \/ ChangeLoop
       \/ TaskReturns \/ EndPass \/ reScheduleTasks
  BY DEF MainNext, MainStep, mainVars, vars, NoNewSecond, NetDone, Interrupt,
         SaveUploadInterval, SaveSettings
<1> QED BY <1>4, <1>5, <1>6, <1>7, <1>8, <1>9, <1>10, <1>11 DEF ChangeLoop

(* The scheduler loses no task: the fixed ones stay for ever, and sendData   *)
(* until its interval was zero once, whatever settings are saved and         *)
(* whenever the clock is read.                                               *)
THEOREM TasksAreKept == MainSpec => []TasksStay
<1>1. StayInv => TasksStay
  BY DEF StayInv, Safe, Guarded, TasksStay
<1> QED BY StayInitially, StayStep, <1>1, PTL DEF MainSpec

-----------------------------------------------------------------------------
(* The place of the item at k before the change under way turned the queue. *)
Place(k) == IF k + opI <= Len(tasks) THEN k + opI ELSE k + opI - Len(tasks)

(* How many items the pass has come to. *)
Tried == runI + (IF running = NoTask THEN 0 ELSE 1)

(* Where the program is, outside of a pass and in one. *)
PhaseInv ==
  /\ phase \in {"poll", "pass", "net", "saved"}
  /\ phase = "pass" => pc \in {"run", "callback"} \/ running # NoTask
  /\ phase # "pass" => running = NoTask /\ runI = 0 /\ pc \in {"client", "change"}
  /\ phase \in {"poll", "net"} => pc = "client"
  /\ resched # << >> => phase = "saved"
  /\ opI # 0 => pc = "change"
  /\ opI <= Len(tasks)

(* A task that was not reached is in the first half of the queue, so that    *)
(* the next pass can come to it; in a pass the ones that are still due and   *)
(* were not called have not been reached, either.                            *)
PassInv ==
  /\ pc = "change" => arg.name \notin Fixed
  /\ \A k \in DOMAIN tasks : tasks[k].name \in Fixed =>
       /\ phase # "pass" /\ tasks[k].name \in skipped => 2 * Place(k) <= Cardinality(Names)
       /\ phase = "pass" /\ tasks[k].next <= pNow /\ tasks[k].name \notin called =>
            /\ Place(k) + Tried <= Cardinality(Names)
            /\ tasks[k].name \in skipped => 2 * (Place(k) + Tried) <= Cardinality(Names)

ServedInv == StayInv /\ TableInv /\ PhaseInv /\ PassInv

(* Half of the tasks, but for one, have a fixed interval: of the nine to     *)
(* eleven that main schedules at least four; updateSimpleSensors,            *)
(* updateAnalogSensors, updateOWSensors, getDHTData and sendData have not.   *)
EnoughFixed == Cardinality(Names) <= 2 * Cardinality(Fixed) + 1

(* What the types say of the queue. *)
LEMMA QueueIs ==
  ASSUME StayInv
  PROVE  /\ tasks \in Seq(Item) /\ Len(tasks) \in Nat /\ Len(tasks) <= Capacity
         /\ DOMAIN tasks = 1 .. Len(tasks)
         /\ opI \in Nat /\ runI \in Nat /\ runI <= Capacity /\ Capacity \in Nat
         /\ \A k \in DOMAIN tasks : tasks[k] \in Item
         /\ \A n \in Fixed : \E k \in DOMAIN tasks : tasks[k].name = n
<1>1. /\ tasks \in Seq(Item) /\ Len(tasks) <= Capacity
      /\ opI \in 0 .. Capacity /\ runI \in 0 .. Capacity
  BY DEF StayInv, TypeOK, TaskList
<1>2. Fixed \subseteq NamesIn(tasks)
  BY DEF StayInv, Safe, Guarded
<1>3. Capacity \in Nat
  BY SchedulerAssumption
<1>4. \A n \in Fixed : \E k \in DOMAIN tasks : tasks[k].name = n
  BY <1>2, Zenon DEF NamesIn
<1> QED
  BY <1>1, <1>3, <1>4

(* main schedules every task once. *)
LEMMA BootOrderIsDistinct ==
  /\ BootOrder \in Seq(Names) /\ DOMAIN BootOrder = 1 .. Len(BootOrder)
  /\ \A j, k \in DOMAIN BootOrder : BootOrder[j] = BootOrder[k] => j = k
<1>1. /\ BootOrder \in Seq(Names) /\ ToSet(BootOrder) = Names
      /\ Len(BootOrder) = Cardinality(Names)
  BY MainLoopAssumption, Zenon
<1> DEFINE N == Len(BootOrder)
<1>2. N \in Nat /\ DOMAIN BootOrder = 1 .. N /\ BootOrder \in [1 .. N -> Names]
  BY <1>1
<1>3. \A n \in Names : \E k \in 1 .. N : BootOrder[k] = n
  BY <1>1, <1>2, Zenon DEF ToSet
<1>4. BootOrder \in Surjection(1 .. N, Names)
  BY <1>2, <1>3, Zenon DEF Surjection
<1>5. IsFiniteSet(1 .. N) /\ Cardinality(1 .. N) = N
  <2>1. 1 \in Int /\ N \in Int
    BY <1>2
  <2>2. IsFiniteSet(1 .. N) /\ Cardinality(1 .. N) = IF 1 > N THEN 0 ELSE N - 1 + 1
    BY <2>1, FS_Interval, Zenon
  <2> QED
    BY <1>2, <2>2
<1>6. BootOrder \in Injection(1 .. N, Names)
  BY <1>1, <1>4, <1>5, FS_SurjSameCardinalityImpliesInj, Zenon
<1>7. \A j, k \in 1 .. N : BootOrder[j] = BootOrder[k] => j = k
  BY <1>6, Zenon DEF Injection, IsInjective
<1> QED
  BY <1>1, <1>2, <1>7, Zenon

(* At the start no task is in the queue twice. *)
LEMMA StartsDistinct ==
  ASSUME MainInit
  PROVE  TableInv
<1>1. TypeOK
  BY StayInitially DEF StayInv
<1>2. pc = "client" /\ opI = 0 /\ DOMAIN tasks = DOMAIN BootOrder
      /\ \A k \in DOMAIN tasks : tasks[k].name = BootOrder[k]
  <2>1. tasks = [k \in DOMAIN BootOrder |->
                   [name |-> BootOrder[k], recur |-> BootInterval(BootOrder[k]),
                    next |-> BootInterval(BootOrder[k])]]
    BY Zenon DEF MainInit
  <2> QED
    BY <2>1 DEF MainInit
<1>3. Distinct(tasks)
  BY <1>2, BootOrderIsDistinct, Zenon DEF Distinct
<1> QED
  BY <1>1, <1>2, <1>3 DEF TableInv

(* Every fixed task is in the queue, and no task twice. *)
LEMMA QueueSizes ==
  ASSUME StayInv, TableInv
  PROVE  /\ Cardinality(Names) \in Nat /\ Cardinality(Fixed) \in Nat
         /\ Cardinality(Fixed) <= Len(tasks) /\ Len(tasks) <= Cardinality(Names)
<1>1. BootOrder \in Seq(Names) /\ ToSet(BootOrder) = Names
  BY MainLoopAssumption, Zenon
<1>2. IsFiniteSet(Names)
  <2> DEFINE N == Len(BootOrder)
  <2>1. N \in Nat /\ DOMAIN BootOrder = 1 .. N /\ BootOrder \in [1 .. N -> Names]
    BY <1>1
  <2>2. \A n \in Names : \E k \in 1 .. N : BootOrder[k] = n
    BY <1>1, <2>1, Zenon DEF ToSet
  <2>3. BootOrder \in Surjection(1 .. N, Names)
    BY <2>1, <2>2, Zenon DEF Surjection
  <2>4. IsFiniteSet(1 .. N)
    BY <2>1, FS_Interval
  <2> QED
    BY <2>3, <2>4, FS_Surjection, Zenon
<1>3. tasks \in Seq(Item) /\ Distinct(tasks) /\ Fixed \subseteq NamesIn(tasks) /\ NamesIn(tasks) \subseteq Names
  <2>1. Fixed \subseteq NamesIn(tasks)
    BY DEF StayInv, Safe, Guarded
  <2>2. \A k \in DOMAIN tasks : tasks[k].name \in Names
    <3>1. \A k \in DOMAIN tasks : tasks[k] \in Item
      BY QueueIs
    <3> QED
      BY <3>1 DEF Item
  <2>3. tasks \in Seq(Item) /\ Distinct(tasks)
    BY QueueIs DEF TableInv
  <2> QED
    BY <2>1, <2>2, <2>3, Zenon DEF NamesIn
<1>4. IsFiniteSet(NamesIn(tasks)) /\ Cardinality(NamesIn(tasks)) = Len(tasks)
  BY <1>2, <1>3, NumberOfTasks, FS_Subset
<1>5. /\ Cardinality(NamesIn(tasks)) <= Cardinality(Names)
      /\ IsFiniteSet(Fixed) /\ Cardinality(Fixed) <= Cardinality(NamesIn(tasks))
  BY <1>2, <1>3, <1>4, FS_Subset
<1> QED
  BY <1>2, <1>4, <1>5, FS_CardinalityType

(* A round of a change turns the queue; what is fixed stays as it is. *)
LEMMA ChangeTurns ==
  ASSUME StayInv, TableInv, ChangeRound
  PROVE  \E item \in Item :
           /\ item.name = tasks[1].name
           /\ arg.name \notin Fixed /\ item.name \in Fixed => item = tasks[1]
           /\ arg.recur # 0 /\ tasks[1].recur # 0 => item.recur # 0
           /\ Len(tasks') = Len(tasks) /\ DOMAIN tasks' = DOMAIN tasks
           /\ \A k \in DOMAIN tasks :
                \/ k = Len(tasks) /\ tasks'[k] = item
                \/ k # Len(tasks) /\ k + 1 \in DOMAIN tasks /\ tasks'[k] = tasks[k + 1]
<1> DEFINE item == IF tasks[1].name = arg.name THEN arg ELSE tasks[1]
           r == Turn(tasks, item)
<1>1. /\ pc = "change" /\ Len(tasks) > 0 /\ tasks \in Seq(Item)
      /\ tasks' = Insert(Tail(tasks), IF Head(tasks).name = arg.name THEN arg ELSE Head(tasks))
  BY QueueIs DEF ChangeRound, Changed
<1>2. /\ Head(tasks) = tasks[1] /\ tasks[1] \in Item /\ arg \in Item
      /\ tasks' = r
  <2>1. arg \in Item
    BY <1>1 DEF StayInv, TypeOK
  <2> QED
    BY <1>1, <2>1, RoundFacts
<1>3. item \in Item /\ item.name = tasks[1].name
      /\ (arg.name \notin Fixed /\ item.name \in Fixed => item = tasks[1])
      /\ (arg.recur # 0 /\ tasks[1].recur # 0 => item.recur # 0)
  BY <1>2
<1> HIDE DEF item
<1>4. /\ Len(r) = Len(tasks) /\ DOMAIN r = DOMAIN tasks
      /\ \A k \in DOMAIN tasks :
           \/ k = Len(tasks) /\ r[k] = item
           \/ k # Len(tasks) /\ k + 1 \in DOMAIN tasks /\ r[k] = tasks[k + 1]
  BY <1>1, <1>3, TurnShift
<1> HIDE DEF r
<1> QED
  BY <1>2, <1>3, <1>4

LEMMA PhaseStep ==
  ASSUME StayInv, TableInv, PhaseInv, [MainNext]_mainVars
  PROVE  PhaseInv'
<1>1. Len(tasks) \in Nat /\ opI \in Nat
  BY QueueIs
<1>2. CASE StartPass
  BY <1>2 DEF StartPass, scheduleRun, PhaseInv
<1>3. CASE PassRound
  <2>1. opI = 0 /\ opI' = 0 /\ pc' \in {"run", "callback"} /\ phase = "pass" /\ phase' = "pass"
        /\ resched' = resched
    BY <1>3 DEF PassRound, RunRound, PhaseInv, loopVars
  <2>2. Len(tasks') \in Nat
    BY StayStep DEF StayInv, TypeOK, TaskList
  <2> QED
    BY <2>1, <2>2 DEF PhaseInv
<1>4. CASE sendData
  <2>1. /\ pc = "callback" /\ pc' = "change"
        /\ UNCHANGED <<tasks, runI, opI, running, phase, resched>>
    BY <1>4 DEF sendData, scheduleChangeFunction, StartLoop
  <2>2. running # NoTask
    BY <2>1 DEF StayInv, TypeOK
  <2> QED
    BY <2>1, <2>2 DEF PhaseInv
<1>5. CASE ChangeLoop /\ ChangeRound
  <2>1. /\ pc = "change" /\ pc' = pc /\ opI < Len(tasks) /\ opI' = opI + 1
        /\ UNCHANGED <<runI, running, phase, resched>>
    BY <1>5 DEF ChangeLoop, ChangeRound, loopVars
  <2>2. Len(tasks') = Len(tasks)
    BY <1>5, ChangeTurns
  <2> QED
    BY <1>1, <2>1, <2>2 DEF PhaseInv
<1>6. CASE ChangeLoop /\ EndLoop("change")
  <2>1. /\ pc = "change" /\ pc' = Caller /\ opI' = 0
        /\ UNCHANGED <<tasks, runI, running, phase, resched>>
    BY <1>6 DEF ChangeLoop, EndLoop, loopVars
  <2> QED
    BY <1>1, <2>1 DEF PhaseInv, Caller
<1>7. CASE TaskReturns
  <2>1. /\ pc = "callback" /\ pc' = "run" /\ UNCHANGED <<tasks, opI, phase, resched>>
    BY <1>7 DEF TaskReturns, CallbackReturns
  <2> QED
    BY <2>1 DEF PhaseInv
<1>8. CASE EndPass
  <2>1. /\ phase = "pass" /\ phase' = "net" /\ pc = "run" /\ pc' = "client"
        /\ runI' = 0 /\ UNCHANGED <<tasks, opI, running, resched>>
    BY <1>8 DEF EndPass, RunReturns
  <2>2. running = NoTask
    BY <2>1 DEF StayInv, TypeOK
  <2> QED
    BY <2>1, <2>2 DEF PhaseInv
<1>9. CASE reScheduleTasks
  <2>1. /\ resched # << >> /\ pc' = "change" /\ UNCHANGED <<tasks, runI, opI, running, phase>>
    BY <1>9 DEF reScheduleTasks, scheduleChangeFunction, StartLoop
  <2> QED
    BY <2>1 DEF PhaseInv
<1>10. CASE NoNewSecond \/ NetDone \/ Interrupt
  BY <1>10 DEF NoNewSecond, NetDone, Interrupt, vars, loopVars, PhaseInv
<1>11. CASE \E b \in Intervals : SaveUploadInterval(b)
  BY <1>11 DEF SaveUploadInterval, vars, PhaseInv
<1>12. CASE \E b \in Intervals, n \in ToSet(Settable) : SaveSettings(n, b)
  BY <1>12 DEF SaveSettings, vars, PhaseInv
<1>13. CASE UNCHANGED mainVars
  BY <1>13 DEF mainVars, vars, loopVars, PhaseInv
<1> QED
  BY <1>2, <1>3, <1>4, <1>5, <1>6, <1>7, <1>8, <1>9, <1>10, <1>11, <1>12, <1>13
  DEF MainNext, MainStep, ChangeLoop

LEMMA PassSame ==
  ASSUME PassInv, UNCHANGED <<tasks, skipped, called, pNow, opI, runI, running>>,
         phase' = "pass" <=> phase = "pass",
         pc' = "change" => arg'.name \notin Fixed \/ (pc = "change" /\ arg' = arg)
  PROVE  PassInv'
BY DEF PassInv, Place, Tried

(* The start of a pass: what was not reached comes first. *)
LEMMA StartPassServes ==
  ASSUME ServedInv, StartPass
  PROVE  PassInv'
<1>1. /\ phase = "poll" /\ phase' = "pass" /\ pc = "client" /\ pc' = "run"
      /\ UNCHANGED <<tasks, opI, runI, running, skipped, called>>
  BY DEF StartPass, scheduleRun, history
<1>2. opI = 0 /\ runI = 0 /\ running = NoTask
  BY <1>1 DEF ServedInv, PhaseInv
<1>3. /\ Len(tasks) \in Nat /\ DOMAIN tasks = 1 .. Len(tasks)
      /\ Len(tasks) <= Cardinality(Names) /\ Cardinality(Names) \in Nat
  BY QueueIs, QueueSizes DEF ServedInv
<1>4. ASSUME NEW k \in DOMAIN tasks, tasks[k].name \in Fixed
      PROVE  /\ Place(k)' + Tried' <= Cardinality(Names)
             /\ tasks[k].name \in skipped => 2 * (Place(k)' + Tried') <= Cardinality(Names)
  <2>1. Place(k) = k /\ Place(k)' = k /\ Tried' = 0
    BY <1>1, <1>2, <1>3 DEF Place, Tried
  <2>2. tasks[k].name \in skipped => 2 * k <= Cardinality(Names)
    BY <1>1, <1>4, <2>1 DEF ServedInv, PassInv
  <2> QED
    BY <1>3, <2>1, <2>2
<1> QED
  BY <1>1, <1>4 DEF PassInv

(* A round of the pass takes the first item: it is called, or it is not due; *)
(* the others come one place nearer.                                         *)
LEMMA PassRoundServes ==
  ASSUME ServedInv, PassRound
  PROVE  PassInv'
<1> DEFINE first == tasks[1]
<1>1. /\ phase = "pass" /\ pc = "run" /\ runI < Len(tasks) /\ RunRound
      /\ called' = called \cup ({running'} \cap Names)
      /\ UNCHANGED <<pNow, opI, phase, skipped>>
  BY DEF PassRound, RunRound, loopVars
<1>2. /\ tasks \in Seq(Item) /\ Len(tasks) \in Nat /\ DOMAIN tasks = 1 .. Len(tasks)
      /\ runI \in Nat /\ Len(tasks) > 0 /\ first \in Item
      /\ \A item : Insert(Tail(tasks), item) = Turn(tasks, item)
      /\ Head(tasks) = first
  BY <1>1, QueueIs, RoundFacts DEF ServedInv
<1>3. opI = 0 /\ running = NoTask /\ NoTask \notin Names /\ first.name \in Names /\ Fixed \subseteq Names
      /\ first.name # NoTask
  <2>1. opI = 0 /\ running = NoTask
    BY <1>1 DEF ServedInv, PhaseInv, StayInv, TypeOK
  <2>2. NoTask \notin Names /\ first.name \in Names
    BY <1>2, SchedulerAssumption DEF Item
  <2>3. Names = {SendData} \cup ToSet(Settable) \cup Fixed
    BY MainLoopAssumption, Zenon
  <2> QED
    BY <2>1, <2>2, <2>3
<1> DEFINE Nearer(k) == k + 1 \in DOMAIN tasks /\ tasks'[k] = tasks[k + 1]
           Taken(k) == /\ tasks'[k].name = first.name
                       /\ running' = first.name \/ (tasks'[k] = first /\ ~(first.next <= pNow))
<1>4. /\ Tried' = Tried + 1 /\ pc' # "change" /\ Len(tasks') \in Nat /\ DOMAIN tasks' = 1 .. Len(tasks')
      /\ \A k \in DOMAIN tasks' : Nearer(k) \/ Taken(k)
  <2>1. ASSUME NEW item \in Item, item.name = first.name, tasks' = Turn(tasks, item),
               running' = first.name \/ (item = first /\ ~(first.next <= pNow))
        PROVE  /\ Len(tasks') \in Nat /\ DOMAIN tasks' = 1 .. Len(tasks')
               /\ \A k \in DOMAIN tasks' : Nearer(k) \/ Taken(k)
    <3> DEFINE r == Turn(tasks, item)
    <3>1. /\ Len(r) = Len(tasks) /\ DOMAIN r = DOMAIN tasks
          /\ \A k \in DOMAIN tasks :
               \/ k = Len(tasks) /\ r[k] = item
               \/ k # Len(tasks) /\ k + 1 \in DOMAIN tasks /\ r[k] = tasks[k + 1]
      BY <1>2, <2>1, TurnShift
    <3> HIDE DEF r, first
    <3>2. tasks' = r
      BY <2>1 DEF r
    <3> QED
      BY <1>2, <2>1, <3>1, <3>2
  <2>2. CASE /\ Due(first, pNow) /\ tasks' = Rescheduled(first, pNow, Tail(tasks))
             /\ running' = first.name /\ pc' = "callback" /\ runI' = runI
    <3>1. Tried' = Tried + 1 /\ pc' # "change"
      BY <1>2, <1>3, <2>2 DEF Tried
    <3>2. CASE first.recur = 0
      <4>1. tasks' = Tail(tasks)
        BY <2>2, <3>2 DEF Rescheduled
      <4>2. /\ Len(tasks') \in Nat /\ DOMAIN tasks' = 1 .. Len(tasks')
            /\ \A k \in DOMAIN tasks' : Nearer(k)
        BY <1>2, <4>1
      <4> QED
        BY <3>1, <4>2
    <3>3. CASE first.recur # 0
      <4> DEFINE again == [first EXCEPT !.next = (pNow + first.recur) % W]
      <4>1. (pNow + first.recur) % W \in Time
        <5>1. pNow \in Time
          BY DEF ServedInv, StayInv, TypeOK
        <5> QED
          BY <1>2, <5>1, SchedulerAssumption DEF Item, Time
      <4>2. again \in Item /\ again.name = first.name
        BY <1>2, <4>1 DEF Item
      <4>3. tasks' = Turn(tasks, again)
        BY <1>2, <2>2, <3>3 DEF Rescheduled
      <4> HIDE DEF again, first, Nearer, Taken
      <4> QED
        BY <2>1, <2>2, <3>1, <4>2, <4>3
    <3> QED
      BY <3>2, <3>3
  <2>3. CASE /\ ~Due(first, pNow) /\ tasks' = PutBack(tasks) /\ runI' = runI + 1
             /\ pc' = pc /\ running' = running
    <3>1. Tried' = Tried + 1 /\ pc' # "change"
      BY <1>1, <1>2, <1>3, <2>3 DEF Tried
    <3>2. tasks' = Turn(tasks, first) /\ ~(first.next <= pNow)
      BY <1>2, <2>3 DEF PutBack, Due
    <3> HIDE DEF first, Nearer, Taken
    <3> QED
      BY <1>2, <2>1, <3>1, <3>2
  <2> QED
    BY <1>1, <1>2, <2>2, <2>3 DEF RunRound
<1>5. Tried \in Nat
  BY <1>2 DEF Tried
<1>6. ASSUME NEW k \in DOMAIN tasks', tasks'[k].name \in Fixed, tasks'[k].next <= pNow,
             tasks'[k].name \notin called'
      PROVE  /\ Place(k)' + Tried' <= Cardinality(Names)
             /\ tasks'[k].name \in skipped => 2 * (Place(k)' + Tried') <= Cardinality(Names)
  <2>1. ~Taken(k)
    BY <1>1, <1>3, <1>6
  <2>2. k + 1 \in DOMAIN tasks /\ tasks'[k] = tasks[k + 1] /\ k \in Nat
    BY <1>4, <2>1
  <2>3. Place(k)' = k /\ Place(k + 1) = k + 1
    BY <1>1, <1>2, <1>3, <1>4, <2>2 DEF Place
  <2>4. Place(k)' + Tried' = Place(k + 1) + Tried
    BY <1>4, <1>5, <2>2, <2>3
  <2>5. tasks[k + 1].name \notin called
    BY <1>1, <1>6, <2>2
  <2> QED
    BY <1>1, <1>6, <2>2, <2>4, <2>5 DEF ServedInv, PassInv
<1> QED
  BY <1>1, <1>4, <1>6 DEF PassInv

(* The end of a pass: it has gone at least as many rounds as there are items *)
(* left, so that what it has not reached is in their first half; and it has  *)
(* reached all that was there before.                                        *)
LEMMA EndPassServes ==
  ASSUME ServedInv, EndPass
  PROVE  PassInv' /\ (EnoughFixed => skipped' \cap skipped = {})
<1>1. /\ phase = "pass" /\ phase' = "net" /\ pc = "run" /\ pc' = "client"
      /\ runI >= Len(tasks) /\ runI' = 0 /\ UNCHANGED <<tasks, opI, running>>
      /\ skipped' = {n \in Fixed : DueIn(n, pNow) /\ n \notin called}
  BY DEF EndPass, RunReturns
<1>2. /\ running = NoTask /\ opI = 0 /\ runI \in Nat
      /\ Len(tasks) \in Nat /\ DOMAIN tasks = 1 .. Len(tasks)
      /\ Cardinality(Names) \in Nat /\ Cardinality(Fixed) \in Nat
      /\ Cardinality(Fixed) <= Len(tasks)
  BY <1>1, QueueIs, QueueSizes DEF ServedInv, PhaseInv, StayInv, TypeOK
<1>3. ASSUME NEW k \in DOMAIN tasks, tasks[k].name \in skipped'
      PROVE  /\ k + runI <= Cardinality(Names) /\ k \in Nat /\ k >= 1 /\ k <= runI /\ Place(k)' = k
             /\ tasks[k].name \in skipped => 2 * (k + runI) <= Cardinality(Names)
  <2>1. Place(k) = k /\ Place(k)' = k /\ Tried = runI /\ k \in Nat /\ k >= 1 /\ k <= runI
    BY <1>1, <1>2 DEF Place, Tried
  <2>2. tasks[k].name \in Fixed /\ DueIn(tasks[k].name, pNow) /\ tasks[k].name \notin called
    BY <1>1, <1>3
  <2>3. PICK j \in DOMAIN tasks : tasks[j].name = tasks[k].name /\ tasks[j].next <= pNow
    BY <2>2 DEF DueIn
  <2>4. j = k
    BY <2>3 DEF ServedInv, TableInv, Distinct
  <2> QED
    BY <1>1, <2>1, <2>2, <2>3, <2>4 DEF ServedInv, PassInv
<1>4. PassInv'
  <2>1. ASSUME NEW k \in DOMAIN tasks, tasks[k].name \in skipped'
        PROVE  2 * Place(k)' <= Cardinality(Names)
    BY <1>2, <1>3, <2>1
  <2> QED
    BY <1>1, <2>1 DEF PassInv
<1>5. ASSUME EnoughFixed, NEW n \in skipped' \cap skipped
      PROVE  FALSE
  <2>1. n \in Fixed
    BY <1>1, <1>5
  <2>2. PICK k \in DOMAIN tasks : tasks[k].name = n
    BY <2>1, QueueIs DEF ServedInv
  <2>3. 2 * (k + runI) <= Cardinality(Names) /\ k \in Nat /\ k >= 1
    BY <1>3, <1>5, <2>2
  <2> QED
    BY <1>1, <1>2, <1>5, <2>3 DEF EnoughFixed
<1> QED
  BY <1>4, <1>5

LEMMA ChangeRoundServes ==
  ASSUME ServedInv, ChangeRound, UNCHANGED <<phase, skipped, called>>
  PROVE  PassInv'
<1>1. /\ pc = "change" /\ opI < Len(tasks) /\ opI' = opI + 1
      /\ UNCHANGED <<pc, runI, pNow, arg, running>>
  BY DEF ChangeRound
<1>2. PICK item \in Item :
        /\ item.name = tasks[1].name
        /\ arg.name \notin Fixed /\ item.name \in Fixed => item = tasks[1]
        /\ Len(tasks') = Len(tasks) /\ DOMAIN tasks' = DOMAIN tasks
        /\ \A k \in DOMAIN tasks :
             \/ k = Len(tasks) /\ tasks'[k] = item
             \/ k # Len(tasks) /\ k + 1 \in DOMAIN tasks /\ tasks'[k] = tasks[k + 1]
  BY ChangeTurns DEF ServedInv
<1>3. Len(tasks) \in Nat /\ DOMAIN tasks = 1 .. Len(tasks) /\ opI \in Nat /\ Tried' = Tried
  BY <1>1, QueueIs DEF ServedInv, Tried
<1>4. arg.name \notin Fixed
  BY <1>1 DEF ServedInv, PassInv
<1>5. ASSUME NEW k \in DOMAIN tasks, tasks'[k].name \in Fixed
      PROVE  \E j \in DOMAIN tasks : tasks'[k] = tasks[j] /\ Place(k)' = Place(j)
  <2>1. CASE k = Len(tasks)
    <3>1. tasks'[k] = tasks[1] /\ 1 \in DOMAIN tasks
      BY <1>2, <1>3, <1>4, <1>5, <2>1
    <3>2. Place(k)' = opI + 1 /\ Place(1) = opI + 1
      BY <1>1, <1>2, <1>3, <2>1 DEF Place
    <3> QED
      BY <3>1, <3>2
  <2>2. CASE k # Len(tasks)
    <3>1. k + 1 \in DOMAIN tasks /\ tasks'[k] = tasks[k + 1]
      BY <1>2, <2>2
    <3>2. Place(k)' = Place(k + 1)
      BY <1>1, <1>2, <1>3, <2>2 DEF Place
    <3> QED
      BY <3>1, <3>2
  <2> QED
    BY <2>1, <2>2
<1>6. ASSUME NEW k \in DOMAIN tasks', tasks'[k].name \in Fixed
      PROVE  /\ phase' # "pass" /\ tasks'[k].name \in skipped' => 2 * Place(k)' <= Cardinality(Names)
             /\ phase' = "pass" /\ tasks'[k].next <= pNow' /\ tasks'[k].name \notin called' =>
                  /\ Place(k)' + Tried' <= Cardinality(Names)
                  /\ tasks'[k].name \in skipped' => 2 * (Place(k)' + Tried') <= Cardinality(Names)
  <2>1. PICK j \in DOMAIN tasks : tasks'[k] = tasks[j] /\ Place(k)' = Place(j)
    BY <1>2, <1>5, <1>6
  <2> QED
    BY <1>1, <1>3, <1>6, <2>1 DEF ServedInv, PassInv
<1> QED
  BY <1>1, <1>4, <1>6 DEF PassInv

LEMMA EndChangeServes ==
  ASSUME ServedInv, EndLoop("change"), UNCHANGED <<phase, skipped, called>>
  PROVE  PassInv'
<1>1. /\ pc = "change" /\ opI >= Len(tasks) /\ opI' = 0 /\ pc' # "change"
      /\ UNCHANGED <<tasks, runI, pNow, running>>
  BY DEF EndLoop, Caller
<1>2. Len(tasks) \in Nat /\ DOMAIN tasks = 1 .. Len(tasks) /\ opI \in Nat /\ opI <= Len(tasks)
  BY QueueIs DEF ServedInv, PhaseInv
<1>3. \A k \in DOMAIN tasks : Place(k)' = Place(k)
  BY <1>1, <1>2 DEF Place
<1>4. Tried' = Tried
  BY <1>1 DEF Tried
<1> QED
  BY <1>1, <1>3, <1>4 DEF ServedInv, PassInv

LEMMA ServedStep ==
  ASSUME ServedInv, [MainNext]_mainVars
  PROVE  /\ ServedInv'
         /\ EnoughFixed /\ phase = "pass" /\ phase' = "net" => skipped' \cap skipped = {}
<1>1. StayInv' /\ PhaseInv'
  BY StayStep, PhaseStep DEF ServedInv
<1>2. TableInv'
  <2>1. UniqueNames
    BY MainLoopAssumption, Zenon
  <2> QED
    BY <2>1, SchedulerStep, NextRefinesTable DEF ServedInv
<1> DEFINE Kept == PassInv' /\ ~(phase = "pass" /\ phase' = "net")
<1>3. ASSUME StartPass PROVE Kept
  BY <1>3, StartPassServes DEF StartPass
<1>4. ASSUME PassRound PROVE Kept
  BY <1>4, PassRoundServes DEF PassRound, loopVars
<1>5. ASSUME sendData \/ reScheduleTasks PROVE Kept
  <2>1. /\ pc' = "change" /\ arg'.name \in {SendData} \cup ToSet(Settable)
        /\ UNCHANGED <<tasks, skipped, called, pNow, opI, runI, running, phase>>
    <3>1. CASE sendData
      BY <3>1 DEF sendData, scheduleChangeFunction, StartLoop
    <3>2. CASE reScheduleTasks
      <4>1. Head(resched) \in ToSet(Settable)
        BY <3>2 DEF reScheduleTasks, ServedInv, StayInv, SettingsTypes
      <4> QED
        BY <3>2, <4>1 DEF reScheduleTasks, scheduleChangeFunction, StartLoop, history
    <3> QED
      BY <1>5, <3>1, <3>2
  <2>2. arg'.name \notin Fixed
    BY <2>1, MainLoopAssumption, Zenon
  <2> QED
    BY <2>1, <2>2, PassSame DEF ServedInv
<1>6. ASSUME ChangeLoop PROVE Kept
  <2>1. (ChangeRound \/ EndLoop("change")) /\ UNCHANGED <<phase, skipped, called>>
    BY <1>6 DEF ChangeLoop, loopVars, history
  <2> QED
    BY <2>1, ChangeRoundServes, EndChangeServes
<1>7. ASSUME TaskReturns PROVE Kept
  <2>1. /\ pc = "callback" /\ pc' = "run" /\ running' = NoTask /\ runI' = runI + 1
        /\ UNCHANGED <<tasks, pNow, opI, phase, skipped, called>>
    BY <1>7 DEF TaskReturns, CallbackReturns, history
  <2>2. running # NoTask /\ runI \in Nat
    BY <2>1, QueueIs DEF ServedInv, StayInv, TypeOK
  <2>3. Tried' = Tried /\ \A k : Place(k)' = Place(k)
    BY <2>1, <2>2 DEF Tried, Place
  <2> QED
    BY <2>1, <2>3 DEF ServedInv, PassInv
<1>8. ASSUME NoNewSecond \/ NetDone \/ Interrupt \/ UNCHANGED mainVars PROVE Kept
  <2>1. /\ UNCHANGED <<tasks, skipped, called, pNow, opI, runI, running, pc, arg>>
        /\ (phase' = "pass" <=> phase = "pass") /\ ~(phase = "pass" /\ phase' = "net")
    BY <1>8 DEF NoNewSecond, NetDone, Interrupt, mainVars, vars, loopVars, history
  <2>2. PassInv' 
    BY <2>1, PassSame DEF ServedInv, PassInv
  <2> QED
    BY <2>1, <2>2
<1>9. ASSUME \/ \E b \in Intervals : SaveUploadInterval(b)
             \/ \E b \in Intervals, n \in ToSet(Settable) : SaveSettings(n, b)
      PROVE  Kept
  <2>1. /\ UNCHANGED <<tasks, skipped, called, pNow, opI, runI, running, pc, arg>>
        /\ phase = "net" /\ phase' = "saved"
    BY <1>9 DEF SaveUploadInterval, SaveSettings, vars, history
  <2>2. PassInv'
    BY <2>1, PassSame DEF ServedInv, PassInv
  <2> QED
    BY <2>1, <2>2
<1>10. EndPass \/ Kept
  BY <1>3, <1>4, <1>5, <1>6, <1>7, <1>8, <1>9, Zenon DEF MainNext, MainStep
<1> QED
  BY <1>1, <1>2, <1>10, EndPassServes DEF ServedInv

(* A task with a fixed interval that was due and not reached is reached by   *)
(* the next pass, though the tasks that the settings page changes, and       *)
(* sendData, may each leave the queue in any of the passes and end its loop  *)
(* early.  It holds with torn reads and lost seconds, too.                   *)
THEOREM NextPassServes ==
  ASSUME EnoughFixed
  PROVE  MainSpec => ServedByNextPass
<1>1. MainInit => ServedInv
  <2> SUFFICES ASSUME MainInit PROVE ServedInv
    OBVIOUS
  <2>1. StayInv
    BY StayInitially
  <2>2. TableInv
    BY StartsDistinct
  <2>3. /\ pc = "client" /\ runI = 0 /\ opI = 0 /\ running = NoTask
        /\ phase = "poll" /\ resched = << >> /\ skipped = {}
    BY DEF MainInit
  <2>4. Len(tasks) \in Nat
    BY <2>1, QueueIs
  <2>5. PhaseInv
    BY <2>3, <2>4 DEF PhaseInv
  <2>6. PassInv
    BY <2>3 DEF PassInv
  <2> QED
    BY <2>1, <2>2, <2>5, <2>6 DEF ServedInv
<1>2. ServedInv /\ [MainNext]_mainVars =>
        ServedInv' /\ [phase = "pass" /\ phase' = "net" => skipped' \cap skipped = {}]_mainVars
  BY ServedStep
<1> QED
  BY <1>1, <1>2, PTL DEF MainSpec, ServedByNextPass

-----------------------------------------------------------------------------
(* The main loop sees every second: the clock is not read while it changes,  *)
(* a pass takes less than a second, one call of handle_net at most one, and  *)
(* the start-up does not end in the last second before the clock wraps.      *)
SeesEverySecond ==
  ~TornReads /\ PassTicks = 0 /\ NetTicks <= 1 /\ BootTicks \subseteq 0 .. W - 2

(* No page saves an interval byte that makes an interval zero. *)
NoneIsZero ==
  \A b \in Intervals :
    /\ (b * SendUnit) % W # 0 /\ (b * SendUnit) % ByteValues # 0
    /\ \A n \in ToSet(Settable) : b \div Divisor[n] # 0

(* Whether the pass has come to the item at k, when no item leaves the queue. *)
Passed(k) == Place(k) > Len(tasks) - Tried

(* When the task n is due: an interval after it last ran; or, if the start-up *)
(* took longer than that, at once.                                           *)
After(t, d) == IF t + d < W THEN t + d ELSE t + d - W

Planned(n, now, ago) ==
  {After(now, FixedRecur[n] - ago)}
  \cup {t \in {FixedRecur[n]} : t <= now /\ (ago = t \/ (ago = t - 1 /\ now < W - 1))}

(* No second begins in a pass, and none is over before its pass. *)
ClockInv ==
  /\ tickS \in Time /\ lag \in {0, 1}
  /\ phase = "pass" => pNow = tickS
  /\ phase # "pass" => (lag = 0 <=> lastTick = tickS)

PeriodInv ==
  /\ pc = "change" => arg.recur # 0 /\ arg.name \notin Fixed
  /\ \A k \in DOMAIN tasks :
       /\ tasks[k].recur # 0
       /\ tasks[k].name \in Fixed => /\ tasks[k].recur = FixedRecur[tasks[k].name]
                                     /\ tasks[k].next \in Planned(tasks[k].name, tickS, since[tasks[k].name])

(* An interval that is over ends in the pass of its second. *)
SinceInv ==
  /\ since \in [Fixed -> Nat]
  /\ \A n \in Fixed : since[n] <= FixedRecur[n] /\ (phase # "pass" /\ lag = 0 => since[n] < FixedRecur[n])
  /\ phase = "pass" =>
       \A k \in DOMAIN tasks : tasks[k].name \in Fixed /\ Passed(k) =>
                                since[tasks[k].name] < FixedRecur[tasks[k].name]

OnTimeInv == StayInv /\ TableInv /\ PhaseInv /\ ClockInv /\ PeriodInv /\ SinceInv

-----------------------------------------------------------------------------
(* The numbers of the clock. *)
LEMMA ClockSizes ==
  /\ W \in Nat /\ W >= 2
  /\ \A n \in Fixed : FixedRecur[n] \in Nat /\ FixedRecur[n] >= 1 /\ FixedRecur[n] < W
  /\ SinceSlack \in Nat
<1>1. Base \in Nat \ {0, 1} /\ W = Base * Base /\ SinceSlack \in Nat
      /\ FixedRecur \in [Fixed -> 1 .. W - 1]
  BY MainLoopAssumption, Zenon
<1>2. W \in Nat
  BY SchedulerAssumption, Zenon
<1>3. Base >= 2 /\ Base * Base >= 2 * Base
  BY <1>1
<1> QED
  BY <1>1, <1>2, <1>3

LEMMA SumIs ==
  ASSUME NEW a \in Time, NEW d \in Time
  PROVE  (a + d) % W = After(a, d) /\ After(a, d) \in Time
<1>1. W \in Nat /\ W >= 2
  BY ClockSizes
<1>2. CASE a + d < W
  BY <1>1, <1>2 DEF Time, After
<1>3. CASE ~(a + d < W)
  <2>1. (a + d) - W \in 0 .. W - 1
    BY <1>1, <1>3 DEF Time
  <2>2. (a + d) % W = ((a + d) - W) % W
    BY <1>1, <1>3 DEF Time
  <2>3. ((a + d) - W) % W = (a + d) - W
    BY <1>1, <2>1
  <2>4. After(a, d) = (a + d) - W
    BY <1>1, <1>3 DEF After, Time
  <2> QED
    BY <2>1, <2>2, <2>3, <2>4, Zenon DEF Time
<1> QED
  BY <1>2, <1>3

(* The clock is not read while it changes. *)
LEMMA ReadIs ==
  ASSUME SeesEverySecond, NEW v, ReadTick(v)
  PROVE  v = tickS /\ tickS' = tickS /\ since' = since
BY DEF SeesEverySecond, ReadTick

LEMMA PeriodSame ==
  ASSUME PeriodInv, UNCHANGED <<tasks, tickS, since>>,
         pc' = "change" => \/ arg'.recur # 0 /\ arg'.name \notin Fixed
                           \/ pc = "change" /\ arg' = arg
  PROVE  PeriodInv'
BY DEF PeriodInv

LEMMA SinceSame ==
  ASSUME SinceInv, UNCHANGED <<tasks, since, phase, lag, opI, runI, running>>
  PROVE  SinceInv'
BY DEF SinceInv, Passed, Tried, Place

(* No page and no task gives a task an interval of zero. *)
LEMMA IntervalsAreNotZero ==
  ASSUME NoneIsZero, SettingsTypes
  PROVE  SendInterval # 0 /\ \A n \in ToSet(Settable) : SettableInterval(n) # 0
<1>1. /\ interval[SendData] \in Intervals
      /\ \A n \in ToSet(Settable) : interval[n] \in Intervals
  BY DEF SettingsTypes
<1> QED
  BY <1>1, Zenon DEF NoneIsZero, SendInterval, SettableInterval

(* The start of a pass. *)
LEMMA StartPassOnTime ==
  ASSUME OnTimeInv, SeesEverySecond, StartPass
  PROVE  ClockInv' /\ PeriodInv' /\ SinceInv'
<1>1. /\ phase = "poll" /\ phase' = "pass" /\ lag' = 0 /\ pc = "client" /\ pc' = "run"
      /\ UNCHANGED <<tasks, runI, opI, arg, running, resched>>
      /\ pNow' = tickS /\ tickS' = tickS /\ since' = since
  <2>1. PICK now \in Time : ReadTick(now) /\ scheduleRun(now)
    BY DEF StartPass
  <2>2. now = tickS /\ tickS' = tickS /\ since' = since
    BY <2>1, ReadIs
  <2> QED
    BY <2>1, <2>2 DEF StartPass, scheduleRun
<1>2. runI = 0 /\ running = NoTask /\ opI = 0 /\ resched = << >>
  BY <1>1 DEF OnTimeInv, PhaseInv
<1>4. ClockInv'
  BY <1>1 DEF OnTimeInv, ClockInv
<1>5. PeriodInv'
  BY <1>1, PeriodSame DEF OnTimeInv
<1>6. \A k \in DOMAIN tasks : ~Passed(k)'
  <2>1. Len(tasks) \in Nat /\ DOMAIN tasks = 1 .. Len(tasks)
    BY QueueIs DEF OnTimeInv
  <2> SUFFICES ASSUME NEW k \in DOMAIN tasks PROVE ~Passed(k)'
    OBVIOUS
  <2>2. Place(k)' = k
    BY <1>1, <1>2, <2>1 DEF Place
  <2> QED
    BY <1>1, <1>2, <2>1, <2>2 DEF Passed, Tried
<1>7. SinceInv'
  BY <1>1, <1>6 DEF OnTimeInv, SinceInv
<1> QED
  BY <1>4, <1>5, <1>7

(* The end of a pass: it has come to every task. *)
LEMMA EndPassOnTime ==
  ASSUME OnTimeInv, SeesEverySecond, EndPass
  PROVE  ClockInv' /\ PeriodInv' /\ SinceInv'
<1>1. /\ phase = "pass" /\ phase' = "net" /\ lag' = 0 /\ pc = "run" /\ pc' = "client"
      /\ runI >= Len(tasks) /\ runI' = 0 /\ UNCHANGED <<tasks, opI, arg, running, resched>>
      /\ lastTick' = tickS /\ tickS' = tickS /\ since' = since
  <2>1. PICK now \in Time : ReadTick(now) /\ lastTick' = now
    BY DEF EndPass
  <2>2. now = tickS /\ tickS' = tickS /\ since' = since
    BY <2>1, ReadIs
  <2> QED
    BY <2>1, <2>2 DEF EndPass, RunReturns
<1>2. running = NoTask /\ opI = 0 /\ resched = << >>
  BY <1>1 DEF OnTimeInv, PhaseInv, StayInv, TypeOK
<1>4. ClockInv'
  BY <1>1 DEF OnTimeInv, ClockInv
<1>5. PeriodInv'
  BY <1>1, PeriodSame DEF OnTimeInv
<1>6. \A k \in DOMAIN tasks : Passed(k)
  <2>1. Len(tasks) \in Nat /\ DOMAIN tasks = 1 .. Len(tasks) /\ runI \in Nat
    BY QueueIs DEF OnTimeInv
  <2> SUFFICES ASSUME NEW k \in DOMAIN tasks PROVE Passed(k)
    OBVIOUS
  <2>2. Place(k) = k
    BY <1>2, <2>1 DEF Place
  <2> QED
    BY <1>1, <1>2, <2>1, <2>2 DEF Passed, Tried
<1>7. \A n \in Fixed : since[n] < FixedRecur[n]
  <2> SUFFICES ASSUME NEW n \in Fixed PROVE since[n] < FixedRecur[n]
    OBVIOUS
  <2>1. PICK k \in DOMAIN tasks : tasks[k].name = n
    BY QueueIs DEF OnTimeInv
  <2> QED
    BY <1>1, <1>6, <2>1 DEF OnTimeInv, SinceInv
<1>8. SinceInv'
  BY <1>1, <1>7 DEF OnTimeInv, SinceInv
<1> QED
  BY <1>4, <1>5, <1>8

(* A task returns, and the pass goes on. *)
LEMMA TaskReturnsOnTime ==
  ASSUME OnTimeInv, TaskReturns
  PROVE  ClockInv' /\ PeriodInv' /\ SinceInv'
<1>1. /\ pc = "callback" /\ pc' = "run" /\ running' = NoTask /\ runI' = runI + 1
      /\ UNCHANGED <<tasks, pNow, opI, arg, tickS, since, lag, lastTick, phase, resched>>
  BY DEF TaskReturns, CallbackReturns
<1>2. running # NoTask /\ phase = "pass" /\ opI = 0
  BY <1>1 DEF OnTimeInv, PhaseInv, StayInv, TypeOK
<1>4. ClockInv'
  BY <1>1 DEF OnTimeInv, ClockInv
<1>5. PeriodInv'
  BY <1>1, PeriodSame DEF OnTimeInv
<1>6. \A k \in DOMAIN tasks : Passed(k)' => Passed(k)
  <2>1. Len(tasks) \in Nat /\ DOMAIN tasks = 1 .. Len(tasks) /\ runI \in Nat
    BY QueueIs DEF OnTimeInv
  <2> SUFFICES ASSUME NEW k \in DOMAIN tasks PROVE Passed(k)' => Passed(k)
    OBVIOUS
  <2>2. Place(k)' = k /\ Place(k) = k
    BY <1>1, <1>2, <2>1 DEF Place
  <2> QED
    BY <1>1, <1>2, <2>1, <2>2 DEF Passed, Tried
<1>7. SinceInv'
  BY <1>1, <1>2, <1>6 DEF OnTimeInv, SinceInv
<1> QED
  BY <1>4, <1>5, <1>7

(* A change is called, of a task whose interval is no fixed one. *)
LEMMA StartChangeOnTime ==
  ASSUME OnTimeInv, pc' = "change", arg'.recur # 0, arg'.name \notin Fixed,
         phase # "pass" => phase = "saved", pc \in {"client", "callback"},
         UNCHANGED <<tasks, runI, pNow, opI, running, tickS, since, lag, lastTick, phase>>,
         resched' # << >> => resched # << >>
  PROVE  ClockInv' /\ PeriodInv' /\ SinceInv'
<1>2. ClockInv'
  BY DEF OnTimeInv, ClockInv
<1>3. PeriodInv'
  BY PeriodSame DEF OnTimeInv
<1>4. SinceInv'
  BY SinceSame DEF OnTimeInv
<1> QED
  BY <1>2, <1>3, <1>4

LEMMA SendDataOnTime ==
  ASSUME OnTimeInv, SeesEverySecond, NoneIsZero, sendData
  PROVE  ClockInv' /\ PeriodInv' /\ SinceInv'
<1>1. PICK now \in Time : ReadTick(now) /\ scheduleChangeFunction(SendData, NextSend(now), SendInterval)
  BY DEF sendData
<1>2. tickS' = tickS /\ since' = since
  BY <1>1, ReadIs
<1>3. /\ pc = "callback" /\ pc' = "change" /\ arg'.recur = SendInterval /\ arg'.name = SendData
      /\ UNCHANGED <<tasks, runI, pNow, opI, running, lag, lastTick, phase, resched>>
  BY <1>1 DEF sendData, scheduleChangeFunction, StartLoop
<1>4. phase = "pass"
  BY <1>3 DEF OnTimeInv, PhaseInv
<1>5. SendInterval # 0 /\ SendData \notin Fixed
  <2>1. SettingsTypes
    BY DEF OnTimeInv, StayInv
  <2>2. SendData \notin Fixed
    BY MainLoopAssumption, Zenon
  <2> QED
    BY <2>1, <2>2, IntervalsAreNotZero
<1> QED
  BY <1>2, <1>3, <1>4, <1>5, StartChangeOnTime

LEMMA RescheduleOnTime ==
  ASSUME OnTimeInv, SeesEverySecond, NoneIsZero, reScheduleTasks
  PROVE  ClockInv' /\ PeriodInv' /\ SinceInv'
<1> DEFINE n == Head(resched)
<1>1. PICK now \in Time :
        /\ ReadTick(now)
        /\ scheduleChangeFunction(n, (now + SettableInterval(n)) % W, SettableInterval(n))
  BY Zenon DEF reScheduleTasks
<1>2. tickS' = tickS /\ since' = since
  BY <1>1, ReadIs
<1>3. /\ pc \in {"client", "callback"} /\ pc' = "change"
      /\ arg'.recur = SettableInterval(n) /\ arg'.name = n
      /\ UNCHANGED <<tasks, runI, pNow, opI, running, lag, lastTick, phase>>
      /\ resched # << >>
  BY <1>1 DEF reScheduleTasks, scheduleChangeFunction, StartLoop, InClient
<1>4. phase = "saved"
  BY <1>3 DEF OnTimeInv, PhaseInv
<1>5. n \in ToSet(Settable) /\ SettingsTypes
  BY <1>3 DEF OnTimeInv, StayInv, SettingsTypes
<1>6. SettableInterval(n) # 0 /\ n \notin Fixed
  <2>1. ToSet(Settable) \cap Fixed = {}
    BY MainLoopAssumption, Zenon
  <2> QED
    BY <1>5, <2>1, IntervalsAreNotZero
<1> HIDE DEF n
<1> QED
  BY <1>2, <1>3, <1>4, <1>6, StartChangeOnTime

(* A round of a change: the places turn with the queue. *)
LEMMA ChangeRoundOnTime ==
  ASSUME OnTimeInv, ChangeRound,
         UNCHANGED <<tickS, since, lag, lastTick, phase, resched>>
  PROVE  ClockInv' /\ PeriodInv' /\ SinceInv'
<1> DEFINE N == Len(tasks)
<1>1. /\ pc = "change" /\ opI < N /\ opI' = opI + 1
      /\ UNCHANGED <<pc, runI, pNow, arg, running>>
  BY DEF ChangeRound
<1>2. N \in Nat /\ DOMAIN tasks = 1 .. N /\ opI \in Nat /\ runI \in Nat /\ 1 \in DOMAIN tasks
  BY <1>1, QueueIs DEF OnTimeInv
<1>3. arg.name \notin Fixed /\ arg.recur # 0 /\ tasks[1].recur # 0
  BY <1>1, <1>2 DEF OnTimeInv, PeriodInv
<1>4. PICK item \in Item :
        /\ item.name = tasks[1].name
        /\ arg.name \notin Fixed /\ item.name \in Fixed => item = tasks[1]
        /\ arg.recur # 0 /\ tasks[1].recur # 0 => item.recur # 0
        /\ Len(tasks') = Len(tasks) /\ DOMAIN tasks' = DOMAIN tasks
        /\ \A k \in DOMAIN tasks :
             \/ k = Len(tasks) /\ tasks'[k] = item
             \/ k # Len(tasks) /\ k + 1 \in DOMAIN tasks /\ tasks'[k] = tasks[k + 1]
  BY ChangeTurns DEF OnTimeInv
<1>5. /\ item.name = tasks[1].name /\ item.recur # 0 /\ (item.name \in Fixed => item = tasks[1])
      /\ Len(tasks') = N /\ DOMAIN tasks' = DOMAIN tasks
      /\ \A k \in DOMAIN tasks :
           \/ k = N /\ tasks'[k] = item
           \/ k # N /\ k + 1 \in DOMAIN tasks /\ tasks'[k] = tasks[k + 1]
  BY <1>3, <1>4
<1>7. ClockInv'
  BY <1>1 DEF OnTimeInv, ClockInv
<1>8. PeriodInv'
  <2>1. pc' = "change" => arg'.recur # 0 /\ arg'.name \notin Fixed
    BY <1>1 DEF OnTimeInv, PeriodInv
  <2>3. ASSUME NEW k \in DOMAIN tasks
        PROVE  /\ tasks'[k].recur # 0
               /\ tasks'[k].name \in Fixed =>
                    /\ tasks'[k].recur = FixedRecur[tasks'[k].name]
                    /\ tasks'[k].next \in Planned(tasks'[k].name, tickS, since[tasks'[k].name])
    <3>1. CASE k = N
      BY <1>1, <1>2, <1>5, <3>1 DEF OnTimeInv, PeriodInv
    <3>2. CASE k # N
      BY <1>5, <3>2 DEF OnTimeInv, PeriodInv
    <3> QED
      BY <3>1, <3>2
  <2> QED
    BY <1>5, <2>1, <2>3 DEF PeriodInv
<1>9. SinceInv'
  <2>1. ASSUME NEW k \in DOMAIN tasks, phase = "pass", tasks'[k].name \in Fixed, Passed(k)'
        PROVE  since[tasks'[k].name] < FixedRecur[tasks'[k].name]
    <3>1. CASE k = N
      <4>1. Place(k)' = opI + 1 /\ Place(1) = opI + 1
        BY <1>1, <1>2, <1>5, <3>1 DEF Place
      <4>2. Passed(1) /\ 1 \in DOMAIN tasks
        BY <1>1, <1>2, <1>5, <2>1, <4>1 DEF Passed, Tried
      <4>3. tasks'[k].name = tasks[1].name
        BY <1>5, <3>1
      <4> QED
        BY <2>1, <4>2, <4>3 DEF OnTimeInv, SinceInv
    <3>2. CASE k # N
      <4>1. Place(k)' = Place(k + 1)
        BY <1>1, <1>2, <1>5, <3>2 DEF Place
      <4>2. Passed(k + 1) /\ k + 1 \in DOMAIN tasks /\ tasks'[k] = tasks[k + 1]
        BY <1>1, <1>2, <1>5, <2>1, <3>2, <4>1 DEF Passed, Tried
      <4> QED
        BY <2>1, <4>2 DEF OnTimeInv, SinceInv
    <3> QED
      BY <3>1, <3>2
  <2> QED
    BY <1>5, <2>1 DEF OnTimeInv, SinceInv
<1> QED
  BY <1>7, <1>8, <1>9

(* The end of a change: the queue has turned once. *)
LEMMA EndChangeOnTime ==
  ASSUME OnTimeInv, EndLoop("change"),
         UNCHANGED <<tickS, since, lag, lastTick, phase, resched>>
  PROVE  ClockInv' /\ PeriodInv' /\ SinceInv'
<1>1. /\ pc = "change" /\ opI >= Len(tasks) /\ opI' = 0
      /\ pc' = (IF running = NoTask THEN "client" ELSE "callback")
      /\ UNCHANGED <<tasks, runI, pNow, running>>
  BY DEF EndLoop, Caller
<1>2. Len(tasks) \in Nat /\ DOMAIN tasks = 1 .. Len(tasks) /\ opI \in Nat /\ runI \in Nat
  BY QueueIs DEF OnTimeInv
<1>4. ClockInv'
  BY <1>1 DEF OnTimeInv, ClockInv
<1>5. PeriodInv'
  BY <1>1, PeriodSame DEF OnTimeInv
<1>6. \A k \in DOMAIN tasks : Passed(k)' => Passed(k)
  <2> SUFFICES ASSUME NEW k \in DOMAIN tasks PROVE Passed(k)' => Passed(k)
    OBVIOUS
  <2>0. opI <= Len(tasks) /\ opI >= Len(tasks) /\ opI \in Nat /\ Len(tasks) \in Nat
    BY <1>1, <1>2, Zenon DEF OnTimeInv, PhaseInv
  <2>1. opI = Len(tasks)
    BY <2>0
  <2>2. Place(k)' = k /\ Place(k) = k
    BY <1>1, <1>2, <2>1 DEF Place
  <2> QED
    BY <1>1, <2>2 DEF Passed, Tried
<1>7. SinceInv'
  BY <1>1, <1>6 DEF OnTimeInv, SinceInv
<1> QED
  BY <1>4, <1>5, <1>7

(* A round of the pass.  A task whose interval is over is due, so that the    *)
(* ones the pass leaves behind have begun a new one.                         *)
LEMMA DueWhenOver ==
  ASSUME ClockInv, NEW n \in Fixed, NEW t \in Planned(n, tickS, since[n]), since[n] = FixedRecur[n]
  PROVE  t <= tickS
<1>1. /\ tickS \in Nat /\ tickS < W
      /\ FixedRecur[n] \in Nat /\ W \in Nat
  BY ClockSizes DEF ClockInv, Time
<1>2. After(tickS, FixedRecur[n] - since[n]) = tickS
  BY <1>1 DEF After
<1> QED
  BY <1>1, <1>2 DEF Planned

LEMMA PassRoundOnTime ==
  ASSUME OnTimeInv, PassRound
  PROVE  ClockInv' /\ PeriodInv' /\ SinceInv'
<1> DEFINE N == Len(tasks)
           first == tasks[1]
           again == [first EXCEPT !.next = (tickS + first.recur) % W]
<1>1. /\ phase = "pass" /\ pc = "run" /\ runI < N /\ RunRound
      /\ since' = [n \in Fixed |-> IF n = running' THEN 0 ELSE since[n]]
      /\ UNCHANGED <<pNow, opI, arg, tickS, lag, lastTick, phase, resched>>
  BY DEF PassRound, RunRound, loopVars
<1>2. /\ tasks \in Seq(Item) /\ N \in Nat /\ DOMAIN tasks = 1 .. N /\ opI \in Nat /\ runI \in Nat
      /\ N > 0 /\ 1 \in DOMAIN tasks /\ first \in Item
  BY <1>1, QueueIs DEF OnTimeInv
<1>3. /\ running = NoTask /\ opI = 0 /\ pNow = tickS /\ tickS \in Time /\ resched = << >>
      /\ NoTask \notin Names /\ Fixed \subseteq Names
  <2>1. running = NoTask /\ opI = 0 /\ pNow = tickS /\ tickS \in Time /\ resched = << >>
    BY <1>1 DEF OnTimeInv, PhaseInv, ClockInv, StayInv, TypeOK
  <2>2. NoTask \notin Names /\ Fixed \subseteq Names
    <3>1. Names = {SendData} \cup ToSet(Settable) \cup Fixed
      BY MainLoopAssumption, Zenon
    <3> QED
      BY <3>1, SchedulerAssumption
  <2> QED
    BY <2>1, <2>2
<1>4. first.recur # 0 /\ first.name \in Names /\ first.recur \in Time
      /\ (first.name \in Fixed => /\ first.recur = FixedRecur[first.name]
                                  /\ first.next \in Planned(first.name, tickS, since[first.name]))
  BY <1>2 DEF OnTimeInv, PeriodInv, Item
<1>5. \E item \in Item :
        /\ tasks' = Turn(tasks, item) /\ item.name = first.name /\ item.recur = first.recur
        /\ \/ /\ item.next = After(tickS, first.recur)
              /\ running' = first.name /\ pc' = "callback" /\ runI' = runI
           \/ /\ item = first /\ ~(first.next <= tickS)
              /\ running' = NoTask /\ pc' = "run" /\ runI' = runI + 1
  <2>1. Head(tasks) = first /\ \A item : Insert(Tail(tasks), item) = Turn(tasks, item)
    BY <1>2, RoundFacts DEF OnTimeInv
  <2>2. CASE Due(Head(tasks), pNow) /\ tasks' = Rescheduled(Head(tasks), pNow, Tail(tasks))
             /\ running' = Head(tasks).name /\ pc' = "callback" /\ runI' = runI
    <3>1. (tickS + first.recur) % W = After(tickS, first.recur) /\ After(tickS, first.recur) \in Time
      BY <1>3, <1>4, SumIs
    <3>2. again \in Item /\ again.name = first.name /\ again.recur = first.recur
          /\ again.next = After(tickS, first.recur)
      BY <1>2, <3>1 DEF Item
    <3>3. tasks' = Insert(Tail(tasks), again)
      BY <1>3, <1>4, <2>1, <2>2 DEF Rescheduled
    <3> HIDE DEF again
    <3> QED
      BY <2>1, <2>2, <3>2, <3>3
  <2>3. CASE ~Due(Head(tasks), pNow) /\ tasks' = PutBack(tasks) /\ runI' = runI + 1
             /\ pc' = pc /\ running' = running
    BY <1>1, <1>2, <1>3, <2>1, <2>3 DEF Due, PutBack
  <2> QED
    BY <1>1, <2>2, <2>3 DEF RunRound
<1>6. PICK item \in Item :
        /\ tasks' = Turn(tasks, item) /\ item.name = first.name /\ item.recur = first.recur
        /\ \/ /\ item.next = After(tickS, first.recur)
              /\ running' = first.name /\ pc' = "callback" /\ runI' = runI
           \/ /\ item = first /\ ~(first.next <= tickS)
              /\ running' = NoTask /\ pc' = "run" /\ runI' = runI + 1
  BY <1>5, Zenon
<1> HIDE DEF first, again
<1>7. /\ Len(tasks') = N /\ DOMAIN tasks' = DOMAIN tasks
      /\ \A k \in DOMAIN tasks :
           \/ k = N /\ tasks'[k] = item
           \/ k # N /\ k + 1 \in DOMAIN tasks /\ tasks'[k] = tasks[k + 1]
                    /\ tasks[k + 1].name # first.name
  <2> DEFINE r == Turn(tasks, item)
  <2>2. /\ Len(r) = Len(tasks) /\ DOMAIN r = DOMAIN tasks
        /\ \A k \in DOMAIN tasks :
             \/ k = Len(tasks) /\ r[k] = item
             \/ k # Len(tasks) /\ k + 1 \in DOMAIN tasks /\ r[k] = tasks[k + 1]
    BY <1>2, TurnShift
  <2>3. \A k \in DOMAIN tasks : k + 1 \in DOMAIN tasks => tasks[k + 1].name # first.name
    BY <1>2 DEF OnTimeInv, TableInv, Distinct, first
  <2> HIDE DEF r
  <2>4. tasks' = r
    BY <1>6 DEF r
  <2> QED
    BY <2>2, <2>3, <2>4
<1>8. \A n \in Fixed : since'[n] = IF n = running' THEN 0 ELSE since[n]
  BY <1>1
<1>9. \A n \in Fixed : n # first.name => since'[n] = since[n]
  BY <1>3, <1>6, <1>8
<1>10. ASSUME first.name \in Fixed
       PROVE  /\ since'[first.name] \in Nat /\ since'[first.name] < FixedRecur[first.name]
              /\ item.next \in Planned(first.name, tickS, since'[first.name])
  <2> DEFINE n == first.name
  <2>0. FixedRecur[n] \in Nat /\ FixedRecur[n] >= 1 /\ since[n] \in Nat /\ since[n] <= FixedRecur[n]
    BY <1>10, ClockSizes DEF OnTimeInv, SinceInv
  <2>1. CASE item.next = After(tickS, first.recur) /\ running' = first.name
    <3>1. since'[n] = 0
      BY <1>8, <1>10, <2>1
    <3>2. item.next = After(tickS, FixedRecur[n] - since'[n])
      BY <1>4, <1>10, <2>0, <2>1, <3>1
    <3> QED
      BY <2>0, <3>1, <3>2 DEF Planned
  <2>2. CASE item = first /\ ~(first.next <= tickS) /\ running' = NoTask
    <3>1. since'[n] = since[n]
      BY <1>3, <1>8, <1>10, <2>2
    <3>2. since[n] # FixedRecur[n]
      BY <1>4, <1>10, <2>2, DueWhenOver DEF OnTimeInv
    <3> QED
      BY <1>4, <1>10, <2>0, <2>2, <3>1, <3>2
  <2> QED
    BY <1>6, <2>1, <2>2
<1>12. ClockInv'
  BY <1>1 DEF OnTimeInv, ClockInv
<1>13. PeriodInv'
  <2>1. pc' # "change"
    BY <1>6
  <2>2. ASSUME NEW k \in DOMAIN tasks
        PROVE  /\ tasks'[k].recur # 0
               /\ tasks'[k].name \in Fixed =>
                    /\ tasks'[k].recur = FixedRecur[tasks'[k].name]
                    /\ tasks'[k].next \in Planned(tasks'[k].name, tickS, since'[tasks'[k].name])
    <3>1. CASE k = N
      BY <1>4, <1>6, <1>7, <1>10, <3>1
    <3>2. CASE k # N
      <4>1. k + 1 \in DOMAIN tasks /\ tasks'[k] = tasks[k + 1] /\ tasks[k + 1].name # first.name
        BY <1>7, <3>2
      <4> QED
        BY <1>9, <4>1 DEF OnTimeInv, PeriodInv
    <3> QED
      BY <3>1, <3>2
  <2> QED
    BY <1>1, <1>7, <2>1, <2>2 DEF PeriodInv
<1>14. SinceInv'
  <2>1. ASSUME NEW n \in Fixed PROVE since'[n] \in Nat /\ since'[n] <= FixedRecur[n]
    <3>1. CASE n = first.name
      BY <1>10, <2>1, <3>1, ClockSizes
    <3>2. CASE n # first.name
      BY <1>9, <2>1, <3>2 DEF OnTimeInv, SinceInv
    <3> QED
      BY <3>1, <3>2
  <2>2. since' \in [Fixed -> Nat]
    BY <1>1, <2>1
  <2>3. ASSUME NEW k \in DOMAIN tasks, tasks'[k].name \in Fixed, Passed(k)'
        PROVE  since'[tasks'[k].name] < FixedRecur[tasks'[k].name]
    <3>1. CASE k = N
      BY <1>6, <1>7, <1>10, <2>3, <3>1
    <3>2. CASE k # N
      <4>1. k + 1 \in DOMAIN tasks /\ tasks'[k] = tasks[k + 1] /\ tasks[k + 1].name # first.name
        BY <1>7, <3>2
      <4>2. Place(k)' = k /\ Place(k + 1) = k + 1
        BY <1>1, <1>2, <1>3, <1>7, <4>1 DEF Place
      <4>3. Passed(k + 1)
        BY <1>1, <1>2, <1>3, <1>4, <1>6, <1>7, <2>3, <4>2 DEF Passed, Tried
      <4> QED
        BY <1>1, <1>9, <2>3, <4>1, <4>3 DEF OnTimeInv, SinceInv
    <3> QED
      BY <3>1, <3>2
  <2> QED
    BY <1>1, <1>7, <2>1, <2>2, <2>3 DEF SinceInv
<1> QED
  BY <1>12, <1>13, <1>14

(* A second begins: the time a task has left gets one less. *)
LEMMA SecondPasses ==
  ASSUME tickS \in Time, NEW n \in Fixed, NEW ago \in Nat, ago < FixedRecur[n],
         NEW t \in Planned(n, tickS, ago)
  PROVE  t \in Planned(n, After(tickS, 1), ago + 1)
<1>1. /\ tickS \in Nat /\ tickS < W /\ W \in Nat /\ W >= 2
      /\ FixedRecur[n] \in Nat /\ FixedRecur[n] < W
  BY ClockSizes DEF Time
<1>2. CASE t = After(tickS, FixedRecur[n] - ago)
  <2>1. After(After(tickS, 1), FixedRecur[n] - (ago + 1)) = After(tickS, FixedRecur[n] - ago)
    BY <1>1 DEF After
  <2> QED
    BY <1>2, <2>1 DEF Planned
<1>3. CASE t = FixedRecur[n] /\ t <= tickS /\ ago = t - 1 /\ tickS < W - 1
  <2>1. After(tickS, 1) = tickS + 1 /\ t <= tickS + 1 /\ ago + 1 = t
    BY <1>1, <1>3 DEF After
  <2> QED
    BY <1>3, <2>1 DEF Planned
<1> QED
  BY <1>1, <1>2, <1>3 DEF Planned

LEMMA InterruptOnTime ==
  ASSUME OnTimeInv, SeesEverySecond, Interrupt
  PROVE  ClockInv' /\ PeriodInv' /\ SinceInv'
<1>1. /\ UNCHANGED <<tasks, pc, runI, pNow, opI, arg, running, lastTick, phase, resched>>
      /\ lag' = lag + 1 /\ lag < (IF phase = "pass" THEN PassTicks ELSE NetTicks)
      /\ tickS' = NextSecond
      /\ since' = [n \in Fixed |-> IF since[n] < SinceMax(n) THEN since[n] + 1 ELSE since[n]]
  BY DEF Interrupt, CountSecond, vars, loopVars
<1>2. lag \in {0, 1} /\ tickS \in Time /\ W \in Nat /\ W >= 2 /\ 1 \in Time
      /\ PassTicks = 0 /\ NetTicks <= 1 /\ NetTicks \in Nat
  BY ClockSizes, MainLoopAssumption DEF OnTimeInv, ClockInv, Time, SeesEverySecond
<1>3. phase # "pass" /\ lag = 0 /\ lag' = 1
  BY <1>1, <1>2
<1>4. lastTick = tickS
  BY <1>3 DEF OnTimeInv, ClockInv
<1>5. tickS' = After(tickS, 1) /\ tickS' \in Time /\ tickS' # tickS
  <2>1. tickS' = After(tickS, 1) /\ tickS' \in Time
    BY <1>1, <1>2, SumIs DEF NextSecond
  <2> QED
    BY <1>2, <2>1 DEF After, Time
<1>6. \A n \in Fixed : since[n] \in Nat /\ since[n] < FixedRecur[n] /\ since'[n] = since[n] + 1
  <2> SUFFICES ASSUME NEW n \in Fixed
               PROVE  since[n] \in Nat /\ since[n] < FixedRecur[n] /\ since'[n] = since[n] + 1
    OBVIOUS
  <2>1. since[n] \in Nat /\ since[n] < FixedRecur[n]
    BY <1>3 DEF OnTimeInv, SinceInv
  <2>2. since[n] < SinceMax(n)
    BY <2>1, ClockSizes DEF SinceMax
  <2> QED
    BY <1>1, <2>1, <2>2
<1>8. ClockInv'
  BY <1>1, <1>3, <1>4, <1>5 DEF ClockInv
<1>9. PeriodInv'
  <2>1. ASSUME NEW k \in DOMAIN tasks, tasks[k].name \in Fixed
        PROVE  tasks[k].next \in Planned(tasks[k].name, tickS', since'[tasks[k].name])
    <3> DEFINE n == tasks[k].name
               ago == since[n]
               t == tasks[k].next
    <3>1. tickS \in Time /\ n \in Fixed /\ ago \in Nat /\ ago < FixedRecur[n]
          /\ t \in Planned(n, tickS, ago)
      BY <1>2, <1>6, <2>1 DEF OnTimeInv, PeriodInv
    <3>2. since'[n] = ago + 1
      BY <1>6, <2>1
    <3> HIDE DEF n, ago, t
    <3>3. t \in Planned(n, After(tickS, 1), ago + 1)
      BY <3>1, SecondPasses
    <3>4. t \in Planned(n, tickS', since'[n])
      BY <1>5, <3>2, <3>3
    <3> QED
      BY <3>4 DEF n, t
  <2> QED
    BY <1>1, <2>1 DEF OnTimeInv, PeriodInv
<1>10. SinceInv'
  <2>1. \A n \in Fixed : since'[n] \in Nat /\ since'[n] <= FixedRecur[n]
    BY <1>6, ClockSizes
  <2>2. since' \in [Fixed -> Nat]
    BY <1>1, <2>1
  <2> QED
    BY <1>1, <1>3, <2>1, <2>2 DEF SinceInv
<1> QED
  BY <1>8, <1>9, <1>10

(* Outside of a pass nothing but the clock is awaited. *)
LEMMA PollOnTime ==
  ASSUME OnTimeInv, SeesEverySecond, NoNewSecond \/ NetDone
  PROVE  ClockInv' /\ PeriodInv' /\ SinceInv'
<1>1. /\ UNCHANGED <<tasks, pc, runI, pNow, opI, arg, running, lastTick, resched>>
      /\ tickS' = tickS /\ since' = since
      /\ \/ phase = "poll" /\ phase' = "net" /\ lag' = 0 /\ lastTick = tickS
         \/ phase \in {"net", "saved"} /\ phase' = "poll" /\ lag' = lag
            /\ resched = << >> /\ pc = "client"
  BY ReadIs DEF NoNewSecond, NetDone, vars
<1>2. lag = 0 \/ lag' = lag
  BY <1>1 DEF OnTimeInv, ClockInv
<1>4. ClockInv'
  BY <1>1, <1>2 DEF OnTimeInv, ClockInv
<1>5. PeriodInv'
  BY <1>1, PeriodSame DEF OnTimeInv
<1>6. SinceInv'
  BY <1>1, <1>2 DEF OnTimeInv, SinceInv
<1> QED
  BY <1>4, <1>5, <1>6

(* A page is saved. *)
LEMMA SaveOnTime ==
  ASSUME OnTimeInv, phase = "net", phase' = "saved",
         UNCHANGED <<tasks, pc, runI, pNow, opI, arg, running, tickS, since, lag, lastTick>>
  PROVE  ClockInv' /\ PeriodInv' /\ SinceInv'
<1>2. ClockInv'
  BY DEF OnTimeInv, ClockInv
<1>3. PeriodInv'
  BY PeriodSame DEF OnTimeInv
<1>4. SinceInv'
  BY DEF OnTimeInv, SinceInv
<1> QED
  BY <1>2, <1>3, <1>4

(* After the start-up the interval of each task counts from the reset; a     *)
(* task that is due by then has one second left.                             *)
LEMMA OnTimeInitially ==
  ASSUME SeesEverySecond, NoneIsZero, MainInit
  PROVE  OnTimeInv
<1>1. StayInv
  BY StayInitially
<1>2. /\ tickS \in BootTicks /\ lastTick = tickS /\ lag = 0
      /\ since = [n \in Fixed |-> IF tickS < FixedRecur[n] THEN tickS ELSE FixedRecur[n] - 1]
      /\ pc = "client" /\ runI = 0 /\ opI = 0 /\ arg = NoTask /\ running = NoTask
      /\ phase = "poll" /\ resched = << >>
  BY DEF MainInit
<1>3. /\ tickS \in Nat /\ tickS < W - 1 /\ W \in Nat /\ W >= 2 /\ tickS \in Time
  <2>1. W \in Nat /\ W >= 2 /\ BootTicks \subseteq 0 .. W - 2
    BY ClockSizes DEF SeesEverySecond
  <2>2. tickS \in 0 .. W - 2
    BY <1>2, <2>1
  <2> QED
    BY <2>1, <2>2 DEF Time
<1>4. \A n \in Fixed : FixedRecur[n] \in Nat /\ FixedRecur[n] >= 1 /\ FixedRecur[n] < W
  BY ClockSizes
<1>5. tasks \in Seq(Item) /\ Len(tasks) \in Nat /\ DOMAIN tasks = 1 .. Len(tasks)
  BY <1>1, QueueIs
<1>6. /\ DOMAIN tasks = DOMAIN BootOrder
      /\ \A k \in DOMAIN tasks : /\ tasks[k].name = BootOrder[k]
                                 /\ tasks[k].recur = BootInterval(BootOrder[k])
                                 /\ tasks[k].next = BootInterval(BootOrder[k])
  <2>1. tasks = [k \in DOMAIN BootOrder |->
                   [name |-> BootOrder[k], recur |-> BootInterval(BootOrder[k]),
                    next |-> BootInterval(BootOrder[k])]]
    BY Zenon DEF MainInit
  <2> QED
    BY <2>1
<1>8. TableInv
  BY StartsDistinct
<1>9. PhaseInv
  BY <1>2, <1>5 DEF PhaseInv
<1>10. ClockInv
  BY <1>2, <1>3 DEF ClockInv
<1>11. ASSUME NEW n \in Names
       PROVE  BootInterval(n) # 0 /\ (n \in Fixed => BootInterval(n) = FixedRecur[n])
  <2>1. /\ n \in {SendData} \cup ToSet(Settable) \cup Fixed
        /\ SendData \notin Fixed
    BY MainLoopAssumption, Zenon
  <2>2. /\ interval[SendData] \in Intervals
        /\ \A m \in ToSet(Settable) : interval[m] \in Intervals
    BY <1>1 DEF StayInv, SettingsTypes
  <2>3. CASE n = SendData
    BY <2>1, <2>2, <2>3, Zenon DEF BootInterval, BootSendInterval, NoneIsZero
  <2>4. CASE n # SendData /\ n \in Fixed
    <3>1. BootInterval(n) = FixedRecur[n]
      BY <2>4, Zenon DEF BootInterval
    <3> QED
      BY <1>4, <2>4, <3>1
  <2>5. CASE n # SendData /\ n \notin Fixed
    <3>1. n \in ToSet(Settable)
      BY <2>1, <2>5, Zenon
    <3>2. BootInterval(n) = interval[n] \div Divisor[n]
      BY <2>5, Zenon DEF BootInterval, SettableInterval
    <3>3. interval[n] \in Intervals
      BY <2>2, <3>1, Zenon
    <3> QED
      BY <2>5, <3>1, <3>2, <3>3, Zenon DEF NoneIsZero
  <2> QED
    BY <2>3, <2>4, <2>5
<1>12. ASSUME NEW n \in Fixed
       PROVE  /\ since[n] \in Nat /\ since[n] < FixedRecur[n]
              /\ FixedRecur[n] \in Planned(n, tickS, since[n])
  <2>1. since[n] = IF tickS < FixedRecur[n] THEN tickS ELSE FixedRecur[n] - 1
    BY <1>2, Zenon
  <2>2. CASE tickS < FixedRecur[n]
    <3>1. After(tickS, FixedRecur[n] - since[n]) = FixedRecur[n]
      BY <1>3, <1>4, <2>1, <2>2 DEF After
    <3> QED
      BY <1>3, <2>1, <2>2, <3>1 DEF Planned
  <2>3. CASE ~(tickS < FixedRecur[n])
    <3>1. FixedRecur[n] <= tickS /\ since[n] = FixedRecur[n] - 1 /\ since[n] \in Nat
          /\ since[n] < FixedRecur[n]
      BY <1>3, <1>4, <2>1, <2>3
    <3> QED
      BY <1>3, <3>1, Zenon DEF Planned
  <2> QED
    BY <2>2, <2>3
<1>13. PeriodInv
  <2>1. ASSUME NEW k \in DOMAIN tasks
        PROVE  /\ tasks[k].recur # 0
               /\ tasks[k].name \in Fixed =>
                    /\ tasks[k].recur = FixedRecur[tasks[k].name]
                    /\ tasks[k].next \in Planned(tasks[k].name, tickS, since[tasks[k].name])
    <3>0. tasks[k] \in Item
      BY <1>1, QueueIs, Zenon
    <3>1. tasks[k].name \in Names
      BY <3>0 DEF Item
    <3>2. tasks[k].recur = BootInterval(tasks[k].name) /\ tasks[k].next = BootInterval(tasks[k].name)
      BY <1>6, Zenon
    <3> QED
      BY <1>11, <1>12, <3>1, <3>2, Zenon
  <2> QED
    BY <1>2, <2>1 DEF PeriodInv
<1>14. SinceInv
  <2>1. since \in [Fixed -> Nat]
    <3>1. since = [n \in Fixed |-> since[n]]
      BY <1>2
    <3> QED
      BY <1>12, <3>1
  <2>2. \A n \in Fixed : since[n] <= FixedRecur[n] /\ since[n] < FixedRecur[n]
    BY <1>4, <1>12
  <2> QED
    BY <1>2, <2>1, <2>2 DEF SinceInv
<1> QED
  BY <1>1, <1>8, <1>9, <1>10, <1>13, <1>14 DEF OnTimeInv

LEMMA OnTimeStep ==
  ASSUME SeesEverySecond, NoneIsZero, OnTimeInv, [MainNext]_mainVars
  PROVE  OnTimeInv'
<1>1. StayInv' /\ PhaseInv'
  BY StayStep, PhaseStep DEF OnTimeInv
<1>2. TableInv'
  <2>1. UniqueNames
    BY MainLoopAssumption, Zenon
  <2> QED
    BY <2>1, SchedulerStep, NextRefinesTable DEF OnTimeInv
<1> DEFINE New == ClockInv' /\ PeriodInv' /\ SinceInv'
<1>3. ASSUME ChangeLoop PROVE New
  <2>1. /\ ChangeRound \/ EndLoop("change")
        /\ UNCHANGED <<tickS, since, lag, lastTick, phase, resched>>
    BY <1>3 DEF ChangeLoop, loopVars
  <2> QED
    BY <2>1, ChangeRoundOnTime, EndChangeOnTime
<1>4. ASSUME NEW b \in Intervals, SaveUploadInterval(b)
      PROVE  New
  <2>1. /\ phase = "net" /\ phase' = "saved" /\ resched' = resched
        /\ UNCHANGED <<tasks, pc, runI, pNow, opI, arg, running, tickS, since, lag, lastTick>>
    BY <1>4 DEF SaveUploadInterval, vars
  <2> QED
    BY <2>1, SaveOnTime
<1>5. ASSUME NEW b \in Intervals, NEW n \in ToSet(Settable), SaveSettings(n, b)
      PROVE  New
  <2>1. /\ phase = "net" /\ phase' = "saved"
        /\ UNCHANGED <<tasks, pc, runI, pNow, opI, arg, running, tickS, since, lag, lastTick>>
    BY <1>5 DEF SaveSettings, vars
  <2> QED
    BY <2>1, SaveOnTime
<1>6. ASSUME UNCHANGED mainVars PROVE New
  <2>1. UNCHANGED <<tasks, pc, runI, pNow, opI, arg, running, tickS, since, lag, lastTick,
                    phase, resched>>
    BY <1>6 DEF mainVars, vars, loopVars
  <2>2. ClockInv'
    BY <2>1 DEF OnTimeInv, ClockInv
  <2>3. PeriodInv' /\ SinceInv'
    BY <2>1, PeriodSame, SinceSame DEF OnTimeInv
  <2> QED
    BY <2>2, <2>3
<1>7. New
  BY <1>3, <1>4, <1>5, <1>6, StartPassOnTime, PollOnTime, PassRoundOnTime, SendDataOnTime,
     TaskReturnsOnTime, EndPassOnTime, RescheduleOnTime, InterruptOnTime, Zenon
     DEF MainNext, MainStep
<1> QED
  BY <1>1, <1>2, <1>7 DEF OnTimeInv

(* When the main loop sees every second and no page saves an interval of     *)
(* zero, no task with a fixed interval is ever late: the alarm check, remote *)
(* IO, the LCD and the EEPROM save run in the second their interval is over, *)
(* also across a wrap of tickS and while sendData and the settings page turn *)
(* the queue.                                                                *)
THEOREM FixedRunOnTime ==
  ASSUME SeesEverySecond, NoneIsZero
  PROVE  MainSpec => []OnTime
<1>1. MainInit => OnTimeInv
  BY OnTimeInitially
<1>2. OnTimeInv /\ [MainNext]_mainVars => OnTimeInv'
  BY OnTimeStep
<1>3. OnTimeInv => OnTime
  BY Zenon DEF OnTimeInv, SinceInv, OnTime
<1> QED
  BY <1>1, <1>2, <1>3, PTL DEF MainSpec
=============================================================================
