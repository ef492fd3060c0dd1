----------------------------- MODULE MainLoop -----------------------------
(***************************************************************************)
(* The main program of S3/test_web_client.c after start-up: the timer      *)
(* interrupt that counts seconds in tickS, the endless loop that runs the  *)
(* scheduler once per new second and then polls the network, and the tasks *)
(* that reach back into the scheduler: sendData, which sets its own next   *)
(* run, and reScheduleTasks, called when the settings page is saved.       *)
(*                                                                         *)
(* tickS is 16 bits wide on an 8 bit processor and is read without masking *)
(* the interrupt: a read during which the interrupt carries into the high  *)
(* byte may combine an old and a new byte (TornReads).  scheduleRun and    *)
(* handle_net may take longer than a second (a DHT11 read blocks, a DNS    *)
(* packet is built); PassTicks and NetTicks bound how many seconds each    *)
(* may take.                                                               *)
(***************************************************************************)
EXTENDS TaskScheduler

CONSTANTS
  Base,          \* values of one byte of tickS; W = Base * Base
  BootOrder,     \* all tasks, in the order main schedules them
  SendData,      \* the task sendData
  Settable,      \* the tasks reScheduleTasks changes, in its order
  FixedRecur,    \* the intervals of the other tasks
  Divisor,       \* what an interval byte is divided by (updateOWSensors: 2)
  SendUnit,      \* seconds per unit of the upload interval byte (10)
  ByteValues,    \* number of values of uint8_t, the type of main's interval
  Intervals,     \* interval bytes the pages save
  TornReads,     \* whether tickS may be read while it changes
  PassTicks,     \* seconds one scheduleRun may take
  NetTicks,      \* seconds one handle_net may take
  BootTicks,     \* values of tickS when start-up is over
  SinceSlack     \* how far past an interval the history counts

Fixed == DOMAIN FixedRecur

ASSUME MainLoopAssumption ==
  /\ Base \in Nat \ {0, 1} /\ W = Base * Base
  /\ Names = {SendData} \cup ToSet(Settable) \cup Fixed
  /\ SendData \notin ToSet(Settable) \cup Fixed /\ ToSet(Settable) \cap Fixed = {}
  /\ Settable \in Seq(Names) /\ BootOrder \in Seq(Names)
  /\ ToSet(BootOrder) = Names /\ Len(BootOrder) = Cardinality(Names)
  /\ Cardinality(Names) <= Capacity
  /\ FixedRecur \in [Fixed -> 1 .. W - 1]
  /\ Divisor \in [ToSet(Settable) -> Nat \ {0}]
  /\ SendUnit \in Nat
  /\ ByteValues \in 1 .. W /\ Intervals \subseteq 0 .. ByteValues - 1
  /\ TornReads \in BOOLEAN /\ PassTicks \in Nat /\ NetTicks \in Nat /\ SinceSlack \in Nat
  /\ BootTicks \subseteq Time
  /\ UniqueNames

VARIABLES
  tickS,             \* seconds, counted by the interrupt, modulo 2^16
  lastTick,          \* main's tickS of the last pass
  phase,             \* where the main loop is
  lag,               \* seconds the scheduler or handle_net has taken
  interval,          \* EEPROM: the interval bytes of sendData and Settable
  start_web_client,  \* 1 when an upload is requested
  changed,           \* whether the running sendData has set its next run
  resched,           \* reScheduleTasks: the tasks still to be changed
  since,             \* history: seconds since each fixed task last ran
                     \* (at first since reset, one second left if due)
  called, skipped,   \* history: tasks called in this pass; due in the last
                     \* pass but not called
  wasZero            \* history: the upload interval has once been zero

history == <<called, skipped, wasZero>>
loopVars == <<lastTick, phase, interval, start_web_client, changed, resched>>
mainVars == <<vars, tickS, since, lag, loopVars, history>>

-----------------------------------------------------------------------------
(* The timer interrupt: every 500 ticks of 2 ms, one more second.          *)
SinceMax(n) == FixedRecur[n] + SinceSlack

NextSecond == (tickS + 1) % W

CountSecond ==
  /\ tickS' = NextSecond
  /\ since' = [n \in Fixed |-> IF since[n] < SinceMax(n) THEN since[n] + 1 ELSE since[n]]

Interrupt ==
  /\ lag < IF phase = "pass" THEN PassTicks ELSE NetTicks
  /\ CountSecond
  /\ lag' = lag + 1
  /\ UNCHANGED <<vars, loopVars, history>>

(* Reading tickS into v, byte by byte. *)
High(t) == t \div Base
Low(t) == t % Base
Torn(old, new) == {High(old) * Base + Low(new), High(new) * Base + Low(old)}

ReadTick(v) ==
  \/ /\ v = tickS
     /\ UNCHANGED <<tickS, since>>
  \/ /\ TornReads
     /\ v \in Torn(tickS, NextSecond)
     /\ CountSecond

-----------------------------------------------------------------------------
SettableInterval(n) == interval[n] \div Divisor[n]

SendInterval == (interval[SendData] * SendUnit) % W

NextSend(now) == (now + SendInterval) % W

(* main keeps the first interval of sendData in a uint8_t. *)
BootSendInterval == (interval[SendData] * SendUnit) % ByteValues

BootInterval(n) ==
  IF n = SendData THEN BootSendInterval
  ELSE IF n \in Fixed THEN FixedRecur[n]
  ELSE SettableInterval(n)

MainInit ==
  /\ tickS \in BootTicks
  /\ lastTick = tickS
  /\ lag = 0
  /\ since = [n \in Fixed |-> IF tickS < FixedRecur[n] THEN tickS ELSE FixedRecur[n] - 1]
  /\ interval \in [{SendData} \cup ToSet(Settable) -> Intervals]
  /\ tasks = [k \in DOMAIN BootOrder |->
                LET t == BootInterval(BootOrder[k])
                IN  [name |-> BootOrder[k], recur |-> t, next |-> t]]
  /\ pc = "client" /\ runI = 0 /\ pNow = 0 /\ opI = 0 /\ arg = NoTask
  /\ running = NoTask
  /\ phase = "poll"
  /\ start_web_client = 0
  /\ changed = FALSE
  /\ resched = << >>
  /\ called = {} /\ skipped = {}
  /\ wasZero = (BootSendInterval = 0)

-----------------------------------------------------------------------------
(* if (lastTick != tickS) { scheduleRun(tickS); ...                         *)
StartPass ==
  /\ phase = "poll"
  /\ lastTick # tickS
  /\ \E now \in Time : ReadTick(now) /\ scheduleRun(now)
  /\ phase' = "pass"
  /\ lag' = 0
  /\ UNCHANGED <<lastTick, interval, start_web_client, changed, resched, history>>

NoNewSecond ==
  /\ phase = "poll"
  /\ ReadTick(lastTick)
  /\ phase' = "net"
  /\ lag' = 0
  /\ UNCHANGED <<vars, lastTick, interval, start_web_client, changed, resched, history>>

(* A round of scheduleRun that calls a due task, or passes one over.       *)
PassRound ==
  /\ phase = "pass"
  /\ RunRound
  /\ called' = called \cup ({running'} \cap Names)
  /\ since' = [n \in Fixed |-> IF n = running' THEN 0 ELSE since[n]]
  /\ UNCHANGED <<tickS, lag, loopVars, skipped, wasZero>>

(* sendData requests an upload and sets its own next run and interval.     *)
sendData ==
  /\ pc = "callback" /\ running = SendData /\ ~changed
  /\ \E now \in Time :
       /\ ReadTick(now)
       /\ scheduleChangeFunction(SendData, NextSend(now), SendInterval)
  /\ start_web_client' = IF SendInterval # 0 THEN 1 ELSE start_web_client
  /\ wasZero' = (wasZero \/ SendInterval = 0)
  /\ changed' = TRUE
  /\ UNCHANGED <<lag, lastTick, phase, interval, resched, called, skipped>>

ChangeLoop ==
  /\ ChangeRound \/ EndLoop("change")
  /\ UNCHANGED <<tickS, since, lag, loopVars, history>>

TaskReturns ==
  /\ CallbackReturns
  /\ running = SendData => changed
  /\ changed' = FALSE
  /\ UNCHANGED <<tickS, since, lag, lastTick, phase, interval, start_web_client,
                 resched, history>>

(* ... lastTick = tickS; } which reads the clock a second time.            *)
DueIn(n, now) == \E k \in DOMAIN tasks : tasks[k].name = n /\ tasks[k].next <= now

EndPass ==
  /\ phase = "pass"
  /\ RunReturns
  /\ \E now \in Time : ReadTick(now) /\ lastTick' = now
  /\ phase' = "net"
  /\ lag' = 0
  /\ skipped' = {n \in Fixed : DueIn(n, pNow) /\ n \notin called}
  /\ called' = {}
  /\ UNCHANGED <<interval, start_web_client, changed, resched, wasZero>>

-----------------------------------------------------------------------------
(* handle_net, as far as it touches the scheduler: one request may save the *)
(* upload interval, or save the other intervals and reschedule their tasks; *)
(* the upload that was requested may end.                                   *)
SaveUploadInterval(b) ==
  /\ phase = "net"
  /\ interval' = [interval EXCEPT ![SendData] = b]
  /\ phase' = "saved"
  /\ UNCHANGED <<vars, tickS, since, lag, lastTick, start_web_client, changed,
                 resched, history>>

SaveSettings(n, b) ==
  /\ phase = "net"
  /\ interval' = [interval EXCEPT ![n] = b]
  /\ resched' = Settable
  /\ phase' = "saved"
  /\ UNCHANGED <<vars, tickS, since, lag, lastTick, start_web_client, changed, history>>

reScheduleTasks ==
  /\ resched # << >>
  /\ \E now \in Time :
       LET n == Head(resched)
       IN  /\ ReadTick(now)
           /\ scheduleChangeFunction(n, (now + SettableInterval(n)) % W, SettableInterval(n))
  /\ resched' = Tail(resched)
  /\ UNCHANGED <<lag, lastTick, phase, interval, start_web_client, changed, history>>

NetDone ==
  /\ phase \in {"net", "saved"}
  /\ resched = << >> /\ pc = "client"
  /\ phase' = "poll"
  /\ start_web_client' \in {start_web_client, 0}
  /\ UNCHANGED <<vars, tickS, since, lag, lastTick, interval, changed, resched, history>>

MainStep ==
  \/ StartPass
  \/ NoNewSecond
  \/ PassRound
  \/ sendData
  \/ ChangeLoop
  \/ TaskReturns
  \/ EndPass
  \/ reScheduleTasks
  \/ NetDone

MainNext ==
  \/ MainStep
  \/ Interrupt
  \/ \E b \in Intervals : SaveUploadInterval(b)
  \/ \E b \in Intervals, n \in ToSet(Settable) : SaveSettings(n, b)

MainSpec == MainInit /\ [][MainNext]_mainVars

(* The processor keeps executing the main loop and the timer keeps firing;  *)
(* nobody is obliged to save settings.                                      *)
FairMainSpec == MainSpec /\ WF_mainVars(MainStep) /\ WF_mainVars(Interrupt)

-----------------------------------------------------------------------------
(* The scheduler loses no task, whatever settings are saved, however sendData *)
(* changes its own entry and whatever a torn read of tickS yields: the alarm *)
(* check, remote IO, the LCD and the EEPROM save stay for ever, and sendData *)
(* leaves the queue only after its interval was zero once.                   *)
TasksStay ==
  /\ Fixed \subseteq NamesIn(tasks)
  /\ SendData \in NamesIn(tasks) \/ wasZero

(* One-shot tasks that are not put back shorten the loop of scheduleRun, so  *)
(* that it does not reach the last items of the queue.  A task that was due  *)
(* in a pass and not reached is reached by the next pass (unless the clock   *)
(* has wrapped and it is no longer due): the firmware has too few one-shot   *)
(* tasks to end two passes early before the same task.                       *)
ServedByNextPass ==
  [][phase = "pass" /\ phase' = "net" => skipped' \cap skipped = {}]_mainVars

(* When the main loop sees every second and no interval is zero, a task with *)
(* a fixed interval runs in the second its interval is over, also across a   *)
(* wrap of tickS and while sendData and the settings page turn the queue.    *)
OnTime == \A n \in Fixed : since[n] <= FixedRecur[n]

(* The comment over timedSaveEeprom, "Called every 30minutes": a task with a *)
(* fixed interval never runs before that is over.  (It may: pNow + recur     *)
(* wraps to a small next, which stays due until tickS wraps as well.)        *)
NeverEarly ==
  [][\A n \in Fixed : running' = n /\ running # n => since[n] >= FixedRecur[n]]_mainVars

(* Every second that the timer counts is followed by a run of sendData (and  *)
(* the timer counts on), unless uploads are switched off.                    *)
UploadsContinue == lastTick # tickS ~> running = SendData \/ wasZero
=============================================================================
