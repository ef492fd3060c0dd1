---------------------------- MODULE TaskTable ----------------------------
(***************************************************************************)
(* What the scheduler of S3/queue.c promises code that gives every task a  *)
(* name of its own: a table from names to (next, recur).  Adding, changing *)
(* and removing a task are single steps that touch no other task; calling  *)
(* a due task moves its next run, or deletes it when it does not recur;    *)
(* nothing else ever changes the table.                                    *)
(***************************************************************************)
EXTENDS Integers, FiniteSets

CONSTANTS Names,     \* the tasks' names, one function each
          W,         \* number of values of queue_time_t
          Capacity,  \* how many tasks the table may hold
          NoTask     \* the entry of a name that is not scheduled

VARIABLES table,     \* [Names -> times or NoTask]
          running,   \* the task being called, or NoTask
          pNow       \* the time of the pass

vars == <<table, running, pNow>>

Time == 0 .. W - 1

Scheduled == {n \in Names : table[n] # NoTask}

Init ==
  /\ table = [n \in Names |-> NoTask]
  /\ running = NoTask
  /\ pNow = 0

Add(n, t) ==
  /\ n \notin Scheduled
  /\ Cardinality(Scheduled) < Capacity
  /\ table' = [table EXCEPT ![n] = [next |-> t, recur |-> t]]
  /\ UNCHANGED <<running, pNow>>

Remove(n) ==
  /\ table' = [table EXCEPT ![n] = NoTask]
  /\ UNCHANGED <<running, pNow>>

Change(n, next, recur) ==
  /\ n \in Scheduled
  /\ table' = [table EXCEPT ![n] = [next |-> next, recur |-> recur]]
  /\ UNCHANGED <<running, pNow>>

(* A pass begins or ends; all that is called in it counts from its time.   *)
Pass(now) ==
  /\ running = NoTask
  /\ pNow' = now
  /\ UNCHANGED <<table, running>>

Call(n) ==
  /\ running = NoTask
  /\ n \in Scheduled
  /\ table[n].next <= pNow
  /\ running' = n
  /\ table' = [table EXCEPT ![n] =
                 IF @.recur = 0 THEN NoTask
                 ELSE [next |-> (pNow + table[n].recur) % W, recur |-> table[n].recur]]
  /\ UNCHANGED pNow

Return ==
  /\ running' = NoTask
  /\ UNCHANGED <<table, pNow>>

Next ==
  \/ \E n \in Names :
        \/ \E t \in Time : Add(n, t)
        \/ Remove(n)
        \/ \E next, recur \in Time : Change(n, next, recur)
        \/ Call(n)
  \/ \E now \in Time : Pass(now)
  \/ Return

Spec == Init /\ [][Next]_vars
=============================================================================
