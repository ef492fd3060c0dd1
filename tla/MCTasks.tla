------------------------------ MODULE MCTasks ------------------------------
(***************************************************************************)
(* TLC instance of the task queue and of the two tasks that the server's   *)
(* replies drive, the screens of the LCD and remote IO: four parts that    *)
(* share no state.  A behaviour steps one of them, to which alone the      *)
(* fairness applies (FairLcdSpec, FairRemoteSpec).                         *)
(***************************************************************************)
EXTENDS MCQueue, LcdScreens, MCRemoteIO

VARIABLE part

tasksVars == <<part, ringVars, vars, lcdVars, remoteVars>>

TasksInit ==
  /\ part \in {"queue", "scheduler", "lcd", "remote"}
  /\ RingInit /\ Init /\ LcdInit /\ RemoteInit

TasksNext ==
  /\ UNCHANGED part
  /\ part # "queue" => UNCHANGED ringVars
  /\ part # "scheduler" => UNCHANGED vars
  /\ part # "lcd" => UNCHANGED lcdVars
  /\ part # "remote" => UNCHANGED remoteVars
  /\ \/ part = "queue" /\ RingNext
     \/ part = "scheduler" /\ Next
     \/ part = "lcd" /\ LcdNext
     \/ part = "remote" /\ RemoteNext

TasksSpec ==
  /\ TasksInit /\ [][TasksNext]_tasksVars
  /\ WF_lcdVars(part = "lcd" /\ lcd_update)
  /\ WF_lcdVars(part = "lcd" /\ StartRequest)
  /\ WF_lcdVars(part = "lcd" /\ EndRequest)
  /\ WF_remoteVars(part = "remote" /\ checkTimedEvents)
=============================================================================
