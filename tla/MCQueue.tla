------------------------------ MODULE MCQueue ------------------------------
(***************************************************************************)
(* TLC instance of the two levels of queue.c.  The scheduler is modelled   *)
(* over the list that the ring is shown to be, so the two share nothing.   *)
(*                                                                         *)
(* The ring has four slots, so that it fills at three items and every index*)
(* wraps, with items told apart so that order shows.  There is one name    *)
(* more than the queue of the scheduler holds, which is two.  (Its queue   *)
(* has four items in MCMainLoop.)                                          *)
(***************************************************************************)
EXTENDS TaskScheduler, TaskRing

MCNames == {"t1", "t2", "t3"}
MCItems == {"i1", "i2", "i3"}
=============================================================================
