---------------------------- MODULE RelayTimers ----------------------------
(***************************************************************************)
(* What the remote IO of S3/web.c promises: an event of the server that    *)
(* names a relay switches it once, and if it gives a delay, the relay is   *)
(* switched back that many seconds later.  Where the promise ends is part  *)
(* of it: the table holds Slots timers and 8 bits of an id and a delay,    *)
(* and a timer for a pin that is no relay stops the timers behind it.      *)
(***************************************************************************)
EXTENDS Integers, Sequences, FiniteSetsExt

CONSTANTS Relays, Slots, Byte

VARIABLES
  log,      \* the events of the server: [id, pin, state, delay]
  relay,    \* 0 or 1 per relay
  run,      \* the numbers of the events run since the start
  timers    \* [event, pin, state, left]

vars == <<log, relay, run, timers>>

Fits(e) == e.id % Byte # 0 /\ e.delay < Byte
Timed(e) == e.delay # 0

Init ==
  /\ log = << >>
  /\ relay = [p \in Relays |-> 0]
  /\ run = {} /\ timers = {}

Issue ==
  /\ Len(log') = Len(log) + 1
  /\ SubSeq(log', 1, Len(log)) = log
  /\ UNCHANGED <<relay, run, timers>>

(* Events are run in their order, each at most once; only a full table may  *)
(* refuse a timer that fits it.                                             *)
Accept ==
  LET new == run' \ run IN
  /\ new # {} /\ run \subseteq run'
  /\ relay' = [p \in Relays |->
                 LET on == {e \in new : log[e].pin = p}
                 IN  IF on = {} THEN relay[p] ELSE log[Max(on)].state]
  /\ timers \subseteq timers'
  /\ \A t \in timers' \ timers :
       /\ t.event \in new
       /\ t.pin = log[t.event].pin /\ t.state = log[t.event].state
       /\ Fits(log[t.event]) => t.left = log[t.event].delay
  /\ \A e \in new :
       Timed(log[e]) /\ Fits(log[e]) =>
         (\E t \in timers' : t.event = e) \/ Cardinality(timers') = Slots
  /\ UNCHANGED log

(* One second: the timers that are over switch their relays back.           *)
Second ==
  /\ \E counted \in SUBSET {t \in timers : t.pin \in Relays} :
       LET over == {t \in counted : t.left = 1} IN
       /\ counted # timers => \E t \in timers : t.pin \notin Relays
       /\ timers' = (timers \ counted) \cup
                    {[t EXCEPT !.left = @ - 1] : t \in counted \ over}
       /\ \A p \in Relays :
            IF \E t \in over : t.pin = p
            THEN \E t \in over : t.pin = p /\ relay'[p] = 1 - t.state
            ELSE relay'[p] = relay[p]
       /\ DOMAIN relay' = Relays
  /\ UNCHANGED <<log, run>>

Switch ==
  /\ \E p \in Relays, v \in {0, 1} : relay' = [relay EXCEPT ![p] = v]
  /\ UNCHANGED <<log, run, timers>>

Restart ==
  /\ relay' = [p \in Relays |-> 0]
  /\ run' = {} /\ timers' = {}
  /\ UNCHANGED log

Next == Issue \/ Accept \/ Second \/ Switch \/ Restart

Spec == Init /\ [][Next]_vars
=============================================================================
