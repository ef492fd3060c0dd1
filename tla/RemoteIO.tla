------------------------------ MODULE RemoteIO ------------------------------
(***************************************************************************)
(* Remote IO of S3/web.c: the RIO lines in the reply to an upload, which   *)
(* switch relays (bits of PORTC), the table timed_events of the relays     *)
(* that are to be switched back, checkTimedEvents, which the task remoteIO *)
(* calls, and the other writers of the relays: alarms and the API.         *)
(*                                                                         *)
(* The server sends its recent events with every reply, until they are too *)
(* old; last_rio_event is what keeps them from being run again.  It, the   *)
(* table and the relays are gone at a restart.                             *)
(***************************************************************************)
EXTENDS Integers, Sequences, FiniteSetsExt

CONSTANTS
  Slots,      \* entries of timed_events (12)
  NumRelays,  \* pins 0 .. 3
  Byte,       \* values of uint8_t, the type of addTimedEvent's parameters
  Word,       \* values of uint16_t and unsigned int
  Ids,        \* the ids the server gives its events, in this order
  Requests    \* what users ask for: [pin, state, delay]

Relays == 0 .. NumRelays - 1
Slot == 1 .. Slots
Number == 1 .. Len(Ids)

ASSUME RemoteAssumption ==
  /\ Slots \in Nat \ {0} /\ NumRelays \in Nat \ {0}
  /\ Byte \in Nat \ {0} /\ Word \in Nat \ {0} /\ Byte <= Word
  /\ Ids \in Seq(Nat \ {0})
  /\ \A m, n \in Number : m < n => Ids[m] < Ids[n]
  /\ \A r \in Requests : /\ r.pin \in 0 .. Byte - 1 /\ r.state \in {0, 1}
                         /\ r.delay \in 0 .. Word - 1

VARIABLES
  relay,            \* the bits of PORTC
  timed_events,     \* the table; id 0 is a free entry
  last_rio_event,
  log,              \* the server's events so far
  gone,             \* how many of them the server no longer sends
  owner,            \* history: the number of the event in an entry
  runs              \* history: how often an event was run since the start

device == <<relay, timed_events, last_rio_event, owner, runs>>
remoteVars == <<device, log, gone>>

Free == [id |-> 0, pin |-> 0, state |-> 0, delay |-> 0]

RemoteInit ==
  /\ relay = [p \in Relays |-> 0]
  /\ timed_events = [k \in Slot |-> Free]
  /\ last_rio_event = 0
  /\ log = << >> /\ gone = 0
  /\ owner = [k \in Slot |-> 0]
  /\ runs = [n \in Number |-> 0]

-----------------------------------------------------------------------------
(* The server: a user asks for something; the oldest event is too old.      *)
Issue(r) ==
  /\ Len(log) < Len(Ids)
  /\ log' = Append(log, [id |-> Ids[Len(log) + 1], pin |-> r.pin,
                         state |-> r.state, delay |-> r.delay])
  /\ UNCHANGED <<device, gone>>

Expire ==
  /\ gone < Len(log)
  /\ gone' = gone + 1
  /\ UNCHANGED <<device, log>>

-----------------------------------------------------------------------------
(* addTimedEvent: into the first free entry, or nowhere; everything is cut   *)
(* to 8 bits.  (For the mutation runs: into the first entry.)                *)
FirstEntry(table) == {1}

FreeEntries(table) == {k \in Slot : table[k].id = 0}

addTimedEvent(s, n, e) ==
  IF FreeEntries(s.table) = {} THEN s
  ELSE LET k == Min(FreeEntries(s.table)) IN
       [s EXCEPT !.table[k] = [id |-> e.id % Byte, pin |-> e.pin % Byte,
                               state |-> e.state % Byte, delay |-> e.delay % Byte],
                 !.owner[k] = IF e.id % Byte = 0 THEN 0 ELSE n]

(* The events already run (for the mutation runs: the last one is not        *)
(* counted).                                                                 *)
RepeatedBefore(id, last) == id < last

Repeated(id, last) == id <= last

(* One RIO line.                                                             *)
Line(s, n) ==
  LET e  == log[n]
      id == e.id % Word
      t  == [s EXCEPT !.relay = IF e.pin \in Relays THEN [@ EXCEPT ![e.pin] = e.state] ELSE @,
                      !.last = id,
                      !.runs[n] = @ + 1]
  IN  IF Repeated(id, s.last) THEN s
      ELSE IF e.delay # 0 THEN addTimedEvent(t, n, e) ELSE t

(* The lines of a reply, in their order (for the mutation runs: the newest   *)
(* first).                                                                   *)
NewestFirst(lo, hi) == [k \in 1 .. hi - lo |-> hi + 1 - k]

Lines(lo, hi) == [k \in 1 .. hi - lo |-> lo + k]

(* The reply to an upload has the events from some time on up to another:    *)
(* it may come late, when some of them are gone by now and others are not    *)
(* in it yet, and only its first segment is read.                            *)
browserresult_callback(lo, hi) ==
  LET after[k \in 0 .. hi - lo] ==
        IF k = 0 THEN [relay |-> relay, table |-> timed_events, last |-> last_rio_event,
                       owner |-> owner, runs |-> runs]
        ELSE Line(after[k - 1], Lines(lo, hi)[k])
      s == after[hi - lo]
  IN  /\ relay' = s.relay
      /\ timed_events' = s.table
      /\ last_rio_event' = s.last
      /\ owner' = s.owner
      /\ runs' = s.runs
      /\ UNCHANGED <<log, gone>>

-----------------------------------------------------------------------------
(* checkTimedEvents goes through the table up to an entry of a bad pin (for  *)
(* the mutation runs: the last relay counts as bad; a count goes below zero). *)
Busy == {k \in Slot : timed_events[k].id # 0}

LastRelayIsBad(pin) == pin >= NumRelays - 1

Bad(pin) == pin >= NumRelays

Reached == {k \in Busy : \A j \in Busy : j <= k => ~Bad(timed_events[j].pin)}

Counted(k) == (timed_events[k].delay + Word - 1) % Word

checkTimedEvents ==
  LET over(p) == {k \in Reached : timed_events[k].pin = p /\ Counted(k) = 0} IN
  /\ relay' = [p \in Relays |->
                 IF over(p) = {} THEN relay[p]
                 ELSE IF timed_events[Max(over(p))].state = 1 THEN 0 ELSE 1]
  /\ timed_events' = [k \in Slot |->
       IF k \notin Reached THEN timed_events[k]
       ELSE IF Counted(k) = 0 THEN Free
       ELSE [timed_events[k] EXCEPT !.delay = Counted(k)]]
  /\ owner' = [k \in Slot |-> IF timed_events'[k].id = 0 THEN 0 ELSE owner[k]]
  /\ UNCHANGED <<last_rio_event, runs, log, gone>>

(* An alarm or the API switches a relay. *)
SwitchRelay(p, v) ==
  /\ relay' = [relay EXCEPT ![p] = v]
  /\ UNCHANGED <<timed_events, last_rio_event, owner, runs, log, gone>>

(* A restart, initTimedEvents included. *)
Restart ==
  /\ relay' = [p \in Relays |-> 0]
  /\ timed_events' = [k \in Slot |-> Free]
  /\ last_rio_event' = 0
  /\ owner' = [k \in Slot |-> 0]
  /\ runs' = [n \in Number |-> 0]
  /\ UNCHANGED <<log, gone>>

RemoteNext ==
  \/ \E r \in Requests : Issue(r)
  \/ Expire
  \/ \E lo \in 0 .. gone : \E hi \in lo .. Len(log) : browserresult_callback(lo, hi)
  \/ checkTimedEvents
  \/ \E p \in Relays, v \in {0, 1} : SwitchRelay(p, v)
  \/ Restart

RemoteSpec == RemoteInit /\ [][RemoteNext]_remoteVars

(* The task remoteIO keeps being called. *)
FairRemoteSpec == RemoteSpec /\ WF_remoteVars(checkTimedEvents)

-----------------------------------------------------------------------------
(* However often the server repeats its events, in however late a reply, and *)
(* also when its ids outgrow 16 bits: until the next restart an event is run *)
(* once at most.                                                             *)
EventsRunOnce == \A n \in Number : runs[n] <= 1

(* No event is passed over: when an event has been run, the ones before it   *)
(* have been run as well, or had become too old.                             *)
NonePassedOver ==
  \A m, n \in Number :
    m < n /\ runs[n] > 0 /\ Ids[n] < Word => runs[m] > 0 \/ m <= gone

(* A timed event is over some time, unless one for a bad pin is in the table.*)
TimersEnd ==
  \A k \in Slot :
    k \in Busy ~> (k \notin Busy \/ \E j \in Busy : timed_events[j].pin \notin Relays)

Left(k) == IF timed_events[k].delay = 0 THEN Word ELSE timed_events[k].delay

Begun == {n \in Number : runs[n] > 0}

Pending == {[event |-> owner[k], pin |-> timed_events[k].pin,
             state |-> timed_events[k].state, left |-> Left(k)] : k \in Busy}

Timers == INSTANCE RelayTimers WITH run <- Begun, timers <- Pending

(* The table of 12 entries with first-free allocation amounts to one timer   *)
(* per event that switches the relay back after exactly its delay, whatever  *)
(* other events, alarms and API calls do to the same relay meanwhile.        *)
ImplementsTimers == Timers!Spec
=============================================================================
