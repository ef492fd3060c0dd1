------------------------- MODULE LcdRemoteIOProofs -------------------------
(***************************************************************************)
(* Theorems about the LCD's screens and about the remote IO's events, for  *)
(* every number of places, every width, and every list of events.          *)
(*                                                                         *)
(* LcdScreens: the code knows a count, and what is shown must be one of the *)
(* screens counted.  It is because the screens that have a time are the    *)
(* first ones, which is the strengthening (LcdInv).                        *)
(*                                                                         *)
(* RemoteIO: an event is run once at most, none is passed over, and the    *)
(* table amounts to the timers of RelayTimers.  One step of the model is a *)
(* whole reply, the device goes through it line by line.  So the invariant *)
(* (DeviceOK) is one of the record Line works on, Start is that record     *)
(* before the reply, and what holds at its end is shown by going through   *)
(* the lines: the first line after which it would not hold cannot exist    *)
(* (LeastNumber).                                                          *)
(***************************************************************************)
EXTENDS LcdScreens, RemoteIO, FiniteSetTheorems, WellFoundedInduction, NaturalsInduction,
        TLAPS

(***************************************************************************)
(* LcdScreens                                                              *)
(***************************************************************************)
LcdType ==
  /\ lcd_current_screen \in Screen \cup {250, 254, 255}
  /\ lcd_timeouts \in [Screen -> Nat]
  /\ patchy \in BOOLEAN

NoGaps == ~patchy => FirstOnes(lcd_timeouts)

LcdInv == LcdType /\ NoGaps /\ ShownIsDefined

(* There are Screens of them. *)
LEMMA NumberOfScreens == IsFiniteSet(Screen) /\ Cardinality(Screen) = Screens
<1>1. 0 \in Int /\ Screens - 1 \in Int /\ ~(0 > Screens - 1) /\ (Screens - 1) - 0 + 1 = Screens
  BY LcdAssumption
<1>2. /\ IsFiniteSet(0 .. Screens - 1)
      /\ Cardinality(0 .. Screens - 1) = (Screens - 1) - 0 + 1
  BY <1>1, FS_Interval, Zenon
<1> QED
  BY <1>1, <1>2 DEF Screen

(* Any set of screens is finite and has a number. *)
LEMMA CountOfScreens ==
  \A S \in SUBSET Screen : IsFiniteSet(S) /\ Cardinality(S) \in Nat
<1> QED
  BY NumberOfScreens, FS_Subset, FS_CardinalityType

(* When the screens with a time are the first ones, as many as there are of   *)
(* them have one.                                                            *)
LEMMA CountedIsDefined ==
  ASSUME NEW t \in [Screen -> Nat], FirstOnes(t), NEW s \in Screen,
         s < Cardinality({r \in Screen : t[r] > 0})
  PROVE  t[s] > 0
<1> DEFINE D == {r \in Screen : t[r] > 0}
<1>1. SUFFICES ASSUME t[s] = 0 PROVE FALSE
  OBVIOUS
<1>2. s \in Nat /\ Screen \subseteq Nat
  BY LcdAssumption DEF Screen
<1>3. D \subseteq 0 .. s - 1
  <2> SUFFICES ASSUME NEW r \in D PROVE r \in 0 .. s - 1
    OBVIOUS
  <2>0. r \in Screen /\ t[r] > 0 /\ r \in Nat
    BY <1>2
  <2>1. DOMAIN t = Screen
    OBVIOUS
  <2>2. ~(s < r)
    BY <1>1, <2>0, <2>1 DEF FirstOnes
  <2>3. r # s
    BY <1>1, <2>0
  <2> QED
    BY <1>2, <2>0, <2>2, <2>3
<1>4. IsFiniteSet(0 .. s - 1) /\ Cardinality(0 .. s - 1) = s
  <2>1. CASE s = 0
    <3>1. 0 .. s - 1 = {}
      BY <2>1
    <3> QED
      BY <2>1, <3>1, FS_EmptySet
  <2>2. CASE s > 0
    <3>1. 0 \in Int /\ s - 1 \in Int /\ ~(0 > s - 1) /\ (s - 1) - 0 + 1 = s
      BY <1>2, <2>2
    <3>2. IsFiniteSet(0 .. s - 1) /\ Cardinality(0 .. s - 1) = (s - 1) - 0 + 1
      BY <3>1, FS_Interval, Zenon
    <3> QED
      BY <3>1, <3>2
  <2> QED
    BY <1>2, <2>1, <2>2
<1>5. Cardinality(D) <= s
  BY <1>3, <1>4, FS_Subset
<1>6. Cardinality(D) \in Nat
  BY CountOfScreens
<1> QED
  BY <1>2, <1>5, <1>6

(* Without a gap and with a screen defined, the first one is. *)
LEMMA FirstIsDefined ==
  ASSUME NEW t \in [Screen -> Nat], FirstOnes(t), NEW s \in Screen, t[s] > 0
  PROVE  0 \in Screen /\ t[0] > 0
<1>1. 0 \in Screen /\ Screen \subseteq Nat
  BY LcdAssumption DEF Screen
<1>2. CASE s = 0
  BY <1>1, <1>2
<1>3. CASE s # 0
  BY <1>1, <1>3 DEF FirstOnes
<1> QED
  BY <1>2, <1>3

(* Where no screen has a time there is no gap. *)
LEMMA NoneIsFirst == FirstOnes([s \in Screen |-> 0])
<1> DEFINE t == [s \in Screen |-> 0]
<1>1. DOMAIN t = Screen /\ \A s \in Screen : t[s] = 0
  OBVIOUS
<1>2. \A s \in DOMAIN t : ~(t[s] > 0)
  <2> SUFFICES ASSUME NEW s \in DOMAIN t PROVE ~(t[s] > 0)
    OBVIOUS
  <2>1. t[s] = 0
    BY <1>1
  <2> QED
    BY <2>1
<1> HIDE DEF t
<1>3. FirstOnes(t)
  BY <1>2 DEF FirstOnes
<1> QED
  BY <1>3 DEF t

LEMMA InitLcd == LcdInit => LcdInv
<1> SUFFICES ASSUME LcdInit PROVE LcdInv
  OBVIOUS
<1>1. 255 \notin Screen
  BY LcdAssumption DEF Screen
<1>2. lcd_current_screen = 255 /\ patchy = FALSE /\ lcd_timeouts = [s \in Screen |-> 0]
  BY DEF LcdInit
<1>3. LcdType
  BY <1>2 DEF LcdType
<1>4. NoGaps
  BY <1>2, NoneIsFirst DEF NoGaps
<1>5. ShownIsDefined
  BY <1>1, <1>2 DEF ShownIsDefined, OnScreen
<1> QED
  BY <1>3, <1>4, <1>5 DEF LcdInv

LEMMA StepLcd == LcdInv /\ [LcdNext]_lcdVars => LcdInv'
<1> SUFFICES ASSUME LcdInv, [LcdNext]_lcdVars PROVE LcdInv'
  OBVIOUS
<1> USE DEF LcdInv, LcdType, NoGaps, ShownIsDefined, OnScreen
<1>0. /\ Screens \in Nat /\ Screens > 0 /\ Screens < 250
      /\ 0 \in Screen /\ 250 \notin Screen /\ 254 \notin Screen /\ 255 \notin Screen
      /\ Screen \subseteq Nat
  BY LcdAssumption DEF Screen
<1>1. CASE FirstCall
  BY <1>0, <1>1 DEF FirstCall, texts
<1>2. CASE AwaitTexts
  BY <1>0, <1>2 DEF AwaitTexts, texts
<1>3. CASE ShowScreens
  <2> DEFINE s == IF lcd_current_screen = 250 THEN 0 ELSE lcd_current_screen
             left == Lower(IF lcd_current_screen = 250 THEN lcd_timeouts[0]
                           ELSE lcd_current_timeleft)
             n == Cardinality(Defined)
  <2>1. s \in Screen /\ s = OnScreen
    BY <1>0, <1>3 DEF ShowScreens
  <2>2. lcd_timeouts' = lcd_timeouts /\ patchy' = patchy
    BY <1>3 DEF ShowScreens, texts
  <2>3. n \in Nat /\ n <= Screens
    <3>1. Defined \in SUBSET Screen
      BY DEF Defined
    <3>2. IsFiniteSet(Screen) /\ Cardinality(Screen) = Screens
      BY NumberOfScreens
    <3>3. Cardinality(Defined) <= Cardinality(Screen)
      BY <3>1, <3>2, FS_Subset
    <3> QED
      BY <3>1, <3>2, <3>3, CountOfScreens
  <2>4. CASE left = 0
    <3>1. lcd_current_screen' = Following(s, n)
      BY <1>3, <2>4 DEF ShowScreens
    <3>2. CASE s + 1 >= n
      <4>1. lcd_current_screen' = 0
        BY <3>1, <3>2 DEF Following
      <4>2. ~patchy => lcd_timeouts[0] > 0
        BY <2>1, FirstIsDefined
      <4> QED
        BY <1>0, <2>2, <4>1, <4>2
    <3>3. CASE ~(s + 1 >= n)
      <4>1. lcd_current_screen' = s + 1 /\ s + 1 < n /\ s + 1 \in Screen
        BY <1>0, <2>1, <2>3, <3>1, <3>3 DEF Following, Screen
      <4>2. ~patchy => lcd_timeouts[s + 1] > 0
        BY <4>1, CountedIsDefined DEF Defined
      <4> QED
        BY <1>0, <2>2, <4>1, <4>2
    <3> QED
      BY <3>2, <3>3
  <2>5. CASE left # 0
    <3>1. lcd_current_screen' = s
      BY <1>3, <2>5 DEF ShowScreens
    <3> QED
      BY <1>0, <2>1, <2>2, <3>1
  <2> QED
    BY <2>4, <2>5
<1>4. CASE Reply
  <2> PICK status \in Statuses, came \in Whole : lcd_callback(status, came)
    BY <1>4 DEF Reply
  <2>1. CASE status # 0
    BY <2>1 DEF lcd_callback
  <2>2. CASE status = 0
    <3>1. \A s \in DOMAIN came : s \in Screen /\ came[s] \in Nat /\ came[s] % Octet \in Nat
      <4>1. PICK S \in SUBSET Screen : came \in [S -> Times]
        BY DEF Whole
      <4>2. DOMAIN came = S /\ \A s \in S : came[s] \in Nat
        <5>1. DOMAIN came = S /\ \A s \in S : came[s] \in Times
          BY <4>1
        <5>2. \A k \in Times : k \in Nat
          BY LcdAssumption
        <5> QED
          BY <5>1, <5>2
      <4>3. Octet \in Nat \ {0} /\ \A k \in Nat : k % Octet \in Nat
        BY LcdAssumption
      <4> QED
        BY <4>2, <4>3
    <3>2. lcd_timeouts' = [s \in Screen |-> IF s \in DOMAIN came THEN came[s] % Octet
                                            ELSE lcd_timeouts[s]]
      BY <2>2 DEF lcd_callback
    <3>3. lcd_timeouts' \in [Screen -> Nat]
      BY <3>1, <3>2
    <3>4. /\ patchy' \in BOOLEAN
          /\ ~patchy' => /\ ~patchy /\ FirstOnes(lcd_timeouts')
                         /\ \A s \in DOMAIN came : came[s] % Octet # 0
      <4>1. patchy' = (patchy \/ ~FirstOnes(lcd_timeouts')
                       \/ \E s \in DOMAIN came : came[s] % Octet = 0)
        BY <2>2 DEF lcd_callback
      <4>2. CASE patchy
        BY <4>1, <4>2
      <4>3. CASE ~patchy /\ (~FirstOnes(lcd_timeouts') \/ \E s \in DOMAIN came : came[s] % Octet = 0)
        BY <4>1, <4>3
      <4>4. CASE ~patchy /\ FirstOnes(lcd_timeouts') /\ ~\E s \in DOMAIN came : came[s] % Octet = 0
        BY <4>1, <4>4
      <4> QED
        BY <4>2, <4>3, <4>4
    <3>5. lcd_current_screen' \in {lcd_current_screen} \cup
            IF lcd_current_screen = 254 /\ came # << >> THEN {250} ELSE {}
      BY <2>2 DEF lcd_callback
    <3>6. ASSUME ~patchy', NEW r \in Screen, lcd_timeouts[r] > 0 \/ r \in DOMAIN came
          PROVE  lcd_timeouts'[r] > 0
      <4>1. CASE r \in DOMAIN came
        BY <3>1, <3>2, <3>4, <3>6, <4>1
      <4>2. CASE r \notin DOMAIN came
        BY <3>2, <3>6, <4>2
      <4> QED
        BY <4>1, <4>2
    <3>7. CASE lcd_current_screen' = lcd_current_screen
      BY <1>0, <3>3, <3>4, <3>6, <3>7
    <3>8. CASE lcd_current_screen = 254 /\ came # << >> /\ lcd_current_screen' = 250
      <4>1. DOMAIN came # {}
        BY <3>8 DEF Whole
      <4>2. PICK r \in DOMAIN came : TRUE
        BY <4>1
      <4>3. ~patchy' => lcd_timeouts'[r] > 0 /\ r \in Screen
        BY <3>1, <3>6
      <4>4. ~patchy' => lcd_timeouts'[0] > 0
        BY <3>3, <3>4, <4>3, FirstIsDefined
      <4> QED
        BY <1>0, <3>3, <3>4, <3>8, <4>4
    <3> QED
      BY <3>5, <3>7, <3>8
  <2> QED
    BY <2>1, <2>2
<1>5. CASE StartRequest \/ EndRequest \/ StrayReply \/ sendData
  BY <1>5 DEF StartRequest, EndRequest, StrayReply, sendData, screens, texts
<1>6. CASE LcdRestart
  <2>1. /\ lcd_current_screen' = 255 /\ patchy' = FALSE
        /\ lcd_timeouts' = [s \in Screen |-> 0]
    BY <1>6 DEF LcdRestart
  <2>2. FirstOnes(lcd_timeouts')
    BY <2>1, NoneIsFirst
  <2>3. LcdType'
    BY <2>1
  <2>4. NoGaps'
    BY <2>1, <2>2
  <2>5. ShownIsDefined'
    BY <1>0, <2>1
  <2> QED
    BY <2>3, <2>4, <2>5
<1>7. CASE UNCHANGED lcdVars
  BY <1>7 DEF lcdVars, screens, texts
<1> QED
  BY <1>1, <1>2, <1>3, <1>4, <1>5, <1>6, <1>7 DEF LcdNext, lcd_update

(* lcd_update counts the screens that have a time and takes the count for    *)
(* the number of the last: for any number of places and any times, what it   *)
(* shows is a screen with a time, unless a reply left a gap.                 *)
THEOREM ShownScreenIsDefined == LcdSpec => []ShownIsDefined
<1>1. LcdInv => ShownIsDefined
  BY DEF LcdInv
<1> QED
  BY <1>1, InitLcd, StepLcd, PTL DEF LcdSpec

(* A screen that is shown or about to be shown is none of the two that wait. *)
LEMMA FollowingIsScreen ==
  ASSUME LcdType, ShowScreens
  PROVE  lcd_current_screen' \in Screen
<1>0. /\ Screens \in Nat /\ Screens > 0 /\ Screens < 250
      /\ 0 \in Screen /\ 250 \notin Screen /\ Screen \subseteq Nat
  BY LcdAssumption DEF Screen
<1> DEFINE s == IF lcd_current_screen = 250 THEN 0 ELSE lcd_current_screen
           left == Lower(IF lcd_current_screen = 250 THEN lcd_timeouts[0]
                         ELSE lcd_current_timeleft)
           n == Cardinality(Defined)
<1>1. s \in Screen
  BY <1>0 DEF ShowScreens
<1>2. n \in Nat /\ n <= Screens
  <2>1. Defined \in SUBSET Screen
    BY DEF Defined
  <2>2. IsFiniteSet(Screen) /\ Cardinality(Screen) = Screens
    BY NumberOfScreens
  <2> QED
    BY <2>1, <2>2, FS_Subset, CountOfScreens
<1>3. lcd_current_screen' = Following(s, n) \/ lcd_current_screen' = s
  BY DEF ShowScreens
<1>4. Following(s, n) \in Screen
  BY <1>0, <1>1, <1>2 DEF Following, Screen
<1> QED
  BY <1>1, <1>3, <1>4

(* Once there are texts lcd_update asks for new ones when nothing is wished  *)
(* for, and never replaces an upload or a request in progress: for any       *)
(* number of places, any times and any replies it does to the wishes no more *)
(* than the web client's model says.                                         *)
THEOREM LcdKeepsToWishes == LcdSpec => KeepsToWishes
<1>1. ASSUME LcdInv, [LcdNext]_lcdVars
      PROVE  [lcd_update =>
                <<start_web_client', Abstract(lcd_current_screen')>>
                   \in lcd_wishes(start_web_client, Abstract(lcd_current_screen))]_lcdVars
  <2> SUFFICES ASSUME lcd_update
               PROVE  <<start_web_client', Abstract(lcd_current_screen')>>
                         \in lcd_wishes(start_web_client, Abstract(lcd_current_screen))
    OBVIOUS
  <2>0. LcdType
    BY <1>1 DEF LcdInv
  <2>1. CASE FirstCall
    BY <2>1 DEF FirstCall, Abstract, lcd_wishes
  <2>2. CASE AwaitTexts
    BY <2>2 DEF AwaitTexts, Abstract, lcd_wishes
  <2>3. CASE ShowScreens
    <3>1. Abstract(lcd_current_screen) = 0
      BY <2>3, LcdAssumption DEF ShowScreens, Screen, Abstract
    <3>2. Abstract(lcd_current_screen') = 0
      BY <2>0, <2>3, FollowingIsScreen, LcdAssumption DEF Screen, Abstract
    <3>3. \/ start_web_client = 0 /\ start_web_client' = 10
          \/ start_web_client' = start_web_client
      BY <2>3 DEF ShowScreens, Renews, NoWish
    <3> QED
      BY <3>1, <3>2, <3>3 DEF lcd_wishes
  <2> QED
    BY <2>1, <2>2, <2>3 DEF lcd_update
<1> QED
  BY <1>1, InitLcd, StepLcd, PTL DEF LcdSpec, KeepsToWishes

-----------------------------------------------------------------------------
(***************************************************************************)
(* RemoteIO                                                                *)
(***************************************************************************)
(* An event of the server, an entry of the table, what a line works on. *)
Event == [id : Nat \ {0}, pin : 0 .. Byte - 1, state : {0, 1}, delay : 0 .. Word - 1]

Entry == [id : 0 .. Byte - 1, pin : 0 .. Byte - 1, state : 0 .. Byte - 1, delay : 0 .. Word - 1]

Device == [relay : [Relays -> {0, 1}], table : [Slot -> Entry], last : 0 .. Word - 1,
           owner : [Slot -> Number \cup {0}], runs : [Number -> Nat]]

(* What the first line of a reply finds. *)
Start == [relay |-> relay, table |-> timed_events, last |-> last_rio_event,
          owner |-> owner, runs |-> runs]

(* The events of the server have the ids of Ids, in their order. *)
LogOK ==
  /\ log \in Seq(Event) /\ Len(log) <= Len(Ids)
  /\ \A n \in 1 .. Len(log) : log[n].id = Ids[n]
  /\ gone \in 0 .. Len(log)

(* No event was run twice; the id of one that was run, cut to the word, is at most *)
(* the last one, which is why it is not run again. *)
Once(s) ==
  \A n \in Number : s.runs[n] <= 1 /\ (s.runs[n] > 0 => Ids[n] % Word <= s.last)

(* An event was run or is gone, unless its id outgrew the word. *)
Done(s, m) == Ids[m] < Word => s.runs[m] > 0 \/ m <= gone

(* That holds for the ids up to the last one, and for the events before one *)
(* that was run. *)
UpToLast(s) == \A m \in Number : Ids[m] <= s.last => Done(s, m)

InOrder(s) == \A m, n \in Number : m < n /\ s.runs[n] > 0 => Done(s, m)

(* An entry in use belongs to an event that was run, and no other entry does. *)
Owned(s) ==
  \A k \in Slot : s.table[k].id # 0 =>
    /\ s.owner[k] \in 1 .. Len(log) /\ s.runs[s.owner[k]] > 0
    /\ s.table[k].pin = log[s.owner[k]].pin /\ s.table[k].state = log[s.owner[k]].state
    /\ \A j \in Slot : s.table[j].id # 0 /\ s.owner[j] = s.owner[k] => j = k

(* Only events there are have been run. *)
RunsLogged(s) == \A n \in Number : s.runs[n] > 0 => n <= Len(log)

DeviceOK(s) ==
  s \in Device /\ Once(s) /\ UpToLast(s) /\ InOrder(s) /\ Owned(s) /\ RunsLogged(s)

RemoteInv == LogOK /\ DeviceOK(Start)

(* A set of numbers that is not empty has a least one. This replaces induction. *)
LEMMA LeastNumber ==
  ASSUME NEW T, T \subseteq Nat, T # {}
  PROVE  \E m \in T : \A k \in T : m <= k
<1>1. PICK m \in T : \A y \in T : <<y, m>> \notin OpToRel(<, Nat)
  BY NatLessThanWellFounded, WFMin, Zenon
<1>2. ASSUME NEW k \in T PROVE ~(k < m)
  BY <1>1, <1>2, Zenon DEF OpToRel
<1>3. ASSUME NEW k \in T PROVE m <= k
  BY <1>2, <1>3
<1>4. QED
  BY <1>3

(* Min, of the community modules, is that number. *)
LEMMA MinIsLeast ==
  ASSUME NEW S, S \subseteq Nat, S # {}
  PROVE  Min(S) \in S /\ \A x \in S : Min(S) <= x
<1>1. \E m \in S : \A x \in S : m <= x
  BY LeastNumber
<1> QED
  BY <1>1 DEF Min

(* What addTimedEvent enters: everything is cut to a byte. *)
Entered(e) == [id |-> e.id % Byte, pin |-> e.pin % Byte,
               state |-> e.state % Byte, delay |-> e.delay % Byte]

(* Event n went into entry k; event n was run. *)
Put(s, r, n, k) ==
  /\ s.table[k].id = 0
  /\ r.table = [s.table EXCEPT ![k] = Entered(log[n])]
  /\ r.owner = [s.owner EXCEPT ![k] = IF log[n].id % Byte = 0 THEN 0 ELSE n]

Ran(s, r, n) ==
  /\ r.last = Ids[n] % Word
  /\ r.runs = [s.runs EXCEPT ![n] = @ + 1]
  /\ r.relay = IF log[n].pin \in Relays THEN [s.relay EXCEPT ![log[n].pin] = log[n].state]
               ELSE s.relay
  /\ \/ /\ r.table = s.table /\ r.owner = s.owner
        /\ log[n].delay # 0 => \A k \in Slot : s.table[k].id # 0
     \/ log[n].delay # 0 /\ \E k \in Slot : Put(s, r, n, k)

(* What is lost by the cut: not the pin, not the state of an entry in use, and not *)
(* a delay that fits. *)
LEMMA EnteredOK ==
  ASSUME NEW e \in Event
  PROVE  /\ Entered(e) \in Entry
         /\ Entered(e).pin = e.pin
         /\ Entered(e).id # 0 => Entered(e).state = e.state
         /\ e.delay < Byte => Entered(e).delay = e.delay
<1>1. Byte \in Nat \ {0} /\ Word \in Nat \ {0} /\ Byte <= Word
  BY RemoteAssumption
<1>2. /\ e.id \in Nat /\ e.pin \in 0 .. Byte - 1 /\ e.state \in {0, 1} /\ e.delay \in Nat
  BY <1>1 DEF Event
<1>3. \A x \in Nat : x % Byte \in 0 .. Byte - 1 /\ (x < Byte => x % Byte = x)
  BY <1>1
<1>4. Entered(e) \in Entry
  BY <1>1, <1>2, <1>3 DEF Entered, Entry
<1>5. Entered(e).id # 0 => Byte > 1
  BY <1>1, <1>2 DEF Entered
<1>6. Entered(e).id # 0 => Entered(e).state = e.state
  BY <1>1, <1>2, <1>3, <1>5 DEF Entered
<1>7. Entered(e).pin = e.pin
  BY <1>1, <1>2, <1>3 DEF Entered
<1>8. e.delay < Byte => Entered(e).delay = e.delay
  BY <1>1, <1>2, <1>3 DEF Entered
<1> QED
  BY <1>4, <1>6, <1>7, <1>8

(* A line repeats an event or runs it. *)
LEMMA LineCases ==
  ASSUME LogOK, NEW s \in Device, NEW n \in 1 .. Len(log)
  PROVE  /\ Line(s, n) \in Device
         /\ \/ Ids[n] % Word <= s.last /\ Line(s, n) = s
            \/ Ids[n] % Word > s.last /\ Ran(s, Line(s, n), n)
<1> DEFINE e == log[n]
           t == [s EXCEPT !.relay = IF e.pin \in Relays THEN [@ EXCEPT ![e.pin] = e.state] ELSE @,
                          !.last = e.id % Word,
                          !.runs[n] = @ + 1]
<1>1. e \in Event /\ e.id = Ids[n] /\ n \in Number
  BY DEF LogOK, Number
<1>2. Word \in Nat \ {0} /\ NumRelays \in Nat \ {0} /\ e.id \in Nat /\ e.id % Word \in 0 .. Word - 1
  BY <1>1, RemoteAssumption DEF Event
<1>3. /\ s.relay \in [Relays -> {0, 1}] /\ s.table \in [Slot -> Entry] /\ s.last \in 0 .. Word - 1
      /\ s.owner \in [Slot -> Number \cup {0}] /\ s.runs \in [Number -> Nat]
  BY DEF Device
<1>4. /\ t.relay = IF e.pin \in Relays THEN [s.relay EXCEPT ![e.pin] = e.state] ELSE s.relay
      /\ t.last = e.id % Word
      /\ t.runs = [s.runs EXCEPT ![n] = @ + 1]
      /\ t.table = s.table /\ t.owner = s.owner
  BY DEF Device
<1>5. t \in Device
  <2>1. t.relay \in [Relays -> {0, 1}]
    <3>1. e.state \in {0, 1}
      BY <1>1 DEF Event
    <3> QED
      BY <1>3, <1>4, <3>1
  <2>2. t.runs \in [Number -> Nat]
    BY <1>1, <1>3, <1>4
  <2> HIDE DEF e
  <2> QED
    BY <1>2, <1>3, <1>4, <2>1, <2>2 DEF Device
<1>6. CASE Ids[n] % Word <= s.last
  BY <1>1, <1>6 DEF Line, Repeated
<1>7. CASE ~(Ids[n] % Word <= s.last)
  <2>0. Ids[n] % Word > s.last
    BY <1>1, <1>2, <1>3, <1>7
  <2>1. Line(s, n) = IF e.delay # 0 THEN addTimedEvent(t, n, e) ELSE t
    BY <1>1, <1>7 DEF Line, Repeated
  <2> HIDE DEF t
  <2>2. CASE e.delay = 0 \/ FreeEntries(t.table) = {}
    <3>1. Line(s, n) = t
      BY <2>1, <2>2 DEF addTimedEvent
    <3>2. e.delay # 0 => \A k \in Slot : s.table[k].id # 0
      BY <1>4, <2>2 DEF FreeEntries
    <3> QED
      BY <1>1, <1>4, <1>5, <2>0, <3>1, <3>2 DEF Ran
  <2>3. CASE e.delay # 0 /\ FreeEntries(t.table) # {}
    <3> DEFINE k == Min(FreeEntries(t.table))
               o == IF e.id % Byte = 0 THEN 0 ELSE n
    <3>1. k \in Slot /\ s.table[k].id = 0
      <4>1. FreeEntries(t.table) \subseteq Nat
        BY RemoteAssumption DEF FreeEntries, Slot
      <4>2. k \in FreeEntries(t.table)
        BY <2>3, <4>1, MinIsLeast
      <4> QED
        BY <1>4, <4>2 DEF FreeEntries
    <3>2. Line(s, n) = [t EXCEPT !.table[k] = Entered(e), !.owner[k] = o]
      BY <2>1, <2>3 DEF addTimedEvent, Entered
    <3> HIDE DEF k, o
    <3>3. /\ Line(s, n).relay = t.relay /\ Line(s, n).last = t.last /\ Line(s, n).runs = t.runs
          /\ Line(s, n).table = [s.table EXCEPT ![k] = Entered(e)]
          /\ Line(s, n).owner = [s.owner EXCEPT ![k] = o]
      BY <1>4, <1>5, <3>2 DEF Device
    <3>4. Line(s, n) \in Device
      <4>1. Line(s, n).table \in [Slot -> Entry]
        BY <1>1, <1>3, <3>1, <3>3, EnteredOK
      <4>2. Line(s, n).owner \in [Slot -> Number \cup {0}]
        BY <1>1, <1>3, <3>1, <3>3 DEF o
      <4> HIDE DEF e
      <4> QED
        BY <1>5, <3>2, <4>1, <4>2, <3>3 DEF Device
    <3>5. Put(s, Line(s, n), n, k)
      BY <3>1, <3>3 DEF Put, o
    <3> QED
      BY <1>1, <1>4, <2>0, <2>3, <3>1, <3>3, <3>4, <3>5 DEF Ran
  <2> QED
    BY <2>2, <2>3
<1> QED
  BY <1>6, <1>7

(* Running an event whose predecessors are done keeps the order. *)
LEMMA RanKeepsOrder ==
  ASSUME LogOK, NEW s, DeviceOK(s), NEW n \in 1 .. Len(log), NEW r \in Device,
         \A m \in 1 .. n - 1 : Done(s, m),
         Ids[n] % Word > s.last, Ran(s, r, n)
  PROVE  /\ Once(r) /\ UpToLast(r) /\ InOrder(r) /\ RunsLogged(r)
         /\ \A m \in 1 .. n : Done(r, m)
<1>1. /\ Word \in Nat \ {0} /\ n \in Number /\ Len(log) \in Nat /\ n <= Len(log)
      /\ \A m \in Number : m \in Nat \ {0} /\ Ids[m] \in Nat /\ Ids[m] % Word \in 0 .. Word - 1
  BY RemoteAssumption DEF LogOK, Number
<1>2. \A m, k \in Number : m < k => Ids[m] < Ids[k]
  BY RemoteAssumption
<1>3. /\ s.runs \in [Number -> Nat] /\ s.last \in 0 .. Word - 1
      /\ r.runs \in [Number -> Nat] /\ r.last \in 0 .. Word - 1
  BY DEF DeviceOK, Device
<1>4. /\ r.last = Ids[n] % Word /\ r.last > s.last
      /\ \A m \in Number : r.runs[m] = IF m = n THEN s.runs[m] + 1 ELSE s.runs[m]
  BY <1>1, <1>3 DEF Ran
<1>5. \A m \in Number : s.runs[m] > 0 => r.runs[m] > 0
  BY <1>3, <1>4
<1>6. r.runs[n] > 0 /\ Done(r, n)
  BY <1>1, <1>3, <1>4 DEF Done
<1>7. \A m \in Number : Done(s, m) => Done(r, m)
  BY <1>5 DEF Done
<1>8. \A m \in 1 .. n : Done(r, m)
  <2> SUFFICES ASSUME NEW m \in 1 .. n PROVE Done(r, m)
    OBVIOUS
  <2>1. m = n \/ m \in 1 .. n - 1
    BY <1>1
  <2>2. m \in Number
    BY <1>1 DEF Number, LogOK
  <2> QED
    BY <1>6, <1>7, <2>1, <2>2
<1>9. Once(r)
  <2> SUFFICES ASSUME NEW m \in Number
               PROVE  r.runs[m] <= 1 /\ (r.runs[m] > 0 => Ids[m] % Word <= r.last)
    BY DEF Once
  <2>1. s.runs[m] <= 1 /\ (s.runs[m] > 0 => Ids[m] % Word <= s.last)
    BY DEF DeviceOK, Once
  <2>2. CASE m = n
    <3>1. s.runs[m] = 0
      BY <1>1, <1>3, <2>1, <2>2
    <3> QED
      BY <1>1, <1>3, <1>4, <2>2, <3>1
  <2>3. CASE m # n
    <3>1. r.runs[m] = s.runs[m]
      BY <1>4, <2>3
    <3>2. r.runs[m] > 0 => Ids[m] % Word <= s.last
      BY <2>1, <3>1
    <3>3. Ids[m] % Word <= s.last => Ids[m] % Word <= r.last
      BY <1>1, <1>3, <1>4
    <3> QED
      BY <2>1, <3>1, <3>2, <3>3
  <2> QED
    BY <2>2, <2>3
<1>10. UpToLast(r)
  <2> SUFFICES ASSUME NEW m \in Number, Ids[m] <= r.last PROVE Done(r, m)
    BY DEF UpToLast
  <2>1. Ids[n] % Word <= Ids[n]
    <3>1. Ids[n] \in Nat /\ Word \in Nat \ {0}
      BY <1>1
    <3>2. Ids[n] < Word => Ids[n] % Word = Ids[n]
      BY <3>1
    <3>3. Ids[n] % Word < Word
      BY <3>1
    <3> QED
      BY <1>1, <3>1, <3>2, <3>3
  <2>2. ~(n < m)
    BY <1>1, <1>2, <1>4, <2>1
  <2> QED
    BY <1>1, <1>8, <2>2
<1>11. InOrder(r)
  <2> SUFFICES ASSUME NEW m \in Number, NEW k \in Number, m < k, r.runs[k] > 0 PROVE Done(r, m)
    BY DEF InOrder
  <2>1. CASE k = n
    BY <1>1, <1>8, <2>1
  <2>2. CASE k # n
    BY <1>4, <1>7, <2>2 DEF DeviceOK, InOrder
  <2> QED
    BY <2>1, <2>2
<1>12. RunsLogged(r)
  BY <1>1, <1>4 DEF DeviceOK, RunsLogged
<1> QED
  BY <1>8, <1>9, <1>10, <1>11, <1>12

(* Running an event enters it for itself alone. *)
LEMMA RanKeepsOwned ==
  ASSUME LogOK, NEW s, DeviceOK(s), NEW n \in 1 .. Len(log), NEW r \in Device,
         Ids[n] % Word > s.last, Ran(s, r, n)
  PROVE  Owned(r)
<1>1. /\ Word \in Nat \ {0} /\ Byte \in Nat \ {0} /\ n \in Number /\ Len(log) \in Nat
      /\ Ids[n] % Word \in 0 .. Word - 1 /\ log[n] \in Event
      /\ 1 .. Len(log) \subseteq Number
  BY RemoteAssumption DEF LogOK, Number
<1>2. /\ s.runs \in [Number -> Nat] /\ s.last \in 0 .. Word - 1
      /\ s.table \in [Slot -> Entry] /\ s.owner \in [Slot -> Number \cup {0}]
  BY DEF DeviceOK, Device
<1>3. \A m \in Number : r.runs[m] = IF m = n THEN s.runs[m] + 1 ELSE s.runs[m]
  BY <1>1, <1>2 DEF Ran
<1>4. s.runs[n] = 0
  BY <1>1, <1>2 DEF DeviceOK, Once
<1>5. r.runs[n] > 0 /\ \A m \in Number : s.runs[m] > 0 => r.runs[m] > 0
  BY <1>1, <1>2, <1>3
<1>6. CASE r.table = s.table /\ r.owner = s.owner
  <2> SUFFICES ASSUME NEW k \in Slot, s.table[k].id # 0
               PROVE  r.runs[s.owner[k]] > 0
    BY <1>6 DEF DeviceOK, Owned
  <2>1. s.owner[k] \in 1 .. Len(log) /\ s.runs[s.owner[k]] > 0
    BY DEF DeviceOK, Owned
  <2> QED
    BY <1>1, <1>5, <2>1
<1>7. ASSUME NEW i \in Slot, Put(s, r, n, i) PROVE Owned(r)
  <2>1. /\ s.table[i].id = 0
        /\ \A k \in Slot : r.table[k] = IF k = i THEN Entered(log[n]) ELSE s.table[k]
        /\ \A k \in Slot : k # i => r.owner[k] = s.owner[k]
        /\ Entered(log[n]).id # 0 => r.owner[i] = n
    BY <1>2, <1>7 DEF Put, Entered
  <2>2. \A k \in Slot : s.table[k].id # 0 =>
          /\ s.owner[k] \in 1 .. Len(log) /\ s.owner[k] # n
          /\ r.runs[s.owner[k]] > 0
    <3> SUFFICES ASSUME NEW k \in Slot, s.table[k].id # 0
                 PROVE  /\ s.owner[k] \in 1 .. Len(log) /\ s.owner[k] # n
                        /\ r.runs[s.owner[k]] > 0
      OBVIOUS
    <3>1. s.owner[k] \in 1 .. Len(log) /\ s.runs[s.owner[k]] > 0
      BY DEF DeviceOK, Owned
    <3> QED
      BY <1>1, <1>4, <1>5, <3>1
  <2>3. /\ Entered(log[n]).pin = log[n].pin
        /\ Entered(log[n]).id # 0 => Entered(log[n]).state = log[n].state
    BY <1>1, EnteredOK
  <2> SUFFICES ASSUME NEW k \in Slot, r.table[k].id # 0
               PROVE  /\ r.owner[k] \in 1 .. Len(log) /\ r.runs[r.owner[k]] > 0
                      /\ r.table[k].pin = log[r.owner[k]].pin
                      /\ r.table[k].state = log[r.owner[k]].state
                      /\ \A j \in Slot : r.table[j].id # 0 /\ r.owner[j] = r.owner[k] => j = k
    BY DEF Owned
  <2>4. CASE k = i
    <3>1. r.owner[k] = n
      BY <2>1, <2>4
    <3>2. \A j \in Slot : r.table[j].id # 0 /\ r.owner[j] = n => j = i
      BY <2>1, <2>2
    <3> QED
      BY <1>5, <2>1, <2>3, <2>4, <3>1, <3>2
  <2>5. CASE k # i
    <3>1. r.table[k] = s.table[k] /\ r.owner[k] = s.owner[k] /\ s.table[k].id # 0
      BY <2>1, <2>5
    <3>2. /\ s.table[k].pin = log[s.owner[k]].pin
          /\ s.table[k].state = log[s.owner[k]].state
          /\ \A j \in Slot : s.table[j].id # 0 /\ s.owner[j] = s.owner[k] => j = k
      BY <3>1 DEF DeviceOK, Owned
    <3>3. \A j \in Slot : r.table[j].id # 0 /\ r.owner[j] = r.owner[k] => j = k
      <4> SUFFICES ASSUME NEW j \in Slot, r.table[j].id # 0, r.owner[j] = r.owner[k] PROVE j = k
        OBVIOUS
      <4>1. j # i
        BY <2>1, <2>2, <3>1
      <4> QED
        BY <2>1, <3>1, <3>2, <4>1
    <3> QED
      BY <2>2, <3>1, <3>2, <3>3
  <2> QED
    BY <2>4, <2>5
<1> QED
  BY <1>6, <1>7 DEF Ran

(* Both together: one line keeps the invariant, and its event is done. *)
LEMMA LineKeeps ==
  ASSUME LogOK, NEW s, DeviceOK(s), NEW n \in 1 .. Len(log), \A m \in 1 .. n - 1 : Done(s, m)
  PROVE  DeviceOK(Line(s, n)) /\ \A m \in 1 .. n : Done(Line(s, n), m)
<1>1. s \in Device
  BY DEF DeviceOK
<1>2. CASE Ids[n] % Word <= s.last /\ Line(s, n) = s
  <2>1. Done(s, n)
    <3>1. n \in Number /\ Ids[n] \in Nat /\ Word \in Nat \ {0} /\ n \in Nat
      BY RemoteAssumption DEF LogOK, Number
    <3>2. Ids[n] < Word => Ids[n] % Word = Ids[n]
      BY <3>1
    <3> QED
      BY <1>2, <3>1, <3>2 DEF DeviceOK, UpToLast, Done
  <2>2. \A m \in 1 .. n : m = n \/ m \in 1 .. n - 1
    OBVIOUS
  <2> QED
    BY <1>2, <2>1, <2>2
<1>3. CASE Ids[n] % Word > s.last /\ Ran(s, Line(s, n), n)
  BY <1>1, <1>3, LineCases, RanKeepsOrder, RanKeepsOwned DEF DeviceOK
<1> QED
  BY <1>1, <1>2, <1>3, LineCases

(* The records after each of the first n lines of a reply. *)
Steps(f, lo, hi, n) ==
  f = [k \in 0 .. n |-> IF k = 0 THEN Start ELSE Line(f[k - 1], Lines(lo, hi)[k])]

(* There is such a list, for any number of lines. *)
LEMMA StepsExist ==
  ASSUME NEW lo \in Nat, NEW hi \in Nat, NEW n \in Nat
  PROVE  \E f : Steps(f, lo, hi, n)
<1> DEFINE T == {m \in Nat : ~ \E f : Steps(f, lo, hi, m)}
<1>1. SUFFICES ASSUME T # {} PROVE FALSE
  OBVIOUS
<1>2. PICK m \in T : \A k \in T : m <= k
  BY <1>1, LeastNumber, Zenon
<1>3. CASE m = 0
  <2> DEFINE f == [k \in 0 .. 0 |-> Start]
  <2>1. Steps(f, lo, hi, 0)
    BY DEF Steps
  <2> QED
    BY <1>2, <1>3, <2>1
<1>4. CASE m # 0
  <2>1. m \in Nat /\ m - 1 \in Nat /\ m - 1 \notin T
    BY <1>2, <1>4
  <2>2. PICK f : Steps(f, lo, hi, m - 1)
    BY <2>1
  <2> DEFINE g == [k \in 0 .. m |-> IF k <= m - 1 THEN f[k] ELSE Line(f[m - 1], Lines(lo, hi)[m])]
  <2>3. \A k \in 0 .. m : g[k] = IF k = 0 THEN Start ELSE Line(g[k - 1], Lines(lo, hi)[k])
    <3> SUFFICES ASSUME NEW k \in 0 .. m
                 PROVE  g[k] = IF k = 0 THEN Start ELSE Line(g[k - 1], Lines(lo, hi)[k])
      OBVIOUS
    <3>1. \A j \in 0 .. m - 1 : f[j] = IF j = 0 THEN Start ELSE Line(f[j - 1], Lines(lo, hi)[j])
      BY <2>2, <2>1 DEF Steps
    <3>2. CASE k = m
      BY <1>4, <2>1, <3>2
    <3>3. CASE k = 0
      BY <2>1, <3>1, <3>3
    <3>4. CASE k # 0 /\ k # m
      <4>1. k \in 0 .. m - 1 /\ k - 1 \in 0 .. m - 1 /\ k \in 0 .. m /\ k - 1 \in 0 .. m
        BY <2>1, <3>4
      <4>2. g[k] = f[k] /\ g[k - 1] = f[k - 1]
        BY <4>1
      <4> QED
        BY <3>1, <3>4, <4>1, <4>2
    <3> QED
      BY <3>2, <3>3, <3>4
  <2>4. Steps(g, lo, hi, m)
    BY <2>3 DEF Steps
  <2> QED
    BY <1>2, <2>4
<1> QED
  BY <1>3, <1>4

(* What a reply changes is the last of them. *)
LEMMA CallbackSteps ==
  ASSUME NEW lo \in Nat, NEW hi \in Nat, lo <= hi, browserresult_callback(lo, hi)
  PROVE  \E f : /\ Steps(f, lo, hi, hi - lo)
                /\ relay' = f[hi - lo].relay
                /\ timed_events' = f[hi - lo].table
                /\ last_rio_event' = f[hi - lo].last
                /\ owner' = f[hi - lo].owner
                /\ runs' = f[hi - lo].runs
                /\ UNCHANGED <<log, gone>>
<1> DEFINE after[k \in 0 .. hi - lo] ==
        IF k = 0 THEN [relay |-> relay, table |-> timed_events, last |-> last_rio_event,
                       owner |-> owner, runs |-> runs]
        ELSE Line(after[k - 1], Lines(lo, hi)[k])
<1>1. hi - lo \in Nat
  OBVIOUS
<1>2. \E f : Steps(f, lo, hi, hi - lo)
  BY <1>1, StepsExist
<1>3. Steps(after, lo, hi, hi - lo)
  BY <1>2 DEF Steps, Start
<1> QED
  BY <1>3 DEF browserresult_callback

(* The invariant holds after each line. *)
LEMMA StepsKeep ==
  ASSUME LogOK, DeviceOK(Start), NEW lo \in 0 .. gone, NEW hi \in lo .. Len(log),
         NEW f, Steps(f, lo, hi, hi - lo)
  PROVE  \A k \in 0 .. hi - lo : DeviceOK(f[k]) /\ \A m \in 1 .. lo + k : Done(f[k], m)
<1> DEFINE Kept(k) == DeviceOK(f[k]) /\ \A m \in 1 .. lo + k : Done(f[k], m)
           T == {k \in 0 .. hi - lo : ~ Kept(k)}
<1>1. /\ Len(log) \in Nat /\ gone \in Nat /\ lo \in Nat /\ hi \in Nat
      /\ lo <= gone /\ lo <= hi /\ hi <= Len(log)
  BY DEF LogOK
<1>2. \A k \in 0 .. hi - lo : f[k] = IF k = 0 THEN Start ELSE Line(f[k - 1], Lines(lo, hi)[k])
  BY DEF Steps
<1> SUFFICES ASSUME T # {} PROVE FALSE
  OBVIOUS
<1>3. PICK k \in T : \A j \in T : k <= j
  <2>1. T \subseteq Nat
    BY <1>1
  <2> QED
    BY <2>1, LeastNumber, Zenon
<1>4. k \in 0 .. hi - lo /\ ~ Kept(k)
  OBVIOUS
<1>5. CASE k = 0
  <2>1. f[0] = Start
    BY <1>1, <1>2
  <2>2. \A m \in 1 .. lo + 0 : Done(Start, m)
    BY <1>1 DEF Done
  <2> QED
    BY <1>4, <1>5, <2>1, <2>2
<1>6. CASE k # 0
  <2>1. k - 1 \in 0 .. hi - lo /\ k \in Nat /\ ~(k <= k - 1)
    BY <1>1, <1>4, <1>6
  <2>2. Kept(k - 1)
    BY <1>3, <2>1
  <2>3. lo + k \in 1 .. Len(log) /\ Lines(lo, hi)[k] = lo + k /\ lo + (k - 1) = (lo + k) - 1
    BY <1>1, <1>4, <1>6 DEF Lines
  <2>4. f[k] = Line(f[k - 1], lo + k)
    BY <1>2, <1>4, <1>6, <2>3
  <2>5. DeviceOK(f[k - 1]) /\ \A m \in 1 .. (lo + k) - 1 : Done(f[k - 1], m)
    BY <2>2, <2>3
  <2> HIDE DEF T
  <2>6. Kept(k)
    BY <2>3, <2>4, <2>5, LineKeeps
  <2> QED
    BY <1>4, <2>6
<1> QED
  BY <1>5, <1>6

(* A reply keeps the invariant. *)
LEMMA CallbackKeeps ==
  ASSUME RemoteInv, NEW lo \in 0 .. gone, NEW hi \in lo .. Len(log),
         browserresult_callback(lo, hi)
  PROVE  RemoteInv'
<1>1. LogOK /\ DeviceOK(Start)
  BY DEF RemoteInv
<1>2. lo \in Nat /\ hi \in Nat /\ lo <= hi /\ hi - lo \in 0 .. hi - lo
  BY <1>1 DEF LogOK
<1>3. PICK f : /\ Steps(f, lo, hi, hi - lo)
               /\ relay' = f[hi - lo].relay
               /\ timed_events' = f[hi - lo].table
               /\ last_rio_event' = f[hi - lo].last
               /\ owner' = f[hi - lo].owner
               /\ runs' = f[hi - lo].runs
               /\ UNCHANGED <<log, gone>>
  BY <1>2, CallbackSteps
<1>4. DeviceOK(f[hi - lo])
  BY <1>1, <1>2, <1>3, StepsKeep
<1>5. Start' = f[hi - lo]
  <2>1. f[hi - lo] \in Device
    BY <1>4 DEF DeviceOK
  <2> QED
    BY <1>3, <2>1 DEF Start, Device
<1>6. DeviceOK(Start)'
  BY <1>3, <1>4, <1>5 DEF DeviceOK, Device, Once, UpToLast, InOrder, Owned, RunsLogged, Done
<1>7. LogOK'
  BY <1>1, <1>3 DEF LogOK
<1> QED
  BY <1>6, <1>7 DEF RemoteInv

(* It holds at the start. *)
LEMMA InitInv == RemoteInit => RemoteInv
<1> SUFFICES ASSUME RemoteInit PROVE RemoteInv
  OBVIOUS
<1>1. /\ Byte \in Nat \ {0} /\ Word \in Nat \ {0} /\ Len(Ids) \in Nat
      /\ \A m \in Number : Ids[m] \in Nat \ {0}
  BY RemoteAssumption DEF Number
<1>2. LogOK
  BY <1>1 DEF RemoteInit, LogOK
<1>3. Start \in Device
  BY <1>1 DEF RemoteInit, Start, Device, Entry, Free
<1>4. Once(Start) /\ InOrder(Start) /\ RunsLogged(Start)
  BY DEF RemoteInit, Start, Once, InOrder, RunsLogged
<1>5. UpToLast(Start) /\ Owned(Start)
  BY <1>1 DEF RemoteInit, Start, UpToLast, Owned, Free
<1> QED
  BY <1>2, <1>3, <1>4, <1>5 DEF RemoteInv, DeviceOK

(* A new event keeps it. *)
LEMMA IssueKeeps ==
  ASSUME RemoteInv, NEW r \in Requests, Issue(r)
  PROVE  RemoteInv'
<1> DEFINE e == [id |-> Ids[Len(log) + 1], pin |-> r.pin, state |-> r.state, delay |-> r.delay]
<1>1. LogOK /\ DeviceOK(Start) /\ Start' = Start
  BY DEF RemoteInv, Issue, Start, device
<1>2. Len(log) \in Nat /\ Len(log) + 1 \in Number /\ log' = Append(log, e) /\ gone' = gone
  BY <1>1, RemoteAssumption DEF LogOK, Issue, Number
<1>3. e \in Event
  BY <1>2, RemoteAssumption DEF Event, Number
<1> HIDE DEF e
<1>4. /\ log' \in Seq(Event) /\ Len(log') = Len(log) + 1
      /\ \A n \in 1 .. Len(log) : log'[n] = log[n]
      /\ log'[Len(log) + 1] = e
  BY <1>1, <1>2, <1>3 DEF LogOK
<1>5. LogOK'
  <2>1. log'[Len(log) + 1].id = Ids[Len(log) + 1]
    BY <1>4 DEF e
  <2>2. Len(log') <= Len(Ids)
    BY <1>1, <1>2, <1>4 DEF LogOK, Issue
  <2>3. \A n \in 1 .. Len(log') : n = Len(log) + 1 \/ n \in 1 .. Len(log)
    BY <1>2, <1>4
  <2> QED
    BY <1>1, <1>2, <1>4, <2>1, <2>2, <2>3 DEF LogOK
<1>6. DeviceOK(Start)'
  <2>1. Owned(Start)'
    <3>1. \A n \in 1 .. Len(log) : n \in 1 .. Len(log')
      BY <1>2, <1>4
    <3> QED
      BY <1>1, <1>4, <3>1 DEF DeviceOK, Owned
  <2>2. RunsLogged(Start)'
    <3>1. \A n \in Number : n <= Len(log) => n <= Len(log')
      BY <1>2, <1>4 DEF Number
    <3> QED
      BY <1>1, <3>1 DEF DeviceOK, RunsLogged
  <2> QED
    BY <1>1, <1>2, <2>1, <2>2 DEF DeviceOK, Device, Once, UpToLast, InOrder, Done
<1> QED
  BY <1>5, <1>6 DEF RemoteInv

(* It holds when an event is too old: more of them are excused. *)
LEMMA ExpireKeeps == RemoteInv /\ Expire => RemoteInv'
<1> SUFFICES ASSUME RemoteInv, Expire PROVE RemoteInv'
  OBVIOUS
<1>1. LogOK /\ DeviceOK(Start) /\ Start' = Start /\ log' = log /\ gone' = gone + 1
  BY DEF RemoteInv, Expire, Start, device
<1>2. gone \in Nat /\ Len(log) \in Nat /\ gone < Len(log)
  BY <1>1 DEF LogOK, Expire
<1>3. LogOK'
  BY <1>1, <1>2 DEF LogOK
<1>4. \A m \in Number : m <= gone => m <= gone'
  BY <1>1, <1>2 DEF Number
<1>5. UpToLast(Start)' /\ InOrder(Start)'
  BY <1>1, <1>4 DEF DeviceOK, UpToLast, InOrder, Done
<1> QED
  BY <1>1, <1>3, <1>5 DEF RemoteInv, DeviceOK, Device, Once, Owned, RunsLogged

(* checkTimedEvents frees entries or lowers their delays, and does nothing else to *)
(* them. *)
LEMMA TimedEventsKeep == RemoteInv /\ checkTimedEvents => RemoteInv'
<1> SUFFICES ASSUME RemoteInv, checkTimedEvents PROVE RemoteInv'
  OBVIOUS
<1>1. LogOK /\ DeviceOK(Start)
  BY DEF RemoteInv
<1>2. /\ relay \in [Relays -> {0, 1}] /\ timed_events \in [Slot -> Entry]
      /\ last_rio_event \in 0 .. Word - 1
      /\ owner \in [Slot -> Number \cup {0}] /\ runs \in [Number -> Nat]
  BY <1>1 DEF DeviceOK, Device, Start
<1>3. UNCHANGED <<last_rio_event, runs, log, gone>>
  BY DEF checkTimedEvents
<1>4. relay' \in [Relays -> {0, 1}]
  BY <1>2 DEF checkTimedEvents
<1>5. \A k \in Slot : /\ timed_events'[k] \in Entry
                      /\ timed_events'[k].id # 0 =>
                           /\ timed_events[k].id # 0 /\ timed_events'[k].pin = timed_events[k].pin
                           /\ timed_events'[k].state = timed_events[k].state
  <2> SUFFICES ASSUME NEW k \in Slot
               PROVE  /\ timed_events'[k] \in Entry
                      /\ timed_events'[k].id # 0 =>
                           /\ timed_events[k].id # 0
                           /\ timed_events'[k].pin = timed_events[k].pin
                           /\ timed_events'[k].state = timed_events[k].state
    OBVIOUS
  <2>1. Word \in Nat \ {0} /\ Byte \in Nat \ {0} /\ timed_events[k] \in Entry
    BY <1>2, RemoteAssumption
  <2>2. timed_events'[k] = IF k \notin Reached THEN timed_events[k]
                           ELSE IF Counted(k) = 0 THEN Free
                           ELSE [timed_events[k] EXCEPT !.delay = Counted(k)]
    BY DEF checkTimedEvents
  <2>3. Counted(k) \in 0 .. Word - 1
    BY <2>1 DEF Counted, Entry
  <2>4. Free \in Entry /\ Free.id = 0
    BY <2>1 DEF Free, Entry
  <2>5. /\ [timed_events[k] EXCEPT !.delay = Counted(k)] \in Entry
        /\ [timed_events[k] EXCEPT !.delay = Counted(k)].id = timed_events[k].id
        /\ [timed_events[k] EXCEPT !.delay = Counted(k)].pin = timed_events[k].pin
        /\ [timed_events[k] EXCEPT !.delay = Counted(k)].state = timed_events[k].state
    BY <2>1, <2>3 DEF Entry
  <2> QED
    BY <2>1, <2>2, <2>4, <2>5
<1>6. \A k \in Slot : owner'[k] = IF timed_events'[k].id = 0 THEN 0 ELSE owner[k]
  BY DEF checkTimedEvents
<1>7. timed_events' \in [Slot -> Entry] /\ owner' \in [Slot -> Number \cup {0}]
  <2>1. timed_events' = [k \in Slot |-> timed_events'[k]] /\ owner' = [k \in Slot |-> owner'[k]]
    BY DEF checkTimedEvents
  <2> QED
    BY <1>2, <1>5, <1>6, <2>1
<1>8. (Start \in Device)'
  BY <1>2, <1>3, <1>4, <1>7 DEF Start, Device
<1>9. Owned(Start)'
  BY <1>1, <1>3, <1>5, <1>6 DEF DeviceOK, Owned, Start
<1>10. (Once(Start) /\ UpToLast(Start) /\ InOrder(Start) /\ RunsLogged(Start))'
  BY <1>1, <1>3 DEF DeviceOK, Once, UpToLast, InOrder, RunsLogged, Done, Start
<1> QED
  BY <1>1, <1>3, <1>8, <1>9, <1>10 DEF RemoteInv, LogOK, DeviceOK

(* Alarms and the API only touch the relays. *)
LEMMA SwitchKeeps ==
  ASSUME RemoteInv, NEW p \in Relays, NEW v \in {0, 1}, SwitchRelay(p, v)
  PROVE  RemoteInv'
<1>1. LogOK /\ DeviceOK(Start)
  BY DEF RemoteInv
<1>2. UNCHANGED <<timed_events, last_rio_event, owner, runs, log, gone>>
  BY DEF SwitchRelay
<1>3. relay' \in [Relays -> {0, 1}]
  BY <1>1 DEF SwitchRelay, DeviceOK, Device, Start
<1>4. (Start \in Device)'
  BY <1>1, <1>2, <1>3 DEF DeviceOK, Start, Device
<1> QED
  BY <1>1, <1>2, <1>4
  DEF RemoteInv, LogOK, DeviceOK, Once, UpToLast, InOrder, RunsLogged, Owned, Done, Start

(* A restart forgets everything that was run. *)
LEMMA RestartKeeps == RemoteInv /\ Restart => RemoteInv'
<1> SUFFICES ASSUME RemoteInv, Restart PROVE RemoteInv'
  OBVIOUS
<1>1. /\ Byte \in Nat \ {0} /\ Word \in Nat \ {0}
      /\ \A m \in Number : Ids[m] \in Nat \ {0}
  BY RemoteAssumption DEF Number
<1>2. LogOK'
  BY DEF RemoteInv, LogOK, Restart
<1>3. (Start \in Device)'
  BY <1>1 DEF Restart, Start, Device, Entry, Free
<1>4. (Once(Start) /\ InOrder(Start) /\ RunsLogged(Start))'
  BY DEF Restart, Start, Once, InOrder, RunsLogged
<1>5. (UpToLast(Start) /\ Owned(Start))'
  BY <1>1 DEF Restart, Start, UpToLast, Owned, Free
<1> QED
  BY <1>2, <1>3, <1>4, <1>5 DEF RemoteInv, DeviceOK

(* Every step keeps it. *)
LEMMA NextKeeps == RemoteInv /\ [RemoteNext]_remoteVars => RemoteInv'
<1> SUFFICES ASSUME RemoteInv, [RemoteNext]_remoteVars PROVE RemoteInv'
  OBVIOUS
<1>1. CASE UNCHANGED remoteVars
  BY <1>1
  DEF remoteVars, device, RemoteInv, LogOK, DeviceOK, Once, UpToLast, InOrder, RunsLogged, Owned,
      Done, Start
<1>2. CASE RemoteNext
  BY <1>2, IssueKeeps, ExpireKeeps, CallbackKeeps, TimedEventsKeep, SwitchKeeps, RestartKeeps
  DEF RemoteNext
<1> QED
  BY <1>1, <1>2

(* The invariant holds in every reachable state. *)
THEOREM RemoteInvariant == RemoteSpec => []RemoteInv
  BY InitInv, NextKeeps, PTL DEF RemoteSpec

(* Until the next restart an event is run once at most, however often the server *)
(* repeats it, in however late a reply, and also when ids outgrow the word. *)
THEOREM OnceTheorem == RemoteSpec => []EventsRunOnce
<1>1. RemoteInv => EventsRunOnce
  BY DEF RemoteInv, DeviceOK, Once, Start, EventsRunOnce
<1> QED
  BY <1>1, RemoteInvariant, PTL

(* When an event has been run, the ones before it have been run as well or had *)
(* become too old. *)
THEOREM OrderTheorem == RemoteSpec => []NonePassedOver
<1>1. RemoteInv => NonePassedOver
  <2> SUFFICES ASSUME RemoteInv, NEW m \in Number, NEW n \in Number, m < n, runs[n] > 0,
                      Ids[n] < Word
               PROVE  runs[m] > 0 \/ m <= gone
    BY DEF NonePassedOver
  <2>1. Ids[m] < Ids[n] /\ Ids[m] \in Nat /\ Ids[n] \in Nat /\ Word \in Nat
    BY RemoteAssumption DEF Number
  <2>2. Done(Start, m)
    BY DEF RemoteInv, DeviceOK, InOrder, Start
  <2> QED
    BY <2>1, <2>2 DEF Done, Start
<1> QED
  BY <1>1, RemoteInvariant, PTL

-----------------------------------------------------------------------------
(* The timer an entry stands for; the entries in use; the events run since the *)
(* reply began. *)
TimerAt(s, k) ==
  [event |-> s.owner[k], pin |-> s.table[k].pin, state |-> s.table[k].state,
   left |-> IF s.table[k].delay = 0 THEN Word ELSE s.table[k].delay]

BusyIn(s) == {k \in Slot : s.table[k].id # 0}

New(s) == {n \in Number : s.runs[n] > 0 /\ ~(runs[n] > 0)}

(* Event e was the last one of them for relay p, and switched it. *)
LastFor(s, p, e) ==
  /\ e \in New(s) /\ log[e].pin = p /\ s.relay[p] = log[e].state
  /\ \A d \in New(s) : log[d].pin = p => d <= e

(* A relay is as it was or as the last event for it says. *)
Switched(s, p) ==
  \/ s.relay[p] = relay[p] /\ \A e \in New(s) : log[e].pin # p
  \/ \E e \in New(s) : LastFor(s, p, e)

(* Where the promise of RelayTimers ends. *)
FitsTable(e) == e.id % Byte # 0 /\ e.delay < Byte

(* An event that asks for a delay has an entry, or the table is full. *)
Timed(s, e) ==
  log[e].delay # 0 /\ FitsTable(log[e]) =>
    \/ \E k \in Slot : s.table[k].id # 0 /\ s.owner[k] = e
    \/ \A k \in Slot : s.table[k].id # 0

(* An entry is as it was; an entry is of a new event and has its delay. *)
OldEntry(s, k) == s.table[k] = timed_events[k] /\ s.owner[k] = owner[k]

NewEntry(s, k) ==
  /\ s.owner[k] \in New(s)
  /\ FitsTable(log[s.owner[k]]) =>
       s.table[k].delay = log[s.owner[k]].delay /\ s.table[k].delay # 0

(* What the lines up to event n have done since the reply began. *)
Since(s, n) ==
  /\ New(s) \subseteq 1 .. n
  /\ \A m \in Number : runs[m] > 0 => s.runs[m] > 0
  /\ New(s) = {} => s = Start
  /\ \A p \in Relays : Switched(s, p)
  /\ \A k \in Slot : timed_events[k].id # 0 => OldEntry(s, k)
  /\ \A k \in Slot : timed_events[k].id = 0 /\ s.table[k].id # 0 => NewEntry(s, k)
  /\ \A e \in New(s) : Timed(s, e)

(* One more event. *)
LEMMA RanSince ==
  ASSUME LogOK, DeviceOK(Start), NEW s, DeviceOK(s), NEW n \in 1 .. Len(log), Since(s, n - 1),
         NEW r \in Device, Ids[n] % Word > s.last, Ran(s, r, n)
  PROVE  Since(r, n)
<1>1. /\ Word \in Nat \ {0} /\ Byte \in Nat \ {0} /\ n \in Number /\ Len(log) \in Nat
      /\ n \in Nat /\ Ids[n] % Word \in 0 .. Word - 1 /\ log[n] \in Event
      /\ Number \subseteq Nat
  BY RemoteAssumption DEF LogOK, Number
<1>2. /\ s.runs \in [Number -> Nat] /\ s.last \in 0 .. Word - 1
      /\ s.table \in [Slot -> Entry] /\ s.owner \in [Slot -> Number \cup {0}]
      /\ s.relay \in [Relays -> {0, 1}]
      /\ runs \in [Number -> Nat] /\ r.runs \in [Number -> Nat]
  BY DEF DeviceOK, Device, Start
<1>3. s.runs[n] = 0
  <2>1. s.runs[n] > 0 => Ids[n] % Word <= s.last
    BY <1>1 DEF DeviceOK, Once
  <2> QED
    BY <1>1, <1>2, <2>1
<1>4. \A m \in Number : m # n => r.runs[m] = s.runs[m]
  BY <1>2 DEF Ran
<1>5. r.runs[n] > 0 /\ ~(runs[n] > 0)
  <2>1. r.runs[n] = s.runs[n] + 1
    BY <1>1, <1>2 DEF Ran
  <2> QED
    BY <1>1, <1>2, <1>3, <2>1 DEF Since
<1>6. New(r) = New(s) \cup {n} /\ n \notin New(s)
  <2>1. n \in New(r) /\ n \notin New(s)
    BY <1>1, <1>3, <1>5 DEF New
  <2>2. \A m \in Number : m # n => (m \in New(r) <=> m \in New(s))
    BY <1>4 DEF New
  <2>3. New(r) \subseteq Number /\ New(s) \subseteq Number
    BY DEF New
  <2> QED
    BY <2>1, <2>2, <2>3
<1>7. New(s) \subseteq 1 .. n - 1 /\ New(r) \subseteq 1 .. n
  BY <1>1, <1>6 DEF Since
<1>8. \A m \in Number : runs[m] > 0 => r.runs[m] > 0
  BY <1>4, <1>5 DEF Since
<1>9. \A p \in Relays : Switched(r, p)
  <2> SUFFICES ASSUME NEW p \in Relays PROVE Switched(r, p)
    OBVIOUS
  <2>1. CASE log[n].pin = p
    <3>1. r.relay[p] = log[n].state
      BY <1>2, <2>1 DEF Ran
    <3>2. \A d \in New(r) : d <= n
      BY <1>1, <1>7
    <3>3. LastFor(r, p, n)
      BY <1>6, <2>1, <3>1, <3>2 DEF LastFor
    <3> QED
      BY <1>6, <3>3 DEF Switched
  <2>2. CASE log[n].pin # p
    <3>1. r.relay[p] = s.relay[p]
      BY <1>2, <2>2 DEF Ran
    <3>2. Switched(s, p)
      BY DEF Since
    <3> QED
      BY <1>6, <2>2, <3>1, <3>2 DEF Switched, LastFor
  <2> QED
    BY <2>1, <2>2
<1>10. CASE /\ r.table = s.table /\ r.owner = s.owner
            /\ log[n].delay # 0 => \A k \in Slot : s.table[k].id # 0
  <2>1. \A k \in Slot : timed_events[k].id # 0 => OldEntry(r, k)
    BY <1>10 DEF Since, OldEntry
  <2>2. \A k \in Slot : timed_events[k].id = 0 /\ r.table[k].id # 0 => NewEntry(r, k)
    BY <1>6, <1>10 DEF Since, NewEntry
  <2>3. Timed(r, n)
    BY <1>10 DEF Timed
  <2>4. \A e \in New(s) : Timed(r, e)
    BY <1>10 DEF Since, Timed
  <2> QED
    BY <1>6, <1>7, <1>8, <1>9, <2>1, <2>2, <2>3, <2>4 DEF Since
<1>11. ASSUME NEW i \in Slot, Put(s, r, n, i), log[n].delay # 0 PROVE Since(r, n)
  <2>1. /\ s.table[i].id = 0
        /\ r.table[i] = Entered(log[n])
        /\ \A k \in Slot : k # i => r.table[k] = s.table[k] /\ r.owner[k] = s.owner[k]
        /\ Entered(log[n]).id # 0 => r.owner[i] = n
        /\ Entered(log[n]).id = log[n].id % Byte
    BY <1>2, <1>11 DEF Put, Entered
  <2>2. timed_events[i].id = 0
    BY <2>1 DEF Since, OldEntry
  <2>3. \A k \in Slot : timed_events[k].id # 0 => OldEntry(r, k)
    BY <2>1, <2>2 DEF Since, OldEntry
  <2>4. \A k \in Slot : timed_events[k].id = 0 /\ r.table[k].id # 0 => NewEntry(r, k)
    <3> SUFFICES ASSUME NEW k \in Slot, timed_events[k].id = 0, r.table[k].id # 0
                 PROVE  NewEntry(r, k)
      OBVIOUS
    <3>1. CASE k = i
      <4>1. r.owner[k] = n /\ n \in New(r)
        BY <1>6, <2>1, <3>1
      <4>2. log[n].delay < Byte => r.table[k].delay = log[n].delay
        BY <1>1, <2>1, <3>1, EnteredOK
      <4> QED
        BY <1>11, <4>1, <4>2 DEF NewEntry, FitsTable
    <3>2. CASE k # i
      <4>1. r.table[k] = s.table[k] /\ r.owner[k] = s.owner[k]
        BY <2>1, <3>2
      <4>2. NewEntry(s, k)
        BY <4>1 DEF Since
      <4> QED
        BY <1>6, <4>1, <4>2 DEF NewEntry
    <3> QED
      BY <3>1, <3>2
  <2>5. Timed(r, n)
    BY <2>1 DEF Timed, FitsTable
  <2>6. \A e \in New(s) : Timed(r, e)
    <3> SUFFICES ASSUME NEW e \in New(s), log[e].delay # 0 /\ FitsTable(log[e])
                 PROVE  \E k \in Slot : r.table[k].id # 0 /\ r.owner[k] = e
      BY DEF Timed
    <3>1. PICK k \in Slot : s.table[k].id # 0 /\ s.owner[k] = e
      BY <2>1 DEF Since, Timed
    <3>2. k # i
      BY <2>1, <3>1
    <3> QED
      BY <2>1, <3>1, <3>2
  <2> QED
    BY <1>6, <1>7, <1>8, <1>9, <2>3, <2>4, <2>5, <2>6 DEF Since
<1> QED
  BY <1>10, <1>11 DEF Ran

(* Before the first line nothing was done. *)
LEMMA StartSince == LogOK => Since(Start, 0)
  BY DEF Since, New, Start, Switched, OldEntry, Timed

(* The same after each line of a reply. *)
LEMMA StepsSince ==
  ASSUME LogOK, DeviceOK(Start), NEW lo \in 0 .. gone, NEW hi \in lo .. Len(log),
         NEW f, Steps(f, lo, hi, hi - lo)
  PROVE  \A k \in 0 .. hi - lo : Since(f[k], lo + k)
<1> DEFINE T == {k \in 0 .. hi - lo : ~ Since(f[k], lo + k)}
<1>1. /\ Len(log) \in Nat /\ lo \in Nat /\ hi \in Nat /\ lo <= hi /\ hi <= Len(log)
  BY DEF LogOK
<1>2. \A k \in 0 .. hi - lo : f[k] = IF k = 0 THEN Start ELSE Line(f[k - 1], Lines(lo, hi)[k])
  BY DEF Steps
<1>3. \A k \in 0 .. hi - lo : DeviceOK(f[k])
  BY StepsKeep
<1> SUFFICES ASSUME T # {} PROVE FALSE
  OBVIOUS
<1>4. PICK k \in T : \A j \in T : k <= j
  <2>1. T \subseteq Nat
    BY <1>1
  <2> QED
    BY <2>1, LeastNumber, Zenon
<1>5. k \in 0 .. hi - lo /\ ~ Since(f[k], lo + k)
  OBVIOUS
<1>6. \A s : \A a, b \in Nat : Since(s, a) /\ a <= b => Since(s, b)
  <2> SUFFICES ASSUME NEW s, NEW a \in Nat, NEW b \in Nat, Since(s, a), a <= b PROVE Since(s, b)
    OBVIOUS
  <2>1. 1 .. a \subseteq 1 .. b
    OBVIOUS
  <2> QED
    BY <2>1 DEF Since
<1>7. CASE k = 0
  <2>1. f[0] = Start /\ Since(f[0], 0)
    BY <1>1, <1>2, StartSince
  <2> QED
    BY <1>1, <1>5, <1>6, <1>7, <2>1
<1>8. CASE k # 0
  <2>1. k - 1 \in 0 .. hi - lo /\ k \in Nat /\ ~(k <= k - 1)
    BY <1>1, <1>5, <1>8
  <2>2. Since(f[k - 1], lo + (k - 1)) /\ DeviceOK(f[k - 1])
    BY <1>3, <1>4, <2>1
  <2>3. /\ lo + k \in 1 .. Len(log) /\ Lines(lo, hi)[k] = lo + k /\ lo + (k - 1) = (lo + k) - 1
        /\ lo + (k - 1) \in Nat /\ lo + k \in Nat /\ lo + (k - 1) <= lo + k
    BY <1>1, <1>5, <1>8 DEF Lines
  <2>4. f[k] = Line(f[k - 1], lo + k)
    BY <1>2, <1>5, <1>8, <2>3
  <2>5. f[k - 1] \in Device /\ Since(f[k - 1], (lo + k) - 1)
    BY <2>2, <2>3 DEF DeviceOK
  <2> HIDE DEF T
  <2>6. Since(f[k], lo + k)
    BY <1>6, <2>2, <2>3, <2>4, <2>5, LineCases, RanSince
  <2> QED
    BY <1>5, <2>6
<1> QED
  BY <1>7, <1>8

-----------------------------------------------------------------------------
(* The mapping, said of the record. *)
LEMMA PendingIs == /\ Begun = {n \in Number : Start.runs[n] > 0}
                   /\ Pending = {TimerAt(Start, k) : k \in BusyIn(Start)}
  BY DEF Begun, Pending, TimerAt, BusyIn, Start, Busy, Left

(* A table without a free entry stands for Slots timers. *)
LEMMA FullTable ==
  ASSUME NEW s, Owned(s), \A k \in Slot : s.table[k].id # 0
  PROVE  Cardinality({TimerAt(s, k) : k \in BusyIn(s)}) = Slots
<1> DEFINE S == {TimerAt(s, k) : k \in BusyIn(s)}
           F == [k \in Slot |-> TimerAt(s, k)]
<1>1. Slots \in Nat \ {0}
  BY RemoteAssumption
<1>2. BusyIn(s) = Slot
  BY DEF BusyIn
<1>3. \A j, k \in Slot : TimerAt(s, j) = TimerAt(s, k) => j = k
  BY DEF TimerAt, Owned
<1>4. F \in Bijection(1 .. Slots, S)
  BY <1>2, <1>3 DEF Bijection, Injection, Surjection, IsInjective, Slot
<1>5. ExistsBijection(1 .. Slots, S)
  BY <1>4 DEF ExistsBijection
<1> QED
  BY <1>1, <1>5, FS_CountingElements

(* A reply is a step Accept of RelayTimers, or none. *)
LEMMA AcceptRefined ==
  ASSUME RemoteInv, NEW lo \in 0 .. gone, NEW hi \in lo .. Len(log),
         browserresult_callback(lo, hi)
  PROVE  Timers!Accept \/ UNCHANGED <<log, relay, Begun, Pending>>
<1>1. LogOK /\ DeviceOK(Start)
  BY DEF RemoteInv
<1>2. lo \in Nat /\ hi \in Nat /\ lo <= hi /\ hi - lo \in 0 .. hi - lo /\ Len(log) \in Nat
      /\ hi <= Len(log)
  BY <1>1 DEF LogOK
<1>3. PICK f : /\ Steps(f, lo, hi, hi - lo)
               /\ relay' = f[hi - lo].relay
               /\ timed_events' = f[hi - lo].table
               /\ last_rio_event' = f[hi - lo].last
               /\ owner' = f[hi - lo].owner
               /\ runs' = f[hi - lo].runs
               /\ UNCHANGED <<log, gone>>
  BY <1>2, CallbackSteps
<1> DEFINE s == f[hi - lo]
<1>4. DeviceOK(s) /\ Since(s, hi)
  <2>1. lo + (hi - lo) = hi
    BY <1>2
  <2> QED
    BY <1>1, <1>2, <1>3, <2>1, StepsKeep, StepsSince
<1> HIDE DEF s
<1>5. /\ relay' = s.relay /\ timed_events' = s.table /\ owner' = s.owner /\ runs' = s.runs
      /\ log' = log
  BY <1>3 DEF s
<1>6. /\ s.relay \in [Relays -> {0, 1}] /\ s.table \in [Slot -> Entry]
      /\ relay \in [Relays -> {0, 1}] /\ timed_events \in [Slot -> Entry]
  BY <1>1, <1>4 DEF DeviceOK, Device, Start
<1>7. /\ Begun' = {n \in Number : s.runs[n] > 0}
      /\ Pending' = {TimerAt(s, k) : k \in BusyIn(s)}
  BY <1>5 DEF Begun, Pending, TimerAt, BusyIn, Busy, Left
<1>8. Begun' \ Begun = New(s) /\ Begun \subseteq Begun'
  BY <1>4, <1>7 DEF Begun, New, Since
<1>9. CASE New(s) = {}
  <2>1. s = Start
    BY <1>4, <1>9 DEF Since
  <2>2. relay' = relay /\ timed_events' = timed_events /\ owner' = owner /\ runs' = runs
    BY <1>5, <2>1 DEF Start
  <2> QED
    BY <1>5, <2>2 DEF Begun, Pending, Busy, Left
<1>10. CASE New(s) # {}
  <2>1. relay' = [p \in Relays |->
                    LET on == {e \in New(s) : log[e].pin = p}
                    IN  IF on = {} THEN relay[p] ELSE log[Timers!Max(on)].state]
    <3> SUFFICES ASSUME NEW p \in Relays
                 PROVE  LET on == {e \in New(s) : log[e].pin = p}
                        IN  s.relay[p] = IF on = {} THEN relay[p] ELSE log[Timers!Max(on)].state
      BY <1>5, <1>6
    <3> DEFINE on == {e \in New(s) : log[e].pin = p}
    <3>1. Switched(s, p)
      BY <1>4 DEF Since
    <3>2. CASE on = {}
      BY <3>1, <3>2 DEF Switched, LastFor
    <3>3. CASE on # {}
      <4>1. PICK e \in New(s) : LastFor(s, p, e)
        BY <3>1, <3>3 DEF Switched
      <4>2. e \in on /\ \A y \in on : e >= y
        BY <4>1 DEF LastFor
      <4>3. on \subseteq Nat
        BY <1>2, <1>4 DEF Since
      <4>4. \A x \in on : (\A y \in on : x >= y) => x = e
        BY <4>2, <4>3
      <4>5. Timers!Max(on) = e
        BY <4>2, <4>4 DEF Timers!Max
      <4> QED
        BY <3>3, <4>1, <4>5 DEF LastFor
    <3> QED
      BY <3>2, <3>3
  <2>2. Pending \subseteq Pending'
    <3> SUFFICES ASSUME NEW k \in BusyIn(Start) PROVE TimerAt(Start, k) \in Pending'
      BY PendingIs
    <3>1. OldEntry(s, k) /\ k \in BusyIn(s)
      BY <1>4 DEF Since, BusyIn, Start, OldEntry
    <3>2. TimerAt(Start, k) = TimerAt(s, k)
      BY <3>1 DEF TimerAt, OldEntry, Start
    <3> QED
      BY <1>7, <3>1, <3>2
  <2>3. \A t \in Pending' \ Pending :
          /\ t.event \in New(s)
          /\ t.pin = log[t.event].pin /\ t.state = log[t.event].state
          /\ FitsTable(log[t.event]) => t.left = log[t.event].delay
    <3> SUFFICES ASSUME NEW k \in BusyIn(s), TimerAt(s, k) \notin Pending
                 PROVE  /\ s.owner[k] \in New(s)
                        /\ s.table[k].pin = log[s.owner[k]].pin
                        /\ s.table[k].state = log[s.owner[k]].state
                        /\ FitsTable(log[s.owner[k]]) =>
                             TimerAt(s, k).left = log[s.owner[k]].delay
      BY <1>7 DEF TimerAt
    <3>1. timed_events[k].id = 0
      <4> SUFFICES ASSUME timed_events[k].id # 0 PROVE FALSE
        OBVIOUS
      <4>1. OldEntry(s, k) /\ k \in BusyIn(Start)
        BY <1>4 DEF Since, BusyIn, Start
      <4>2. TimerAt(Start, k) = TimerAt(s, k)
        BY <4>1 DEF TimerAt, OldEntry, Start
      <4> QED
        BY <4>1, <4>2, PendingIs
    <3>2. k \in Slot /\ s.table[k].id # 0
      BY DEF BusyIn
    <3>3. NewEntry(s, k)
      BY <1>4, <3>1, <3>2 DEF Since
    <3> QED
      BY <1>4, <3>2, <3>3 DEF NewEntry, TimerAt, DeviceOK, Owned
  <2>4. \A e \in New(s) : log[e].delay # 0 /\ FitsTable(log[e]) =>
          (\E t \in Pending' : t.event = e) \/ Cardinality(Pending') = Slots
    <3> SUFFICES ASSUME NEW e \in New(s), log[e].delay # 0, FitsTable(log[e])
                 PROVE  (\E t \in Pending' : t.event = e) \/ Cardinality(Pending') = Slots
      OBVIOUS
    <3>1. CASE \E k \in Slot : s.table[k].id # 0 /\ s.owner[k] = e
      <4>1. PICK k \in Slot : s.table[k].id # 0 /\ s.owner[k] = e
        BY <3>1
      <4>2. TimerAt(s, k) \in Pending' /\ TimerAt(s, k).event = e
        BY <1>7, <4>1 DEF BusyIn, TimerAt
      <4> QED
        BY <4>2
    <3>2. CASE \A k \in Slot : s.table[k].id # 0
      BY <1>4, <1>7, <3>2, FullTable DEF DeviceOK
    <3> QED
      BY <1>4, <3>1, <3>2 DEF Since, Timed
  <2> QED
    BY <1>5, <1>8, <1>10, <2>1, <2>2, <2>3, <2>4
    DEF Timers!Accept, Timers!Fits, Timers!Timed, FitsTable, Timers!Cardinality, Cardinality
<1> QED
  BY <1>9, <1>10

(* Max, of the community modules, is the greatest entry of a set. *)
LEMMA MaxIsGreatest ==
  ASSUME NEW S, S \subseteq Slot, S # {}
  PROVE  Max(S) \in S /\ \A x \in S : Max(S) >= x
<1> DEFINE T == {Slots - x : x \in S}
<1>1. Slots \in Nat /\ \A x \in S : x \in Nat /\ x <= Slots
  BY RemoteAssumption DEF Slot
<1>2. T \subseteq Nat /\ T # {}
  BY <1>1
<1>3. PICK t \in T : \A y \in T : t <= y
  <2> HIDE DEF T
  <2> QED
    BY <1>2, LeastNumber, Zenon
<1>4. PICK m \in S : t = Slots - m
  OBVIOUS
<1>5. \A x \in S : m >= x
  <2> SUFFICES ASSUME NEW x \in S PROVE m >= x
    OBVIOUS
  <2>1. t <= Slots - x
    BY <1>3
  <2> QED
    BY <1>1, <1>4, <2>1
<1> QED
  BY <1>5 DEF Max

(* Counting down is counting what is left, the zero that wraps included. *)
LEMMA CountedIs ==
  ASSUME RemoteInv, NEW k \in Slot
  PROVE  /\ Left(k) \in Nat \ {0}
         /\ Counted(k) = 0 <=> Left(k) = 1
         /\ Counted(k) # 0 => Counted(k) = Left(k) - 1
<1>1. Word \in Nat \ {0} /\ timed_events[k].delay \in 0 .. Word - 1
  BY RemoteAssumption DEF RemoteInv, DeviceOK, Device, Start, Entry
<1>2. CASE timed_events[k].delay = 0
  <2>1. Counted(k) = (Word - 1) % Word
    BY <1>1, <1>2 DEF Counted
  <2>2. (Word - 1) % Word = Word - 1
    BY <1>1
  <2> QED
    BY <1>1, <1>2, <2>1, <2>2 DEF Left
<1>3. CASE timed_events[k].delay # 0
  <2> DEFINE d == timed_events[k].delay
  <2>1. d \in 1 .. Word - 1 /\ d + Word - 1 = (d - 1) + Word
    BY <1>1, <1>3
  <2>2. \A x \in 0 .. Word - 1 : (x + Word) % Word = x
    BY <1>1
  <2> HIDE DEF d
  <2>3. ((d - 1) + Word) % Word = d - 1
    <3>1. d - 1 \in 0 .. Word - 1
      BY <1>1, <2>1
    <3> QED
      BY <2>2, <3>1
  <2>4. Counted(k) = d - 1
    BY <2>1, <2>3 DEF Counted, d
  <2> QED
    BY <1>1, <1>3, <2>1, <2>4 DEF Left, d
<1> QED
  BY <1>2, <1>3

(* checkTimedEvents is a step Second of RelayTimers. *)
LEMMA SecondRefined == RemoteInv /\ checkTimedEvents => Timers!Second
<1> SUFFICES ASSUME RemoteInv, checkTimedEvents PROVE Timers!Second
  OBVIOUS
<1> DEFINE At(k) == [event |-> owner[k], pin |-> timed_events[k].pin,
                     state |-> timed_events[k].state, left |-> Left(k)]
           counted == {At(k) : k \in Reached}
           over == {t \in counted : t.left = 1}
           over_(p) == {k \in Reached : timed_events[k].pin = p /\ Counted(k) = 0}
<1>1. LogOK /\ DeviceOK(Start) /\ NumRelays \in Nat
  BY RemoteAssumption DEF RemoteInv
<1>2. Reached \subseteq Busy /\ Busy \subseteq Slot /\ Pending = {At(k) : k \in Busy}
  BY DEF Reached, Busy, Pending
<1>3. \A j, k \in Busy : At(j) = At(k) => j = k
  BY <1>1 DEF DeviceOK, Owned, Start, Busy
<1>4. \A k \in Busy : /\ timed_events[k] \in Entry
                      /\ timed_events[k].state \in {0, 1}
  <2> SUFFICES ASSUME NEW k \in Busy
               PROVE  timed_events[k] \in Entry /\ timed_events[k].state \in {0, 1}
    OBVIOUS
  <2>1. k \in Slot /\ timed_events[k].id # 0
    BY DEF Busy
  <2>2. owner[k] \in 1 .. Len(log) /\ timed_events[k].state = log[owner[k]].state
    BY <1>1, <2>1 DEF DeviceOK, Owned, Start
  <2>3. log[owner[k]] \in Event
    BY <1>1, <2>2 DEF LogOK
  <2>4. log[owner[k]].state \in {0, 1}
    BY <2>3 DEF Event
  <2> QED
    BY <1>1, <2>1, <2>2, <2>4 DEF DeviceOK, Device, Start
<1>5. \A k \in Reached : timed_events[k].pin \in Relays
  <2> SUFFICES ASSUME NEW k \in Reached PROVE timed_events[k].pin \in Relays
    OBVIOUS
  <2>1. k \in Busy /\ k \in Nat
    BY RemoteAssumption DEF Reached, Busy, Slot
  <2>2. ~Bad(timed_events[k].pin)
    BY <2>1 DEF Reached
  <2>3. timed_events[k].pin \in Nat
    BY <1>4, <2>1, RemoteAssumption DEF Entry
  <2> QED
    BY <1>1, <2>2, <2>3 DEF Bad, Relays
<1>6. \A k \in Busy \ Reached : \E j \in Busy : timed_events[j].pin \notin Relays
  <2> SUFFICES ASSUME NEW k \in Busy, k \notin Reached
               PROVE  \E j \in Busy : timed_events[j].pin \notin Relays
    OBVIOUS
  <2>1. PICK j \in Busy : Bad(timed_events[j].pin)
    BY DEF Reached
  <2>2. timed_events[j].pin \in Nat
    BY <1>4, RemoteAssumption DEF Entry
  <2> QED
    BY <1>1, <2>1, <2>2 DEF Bad, Relays
<1>7. \A k \in Slot : /\ Left(k) \in Nat \ {0}
                      /\ Counted(k) = 0 <=> Left(k) = 1
                      /\ Counted(k) # 0 => Counted(k) = Left(k) - 1
  BY CountedIs
<1>8. counted \in SUBSET {t \in Pending : t.pin \in Relays}
  BY <1>2, <1>5
<1>9. counted # Pending => \E t \in Pending : t.pin \notin Relays
  <2> SUFFICES ASSUME counted # Pending PROVE \E t \in Pending : t.pin \notin Relays
    OBVIOUS
  <2>1. PICK k \in Busy : k \notin Reached
    BY <1>2
  <2>2. PICK j \in Busy : timed_events[j].pin \notin Relays
    BY <1>6, <2>1
  <2>3. At(j) \in Pending /\ At(j).pin = timed_events[j].pin
    BY <1>2
  <2> QED
    BY <2>2, <2>3
<1>10. \A k \in Slot :
         /\ k \notin Reached => timed_events'[k] = timed_events[k]
         /\ k \in Reached /\ Counted(k) = 0 => timed_events'[k] = Free
         /\ k \in Reached /\ Counted(k) # 0 =>
              timed_events'[k] = [timed_events[k] EXCEPT !.delay = Counted(k)]
         /\ owner'[k] = IF timed_events'[k].id = 0 THEN 0 ELSE owner[k]
  BY DEF checkTimedEvents
<1>11. \A k \in Slot : k \in Busy' <=> k \in Busy /\ ~(k \in Reached /\ Counted(k) = 0)
  <2> SUFFICES ASSUME NEW k \in Slot
               PROVE  timed_events'[k].id # 0 <=>
                        timed_events[k].id # 0 /\ ~(k \in Reached /\ Counted(k) = 0)
    BY DEF Busy
  <2>1. CASE k \in Reached
    <3>1. k \in Busy /\ timed_events[k].id # 0
      BY <1>2, <2>1 DEF Busy
    <3>3. CASE Counted(k) = 0
      <4>1. timed_events'[k] = Free /\ Free.id = 0
        BY <1>10, <2>1, <3>3 DEF Free
      <4> QED
        BY <2>1, <3>3, <4>1
    <3>4. CASE Counted(k) # 0
      <4>1. timed_events'[k] = [timed_events[k] EXCEPT !.delay = Counted(k)]
        BY <1>10, <2>1, <3>4
      <4>2. timed_events'[k].id = timed_events[k].id
        BY <1>4, <3>1, <4>1 DEF Entry
      <4> QED
        BY <3>1, <3>4, <4>2
    <3> QED
      BY <3>3, <3>4
  <2>2. CASE k \notin Reached
    BY <1>10, <2>2
  <2> QED
    BY <2>1, <2>2
<1> DEFINE At1(k) == [event |-> owner'[k], pin |-> timed_events'[k].pin,
                      state |-> timed_events'[k].state,
                      left |-> IF timed_events'[k].delay = 0 THEN Word ELSE timed_events'[k].delay]
<1>12. Pending' = {At1(k) : k \in Busy'}
  BY DEF Pending, Left
<1>13. \A k \in Busy \ Reached : k \in Busy' /\ At1(k) = At(k)
  <2> SUFFICES ASSUME NEW k \in Busy, k \notin Reached PROVE k \in Busy' /\ At1(k) = At(k)
    OBVIOUS
  <2>1. k \in Slot /\ timed_events[k].id # 0
    BY DEF Busy
  <2>2. timed_events'[k] = timed_events[k] /\ owner'[k] = owner[k]
    BY <1>10, <2>1
  <2> QED
    BY <1>11, <2>1, <2>2 DEF Left
<1>14. \A k \in Reached : Counted(k) # 0 =>
         /\ k \in Busy' /\ At1(k) = [At(k) EXCEPT !.left = @ - 1]
         /\ At(k) \in counted \ over
  <2> SUFFICES ASSUME NEW k \in Reached, Counted(k) # 0
               PROVE  /\ k \in Busy' /\ At1(k) = [At(k) EXCEPT !.left = @ - 1]
                      /\ At(k) \in counted \ over
    OBVIOUS
  <2>1. k \in Slot /\ k \in Busy /\ timed_events[k].id # 0
    BY <1>2 DEF Busy
  <2>2. timed_events'[k] = [timed_events[k] EXCEPT !.delay = Counted(k)]
    BY <1>10, <2>1
  <2>3. /\ timed_events'[k].delay = Counted(k) /\ timed_events'[k].id = timed_events[k].id
        /\ timed_events'[k].pin = timed_events[k].pin
        /\ timed_events'[k].state = timed_events[k].state
    BY <1>4, <2>1, <2>2 DEF Entry
  <2>4. owner'[k] = owner[k] /\ k \in Busy'
    BY <1>10, <1>11, <2>1, <2>3
  <2>5. Counted(k) = Left(k) - 1 /\ Left(k) # 1
    BY <1>7, <2>1
  <2> QED
    BY <2>3, <2>4, <2>5
<1>15. Pending' = (Pending \ counted) \cup {[t EXCEPT !.left = @ - 1] : t \in counted \ over}
  <2>1. ASSUME NEW k \in Busy'
        PROVE  At1(k) \in (Pending \ counted) \cup {[t EXCEPT !.left = @ - 1] : t \in counted \ over}
    <3>1. k \in Busy /\ ~(k \in Reached /\ Counted(k) = 0)
      BY <1>11, <2>1 DEF Busy
    <3>2. CASE k \in Reached
      BY <1>14, <3>1, <3>2
    <3>3. CASE k \notin Reached
      <4>1. At(k) \in Pending /\ At(k) \notin counted
        BY <1>2, <1>3, <3>1, <3>3
      <4> QED
        BY <1>13, <3>1, <3>3, <4>1
    <3> QED
      BY <3>2, <3>3
  <2>2. ASSUME NEW t \in Pending \ counted PROVE t \in Pending'
    <3>1. PICK k \in Busy : t = At(k)
      BY <1>2
    <3>2. k \notin Reached
      BY <2>2, <3>1
    <3> QED
      BY <1>12, <1>13, <3>1, <3>2
  <2>3. ASSUME NEW t \in counted \ over PROVE [t EXCEPT !.left = @ - 1] \in Pending'
    <3>1. PICK k \in Reached : t = At(k)
      BY <2>3
    <3>2. Counted(k) # 0
      BY <1>2, <1>7, <2>3, <3>1
    <3> QED
      BY <1>12, <1>14, <3>1, <3>2
  <2> DEFINE before == {[t EXCEPT !.left = @ - 1] : t \in counted \ over}
  <2>4. Pending' \subseteq (Pending \ counted) \cup before
    <3> SUFFICES ASSUME NEW t \in Pending' PROVE t \in (Pending \ counted) \cup before
      OBVIOUS
    <3>1. PICK k \in Busy' : t = At1(k)
      BY <1>12
    <3> HIDE DEF At1
    <3> QED
      BY <2>1, <3>1
  <2>5. before \subseteq Pending'
    BY <2>3
  <2>6. Pending \ counted \subseteq Pending'
    BY <2>2
  <2> QED
    BY <2>4, <2>5, <2>6
<1>16. \A p \in Relays :
         IF \E t \in over : t.pin = p
         THEN \E t \in over : t.pin = p /\ relay'[p] = 1 - t.state
         ELSE relay'[p] = relay[p]
  <2> SUFFICES ASSUME NEW p \in Relays
               PROVE  IF \E t \in over : t.pin = p
                      THEN \E t \in over : t.pin = p /\ relay'[p] = 1 - t.state
                      ELSE relay'[p] = relay[p]
    OBVIOUS
  <2>1. relay'[p] = IF over_(p) = {} THEN relay[p]
                    ELSE IF timed_events[Max(over_(p))].state = 1 THEN 0 ELSE 1
    BY DEF checkTimedEvents
  <2>2. \A k \in Reached : At(k) \in over <=> Counted(k) = 0
    BY <1>2, <1>7
  <2>3. CASE over_(p) = {}
    <3>1. ~ \E t \in over : t.pin = p
      BY <2>2, <2>3
    <3> QED
      BY <2>1, <2>3, <3>1
  <2>4. CASE over_(p) # {}
    <3>1. Max(over_(p)) \in over_(p)
      BY <1>2, <2>4, MaxIsGreatest
    <3> DEFINE k == Max(over_(p))
    <3>2. k \in Reached /\ timed_events[k].pin = p /\ Counted(k) = 0
      BY <3>1
    <3>3. relay'[p] = IF timed_events[k].state = 1 THEN 0 ELSE 1
      BY <2>1, <2>4
    <3> HIDE DEF k
    <3>4. At(k) \in over /\ At(k).pin = p /\ At(k).state = timed_events[k].state
      BY <2>2, <3>2
    <3>5. relay'[p] = 1 - timed_events[k].state
      BY <1>2, <1>4, <3>2, <3>3
    <3> QED
      BY <3>4, <3>5
  <2> QED
    BY <2>3, <2>4
<1>17. DOMAIN relay' = Relays /\ log' = log /\ Begun' = Begun
  BY DEF checkTimedEvents, Begun
<1> HIDE DEF counted, over, At, At1, over_
<1>18. \E c \in SUBSET {t \in Pending : t.pin \in Relays} :
         /\ c # Pending => \E t \in Pending : t.pin \notin Relays
         /\ Pending' = (Pending \ c) \cup
                       {[t EXCEPT !.left = @ - 1] : t \in c \ {u \in c : u.left = 1}}
         /\ \A p \in Relays :
              IF \E t \in {u \in c : u.left = 1} : t.pin = p
              THEN \E t \in {u \in c : u.left = 1} : t.pin = p /\ relay'[p] = 1 - t.state
              ELSE relay'[p] = relay[p]
  <2>1. over = {u \in counted : u.left = 1}
    BY DEF over
  <2> WITNESS counted \in SUBSET {t \in Pending : t.pin \in Relays}
  <2> QED
    BY <1>9, <1>15, <1>16, <2>1
<1> QED
  BY <1>17, <1>18 DEF Timers!Second

(* Every step is one of RelayTimers, or none. *)
LEMMA NextRefined == RemoteInv /\ [RemoteNext]_remoteVars => [Timers!Next]_Timers!vars
<1> SUFFICES ASSUME RemoteInv, [RemoteNext]_remoteVars
             PROVE  Timers!Next \/ UNCHANGED <<log, relay, Begun, Pending>>
  BY DEF Timers!vars
<1>1. ASSUME NEW r \in Requests, Issue(r) PROVE Timers!Issue
  <2> DEFINE e == [id |-> Ids[Len(log) + 1], pin |-> r.pin, state |-> r.state, delay |-> r.delay]
  <2>1. log' = Append(log, e) /\ UNCHANGED <<relay, timed_events, owner, runs>>
    BY <1>1 DEF Issue, device
  <2>2. log \in Seq(Event) /\ e \in Event
    <3>1. Len(log) + 1 \in Number
      BY <1>1, RemoteAssumption DEF RemoteInv, LogOK, Issue, Number
    <3> QED
      BY <3>1, RemoteAssumption DEF RemoteInv, LogOK, Event, Number
  <2> HIDE DEF e
  <2>3. Len(log') = Len(log) + 1 /\ SubSeq(log', 1, Len(log)) = log
    BY <2>1, <2>2
  <2>4. UNCHANGED <<relay, Begun, Pending>>
    BY <2>1 DEF Begun, Pending, Busy, Left
  <2> QED
    BY <2>3, <2>4 DEF Timers!Issue
<1>2. CASE Expire
  BY <1>2 DEF Expire, device, Begun, Pending, Busy, Left
<1>3. ASSUME NEW p \in Relays, NEW v \in {0, 1}, SwitchRelay(p, v) PROVE Timers!Switch
  BY <1>3 DEF SwitchRelay, Timers!Switch, Begun, Pending, Busy, Left
<1>4. ASSUME Restart PROVE Timers!Restart
  BY <1>4 DEF Restart, Timers!Restart, Begun, Pending, Busy, Free
<1>5. CASE UNCHANGED remoteVars
  BY <1>5 DEF remoteVars, device, Begun, Pending, Busy, Left
<1>6. ASSUME NEW lo \in 0 .. gone, NEW hi \in lo .. Len(log), browserresult_callback(lo, hi)
      PROVE  Timers!Accept \/ UNCHANGED <<log, relay, Begun, Pending>>
  BY <1>6, AcceptRefined
<1>7. CASE checkTimedEvents
  BY <1>7, SecondRefined DEF Timers!Next
<1>8. CASE RemoteNext
  <2>1. CASE \E r \in Requests : Issue(r)
    BY <1>1, <2>1 DEF Timers!Next
  <2>2. CASE \E lo \in 0 .. gone : \E hi \in lo .. Len(log) : browserresult_callback(lo, hi)
    BY <1>6, <2>2 DEF Timers!Next
  <2>3. CASE \E p \in Relays, v \in {0, 1} : SwitchRelay(p, v)
    BY <1>3, <2>3 DEF Timers!Next
  <2>4. CASE Restart
    BY <1>4, <2>4 DEF Timers!Next
  <2> QED
    BY <1>2, <1>7, <1>8, <2>1, <2>2, <2>3, <2>4 DEF RemoteNext
<1> QED
  BY <1>5, <1>8

(* The table with its first free entry, 8-bit entries and byte counters amounts to *)
(* one timer for each event, which switches the relay back after its delay; where *)
(* the promise ends is said in RelayTimers. *)
THEOREM TimersTheorem == RemoteSpec => ImplementsTimers
<1>1. RemoteInit => Timers!Init
  BY DEF RemoteInit, Timers!Init, Begun, Pending, Busy, Free
<1> QED
  BY <1>1, RemoteInvariant, NextRefined, PTL DEF RemoteSpec, ImplementsTimers, Timers!Spec
=============================================================================
