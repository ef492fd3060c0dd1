# Verification of Stokerbot

TLA+ models of the Stokerbot firmware (`src/S3`), a heating logger on an AVR
with an ENC28J60 Ethernet chip: it measures temperatures and counters, uploads
them to a server, shows texts of the server on an LCD, switches relays the
server or an alarm asks for, and serves settings pages. The models are checked
with TLC on small instances; the central results are proved with TLAPS for
every value of their constants.

## The system

The firmware is one C program with one interrupt. `main`
(`test_web_client.c`) first brings the EEPROM up to date and waits for an
address; then it repeats for ever: if a new second has begun, run the tasks
that are due (`queue.c`), then take one packet or do one idle step (`web.c`,
`handle_net`). Nothing else runs concurrently but the timer interrupt, which
counts `tick`, `tickS` and the pulses on counter pins. All else is shared state
in global variables, written by tasks, by callbacks of the TCP client and by
served pages in whatever order they come.

| Component | Source | State | Operations | Talks to |
|---|---|---|---|---|
| Task queue | `queue.c` | `queueStart`, `queueEnd`, `itemsInQueue`, `scheduleQueue` | insert, take the top | scheduler |
| Task scheduler | `queue.c` | the queue, loop counters | schedule, remove, change, run | its tasks, which call it back |
| Main loop, timer | `test_web_client.c`, `timer.c` | `tickS`, `lastTick`, interval bytes | the loop, the interrupt, `sendData`, `reScheduleTasks` | scheduler, pages |
| TCP client | `ip_arp_udp_tcp.c` | `tcp_client_state`, `tcp_fd`, `www_fd`, callback | `client_browse_url`, packet loop | web client by callbacks |
| Web client | `web.c` | `start_web_client`, `dns_state`, `dnsTimer`, `web_client_monitor` | idle half of `handle_net`, three callbacks | TCP client, tasks, pages, watchdog |
| Remote IO | `web.c` | `timed_events`, `last_rio_event`, `PORTC` | RIO lines, `checkTimedEvents` | web client, alarms, API |
| LCD screens | `web.c` | `lcd_current_screen`, its timers, `lcd_timeouts` | `lcd_update`, `lcd_callback` | web client |
| DHCP client | `dhcp_client.c` | `init`, `dhcp_tid`, the last offer | start-up exchange, `dhcp_6sec_tick` | `main` |
| ARP resolver, DNS | `ip_arp_udp_tcp.c`, `dnslkup.c` | `arpip_state`, `dns_state`, transaction numbers | question, answer | web client, pages |
| TCP server | `ip_arp_udp_tcp.c`, `web.c` | `seqnum` only | answer to SYN, GET, FIN | browsers |
| Packets, checksums | `ip_arp_udp_tcp.c` | the packet buffer | `checksum`, reply to a ping | every sender |
| Settings forms | `web.c`, `websrv_help_functions.c` | EEPROM settings | `find_key_val`, `urldecode`, the saves | browsers |
| Ethernet driver | `enc28j60.c` | `gNextPacketPtr` and the chip's pointers | `enc28j60PacketReceive` | packet loop |
| Sensor table | `ds18x20.c`, `onewire.c` | `sensorValues`, `nextSensorPos`, `tempbuf` | `updateOWSensors`, `findSensor`, bus search | alarms, pages, upload |
| Alarms | `test_web_client.c`, `web.c` | alarm records, relays | `timedAlarmCheck`, two pages | sensor table |
| Counters | `test_web_client.c` | `simpleSensorValues` and types | `updateCounters` (interrupt), `timedSaveEeprom` | EEPROM |
| Start-up | `test_web_client.c` | EEPROM layout version | defaults, migrations | everything |
| I2C expander | `twi.c`, `MCP23008.c` | the bus, the chip's registers | set up, read, write | `updateSimpleSensors` |

What makes this hard to test: `queue.c` turns its queue under loops whose bound
changes; `tickS` wraps every 18 hours and is read in two halves; one wish
variable (`start_web_client`) and one timer are shared by four writers; the TCP
client never retransmits and keeps one state for all connections there ever
were; one ARP question serves two purposes; a page may change the host while
answers about the last one are on their way; the receive ring wraps at
frame sizes nobody chose; power may fail between any two bytes of the EEPROM.
`PROJECT.json` lists each hazard at its line with the properties that cover it.

What makes each component correct: the queue is a bounded list; the scheduler a
table of tasks, of which none is lost or late; uploads go on for ever; a reply
reaches only the callback that asked, once; requests end, and the device
restarts itself exactly when uploads stay unanswered; a relay that was switched
for a time is released when it is over, an event runs once; each defined screen
is shown, and its text renewed; an address is used only if a server granted it;
a MAC or an IP address is used only for what it belongs to; a page continues
the connection it answers; what is sent verifies; what is typed is what is
saved; the driver never loses the chip; a sensor's value is its own; counts and
settings survive a power loss; the bus is free after every refusal.

## Modules

| Module | Models | Over, or implements |
|---|---|---|
| `TaskRing` | the ring buffer, one step per function | implements `BoundedFifo` |
| `TaskScheduler` | the four functions of `queue.h`, one step per loop round, so that a running task's own calls interleave with the rounds of `scheduleRun` | implements `TaskTable` |
| `MainLoop` | the loop of `main`, the timer interrupt, `sendData`, `reScheduleTasks`, the pages that save intervals | extends `TaskScheduler` |
| `TcpClient` | one step per received segment, per idle poll and per request | implements `RequestChannel` |
| `WebClient` | the idle half of `handle_net`, the callbacks, the tasks and pages that touch the wish | over `RequestChannel` and `LcdWishes` |
| `LcdScreens` | `lcd_update`, `lcd_callback` and the web client as the screens see it | keeps to `LcdWishes` |
| `RemoteIO` | RIO lines, `addTimedEvent`, `checkTimedEvents`, other writers of the relays, a restart | implements `RelayTimers` |
| `Dhcp` | the start-up loop and the exchange, servers that offer, grant and refuse, resets | |
| `Resolver` | the ARP question, the DNS lookup and `handle_net`'s use of both | begins where `Dhcp` ends |
| `TcpServer` | SYN, GET and FIN of the server half, byte by byte of the numbers; browsers | |
| `Packets` | `checksum`, the correction in the reply to a ping, the receiver's check | |
| `Forms` | the browser's address, `find_key_val`, `urldecode`, the saves of two pages | |
| `RxRing` | the receive ring: the chip's pointers and the driver's | |
| `SensorTable` | the table, reading and search of the buses bit by bit, alarms and their pages | |
| `Readings` | the DHT sensors on pins; what each page, upload and CoAP message tells of a sensor | extends `SensorTable` |
| `Settings` | the EEPROM: defaults, migrations, counters and their save, pages that restart | |
| `TwoWire` | a transfer step by step, the expander and its callers | |
| `QueueProofs` (`TaskRing` and `TaskScheduler`), `MainLoopProofs`, `TcpClientProofs`, `WebProofs` (`WebClient`, `TcpServer` and `Packets`), `LcdRemoteIOProofs` (`LcdScreens` and `RemoteIO`), `AddressProofs` (`Dhcp` and `Resolver`), `DriverProofs` (`RxRing`, `TwoWire`, `SensorTable` and `Readings`), `SettingsProofs` (`Settings` and `Forms`) | theorems | |
| `MC*` | instances for TLC | |

`BoundedFifo`, `TaskTable`, `RequestChannel` and `RelayTimers` say what a
component promises and stand for no line of code; `map` in `PROJECT.json` gives
the lines of everything else. Names are the source's.

Compositions. `MainLoop` runs the scheduler's own actions inside the program
that uses them. `WebClient` is built on the three-stage `RequestChannel`, which
`TcpClient` is shown and proved to implement, so that its state space does not
contain the segments. It takes what the LCD asks of it from `LcdWishes`, and
`KeepsToWishes` shows that `LcdScreens`, with all its timers, asks for no more.
`Resolver` starts with every address `Dhcp` may end with, also with 0.0.0.0.

Abstractions worth knowing:

* A task is its name; its function pointer goes with it. `UniqueNames` restricts
  `TaskScheduler` to one entry per name, as `main` does.
* `tickS` is read byte by byte; a carry between the two reads gives a value of
  both (`TornReads`). `PassTicks` and `NetTicks` bound the seconds one pass and
  one network call take. `MainLoop` lets every interval be saved; the code can
  save fewer (the digital one, below).
* TCP client: a server may send, for every fd for which it has got a SYN, any
  segment at any time, any number of times, and data only once it has got the
  request. This covers loss, delay, duplication and reordering. Assumed: when
  `tcp_fd` comes round to a number, segments of its previous use are gone (8
  requests, of which two can hardly start within ten seconds of one another).
  There is one server: the code drops what another address sends.
* Web client: the MAC address of the gateway is known (that is `Resolver`).
  Each second has at least one idle poll. What an old connection still sends is
  not heard during a restart. The contents of `url` and `tempbuf` are left out.
* Remote IO: the server gives its events growing ids and sends the recent ones,
  oldest first. A reply may be late or cut. Alarms and the API are a switch of
  any relay at any time.
* LCD: a text is its screen and its time; a text whose sum is wrong has not
  come. The web client ends its requests (`RequestsEnd` of `WebClient`).
* DHCP: a server offers one address and is named by it. Resolver: a MAC address
  is named by its IP address; starts of the device lie further apart than a DNS
  answer is under way; an answer that says there is an error is left out. What
  `parse_ip` leaves in `wwwip` of a host that is a name counts as no address
  (zeroes, but for numbers in front of the first dot), until the lookup is
  answered or given up.
* Server: a browser is its port and opens one connection; browsers do not share
  state of the device but `seqnum`.
* Packets: addresses are left out of the bytes, being words that both sides
  add. Forms: names are cut to what tells them apart; texts have no 0
  and are such that their encoding is not cut off.
* Receive ring: a frame is its place. Sensors: the bits of a bus, not their
  timing; a failed CRC is a choice. A page or upload is the set of what it
  tells: whose reading, and the number that its text spells. Settings: one byte
  stands for those that are written together with it; the EEPROM is an erased
  one or one that a firmware of this line has set up (`LayoutAssumption`), and
  there are up to 8 analog and 4 digital pins, which is what the places of
  `eeprom.h` have room for. Such a firmware has set the address and whether it
  comes from DHCP, which no migration does; whether it has set a web port is open
  (`ported`). Expander: only boards with `SBNG_TARGET` 50 have it; a byte that
  is read is kept only when the stop that follows is over, and 255, which
  stands for an error, is not kept even if the chip has sent it (all inputs and
  outputs on).

## Runs

| Run | Question | Instance |
|---|---|---|
| `lag_tcp` | what holds when seconds are lost, reads torn, intervals zero; does a change keep the order of the queue? Replies reach their caller, once, channel implemented | `tickS` modulo 4, `PassTicks` 1, one-shot tasks, 4 tasks in a queue of 5; 3 fds (round and back), 2 callers, a status or too short |
| `dhcp_webclient` | only granted addresses, one is got when nothing is lost; requests end, a restart when and only when uploads fail | 2 DHCP servers, a delay of 4 polls; `tickS` modulo 3, timeouts of 1 s, restart at a count of 4, 2 host changes |
| `network` | fixed tasks in their second, uploads for ever; right MACs, right addresses, the gateway found | `tickS` modulo 9, non-zero intervals, `NetTicks` 1 so that saving settings overlaps a new second; a host by name on the LAN, one outside, one by address, 2 question numbers |
| `tasks` | does the ring of tasks implement a bounded list, is the scheduler a table of tasks; the screen shown is defined, each is shown and renewed, wishes kept; an event switches its relay once, in order, and back after its delay | ring of 4 slots; 3 names, queue of 2 (inserts are refused), times modulo 2; 3 screens, times modulo 3, replies of status 0 and 200; 2 entries, 2 relays and a bad pin, a byte of 3 and a word of 4 values, 4 events whose ids pass both |
| `device` | receive ring, server, checksums, 1-wire table, DHT readings, EEPROM, expander, forms | receive ring of 12 bytes with frames of 2, 4, 6; sequence numbers of four bytes of 2 values; packets of bytes of 6 values, every content of up to 3 bytes, and every ping with up to 3; a table of 2 entries and 3 devices with 3 bit codes; 2 DHT pins, tenths that need two bytes and one below zero, 5 bits that may arrive wrong; one pin of each kind with 2 pulses; all refusals and jams; texts that are empty, spell a name, or have blanks and a plus, a number of two digits |
| `mainloop_early`, `dhcp_again`, `resolver_fallback`, `lcd_first`, `settings_password`, `settings_webport`, `forms_password` | statements that the code does not keep, see below | as the run of the same part, or smaller |

All passing runs hold several parts that share no state; a behaviour steps one of them (`part`), and no property relates two. Together
they cost one state space that is the sum of theirs. Where the parts have
fairness, each condition is restricted to the behaviours that step its part.

Why the bounds are enough: every counter of the code that matters has a range
in which it passes its limit and comes round (ring indices, fds, `tickS`, the
monitor, transaction and sequence numbers, the LCD's timer, the sensor table),
every buffer is small enough to be full, and every carry has room to happen at
every place. The scheduler by itself is checked with a queue of two, since every
further name multiplies its states; its queue has four items in the runs of the
main loop, and its properties are proved for every size.

Every run checks deadlock: no part ever stops.

### Fairness

* `MainLoop`: the main loop keeps being executed and the timer keeps firing,
  which hold while the processor runs.
* `WebClient`: the same, and the network leaves an idle poll in each second.
  `MissingServerRestarts` is conditional on uploads being started again and
  again, which `UploadsContinue` gives from the side of the scheduler.
* `RemoteIO`: the task `remoteIO` keeps being called (`TasksStay`,
  `ServedByNextPass`).
* `LcdScreens`: `lcd_update` keeps being called and the web client begins and
  ends what is wished for. `TextsRenewed` is conditional on uploads leaving the
  wish free: a wish for texts is dropped when an upload holds it.
* `Dhcp`: the start-up loop keeps polling, servers answer, and each OFFER and
  ACK that stays under way is taken. `StartsUp` is conditional on nothing being
  lost or refused.
* `Resolver`: idle calls go on, and a question about the gateway that is put
  again and again is answered at some time (strong fairness). `GatewayFound` is
  conditional on the cable staying in.

No packet, reply or user is owed to the device in any other run.

### Where the code differs from what it says

* `NeverEarly`: "Called every 30minutes" (`test_web_client.c:822`).
  `pNow + recur` wraps, and a small `next` stays due until `tickS` wraps as
  well: in the last half hour of every 18 hours `timedSaveEeprom` runs in every
  second.
* `AsksAgain`: "still no IP after 30 sec" (`dhcp_client.c:397`). The seconds
  are counted by a task, and the scheduler does not run before there is an
  address: a DISCOVER or OFFER that is lost is never followed by another.
* `FallbackUsed`: "fallback if DNS fails" (`web.c:11`), "DNS lookup failed, using
  fallback IP" (`web.c:1197`). The address is in `wwwip`, and `parse_ip` has
  cleared that before the lookup begins: without an answer uploads go to 0.0.0.0.
* `FirstTextTaken`: "callback function sets it to 250 when theres valid data"
  (`web.c:69`). `lcd_callback` takes texts with status 0; a proper reply has
  200. The run shows a reply of status 200 with a text, after which the LCD
  still waits (`MCLcdFirst` keeps what the last reply was).
* `PasswordKept`: "200-209 password" (`eeprom.h:30`). The save of the counters
  keeps its position in 8 bits and writes there.
* `WebPortSet`: "web port" (`test_web_client.c:415`, `:447`). The migration of
  layouts older than 3 writes it at 29, the start-up reads it at 23: a device
  whose firmware had no web port yet runs at 65535. `CanBeReached` therefore asks
  for one only where the EEPROM was empty or had one.
* `PasswordAsTyped`: "200-209 password" again. A password is saved without its end, so a
  shorter one keeps the end of the last; it is also the one text that is not
  decoded.

Each has a run that shows it. Five more were met while modelling; the models
do what the code does, and the properties leave the case out:

* "we can therefore easily correct the checksum" (`ip_arp_udp_tcp.c:394`). The
  carry out of the low byte is dropped; about one ping in 8000 gets a reply
  whose checksum is wrong (`CarryLost` in `Packets`).
* The form has "Digital update interval" with the name `digital`
  (`web.c:832`), the handler looks for `digitlal`, so that interval is never
  saved (`Sought` in `Forms`). The page also shows byte 60 as digital and 61 as
  analog, where `eeprom.h` has it the other way round.
* The pages tell the temperature of every DHT22 with the sign of the one on
  pin 0 (`web.c:308`): below zero on one pin only, it is told as a number near 2^32,
  or without its sign bit (`OtherSign` in `Readings`).
* "return 1 if found (the string in strbuf might still be an empty string)"
  (`websrv_help_functions.c:62`). `find_key_val` returns the length; a host
  cannot be emptied.
* The forms let any number be typed for a setting of one byte, and
  `save_cgivalue_if_found` (`web.c:1604`) keeps its low eight bits: 300 is saved as
  44. `SavedAsTyped` says of a number that it is the one saved if it fits
  (`FitsByte` in `Forms`), and nothing of larger ones.

Some properties leave out a case of which their comment says what the code
does: `FramesKept` (a frame that ends with the last byte of the ring),
`ShownIsDefined` (a reply that leaves a gap), `ReadingsTold` (more sensors than
entries; a DHT22's temperature whose sign is not that of pin 0, see above),
`BusReleased` (a wait that ends by the counter), `LeaseHeld`
(messages of an earlier start), `AnswerIsForHost` (a lookup that failed),
`CanBeReached`, `SentIsTaken` and `SavedAsTyped` (above).

## Proofs

All are for every value of the constants under the named assumptions of the
modules (`DepthAssumption`, `TcpClientAssumption`, `LcdAssumption`, ...), which
TLC evaluates in the runs.

* `QueueProofs`. For `TaskRing`, the inductive invariant is `RingInv`: types, the
  counter equals the distance of the indices, the live slots hold items. None is
  inductive alone: that a slot read is live needs the counter. From it the
  refinement `RingImplementsFifo`, whose core is that the sequence of live slots
  changes by `Append` and `Tail`. For `TaskScheduler`, `SchedulerTypeCorrect`:
  queue and loop counters stay in bounds and a remove or change returns to the
  function that called it. `OrderIsKept` is about single rounds of a change: a
  round takes the first item and appends it, and the new queue turned by one
  more is the old one, but for the times of the item that changes. The
  refinement `SchedulerImplementsTable` (of schedulers with unique names) needs
  `TableInv`: no name is twice in the queue, and the item a remove or change
  looks for has not been passed over, or carries the new times; without that a
  loop could end with its item untouched, which the table says was changed when
  the loop began.
* `MainLoopProofs`. `TasksAreKept`. A task leaves the queue only when it runs
  without a period, so `StayInv` says that the tasks which must stay have one, in
  the queue and in a change under way, and that nothing the firmware calls
  removes a task. It rests on `StepKeepsTypes` of `QueueProofs`: each
  step of the program is a step of the scheduler or leaves it alone.
  `NextPassServes`: a one-shot task that is not put back ends the loop of
  `scheduleRun` a round early, so that a pass of r rounds leaves at most r items,
  and what it has not reached is in the first half of the queue it began with.
  `ServedInv` says this as a bound of a task's place plus the rounds since, by
  the number of tasks; the loop ends early before the same task twice only when
  there are more than `2 * Cardinality(Fixed) + 1` tasks. The firmware has nine
  with four fixed ones, which is exactly enough (the
  ARP broadcast and the DHCP timer, when in use, are fixed ones, too); with four
  one-shot tasks to two fixed ones TLC finds a task that is passed over twice. `FixedRunOnTime` has two hypotheses, `SeesEverySecond` (no torn
  reads, a pass within its second, one call of `handle_net` at most a second
  long) and `NoneIsZero` (of the bytes the pages save); the constants of
  `network` satisfy both, those of `lag_tcp` neither. `OnTimeInv` says that the next
  run of a task is planned an interval after its last one, modulo the wrap of
  `tickS`; that no second is over before its pass; and that in a pass the items it
  has come to have begun a new interval.
* `TcpClientProofs`. `TcpInv` adds to the types that `www_fd = tcp_fd` and what
  the connection state says of the history of the current fd (nothing written
  before state 3, no reply before state 4, what was filled in was asked for by
  the current callback). From it `RepliesReachTheirCallers`,
  `WrittenAndRepliedOnce` and the refinement `ClientImplementsChannel`.
* `WebProofs`. For `WebClient`, the monitor also counts lookups, so that the
  property is not inductive: `MonitorInv` says where each count comes from (an
  upload without a reply, a host that was saved, the first lookup); from it
  `RestartNeedsFailures`. For `TcpServer`, the property speaks of a network at
  rest only; `ServerInv` says what is under way for each state of a browser: what
  it sent last, or an answer with the two numbers it waits for. The numbers
  agree because the addition byte by byte, with its carries, is one modulo the
  four bytes (`StepSeqIs`); from it `ServerAnswers`. For `Packets`, two facts about
  sums: to add the carry until there is none leaves the sum modulo the largest
  word (`EndAroundIs`), and two packets that differ in one word have sums that
  differ as the words do (`WordChanged`). So what is summed up comes to a
  multiple of the largest word (`FilledVerifies`), and the correction of a reply
  takes from the sum nothing or one largest word, the carry around
  (`TwoWords`, `ReplyVerifies`); from it `ChecksumsAreTaken`.
* `AddressProofs`. For `Resolver`, `ArpInv` says what the resolver's one question
  is about in each state, so that an answer is taken for the gateway or the
  server only when it is; from it `MacsAreRight`. `LookupInv` says which question
  numbers may be under way about which host; from it `AnswersAreForHost`, of
  lookups that were answered. For
  `Dhcp`, `LeaseInv`: the last offer was taken from its server, and an ACK under
  way belongs to a request; from it `LeaseIsHeld`.
* `DriverProofs`. For `RxRing`, `RingInv` adds the link from frame to frame and
  the evenness of every start, which makes the byte before it odd; from it
  `FramesStayInOrder`. `KeptInv` adds where the frames that wait lie: as long as
  nothing was written over they follow one another from the driver's pointer to
  the chip's, and what they take leaves free the byte in front of the driver's; from it `WaitingFramesKept`. For `TwoWire`, the bus is held
  only in the course of a transfer or after a wait that ended by the counter;
  from it `BusIsReleased`. `ResultsInv` says which transfers are left in each of
  the expander's calls, how far the present one is, what register the chip
  has been told by then, and that a byte that was read without an error so far is
  what the inputs were; from it `ReportsAreTrue`, since only such a byte is
  kept. For `SensorTable`,
  `ScansAreComplete`. Two devices differ in a first bit
  (`FirstDifference`), and the one with a one there is `Earlier`. After each bit
  of a pass, `Reached` says that the devices still addressed are those that agree
  with any one of them so far, and that `next_diff` is the last fork at which
  they have the one (`LastFork`). The first pass takes the one at every fork,
  since `OW_SEARCH_FIRST` is above every number of a bit, and ends at the first
  device (`FirstPass`); a later one ends at the next in the order (`LaterPass`).
  `Scanned` is what that comes to after any number of passes: the scan has the
  devices up to the last one found, and all when no fork is left.
  `SensorsStored` is about the table. `Sound` holds of the record that the loops
  of readings, alarms and pages pass on, after each of their rounds. Its part
  `OneEach`: `findSensor` writes a code only where no entry of the table has it,
  and what its callers store goes where the code already is; from it
  `EntriesAreOne`. Its part `Faithful` is needed for what the entries say: as long
  as no more codes were looked up than there are entries, the entries in use are
  those in front of `nextSensorPos`, each of another code that was looked up, so
  that the table has not started over (`EntryFits`), and each says what the
  last scratchpad of its sensor does. That needs a scan to give sensors only, and
  that what is converted is what was measured: `ReadingIsTrue`, by the arithmetic
  of sixteen bits, for every scratchpad a sensor can have (`PadAssumption`,
  `PowerOnAssumption`, `Scratchpads`: twelve bits of a DS18B20, nine of a
  DS18S20, as their data sheets have it). For the pins, `PinsInv`: the values
  kept of a pin are those of what was measured well last. An answer with a
  wrong bit is never taken, wherever the bit is, because its weight is less than
  256 (`FlippedIsSeen`), and one without gives back what was measured
  (`AnswerIs`). From both, and from what the reports are made of
  (`ReportsArePages`, `FullPagesAre`), `ReadingsAreTold`.
* `LcdRemoteIOProofs`. `LcdInv` adds that without a gap the defined screens are the
  first ones, which makes their number the number behind the last; from it
  `ShownScreenIsDefined`. It rests on lemmas about the cardinality of such a
  set. `LcdKeepsToWishes` needs of it that a screen that is shown is none of the
  numbers that stand for waiting. For `RemoteIO`, a step is a whole reply, so the
  invariant `DeviceOK` is one of the record that `Line` works on: an event that
  was run has an id of at most `last_rio_event`, every earlier one has been run
  or is too old, an entry in use belongs to an event that was run and to which no
  other entry does.
  From it `OnceTheorem` and `OrderTheorem`, for every list of growing ids. The
  same record gives the refinement `TimersTheorem`: a line, and a tick of the
  table, maps to one step of the timers or none.
* `SettingsProofs`. `SettingsInv` has four parts besides the types of the cells.
  `TodoInv` says which bytes may still be to be written in which part of the
  start-up: none but the copy of the counts and the defaults goes to a count,
  and the version is written by its own part only. `ReachInv`: as long as the
  address is missing it is still to be written, with everything a device needs
  that is reached before it; a web port that was there stays. `MigrateInv`: an old count is in its new place or
  the version still says that it is to be copied, also after a power loss
  between any two of its bytes. `PinsInv` links the debounce bits to the levels
  seen. From it `DeviceIsReached`, `OldCountsAreMoved` and `CountsAreEdges`, for
  every base of a byte and every number of pins. The lemmas before it are about
  numbers of four bytes and about lists of writes. For `Forms`, `FormsInv` is
  short: a page holds what was typed in its form, or the address with that form
  is still to be served; a number is the one typed if it fits a cell. What takes the work is a single save, since the functions
  go through an address character by character and call themselves.
  `Silent` says of a part of an address that `find_key_val` passes over it when it
  looks for a name: it has no blank, and no `=` behind the name with a mark before
  it. Parts of other fields are silent (`PartSilent`), because the browser writes
  the signs that begin a field as hexadecimal digits (`WrittenIs`), and so is what
  silent parts make together (`SilentTwo`). So an address is cut into what comes
  before the field, the field and the rest, the value is found and copied up to
  the next mark (`FieldFound`, `FieldIs`), and `urldecode` gives back what was
  typed (`DecodedIs`). A number that is left empty, which the run does not have,
  is in the theorem. The text that is read from the cells ends with the 0 that
  was saved with it (`TextInIs`), whatever lay there; from it `FormsAreSaved`.

An induction over a list, as over the lines of a reply, is out of the provers'
reach as such. It is replaced by a least counterexample: the set of the places
where a claim fails has a least member if it is not empty (`LeastNumber`, from the
well-foundedness of the natural numbers), and the step from the place before it
shows that it does not fail there. A text that is read from the left is taken
from its end (`FromTheEnd`).

Checked by TLC only: liveness, which is out of the provers' reach. Every
invariant and every other action property of a passing run has a theorem.

## Order of the work

Queue, scheduler, main loop; TCP client, web client, remote IO; DHCP, resolver;
sensor table with alarms, settings with counters and start-up; receive ring,
server, expander; LCD screens, packets, forms; readings. The proofs followed the
same order, then the refinements, the EEPROM, the timing of the main loop,
the server, the checksums, the sensor table, the search of a bus, what is told
of the sensors, the forms. A next step would be `RxRing` and `TcpServer` composed
with a chip that drops frames when it is full.

## Not modelled

* Signal timing and register access: 1-wire slots, DHT, ADC, SPI, the LCD's
  bus, the serial output. They are pure I/O; their results are choices in the
  modules above. Sending in the Ethernet driver is part of this.
* The texts of the pages, in `web.c` and `webFiles.c`, but for the readings in
  them; the decoding of base64.
* What the firmware never calls: renewal of a lease, `client_http_post`,
  `i2ceeprom.c`, `twiWriteNoStop`, `twimaster.c`; and what its configuration
  leaves out: NTP, Wake-on-LAN, the ping client.
* `src/Libraries` and the sketches in `src/S4`: ports of parts to other boards,
  and third-party code. The `Queue` class there is not the queue of S3.
