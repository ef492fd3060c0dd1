---------------------------- MODULE SensorTable ----------------------------
(***************************************************************************)
(* The temperatures of S3: ds18x20.c and onewire.c read the sensors of     *)
(* three 1-wire buses into the table sensorValues, timedAlarmCheck of      *)
(* test_web_client.c compares the entries with its alarms and switches     *)
(* relays, pages of web.c list the alarms and set them.                    *)
(*                                                                         *)
(* An entry belongs to a ROM code.  findSensor returns the entry of a code *)
(* and makes one where there is none, for readings, alarms and pages alike;*)
(* it starts over at the first entry when it has used the last one, which  *)
(* is one behind the end of the array.  The search puts the codes it finds *)
(* into sensorScan, which is the buffer tempbuf: so does a CoAP message.   *)
(*                                                                         *)
(* The bits of a bus, its search included, are modelled; their timing is   *)
(* not.  A read may fail its CRC.                                          *)
(***************************************************************************)
EXTENDS Integers, Sequences, FiniteSetsExt, SequencesExt

CONSTANTS
  Slots,      \* entries of the table (MAXSENSORS, 50)
  Channels,   \* number of buses (3)
  RomBits,    \* bits of a ROM code (64)
  Family,     \* the kind of each device: ROM code -> 0x10, 0x28 or another
  Pads,       \* scratchpads a sensor may have: [meas, conf, remain]
  PowerOn,    \* its scratchpad before the first conversion
  Alarms,     \* a sequence: what the page has set, [cond, target, pin, state, reverse]
  NumRelays   \* pins 1 .. 4

Roms == DOMAIN Family
None == 0
ChannelNo == 1 .. Channels
Alarm == 1 .. Len(Alarms)
Table == 0 .. Slots - 1
DS18S20_ID == 16
DS18B20_ID == 40
OW_SEARCH_FIRST == 255

(* 2 to the n-th, the weight of bit n. *)
Power[n \in 0 .. OW_SEARCH_FIRST] == IF n = 0 THEN 1 ELSE 2 * Power[n - 1]

ASSUME SizesAssumption ==
  Slots \in Nat \ {0} /\ Channels \in Nat \ {0} /\ Len(Alarms) \in Nat

ASSUME RomAssumption ==
  RomBits \in 1 .. OW_SEARCH_FIRST - 1 /\ Roms \subseteq 1 .. Power[RomBits] - 1

ASSUME PadAssumption ==
  \A p \in Pads : /\ p.meas \in Nat /\ p.meas < 65536 /\ p.conf \in 0 .. 3
                   /\ p.remain \in Nat /\ p.remain < 256

(* What a device can measure: two's complement, of which a DS18B20 uses twelve *)
(* bits and a DS18S20 nine; the bits above are copies of the sign.             *)
Signed(meas) == IF meas >= 32768 THEN meas - 65536 ELSE meas

Scratchpads(d) ==
  LET limit == IF Family[d] = DS18S20_ID THEN 256 ELSE 2048
  IN  {p \in Pads : -limit <= Signed(p.meas) /\ Signed(p.meas) < limit}

ASSUME PowerOnAssumption == \A d \in Roms : PowerOn \in Scratchpads(d)

VARIABLES
  bus,            \* the channel of each device, or None
  pad,            \* the scratchpad of each device
  DS18B20Conv,    \* a conversion has been started
  table,          \* sensorValues and the memory behind it
  nextSensorPos,
  coapclient,
  alarm,          \* of each alarm in EEPROM: enabled, the ROM code
  relay,          \* PORTC
  lastRead,       \* history: the set of the scratchpad last read of each sensor
  looked          \* history: the codes findSensor was called with

wires == <<bus, pad>>
entries == <<table, nextSensorPos, looked>>
set == <<coapclient, alarm>>
sensorVars == <<wires, DS18B20Conv, entries, set, relay, lastRead>>

(* The serial number chip of the board is a device, too. *)
IsSensor(d) == Family[d] \in {DS18S20_ID, DS18B20_ID}

Plugged == {d \in Roms : bus[d] # None /\ IsSensor(d)}

NoEntry == [rom |-> None, sign |-> "none", cel |-> 0, frac |-> 0]

SensorInit ==
  /\ bus = [d \in Roms |-> IF IsSensor(d) THEN None ELSE 1]
  /\ pad = [d \in Roms |-> PowerOn]
  /\ DS18B20Conv = FALSE
  /\ table = [k \in 0 .. Slots |-> NoEntry]
  /\ nextSensorPos = 0
  /\ coapclient \in BOOLEAN
  /\ alarm = [a \in Alarm |-> [on |-> FALSE, rom |-> None]]
  /\ relay = [p \in 1 .. NumRelays |-> 0]
  /\ lastRead = [d \in Roms |-> {}]
  /\ looked = {}

-----------------------------------------------------------------------------
(* The search for the devices D of a bus.  Bit by bit, lowest first, all     *)
(* devices that are still addressed answer with the bit and its complement;  *)
(* where they differ, the search takes the branch the last pass did not (for *)
(* the mutation runs: it takes the other branch at every fork).              *)
Bit(code, k) == (code \div Power[k]) % 2

TakesOneAlways(diff, i, before) == diff >= i \/ before = 1

TakesOne(diff, i, before) == diff > i \/ (before = 1 /\ diff # i)

(* The wire is low if one device pulls it low. *)
ow_read_bit(bits) == Min(bits)

ow_reset(D) == D = {}

(* One turn of the loop: a bit of the code, and who is addressed by it. *)
AddressBit(s, k, diff, id) ==
  LET i == RomBits - k
      first == ow_read_bit({Bit(d, k) : d \in s.addressed})
      complement == ow_read_bit({1 - Bit(d, k) : d \in s.addressed})
      fork == first = 0 /\ complement = 0
      b == IF fork /\ TakesOne(diff, i, Bit(id, k)) THEN 1 ELSE first
  IN  [addressed |-> {d \in s.addressed : Bit(d, k) = b},
       id |-> s.id + b * Power[k],
       diff |-> IF fork /\ b = 1 THEN i ELSE s.diff]

ow_rom_search(D, diff, id) ==
  LET at[k \in 0 .. RomBits] ==
        IF k = 0 THEN [addressed |-> D, id |-> 0, diff |-> 0]
        ELSE AddressBit(at[k - 1], k - 1, diff, id)
  IN  at[RomBits]

(* A pass finds one device, unless the one before found the last. *)
NextPass(D, s) ==
  LET r == ow_rom_search(D, s.diff, s.id)
  IN  IF s.diff = 0 THEN s
      ELSE [diff |-> r.diff, id |-> r.id, scan |-> Append(s.scan, r.id)]

(* Passes until the last device is found or the scan is full; none when no   *)
(* device answers the reset.                                                 *)
search_sensors(D, max) ==
  LET after[n \in 0 .. max] ==
        IF n = 0 THEN [diff |-> OW_SEARCH_FIRST, id |-> 0, scan |-> << >>]
        ELSE NextPass(D, after[n - 1])
  IN  IF ow_reset(D) THEN << >> ELSE after[max].scan

-----------------------------------------------------------------------------
(* The 12 bits of a scratchpad as sign, degrees and sixteenths; a DS18S20    *)
(* has half degrees and a remainder, a DS18B20 leaves low bits undefined     *)
(* when set to a lower resolution.                                           *)
Raw(family, p) ==
  IF family = DS18S20_ID THEN ((p.meas - (p.meas % 2)) * 8 + (16 - p.remain) - 4) % 65536
  ELSE p.meas

Defined(family, meas, conf) ==
  IF family = DS18B20_ID THEN meas - (meas % Power[3 - conf]) ELSE meas

Sign(raw) == IF raw >= 32768 THEN "-" ELSE "+"

DS18X20_meas_to_cel(family, p) ==
  LET raw == Raw(family, p)
      meas == Defined(family, IF Sign(raw) = "-" THEN 65536 - raw ELSE raw, p.conf)
  IN  [sign |-> Sign(raw), cel |-> (meas \div 16) % 256, frac |-> meas % 16]

(* findSensor: the first entry of the code, or a new one (for the mutation   *)
(* runs: the last entry is not seen).                                        *)
SeesAllButLast(slots, rom) == {k \in 0 .. Slots - 2 : slots[k].rom = rom}

EntriesOf(slots, rom) == {k \in Table : slots[k].rom = rom}

Wrapped(next) == IF next > Slots THEN 0 ELSE next

findSensor(t, rom) ==
  LET found == EntriesOf(t.table, rom)
      new == Wrapped(t.next)
      s == [t EXCEPT !.looked = @ \cup {rom}]
  IN  IF found # {} THEN [s EXCEPT !.pos = Min(found)]
      ELSE [s EXCEPT !.table[new].rom = rom, !.next = new + 1, !.pos = new]

Store(t) ==
  /\ table' = t.table
  /\ nextSensorPos' = t.next
  /\ looked' = t.looked

-----------------------------------------------------------------------------
(* The wires: a device is plugged in, or out, which powers it off. *)
Plug(d, c) ==
  /\ IsSensor(d) /\ bus[d] = None
  /\ bus' = [bus EXCEPT ![d] = c]
  /\ UNCHANGED <<pad, DS18B20Conv, entries, set, relay, lastRead>>

Unplug(d) ==
  /\ IsSensor(d) /\ bus[d] # None
  /\ bus' = [bus EXCEPT ![d] = None]
  /\ pad' = [pad EXCEPT ![d] = PowerOn]
  /\ UNCHANGED <<DS18B20Conv, entries, set, relay, lastRead>>

(* The command to convert is for all devices. *)
DS18X20_start_meas(D) ==
  \E temps \in [D -> Pads] :
    /\ \A d \in D : temps[d] \in Scratchpads(d)
    /\ pad' = [d \in Roms |-> IF d \in D THEN temps[d] ELSE pad[d]]

(* Every other call of updateOWSensors starts a conversion on all buses...   *)
StartConversion ==
  /\ ~DS18B20Conv
  /\ DS18B20Conv' = TRUE
  /\ DS18X20_start_meas(Plugged)
  /\ UNCHANGED <<bus, entries, set, relay, lastRead>>

(* ...and every other call reads what was measured.  A changed value is sent *)
(* over CoAP, from the buffer that holds the rest of the scan.               *)
(* For the mutation runs: a failed read stores a zero. *)
StoresFailure(t, d) ==
  LET f == findSensor(t, d) IN [f EXCEPT !.table[f.pos].cel = 0]

KeepsOld(t, d) == t

ReadSensor(t, d, bad) ==
  IF t.lost \/ ~IsSensor(d) THEN t
  ELSE IF d \in bad THEN KeepsOld(t, d)
  ELSE LET f == findSensor(t, d)
           v == DS18X20_meas_to_cel(Family[d], pad[d])
           entry == [rom |-> d, sign |-> v.sign, cel |-> v.cel, frac |-> v.frac]
       IN  [f EXCEPT !.table[f.pos] = entry,
                     !.read = @ \cup {d},
                     !.lost = coapclient /\ entry # f.table[f.pos]]

(* One bus: the sensors that the search has found, in the order of the scan.  *)
Devices(c) == {d \in Roms : bus[d] = c}

ReadBus(t, c, bad) ==
  LET scan == search_sensors(Devices(c), Slots)
      after[n \in 0 .. Len(scan)] ==
        IF n = 0 THEN [t EXCEPT !.lost = FALSE] ELSE ReadSensor(after[n - 1], scan[n], bad)
  IN  after[Len(scan)]

updateOWSensors(bad) ==
  LET after[c \in 0 .. Channels] ==
        IF c = 0 THEN [table |-> table, next |-> nextSensorPos, looked |-> looked,
                       pos |-> 0, read |-> {}, lost |-> FALSE]
        ELSE ReadBus(after[c - 1], c, bad)
      end == after[Channels]
  IN  /\ DS18B20Conv
      /\ DS18B20Conv' = FALSE
      /\ Store(end)
      /\ lastRead' = [d \in Roms |-> IF d \in end.read THEN {pad[d]} ELSE lastRead[d]]
      /\ UNCHANGED <<wires, set, relay>>

-----------------------------------------------------------------------------
(* timedAlarmCheck looks at the whole degrees of an entry (an int8_t); what  *)
(* is behind the table may be anything.                                      *)
Degrees(e) ==
  LET signed == IF e.cel >= 128 THEN e.cel - 256 ELSE e.cel
  IN  IF e.sign = "-" THEN -signed ELSE signed

Fires(a, value) ==
  \/ Alarms[a].cond = 1 /\ value < Alarms[a].target
  \/ Alarms[a].cond = 2 /\ value = Alarms[a].target
  \/ Alarms[a].cond = 3 /\ value > Alarms[a].target

CheckAlarm(t, a, behind) ==
  IF ~alarm[a].on THEN t
  ELSE LET f == findSensor(t, alarm[a].rom)
           value == IF f.pos = Slots THEN behind ELSE Degrees(f.table[f.pos])
           pin == Alarms[a].pin
       IN  IF pin \notin 1 .. NumRelays THEN f
           ELSE IF Fires(a, value) THEN [f EXCEPT !.relay[pin] = Alarms[a].state]
           ELSE IF Alarms[a].reverse THEN [f EXCEPT !.relay[pin] = 1 - Alarms[a].state]
           ELSE f

timedAlarmCheck(behind) ==
  LET after[a \in 0 .. Len(Alarms)] ==
        IF a = 0 THEN [table |-> table, next |-> nextSensorPos, looked |-> looked,
                       pos |-> 0, relay |-> relay]
        ELSE CheckAlarm(after[a - 1], a, behind)
      end == after[Len(Alarms)]
  IN  /\ Store(end)
      /\ relay' = end.relay
      /\ UNCHANGED <<wires, DS18B20Conv, set, lastRead>>

(* The pages: the list of the alarms looks their sensors up; an alarm is set *)
(* to the sensor that is in an entry now; CoAP is switched on or off.        *)
ListAlarm(t, a) == IF alarm[a].rom = None THEN t ELSE findSensor(t, alarm[a].rom)

print_alarmlist ==
  LET after[a \in 0 .. Len(Alarms)] ==
        IF a = 0 THEN [table |-> table, next |-> nextSensorPos, looked |-> looked, pos |-> 0]
        ELSE ListAlarm(after[a - 1], a)
  IN  /\ Store(after[Len(Alarms)])
      /\ UNCHANGED <<wires, DS18B20Conv, set, relay, lastRead>>

SaveAlarm(a, k, on) ==
  /\ alarm' = [alarm EXCEPT ![a] = [on |-> on, rom |-> table[k].rom]]
  /\ UNCHANGED <<wires, DS18B20Conv, entries, coapclient, relay, lastRead>>

SaveCoap ==
  /\ coapclient' = ~coapclient
  /\ UNCHANGED <<wires, DS18B20Conv, entries, alarm, relay, lastRead>>

(* A restart empties the table (loadSimpleSensorData); the devices and the   *)
(* settings stay.                                                           *)
SensorRestart ==
  /\ DS18B20Conv' = FALSE
  /\ table' = [k \in 0 .. Slots |-> NoEntry]
  /\ nextSensorPos' = 0
  /\ looked' = {}
  /\ lastRead' = [d \in Roms |-> {}]
  /\ relay' = [p \in 1 .. NumRelays |-> 0]
  /\ UNCHANGED <<wires, set>>

SensorNext ==
  \/ \E d \in Roms : Unplug(d) \/ \E c \in ChannelNo : Plug(d, c)
  \/ StartConversion
  \/ \E bad \in SUBSET Plugged : updateOWSensors(bad)
  \/ \E e \in {DS18X20_meas_to_cel(DS18B20_ID, p) : p \in Pads} : timedAlarmCheck(Degrees(e))
  \/ print_alarmlist
  \/ \E a \in Alarm, k \in Table, on \in BOOLEAN : SaveAlarm(a, k, on)
  \/ SaveCoap
  \/ SensorRestart

SensorSpec == SensorInit /\ [][SensorNext]_sensorVars

-----------------------------------------------------------------------------
(* Readings, alarms and pages make entries in any order, and the table starts *)
(* over, once behind its end: a sensor never has two entries, of which the    *)
(* alarms would see one and the readings fill the other.                      *)
OneEntryEach ==
  \A j, k \in Table : table[j].rom # None /\ table[j].rom = table[k].rom => j = k

(* What a scratchpad means, in sixteenths of a degree, after the data sheets: *)
(* two's complement, cut towards zero at the resolution that is set; for a    *)
(* DS18S20 whole degrees less a quarter plus the remainder.                   *)
Cut(t, unit) == IF t < 0 THEN -((-t) \div unit) * unit ELSE (t \div unit) * unit

Sixteenths(family, p) ==
  IF family = DS18S20_ID THEN (Signed(p.meas) \div 2) * 16 - 4 + 16 - p.remain
  ELSE Cut(Signed(p.meas), Power[3 - p.conf])

(* Whatever devices share a bus, the search finds each of them once, or fills *)
(* the scan.                                                                  *)
ScanFindsAll ==
  \A c \in ChannelNo :
    LET D == Devices(c)
        scan == search_sensors(D, Slots)
    IN  /\ ToSet(scan) \subseteq D
        /\ Cardinality(ToSet(scan)) = Len(scan)
        /\ Len(scan) = Min({Slots, Cardinality(D)})
=============================================================================
