------------------------------ MODULE Readings ------------------------------
(***************************************************************************)
(* What pages, uploads and messages of S3 tell of its sensors: the entries  *)
(* of the sensor table, the temperature and humidity of the DHT sensors on  *)
(* the digital pins, which dht.c reads and web.c turns into numbers again,  *)
(* and the values of the pins themselves, of which only the place is kept.  *)
(*                                                                         *)
(* A page only reads; it is the set of what it tells: the text around that *)
(* is left out, and so are the pins of the board with a port expander.  A  *)
(* DHT sensor sends five bytes, or stops answering, or one bit of them     *)
(* arrives wrong.                                                          *)
(***************************************************************************)
EXTENDS SensorTable

CONSTANTS
  DhtPins,   \* digital pins (0 .. 3)
  Air,       \* what there is to measure, in tenths: [temperature, humidity]
  Noise      \* bits that may arrive wrong, one at a time: <<byte, bit>>

TYPE_DHT22 == 4
TYPE_DHT11 == 5
OtherType == 0

DhtPin == 0 .. DhtPins - 1
AnalogPlaces == 0 .. 7
DigitalPlaces == 8 .. 11

ASSUME ReadingsAssumption ==
  /\ DhtPins \in 1 .. 4
  /\ \A a \in Air : /\ a.temperature \in Int /\ -400 <= a.temperature /\ a.temperature <= 1250
                    /\ a.humidity \in Nat /\ a.humidity <= 1000
  /\ Noise \subseteq (1 .. 5) \X (0 .. 7)

VARIABLES
  simpleTypes,   \* simpleSensorTypes 8 .. 11
  dht,           \* simpleSensorValues 50 .. 57, as signed numbers
  lastAir        \* history: the set of what was last measured well, per pin

pinVars == <<simpleTypes, dht, lastAir>>

PinTypes == [DhtPin -> {OtherType, TYPE_DHT11, TYPE_DHT22}]

NoValues == [i \in DhtPin |-> [temperature |-> 0, humidity |-> 0]]

PinsInit ==
  /\ simpleTypes \in PinTypes
  /\ dht = NoValues
  /\ lastAir = [i \in DhtPin |-> {}]

-----------------------------------------------------------------------------
(* The sensor: two bytes of humidity, two of temperature, their sum.  A DHT22 *)
(* sends tenths, the temperature as its size and a sign bit; a DHT11 whole    *)
(* numbers, and none below zero.                                              *)
Size(t) == IF t < 0 THEN -t ELSE t

Summed(b) == Append(b, (b[1] + b[2] + b[3] + b[4]) % 256)

Transmits(dht22, a) ==
  IF dht22
  THEN Summed(<<a.humidity \div 256, a.humidity % 256,
                Size(a.temperature) \div 256 + (IF a.temperature < 0 THEN 128 ELSE 0),
                Size(a.temperature) % 256>>)
  ELSE Summed(<<a.humidity \div 10, 0, Size(a.temperature) \div 10, 0>>)

Flipped(bits, byte, bit) ==
  [bits EXCEPT ![byte] = IF Bit(@, bit) = 1 THEN @ - Power[bit] ELSE @ + Power[bit]]

NoAnswer == << >>

Arrives(bits) ==
  {NoAnswer, bits} \cup {Flipped(bits, n[1], n[2]) : n \in Noise}

(* What the answer gives, or nothing: int16_t numbers (for the mutation runs: *)
(* the sum is not looked at).                                                 *)
AnySum(bits) == bits # NoAnswer

SumIsRight(bits) ==
  bits # NoAnswer /\ (bits[1] + bits[2] + bits[3] + bits[4]) % 256 = bits[5]

dht_getdata(bits, dht22) ==
  IF ~SumIsRight(bits) THEN {}
  ELSE IF dht22 THEN {[humidity |-> Signed(256 * bits[1] + bits[2]),
                       temperature |-> Signed(256 * bits[3] + bits[4])]}
  ELSE {[humidity |-> bits[1], temperature |-> bits[3]]}

Measurable(type) == IF type = TYPE_DHT11 THEN {a \in Air : a.temperature >= 0} ELSE Air

(* The values a pin may have after its turn, with what was measured well last; *)
(* a pin that gives nothing keeps its values.                                  *)
HasDht(i) == simpleTypes[i] \in {TYPE_DHT11, TYPE_DHT22}

Read(i, a, bits) ==
  LET dht22 == simpleTypes[i] = TYPE_DHT22
      got == dht_getdata(bits, dht22)
  IN  {[values |-> v, air |-> IF bits = Transmits(dht22, a) THEN {a} ELSE lastAir[i]] :
         v \in IF got = {} THEN {dht[i]} ELSE got}

Outcomes(i) ==
  IF ~HasDht(i) THEN {[values |-> dht[i], air |-> lastAir[i]]}
  ELSE LET dht22 == simpleTypes[i] = TYPE_DHT22
       IN  UNION {UNION {Read(i, a, bits) : bits \in Arrives(Transmits(dht22, a))} :
                    a \in Measurable(simpleTypes[i])}

getDHTData ==
  /\ \E after \in [DhtPin -> UNION {Outcomes(i) : i \in DhtPin}] :
       /\ \A i \in DhtPin : after[i] \in Outcomes(i)
       /\ dht' = [i \in DhtPin |-> after[i].values]
       /\ lastAir' = [i \in DhtPin |-> after[i].air]
  /\ UNCHANGED simpleTypes

(* A user sets the types of the pins, which ends in a restart. *)
PinsRestart ==
  /\ simpleTypes' \in PinTypes
  /\ dht' = NoValues
  /\ lastAir' = [i \in DhtPin |-> {}]

PinsNext == getDHTData \/ PinsRestart

PinsSpec == PinsInit /\ [][PinsNext]_pinVars

-----------------------------------------------------------------------------
(* A line about a sensor of the table, in ten thousandths of a degree: the    *)
(* sixteenths times DS18X20_FRACCONV with leading zeros.  The sign of an      *)
(* entry that was never read is the end of a string: no number is told.       *)
DS18X20_FRACCONV == 625

EntryLine(k) ==
  LET e == table[k]
      size == 10000 * e.cel + DS18X20_FRACCONV * e.frac
  IN  [rom |-> e.rom,
       tells |-> IF e.sign = "none" THEN {} ELSE IF e.sign = "-" THEN {-size} ELSE {size}]

(* A DHT22's temperature below zero is told by the sign bit of pin 0's, of    *)
(* whatever pin it is; one that is not seen makes 2^32 - n of it (for the     *)
(* mutation runs: the bit is not taken off).                                  *)
MagnitudeWithSign(v) == v

Magnitude(v) == v % 32768

Below(v) == v < 0

Told(number) == [number |-> number, unsigned |-> FALSE]

Unsigned(v) == [number |-> v, unsigned |-> v < 0]

Temperature(i) ==
  IF simpleTypes[i] = TYPE_DHT11 THEN Told(10 * dht[i].temperature)
  ELSE IF Below(dht[0].temperature) THEN Told(-Magnitude(dht[i].temperature))
  ELSE Unsigned(dht[i].temperature)

Humidity(i) ==
  Told(IF simpleTypes[i] = TYPE_DHT11 THEN 10 * dht[i].humidity ELSE dht[i].humidity)

DhtLine(i) == [pin |-> i, temperature |-> Temperature(i), humidity |-> Humidity(i)]

Page(slots, places, pins) ==
  [entries |-> {EntryLine(k) : k \in {j \in slots : table[j].rom # None}},
   places  |-> places,
   dhts    |-> {DhtLine(i) : i \in {j \in pins : HasDht(j)}}]

Blank == Page({}, {}, {})

print_export_htm == Page(Table, AnalogPlaces \cup DigitalPlaces, DhtPin)

print_export_json == Page(Table, AnalogPlaces \cup DigitalPlaces, DhtPin)

(* Nothing while addresses are missing; only the first four analog pins. *)
print_webpage(waiting) ==
  IF waiting THEN Blank ELSE Page(Table, (0 .. 3) \cup DigitalPlaces, DhtPin)

print_sensorlist == Page(Table, {}, {})

(* Uploads have the readings, other requests of the web client do not. *)
fill_custom_client_data(httpType) ==
  IF httpType # 1 THEN Blank ELSE Page(Table, AnalogPlaces \cup DigitalPlaces, DhtPin)

(* A message over CoAP, when that is switched on. *)
coap_prepare(slots, places) == IF coapclient THEN Page(slots, places, {}) ELSE Blank

coap_send_digital == coap_prepare({}, DigitalPlaces)
coap_send_analog == coap_prepare({}, AnalogPlaces)
coap_send_OW(pos) == coap_prepare({pos}, {})

FullPages == {print_export_htm, print_export_json, print_webpage(FALSE),
         fill_custom_client_data(1)}

Reports == FullPages \cup {print_webpage(TRUE), print_sensorlist, fill_custom_client_data(2),
                      coap_send_digital, coap_send_analog}
           \cup {coap_send_OW(k) : k \in Table}

-----------------------------------------------------------------------------
(* As long as no more codes are looked up than the table has entries, what is *)
(* told of a 1-wire sensor is its own last good reading, or zero or nothing   *)
(* when there was none since the start: failed reads, sensors that come and   *)
(* go and lookups by alarms never mix values up.                              *)
EntriesTrue(page) ==
  Cardinality(looked) <= Slots =>
    \A e \in page.entries :
      \/ lastRead[e.rom] = {} /\ e.tells \subseteq {0}
      \/ \E p \in lastRead[e.rom] : e.tells = {DS18X20_FRACCONV * Sixteenths(Family[e.rom], p)}

(* What is told of a DHT sensor is what it last measured well, at the         *)
(* resolution it has, unless it is a DHT22 and its sign is not that of the    *)
(* value of pin 0.                                                            *)
OtherSign(i, a) ==
  simpleTypes[i] = TYPE_DHT22 /\ a.temperature # 0
  /\ (a.temperature < 0) # (dht[0].temperature < 0)

Meant(i, tenths) ==
  IF simpleTypes[i] = TYPE_DHT11 THEN 10 * (tenths \div 10) ELSE tenths

DhtTrue(page) ==
  \A d \in page.dhts :
    \A a \in lastAir[d.pin] :
      /\ d.humidity = Told(Meant(d.pin, a.humidity))
      /\ OtherSign(d.pin, a) \/ d.temperature = Told(Meant(d.pin, a.temperature))

(* Every page and message tells the truth, and those that list all sensors    *)
(* leave none out.                                                            *)
ReadingsTold ==
  /\ \A page \in Reports : EntriesTrue(page) /\ DhtTrue(page)
  /\ \A page \in FullPages \cup {print_sensorlist} :
       {e.rom : e \in page.entries} = {table[k].rom : k \in Table} \ {None}
  /\ \A page \in FullPages : {d.pin : d \in page.dhts} = {i \in DhtPin : HasDht(i)}
=============================================================================
