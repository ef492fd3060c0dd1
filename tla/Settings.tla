------------------------------ MODULE Settings ------------------------------
(***************************************************************************)
(* What S3 keeps in its EEPROM: main writes the defaults into an empty one *)
(* and brings the layout of an older firmware up to date, in both cases    *)
(* byte by byte and with the mark or the version number that says so in    *)
(* one of the bytes; loadSimpleSensorData gets the types and counters of   *)
(* the pins from it; the interrupt counts (updateCounters), and            *)
(* timedSaveEeprom saves the counts; pages save settings, and some of them *)
(* then let the watchdog restart the device.  Power may fail at any time.  *)
(*                                                                         *)
(* Addresses are those of eeprom.h; the layouts say which of them a run    *)
(* follows, writes to others are left out.  Of settings that are written   *)
(* together one byte stands for the others.  A counter has four bytes of   *)
(* base Byte.                                                              *)
(***************************************************************************)
EXTENDS Integers, Sequences, SequencesExt

CONSTANTS
  Byte,        \* values of a byte of a counter (256)
  NumAnalog,   \* pins 0 .. 7
  NumDigital,  \* pins 0 .. 3
  Layouts,     \* what the EEPROM may hold when this firmware starts first
  Passwords,   \* what a user sets as password
  Types,       \* the types a user gives a pin
  Readings,    \* values of the analog converter
  MaxPulses    \* bound: pulses on the pins between two starts

ASSUME SettingsAssumption ==
  /\ Byte \in Nat \ {0, 1}
  /\ NumAnalog \in 1 .. 8 /\ NumDigital \in 0 .. 4 /\ NumDigital <= NumAnalog
  /\ Passwords \subseteq Seq(Nat) /\ \A p \in Passwords : Len(p) <= 9
  /\ MaxPulses \in Nat

VARIABLES
  eeprom,
  block,     \* part of the start-up: 1 .. 6, or Running
  todo,      \* bytes still to be written by what main is doing
  saving,    \* the pin timedSaveEeprom is at, or 0
  dying,     \* while (true): the watchdog restarts the device after the save
  simpleSensorTypes, simpleSensorValues, simpleSensorDebounce,
  password,  \* history: the bytes at 200 as defaults and users set them
  meant,     \* history: the counts in the EEPROM as it was at first, or -1
  ported,    \* history: it was empty at first, or had a web port
  loaded, seen, edges   \* history: counts at the start, last levels, rises

ram == <<simpleSensorTypes, simpleSensorValues, simpleSensorDebounce>>
history == <<password, meant, ported, loaded, seen, edges>>
doing == <<block, todo, saving, dying>>
settingsVars == <<eeprom, doing, ram, history>>

Erased == 255
EEPROM_VERSION == 5
Running == 7
TYPE_DIGOUT == 0
TYPE_ADC == 1
TYPE_DIGIN == 2
TYPE_COUNTER == 3

Pin == 1 .. NumAnalog + NumDigital
Analog(n) == n <= NumAnalog
Index(n) == IF Analog(n) THEN n - 1 ELSE n - NumAnalog - 1

TypeAt(n) == IF Analog(n) THEN 100 + Index(n) ELSE 110 + Index(n)
CountAt(n) == IF Analog(n) THEN 2000 + 4 * Index(n) ELSE 2500 + 4 * Index(n)
WordAt(n) == IF Analog(n) THEN 140 + 2 * Index(n) ELSE 160 + 2 * Index(n)

TypeCells == {TypeAt(n) : n \in Pin}
CountCells == UNION {CountAt(n) .. CountAt(n) + 3 : n \in Pin}
WordCells == UNION {{WordAt(n), WordAt(n) + 1} : n \in Pin}

(* The EEPROM has never been written, or another firmware has set it up,     *)
(* which may have known of no web port.                                      *)
ASSUME LayoutAssumption ==
  \A e \in Layouts :
    /\ {0, 1, 10, 11, 23} \cup TypeCells \cup CountCells \cup WordCells \subseteq DOMAIN e
    /\ e[1] \in Nat
    /\ \A c \in CountCells \cup WordCells : e[c] \in 0 .. Byte - 1
    /\ \/ e[0] = Erased /\ e[11] = Erased
       \/ Erased \notin {e[0], e[11]} /\ e[10] \in {0, 1}

(* Four bytes of a count: their number, the bytes of a number, how many.      *)
Number(b) == b[0] + Byte * (b[1] + Byte * (b[2] + Byte * b[3]))

ByteOf(v, k) ==
  CASE k = 0 -> v % Byte
    [] k = 1 -> (v \div Byte) % Byte
    [] k = 2 -> (v \div (Byte * Byte)) % Byte
    [] k = 3 -> (v \div (Byte * Byte * Byte)) % Byte

Modulus == Byte * Byte * Byte * Byte

ReadCount(e, n) == Number([k \in 0 .. 3 |-> e[CountAt(n) + k]])
ReadWord(e, n) == e[WordAt(n)] + Byte * e[WordAt(n) + 1]

Followed == DOMAIN eeprom
PasswordCells == Followed \cap (200 .. 209)

(* A save that writes one byte, four bytes, or a text. *)
Save(at, v) == <<[at |-> at, value |-> v]>>

SaveDword(at, v) == [k \in 1 .. 4 |-> [at |-> at + k - 1, value |-> ByteOf(v, k - 1)]]

SaveStr(at, text) == [k \in DOMAIN text |-> [at |-> at + k - 1, value |-> text[k]]]

(* A field of a form: what find_key_val finds, or Absent; the two saves of *)
(* Forms, seen from here.                                                 *)
Absent == -1

FieldOf(values) == values \cup {Absent}

SaveFound(at, v) == IF v = Absent THEN << >> ELSE Save(at, v)

SaveBox(at, v) == Save(at, IF v = Absent THEN 0 ELSE v)

ForPins(S(_)) == FlattenSeq([n \in Pin |-> S(n)])

(* Those of the writes that go to a followed address. *)
Of(writes) ==
  LET of[k \in 0 .. Len(writes)] ==
        IF k = 0 THEN << >>
        ELSE IF writes[k].at \in Followed THEN Append(of[k - 1], writes[k]) ELSE of[k - 1]
  IN  of[Len(writes)]

-----------------------------------------------------------------------------
(* The start-up.  Defaults: 0 and 11 are the bytes that tell an empty EEPROM *)
(* (for the mutation runs: the address comes first).                         *)
SBNG == <<83, 66, 78, 71>>

Rest == SaveStr(200, SBNG) \o ForPins(LAMBDA n : Save(TypeAt(n), IF Analog(n) THEN TYPE_ADC ELSE TYPE_DIGOUT))
        \o Save(1200, 3) \o ForPins(LAMBDA n : SaveDword(CountAt(n), 0)) \o Save(1500, 1)

AddressFirst == Save(0, 0) \o Save(11, 192) \o Save(23, 80) \o Save(10, 1) \o Rest

Defaults == Save(0, 0) \o Save(23, 80) \o Save(10, 1) \o Save(11, 192) \o Rest

save_ip_addresses == Save(11, 10)

(* The blocks of main: defaults, versions before 3, 4 and 5, the version, the *)
(* address DHCP gives.  Each looks at the EEPROM when its turn comes (for the *)
(* mutation runs: the version is written first).                             *)
Block(b) ==
  CASE b = 1 -> IF eeprom[0] = Erased \/ eeprom[11] = Erased THEN Defaults ELSE << >>
    [] b = 2 -> IF eeprom[1] < 3 THEN Save(29, 80) \o Save(1200, 3) ELSE << >>
    [] b = 3 -> IF eeprom[1] < 4 THEN ForPins(LAMBDA n : SaveDword(CountAt(n), ReadWord(eeprom, n)))
                ELSE << >>
    [] b = 4 -> IF eeprom[1] < 5 THEN Save(1500, 1) ELSE << >>
    [] b = 5 -> Save(1, EEPROM_VERSION)
    [] OTHER -> IF eeprom[10] > 0 THEN save_ip_addresses ELSE << >>

VersionFirst(b) == IF b = 2 THEN 5 ELSE b + 1

Following(b) == b + 1

Initially(layout) ==
  /\ eeprom = layout
  /\ block = 1 /\ saving = 0 /\ dying = FALSE
  /\ todo = IF layout[0] = Erased \/ layout[11] = Erased THEN Of(Defaults) ELSE << >>
  /\ simpleSensorTypes = [n \in Pin |-> 0]
  /\ simpleSensorValues = [n \in Pin |-> 0]
  /\ simpleSensorDebounce = [n \in Pin |-> 0]
  /\ password = [c \in PasswordCells |-> layout[c]]
  /\ meant = [n \in Pin |-> IF layout[0] = Erased THEN -1
                          ELSE IF layout[1] < 4 THEN ReadWord(layout, n) ELSE ReadCount(layout, n)]
  /\ ported = (layout[0] = Erased \/ layout[23] # Erased)
  /\ loaded = [n \in Pin |-> 0]
  /\ seen = [n \in Pin |-> FALSE] /\ edges = [n \in Pin |-> 0]

SettingsInit == \E layout \in Layouts : Initially(layout)

(* The next byte.  The history has the password as the defaults set it.      *)
WriteByte ==
  /\ todo # << >>
  /\ LET w == Head(todo) IN
     /\ eeprom' = [eeprom EXCEPT ![w.at] = w.value]
     /\ password' = IF block = 1 /\ w.at \in PasswordCells
                    THEN [password EXCEPT ![w.at] = w.value] ELSE password
  /\ todo' = Tail(todo)
  /\ UNCHANGED <<block, saving, dying, ram, meant, ported, loaded, seen, edges>>

NextBlock ==
  /\ block # Running /\ todo = << >> /\ Following(block) # Running
  /\ block' = Following(block)
  /\ todo' = Of(Block(block'))
  /\ UNCHANGED <<eeprom, saving, dying, ram, history>>

(* loadSimpleSensorData, after which the interrupts are enabled. *)
Load ==
  /\ block # Running /\ todo = << >> /\ Following(block) = Running
  /\ block' = Running
  /\ simpleSensorTypes' = [n \in Pin |-> eeprom[TypeAt(n)]]
  /\ simpleSensorValues' =
       [n \in Pin |-> IF eeprom[TypeAt(n)] = TYPE_COUNTER THEN ReadCount(eeprom, n) ELSE 0]
  /\ simpleSensorDebounce' = [n \in Pin |-> 0]
  /\ loaded' = simpleSensorValues'
  /\ seen' = [n \in Pin |-> FALSE] /\ edges' = [n \in Pin |-> 0]
  /\ UNCHANGED <<eeprom, todo, saving, dying, password, meant, ported>>

-----------------------------------------------------------------------------
(* The interrupt takes the levels of the pins every two milliseconds (for    *)
(* the mutation runs: it counts while a pin is high).                        *)
CountsLevel(n, high) == high

Counts(n, high) == high /\ simpleSensorDebounce[n] = 0

Interrupt(levels) ==
  LET counter(n) == simpleSensorTypes[n] = TYPE_COUNTER
      rises == {n \in Pin : counter(n) /\ levels[n] /\ ~seen[n]}
  IN  /\ block = Running
      /\ \A n \in Pin : levels[n] => counter(n)
      /\ \A n \in rises : edges[n] < MaxPulses
      /\ simpleSensorValues' =
           [n \in Pin |-> IF counter(n) /\ Counts(n, levels[n])
                          THEN (simpleSensorValues[n] + 1) % Modulus ELSE simpleSensorValues[n]]
      /\ simpleSensorDebounce' =
           [n \in Pin |-> IF ~counter(n) THEN simpleSensorDebounce[n]
                          ELSE IF levels[n] THEN 1 ELSE 0]
      /\ seen' = levels
      /\ edges' = [n \in Pin |-> IF n \in rises THEN edges[n] + 1 ELSE edges[n]]
      /\ UNCHANGED <<simpleSensorTypes, password, meant, ported, loaded>>

updateCounters(levels) == Interrupt(levels) /\ UNCHANGED <<eeprom, doing>>

(* The tasks that read the other pins, whose types they get anew. *)
Idle == block = Running /\ todo = << >> /\ saving = 0 /\ ~dying

Measure(pins, takes, readings) ==
  /\ Idle
  /\ simpleSensorTypes' =
       [n \in Pin |-> IF n \in pins THEN eeprom[TypeAt(n)] ELSE simpleSensorTypes[n]]
  /\ \E r \in [pins -> readings] :
       simpleSensorValues' =
         [n \in Pin |-> IF n \in pins /\ simpleSensorTypes'[n] \in takes
                        THEN r[n] ELSE simpleSensorValues[n]]
  /\ UNCHANGED <<eeprom, doing, simpleSensorDebounce, history>>

updateAnalogSensors == Measure({n \in Pin : Analog(n)}, {TYPE_ADC, TYPE_DIGIN}, Readings)

updateSimpleSensors == Measure({n \in Pin : ~Analog(n)}, {TYPE_DIGIN, TYPE_DIGOUT}, {0, 1})

(* getDHTData: its values have a place of their own, in Readings. *)
DhtTypes == Measure({n \in Pin : ~Analog(n)}, {}, {0})

(* timedSaveEeprom goes through the pins; the position is a uint8_t, and the *)
(* digital pins save the values of the analog ones.  The interrupt may come   *)
(* when only some bytes of the value have been read.                         *)
SavePosition(n) == CountAt(n) % 256

StartSave ==
  /\ Idle
  /\ saving' = 1
  /\ UNCHANGED <<eeprom, block, todo, dying, ram, history>>

Bytes(v) == [k \in 0 .. 3 |-> ByteOf(v, k)]

Saved(v) ==
  /\ saving > 0 /\ todo = << >>
  /\ todo' = IF simpleSensorTypes[saving] = TYPE_COUNTER
             THEN Of(SaveDword(SavePosition(saving), v)) ELSE << >>
  /\ saving' = IF saving = NumAnalog + NumDigital THEN 0 ELSE saving + 1
  /\ UNCHANGED <<eeprom, block, dying>>

SavePin == Saved(simpleSensorValues[Index(saving) + 1]) /\ UNCHANGED <<ram, history>>

SavePinTorn(levels, late) ==
  LET n == Index(saving) + 1
      old == Bytes(simpleSensorValues[n])
      new == Bytes(simpleSensorValues'[n])
  IN  /\ saving > 0 /\ todo = << >>
      /\ Interrupt(levels)
      /\ \E v \in {Number([k \in 0 .. 3 |-> IF k \in late THEN new[k] ELSE old[k]])} : Saved(v)

-----------------------------------------------------------------------------
(* The pages.  The general one overwrites as many bytes of the password as   *)
(* the user typed; those of the pins and of the network end in a save of the *)
(* counts and a restart.                                                     *)
SaveGeneral(text) ==
  /\ Idle
  /\ todo' = Of(SaveStr(200, text))
  /\ password' = [c \in PasswordCells |->
                    IF c - 199 \in DOMAIN text THEN text[c - 199] ELSE password[c]]
  /\ UNCHANGED <<eeprom, block, saving, dying, ram, meant, ported, loaded, seen, edges>>

SaveAndDie(writes) ==
  /\ Idle
  /\ todo' = Of(writes)
  /\ saving' = 1 /\ dying' = TRUE
  /\ UNCHANGED <<eeprom, block, ram, history>>

SaveIo(types) == SaveAndDie(ForPins(LAMBDA n : SaveFound(TypeAt(n), types[n])))

NetSave(ip0, webport, dhcp) ==
  SaveAndDie(SaveFound(11, ip0) \o SaveFound(23, webport) \o SaveBox(10, dhcp))

(* A restart, by the watchdog or because power was lost: at any time. *)
Restart ==
  /\ block' = 1 /\ saving' = 0 /\ dying' = FALSE
  /\ todo' = Of(Block(1))
  /\ simpleSensorTypes' = [n \in Pin |-> 0]
  /\ simpleSensorValues' = [n \in Pin |-> 0]
  /\ simpleSensorDebounce' = [n \in Pin |-> 0]
  /\ loaded' = [n \in Pin |-> 0]
  /\ seen' = [n \in Pin |-> FALSE] /\ edges' = [n \in Pin |-> 0]
  /\ password' = [c \in PasswordCells |-> eeprom[c]]
  /\ UNCHANGED <<eeprom, meant, ported>>

SettingsNext ==
  \/ WriteByte \/ NextBlock \/ Load
  \/ \E levels \in [Pin -> BOOLEAN] : updateCounters(levels)
  \/ updateAnalogSensors \/ updateSimpleSensors \/ DhtTypes
  \/ StartSave \/ SavePin
  \/ \E levels \in [Pin -> BOOLEAN], from \in 1 .. 3 : SavePinTorn(levels, from .. 3)
  \/ \E text \in Passwords : SaveGeneral(text)
  \/ \E types \in [Pin -> FieldOf(Types)] : SaveIo(types)
  \/ \E ip0 \in FieldOf({10}), webport \in FieldOf({80}), dhcp \in FieldOf({1}) :
       NetSave(ip0, webport, dhcp)
  \/ Restart

SettingsSpec == SettingsInit /\ [][SettingsNext]_settingsVars

-----------------------------------------------------------------------------
(* The copy of the old 16 bit counts into the new places may be interrupted  *)
(* any number of times, at any byte: when the start-up is over, every count  *)
(* the EEPROM had is in its new place.  (It stays there: no save goes there.) *)
CountsMigrated ==
  block = Running => \A n \in Pin : meant[n] # -1 => ReadCount(eeprom, n) = meant[n]

(* However often power was lost while the defaults were being written, and   *)
(* whatever was not written for that reason: a device that runs asks DHCP    *)
(* for an address or not, as the defaults or a user said, and has a web port,*)
(* unless it comes from a firmware that left none (run settings_webport).    *)
CanBeReached ==
  block = Running => /\ eeprom[0] # Erased /\ eeprom[11] # Erased
                     /\ eeprom[10] \in {0, 1}
                     /\ ported => eeprom[23] # Erased

(* "Web port": the migration from the versions before 3 gives the device one. *)
(* The code does not keep it: the migration writes the port at 29, and main  *)
(* reads it at 23, where eeprom.h says that it is.                           *)
WebPortSet == block = Running => eeprom[23] # Erased

(* A counter is what was loaded plus the rises of its pin, modulo its width, *)
(* whatever saves, measurements and pages come between: no pulse is counted  *)
(* twice or left out.                                                        *)
CountsEdges ==
  \A n \in Pin :
    simpleSensorTypes[n] = TYPE_COUNTER =>
      simpleSensorValues[n] = (loaded[n] + edges[n]) % Modulus

(* "200-209 password": only the defaults and the page write there.           *)
PasswordKept == todo = << >> => \A c \in PasswordCells : eeprom[c] = password[c]
=============================================================================
