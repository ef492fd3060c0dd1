---------------------------- MODULE MCSettings ----------------------------
(* Bytes of two values, so that a count of 3 carries at the next pulse.  The *)
(* EEPROM is empty, of version 2 with old counts and without a web port (the *)
(* migration is there to give it one), or of this version.                   *)
EXTENDS Settings

Cells == {0, 1, 10, 11, 23, 200} \cup TypeCells \cup CountCells \cup WordCells

AllCells == Cells \cup {29, 1200, 1500} \cup (196 .. 219)

(* The byte of a count that was never written is the last one it can have.   *)
Unwritten(c) == IF c \in CountCells \cup WordCells THEN Byte - 1 ELSE Erased

Empty == [c \in Cells |-> Unwritten(c)]

(* Counters on all pins, at 3. *)
Programmed(version, cells) ==
  [c \in cells |->
     CASE c = 0 -> 0
       [] c = 1 -> version
       [] c = 11 -> 192 [] c = 23 /\ version > 2 -> 80 [] c = 10 -> 1
       [] c \in {TypeAt(n) : n \in Pin} -> TYPE_COUNTER
       [] c \in 200 .. 203 -> SBNG[c - 199]
       [] version < 4 /\ c \in {WordAt(n) : n \in Pin} -> 1
       [] version < 4 /\ c \in {WordAt(n) + 1 : n \in Pin} -> 1
       [] version >= 4 /\ c \in {CountAt(n) + k : n \in Pin, k \in {0, 1}} -> 1
       [] version >= 4 /\ c \in {CountAt(n) + k : n \in Pin, k \in {2, 3}} -> 0
       [] OTHER -> Unwritten(c)]

MCLayouts == {Empty, Programmed(2, Cells), Programmed(5, Cells)}
OneLayout == {Programmed(5, AllCells)}
MCPasswords == {<<65, 66>>}
MCTypes == {TYPE_ADC, TYPE_COUNTER}
MCReadings == {0, 5}
OneReading == {0}
OneType == {TYPE_COUNTER}
===========================================================================
