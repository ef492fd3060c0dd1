------------------------------ MODULE TwoWire ------------------------------
(***************************************************************************)
(* The port expander of one kind of board: MCP23008.c sets it up and, in    *)
(* updateSimpleSensors of test_web_client.c, reads its inputs and writes    *)
(* its outputs through twi.c, which waits after each thing it puts on the   *)
(* bus: a start, an address, a byte, a stop.                                *)
(*                                                                         *)
(* The chip answers or it does not, and may lose its power; the bus may be  *)
(* jammed, its clock held low, so that a wait ends by the counter the timer *)
(* counts down.  The processor is the only master.  A transfer is the bytes *)
(* to write, or << >> for one byte to read.                                *)
(***************************************************************************)
EXTENDS Integers, Sequences

CONSTANTS
  Inputs,    \* levels of the four input pins
  Outputs    \* values of the four outputs, as high bits of a byte

IODIR == 0
IPOL == 1
GP == 9
OLAT == 10
AllInputs == 255   \* IODIR of the chip without setup

ASSUME TwoWireAssumption ==
  /\ Inputs \subseteq 0 .. 15
  /\ Outputs \subseteq {16 * n : n \in 0 .. 15}

VARIABLES
  op,        \* "init", "inputs", "outputs" or, between them, "idle"
  transfers, \* of op: this one and those to come
  step,      \* what twi.c waits for: "start", "sla", "data", "stop" or "none"
  count,     \* bytes of the transfer that are still to come
  rc,        \* what the call returns after the stop
  held,      \* the bus has measured a start and no stop
  ioBuffer,  \* the byte the call has read
  jammed,
  chip,      \* registers of the expander
  pointer,   \* the one the next byte is for
  pins,      \* levels of its inputs
  sensed,    \* simpleSensorValues 20 .. 23
  wanted,    \* simpleSensorValues 24 .. 27
  timedOut, ready, addressed, shown, sampled, measured
             \* history, since the restart: a wait ended by the counter; the
             \* expander is set up; the register to read was set; the outputs
             \* a write that went well has set; what the inputs were when the
             \* call read them, if it did, and for the last one that was kept

line == <<op, transfers, step, count, rc, held, ioBuffer>>
expander == <<chip, pointer>>
told == <<timedOut, ready, addressed, shown, sampled, measured>>
wireVars == <<line, jammed, expander, pins, sensed, wanted, told>>

Unpowered == [r \in 0 .. OLAT |-> IF r = IODIR THEN AllInputs ELSE 0]
Unknown == {}
NoReading == -1

Setup == <<<<IODIR, 15>>, <<IPOL, 15>>>>

Length(transfer) == IF transfer = << >> THEN 1 ELSE Len(transfer)

Begins(name, list) ==
  /\ op' = name /\ transfers' = list
  /\ step' = "start" /\ count' = Length(Head(list)) /\ rc' = 0

WireInit ==
  /\ op = "init" /\ transfers = Setup /\ step = "start" /\ count = 2 /\ rc = 0
  /\ held = FALSE /\ jammed = FALSE
  /\ chip = Unpowered /\ pointer = 0
  /\ pins \in Inputs /\ sensed = 0 /\ wanted \in Outputs
  /\ timedOut = FALSE /\ ready = FALSE /\ addressed = FALSE
  /\ ioBuffer = 0 /\ shown = Unknown /\ sampled = NoReading /\ measured = 0

-----------------------------------------------------------------------------
(* What is read: the byte if all went well, up to the stop, and 255 if not,  *)
(* which updateSimpleSensors takes for a failure; of others the low bits are *)
(* the inputs.  (For the mutation runs: the reply is not looked at.)         *)
IgnoresReply(reply) == ioBuffer

IOexpReadInput(reply) == IF reply = 0 THEN ioBuffer ELSE 255

TakeInputs(mcp) ==
  IF mcp # 255 THEN sensed' = mcp % 16 /\ measured' = sampled
  ELSE UNCHANGED <<sensed, measured>>

(* A call of twi.c returns.  IOexpInit gives up at the first one that fails; *)
(* IOexpReadInput does not look at what the write returns.                   *)
Returns(code) ==
  LET more == Tail(transfers)
      reads == op = "inputs" /\ more # << >>
  IN  /\ IF reads \/ (more # << >> /\ code = 0) THEN Begins(op, more)
         ELSE IF op = "inputs" THEN Begins("outputs", <<<<GP, wanted>>>>)
         ELSE /\ op' = "idle" /\ transfers' = << >> /\ step' = "none"
              /\ count' = 0 /\ rc' = 0
      /\ addressed' = (reads /\ code = 0)
      /\ ready' = (ready \/ (op = "init" /\ more = << >> /\ code = 0))
      /\ shown' = IF op # "outputs" THEN shown
                  ELSE IF code = 0 THEN {transfers[1][2]} ELSE Unknown
      /\ IF op = "inputs" /\ more = << >> THEN TakeInputs(IOexpReadInput(code))
         ELSE UNCHANGED <<sensed, measured>>
      /\ ioBuffer' = 0 /\ sampled' = NoReading

Waits(for, code) ==
  /\ step' = for /\ rc' = code
  /\ UNCHANGED <<op, transfers, addressed, ready, shown, sensed, measured>>

BufferStays == UNCHANGED <<ioBuffer, sampled>>

Writing == transfers[1] # << >>

(* sendSla: a bus that is still held gives a repeated start, which is not    *)
(* what the code expects.                                                    *)
StartSent ==
  /\ step = "start" /\ ~jammed
  /\ held' = TRUE
  /\ IF held THEN Returns(3) ELSE Waits("sla", 0) /\ UNCHANGED count /\ BufferStays
  /\ UNCHANGED <<jammed, expander, pins, wanted, timedOut>>

(* What is done when the chip does not answer (for the mutation runs: the    *)
(* call returns without a stop).                                             *)
NoStop(code) == Returns(code)

Refused(code) == Waits("stop", code) /\ UNCHANGED count /\ BufferStays

SlaSent(answers) ==
  /\ step = "sla" /\ ~jammed
  /\ IF answers THEN Waits("data", 0) /\ UNCHANGED count /\ BufferStays
     ELSE Refused(IF Writing THEN 6 ELSE 5)
  /\ UNCHANGED <<held, jammed, expander, pins, wanted, timedOut>>

(* After a byte: the next one, or the stop.                                  *)
LastByte(left) == left = 1

NextByte ==
  /\ count' = count - 1
  /\ Waits(IF LastByte(count) THEN "stop" ELSE "data", 0)

(* The chip takes the first byte as the number of a register and counts that *)
(* on at each further byte; a port it is set to keeps its level in OLAT.     *)
ChipTakes(byte) ==
  IF count = Len(transfers[1])
  THEN pointer' = byte /\ UNCHANGED chip
  ELSE /\ chip' = [chip EXCEPT ![IF pointer = GP THEN OLAT ELSE pointer] = byte]
       /\ pointer' = (pointer + 1) % (OLAT + 1)

ByteWritten(answers) ==
  /\ step = "data" /\ Writing /\ ~jammed
  /\ IF answers
     THEN ChipTakes(transfers[1][Len(transfers[1]) - count + 1]) /\ NextByte /\ BufferStays
     ELSE Refused(8) /\ UNCHANGED expander
  /\ UNCHANGED <<held, jammed, pins, wanted, timedOut>>

(* A read of the port has the inputs in its low bits, inverted if the chip   *)
(* was told to, and the outputs in its high bits.                            *)
Port == (IF chip[IODIR] = AllInputs THEN 0 ELSE chip[OLAT])
        + (IF chip[IPOL] = 0 THEN pins ELSE 15 - pins)

ByteRead ==
  /\ step = "data" /\ ~Writing /\ ~jammed
  /\ ioBuffer' = IF pointer = GP THEN Port ELSE chip[pointer]
  /\ sampled' = IF addressed /\ ready THEN 15 - pins ELSE ioBuffer' % 16
  /\ pointer' = (pointer + 1) % (OLAT + 1)
  /\ NextByte
  /\ UNCHANGED <<held, jammed, chip, pins, wanted, timedOut>>

StopSent ==
  /\ step = "stop" /\ ~jammed
  /\ held' = FALSE
  /\ Returns(rc)
  /\ UNCHANGED <<jammed, expander, pins, wanted, timedOut>>

(* twiDecTo: the counter has come to 0.  After a stop the chip of the        *)
(* processor may still send it when the bus is free again.                   *)
TimeOut ==
  /\ step # "none" /\ jammed
  /\ timedOut' = TRUE
  /\ held' \in IF step = "stop" THEN {TRUE, FALSE} ELSE {held}
  /\ Returns(CASE step = "start" -> 2
               [] step = "sla" -> 4
               [] step = "data" -> IF Writing THEN 7 ELSE 9
               [] OTHER -> IF rc = 0 THEN 1 ELSE rc)
  /\ UNCHANGED <<jammed, expander, pins, wanted>>

-----------------------------------------------------------------------------
UseExpander ==
  /\ op = "idle"
  /\ Begins("inputs", <<<<GP>>, << >>>>)
  /\ UNCHANGED <<held, ioBuffer, jammed, expander, pins, sensed, wanted, told>>

(* Alarms switch the relays of the expander between the calls. *)
SwitchOutputs ==
  /\ op = "idle"
  /\ wanted' \in Outputs
  /\ UNCHANGED <<line, jammed, expander, pins, sensed, told>>

(* IOexpInit, once; power that comes back to the processor frees the bus. *)
WireRestart ==
  /\ Begins("init", Setup)
  /\ held' = FALSE /\ ioBuffer' = 0 /\ sensed' = 0
  /\ timedOut' = FALSE /\ ready' = FALSE /\ addressed' = FALSE
  /\ shown' = Unknown /\ sampled' = NoReading /\ measured' = 0
  /\ UNCHANGED <<jammed, expander, pins, wanted>>

(* The bus, the expander and what is wired to it. *)
Jam ==
  /\ jammed' = ~jammed
  /\ UNCHANGED <<line, expander, pins, sensed, wanted, told>>

PowerFails ==
  /\ step \in {"none", "start"}
  /\ chip' = Unpowered /\ pointer' = 0
  /\ ready' = FALSE /\ shown' = Unknown
  /\ UNCHANGED <<line, jammed, pins, sensed, wanted, timedOut, addressed, sampled, measured>>

Level ==
  /\ pins' \in Inputs
  /\ UNCHANGED <<line, jammed, expander, sensed, wanted, told>>

WireNext ==
  \/ StartSent \/ ByteRead \/ StopSent \/ TimeOut
  \/ \E answers \in BOOLEAN : SlaSent(answers) \/ ByteWritten(answers)
  \/ UseExpander \/ SwitchOutputs
  \/ WireRestart \/ Jam \/ PowerFails \/ Level

WireSpec == WireInit /\ [][WireNext]_wireVars

-----------------------------------------------------------------------------
(* Whatever is refused, at any byte: between two uses of the expander the bus *)
(* is free, unless a wait was ended by the counter.  (Then no stop is sent,   *)
(* every further start is a repeated one, and the expander is out of reach    *)
(* until the device restarts.)                                               *)
BusReleased == op = "idle" /\ ~timedOut => ~held

(* What twi.c reports is what was done: outputs it says were written are the  *)
(* expander's, and what the code keeps as inputs is what they were, inverted, *)
(* if the expander is set up and took the number of the register.             *)
ResultsTrue ==
  /\ op # "outputs" => shown \subseteq {chip[OLAT]}
  /\ sensed = measured
=============================================================================
