---------------------------- MODULE MCMainLoop ----------------------------
(***************************************************************************)
(* TLC instances of MainLoop: a clock of two digits, two tasks with fixed  *)
(* intervals (remoteIO, due every second, and timedSaveEeprom), sendData,  *)
(* and one task whose interval the settings page changes and main halves.  *)
(* ZeroBytes are interval bytes that halve to zero, or that the uint8_t of *)
(* main takes to zero; NonZeroBytes never give a zero interval.            *)
(***************************************************************************)
EXTENDS MainLoop

MCBootOrder == <<"updateOWSensors", "remoteIO", "sendData", "timedSaveEeprom">>
MCNames == ToSet(MCBootOrder)
MCSettable == <<"updateOWSensors">>
MCDivisor == [n \in {"updateOWSensors"} |-> 2]
MCFixedRecur == [n \in {"remoteIO", "timedSaveEeprom"} |-> IF n = "remoteIO" THEN 1 ELSE 3]
LagFixedRecur == [n \in {"remoteIO", "timedSaveEeprom"} |-> IF n = "remoteIO" THEN 1 ELSE 2]
MCSendData == "sendData"
ZeroBytes == {0, 1, 2}
NonZeroBytes == {2, 3}
LagBytes == {0, 2}
MCBootTicks == {1}
=============================================================================
