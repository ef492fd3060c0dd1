--------------------------- MODULE MCReadings ---------------------------
(* A DS18B20 (1), a DS18S20 (5) and the serial number chip (6) on one bus,   *)
(* with a table of two entries; codes that share bits at either end.        *)
EXTENDS Readings

MCFamily == (1 :> 40) @@ (5 :> 16) @@ (6 :> 1)

MCPowerOn == [meas |-> 170, conf |-> 3, remain |-> 12]
MCPads == {MCPowerOn, [meas |-> 65485, conf |-> 1, remain |-> 3]}

MCAlarms == <<[cond |-> 1, target |-> 0, pin |-> 1, state |-> 1, reverse |-> TRUE]>>

(* Temperatures that need two bytes, one of them below zero; the bits that    *)
(* arrive wrong are in each of the bytes, the sign is one of them.            *)
MCAir == {[temperature |-> -305, humidity |-> 655], [temperature |-> 261, humidity |-> 98]}
MCNoise == {<<1, 0>>, <<2, 7>>, <<3, 7>>, <<4, 2>>, <<5, 0>>}
===========================================================================
