------------------------------ MODULE MCDevice ------------------------------
(***************************************************************************)
(* TLC instance of eight parts of the device that share no state: the      *)
(* receive ring, the TCP server, the checksums, the port expander, the     *)
(* sensors of the buses, those on the pins, the EEPROM and the forms of the *)
(* pages.  A behaviour steps one of them.                                  *)
(***************************************************************************)
EXTENDS MCReadings, MCSettings, MCForms,
        RxRing, TcpServer, TwoWire, Packets

VARIABLE part

deviceVars == <<part, rxVars, tcpVars, packetVars, wireVars, sensorVars,
                pinVars, settingsVars, formVars>>

(* A part that is not stepped begins in one way only. *)
DeviceInit ==
  /\ part \in {"frames", "server", "checksums", "expander",
              "sensors", "pins", "eeprom", "forms"}
  /\ RxInit /\ ServerInit /\ PacketsInit
  /\ WireInit /\ SensorInit /\ PinsInit /\ SettingsInit /\ FormsInit
  /\ part = "server" \/ browser = CHOOSE b \in NewBrowsers : TRUE
  /\ part = "expander" \/ <<pins, wanted>> = <<CHOOSE n \in Inputs : TRUE, 0>>
  /\ part = "sensors" \/ coapclient = FALSE
  /\ part = "pins" \/ simpleTypes = [i \in DhtPin |-> OtherType]
  /\ part = "eeprom" \/ eeprom = Programmed(5, Cells)

DeviceNext ==
  /\ UNCHANGED part
  /\ part # "frames" => UNCHANGED rxVars
  /\ part # "server" => UNCHANGED tcpVars
  /\ part # "checksums" => UNCHANGED packetVars
  /\ part # "expander" => UNCHANGED wireVars
  /\ part # "sensors" => UNCHANGED sensorVars
  /\ part # "pins" => UNCHANGED pinVars
  /\ part # "eeprom" => UNCHANGED settingsVars
  /\ part # "forms" => UNCHANGED formVars
  /\ \/ part = "frames" /\ RxNext
     \/ part = "server" /\ ServerNext
     \/ part = "checksums" /\ PacketsNext
     \/ part = "expander" /\ WireNext
     \/ part = "sensors" /\ SensorNext
     \/ part = "pins" /\ PinsNext
     \/ part = "eeprom" /\ SettingsNext
     \/ part = "forms" /\ FormsNext

DeviceSpec == DeviceInit /\ [][DeviceNext]_deviceVars
=============================================================================
