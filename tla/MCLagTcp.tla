------------------------------ MODULE MCLagTcp ------------------------------
(***************************************************************************)
(* TLC instance of two parts of the device that share no state: the main   *)
(* loop with its scheduler, when seconds are lost, reads of tickS torn and *)
(* intervals zero, and the TCP client.  A behaviour steps one of them.     *)
(***************************************************************************)
EXTENDS MCMainLoop, MCTcpClient

VARIABLE part

lagTcpVars == <<part, mainVars, clientVars>>

(* A part that is not stepped begins in one way only. *)
LagTcpInit ==
  /\ part \in {"loop", "client"}
  /\ MainInit /\ ClientInit
  /\ part = "loop" \/ interval = [n \in DOMAIN interval |-> CHOOSE b \in Intervals : TRUE]

LagTcpNext ==
  /\ UNCHANGED part
  /\ \/ part = "loop" /\ MainNext /\ UNCHANGED clientVars
     \/ part = "client" /\ ClientNext /\ UNCHANGED mainVars

LagTcpSpec == LagTcpInit /\ [][LagTcpNext]_lagTcpVars
=============================================================================
