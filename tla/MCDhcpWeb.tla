----------------------------- MODULE MCDhcpWeb -----------------------------
(***************************************************************************)
(* TLC instance of two parts of the device that share no state: how it gets*)
(* its address, and the uploads it makes once it has one.  A behaviour     *)
(* steps one of them, to which alone the fairness applies (DhcpFairness,   *)
(* FairWebSpec).                                                           *)
(***************************************************************************)
EXTENDS Dhcp, WebClient

VARIABLE part

bothVars == <<part, dhcpVars, webVars>>

BothInit == part \in {"dhcp", "web"} /\ DhcpInit /\ WebInit

BothNext ==
  /\ UNCHANGED part
  /\ \/ part = "dhcp" /\ DhcpNext /\ UNCHANGED webVars
     \/ part = "web" /\ WebNext /\ UNCHANGED dhcpVars

DhcpIsFair ==
  /\ WF_dhcpVars(part = "dhcp" /\ DhcpPoll)
  /\ WF_dhcpVars(part = "dhcp" /\ DhcpLan)
  /\ \A k \in {"OFFER", "ACK"}, s \in Servers :
       WF_dhcpVars(part = "dhcp" /\ Takes([kind |-> k, tid |-> initial_tid, server |-> s]))

WebIsFair ==
  /\ WF_webVars(part = "web" /\ scheduleRun)
  /\ WF_webVars(part = "web" /\ (Idle \/ Die))
  /\ WF_webVars(part = "web" /\ Restart)

BothSpec == BothInit /\ [][BothNext]_bothVars /\ DhcpIsFair /\ WebIsFair
=============================================================================
