------------------------------ MODULE MCNetwork ------------------------------
(***************************************************************************)
(* TLC instance of two parts of the device that share no state: the main   *)
(* loop with its scheduler, and the resolver of addresses.  A behaviour    *)
(* steps one of them, to which alone the fairness applies (FairMainSpec,   *)
(* ResolverFairness).                                                      *)
(***************************************************************************)
EXTENDS MCMainLoop, MCResolver

VARIABLE part

networkVars == <<part, mainVars, resolverVars>>

(* A part that is not stepped begins in one way only. *)
NetworkInit ==
  /\ part \in {"loop", "resolver"}
  /\ MainInit /\ ResolverInit
  /\ part = "loop" \/ interval = [n \in DOMAIN interval |-> CHOOSE b \in Intervals : TRUE]
  /\ part = "resolver" \/ host = CHOOSE h \in Hosts : TRUE

NetworkNext ==
  /\ UNCHANGED part
  /\ \/ part = "loop" /\ MainNext /\ UNCHANGED resolverVars
     \/ part = "resolver" /\ ResolverNext /\ UNCHANGED mainVars

LoopIsFair ==
  /\ WF_mainVars(part = "loop" /\ MainStep)
  /\ WF_mainVars(part = "loop" /\ Interrupt)

ResolverIsFair ==
  /\ WF_resolverVars(part = "resolver" /\ handle_net)
  /\ \A ip \in Gateways : SF_resolverVars(part = "resolver" /\ handle_netArp(ip))

NetworkSpec ==
  /\ NetworkInit /\ [][NetworkNext]_networkVars
  /\ LoopIsFair /\ ResolverIsFair
=============================================================================
