----------------------------- MODULE MCResolver -----------------------------
(***************************************************************************)
(* TLC instance of Resolver: one host is a name of a server on the LAN, one*)
(* a name of a server elsewhere, one an address.                           *)
(***************************************************************************)
EXTENDS Resolver

MCHostIp == [h \in Hosts |-> IF h = "wanName" THEN "wan" ELSE "lan"]
=============================================================================
