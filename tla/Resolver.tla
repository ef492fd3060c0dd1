------------------------------ MODULE Resolver ------------------------------
(***************************************************************************)
(* From an address to a server's address: handle_net of web.c asks for the *)
(* gateway's MAC, looks the server's name up (dnslkup.c), and asks for the *)
(* server's MAC when that is on the LAN.  One ARP resolver with one place  *)
(* for a question serves both (ip_arp_udp_tcp.c); a page may save another  *)
(* host at any time and start it all over while answers are under way.     *)
(*                                                                         *)
(* Where Dhcp ends this begins: the start-up loop gives an address with its *)
(* gateway, or no address at all (an ACK of an earlier start).  A reset may *)
(* come at any time.                                                       *)
(*                                                                         *)
(* A MAC address is named by the IP address it belongs to.  A question and *)
(* its answer are one message, which is lost, repeated or late; a DNS      *)
(* answer that says there is an error does nothing and is left out.        *)
(* Between two steps any number of seconds may pass.                       *)
(***************************************************************************)
EXTENDS Integers

CONSTANTS
  Gateways,   \* what the DHCP server may give
  NoAddress,  \* 0.0.0.0
  Fallback,   \* the address wwwip is compiled with
  Hosts,      \* what the setting "host" may hold
  HostIp,     \* the address each is known by in the DNS, or is
  HostNames,  \* those that need the DNS
  Lan,        \* addresses on the LAN
  DelayWrap,  \* values of arp_delaycnt (256)
  DnsTids        \* values of dnstid_l (256)

ASSUME ResolverAssumption ==
  /\ HostNames \subseteq Hosts /\ DOMAIN HostIp = Hosts /\ NoAddress \notin Lan
  /\ DelayWrap \in Nat /\ DelayWrap > 1 /\ DnsTids \in Nat /\ DnsTids > 1

VARIABLES
  started,        \* the start-up loop is over
  cable,          \* it is in
  ipaddr, gwip,   \* the own address, named by its gateway
  gw_arp_state,   \* 0: to ask, 1: asked, 2: known
  arpip_state,    \* "none", "initial", "asked" (initial and accept), "have"
  arpip, arp_reference_number, arp_delaycnt,
  gwmac, wwwmac, wwwip,
  dns_state,      \* 0: to look up, 1: asked, 2: done
  haveDNSanswer, dns_answerip, dnstid_l,
  host,           \* EEPROM
  arps, lookups,  \* messages under way: addresses; [tid, host]
  doubtful,       \* history: the last question was not sent, or an answer to
                  \* another with its number was under way
  failed          \* history: the lookup is over, without an answer

arp == <<arpip_state, arpip, arp_reference_number, arp_delaycnt>>
macs == <<gw_arp_state, gwmac, wwwmac>>
dns == <<dns_state, wwwip, haveDNSanswer, dns_answerip, dnstid_l>>
own == <<started, cable, ipaddr, gwip>>
lookup == <<doubtful, failed>>
resolverVars == <<own, arp, macs, dns, host, arps, lookups, lookup>>

ResolverInit ==
  /\ started = FALSE /\ cable = TRUE /\ ipaddr = NoAddress /\ gwip = NoAddress
  /\ gw_arp_state = 0 /\ gwmac = NoAddress /\ wwwmac = NoAddress
  /\ arpip_state = "none" /\ arpip = NoAddress
  /\ arp_reference_number = "none" /\ arp_delaycnt = 0
  /\ dns_state = 0 /\ wwwip = Fallback
  /\ haveDNSanswer = FALSE /\ dns_answerip = NoAddress /\ dnstid_l = 0
  /\ host \in Hosts
  /\ arps = {} /\ lookups = {} /\ doubtful = FALSE /\ failed = FALSE

(* All but the setting is in RAM.  A start takes longer (dhcp_client.c waits *)
(* two seconds) than an answer of the DNS is under way.                      *)
ResolverReset ==
  /\ started' = FALSE /\ ipaddr' = NoAddress /\ gwip' = NoAddress
  /\ gw_arp_state' = 0 /\ gwmac' = NoAddress /\ wwwmac' = NoAddress
  /\ arpip_state' = "none" /\ arpip' = NoAddress
  /\ arp_reference_number' = "none" /\ arp_delaycnt' = 0
  /\ dns_state' = 0 /\ wwwip' = Fallback
  /\ haveDNSanswer' = FALSE /\ dns_answerip' = NoAddress /\ dnstid_l' = 0
  /\ lookups' = {} /\ doubtful' = FALSE /\ failed' = FALSE
  /\ UNCHANGED <<cable, host, arps>>

-----------------------------------------------------------------------------
(* ARP *)
get_mac_with_arp(ip, reference) ==
  /\ arpip_state' = "initial" /\ arpip' = ip
  /\ arp_reference_number' = reference

(* Without a packet: the question is put once, and again each time the       *)
(* counter has wrapped (for the mutation runs: it is not), unless the link   *)
(* is down; client_arp_whohas says nothing without an address of its own.    *)
NeverRepeats(count) == FALSE

Repeats(count) == arpip_state = "asked" /\ count = 0

WhoHas ==
  /\ arps' = IF cable /\ (arpip_state = "initial" \/ Repeats(arp_delaycnt)) /\ ipaddr # NoAddress
             THEN arps \cup {arpip} ELSE arps
  /\ arp_delaycnt' = IF cable /\ arpip_state = "initial" THEN 1
                     ELSE (arp_delaycnt + 1) % DelayWrap

Asked == IF cable /\ arpip_state = "initial" THEN "asked" ELSE arpip_state

(* handle_net asks for the gateway first. *)
AskForGateway ==
  /\ gw_arp_state = 0
  /\ gw_arp_state' = 1
  /\ get_mac_with_arp(gwip, "GW")

(* A reply counts when it is of the address asked for (for the mutation      *)
(* runs: when one is waited for).                                            *)
AnyReply(ip) == TRUE

OfAddress(ip) == ip = arpip

arpresolver_result_callback(ip) ==
  /\ gwmac' = IF arp_reference_number = "GW" THEN ip ELSE gwmac
  /\ wwwmac' = IF arp_reference_number = "WWW" THEN ip ELSE wwwmac

ArpReply(ip) ==
  IF arpip_state = "asked" /\ OfAddress(ip)
  THEN /\ arpresolver_result_callback(ip)
       /\ arpip_state' = "have"
       /\ gw_arp_state' = IF gw_arp_state = 1 THEN 2 ELSE gw_arp_state
  ELSE UNCHANGED <<arpip_state, gwmac, wwwmac, gw_arp_state>>

-----------------------------------------------------------------------------
(* DNS *)
(* A new question forgets the last answer (for the mutation runs: does not). *)
Remembers(answered) == answered

Forgets(answered) == FALSE

dnslkup_request ==
  /\ haveDNSanswer' = Forgets(haveDNSanswer)
  /\ dnstid_l' = IF cable THEN (dnstid_l + 1) % DnsTids ELSE dnstid_l
  /\ lookups' = IF cable THEN lookups \cup {[tid |-> dnstid_l', host |-> host]} ELSE lookups
  /\ doubtful' = (~cable \/ \E l \in lookups : l.tid = dnstid_l')
  /\ UNCHANGED dns_answerip

udp_client_check_for_dns_answer(l) ==
  /\ haveDNSanswer' = (haveDNSanswer \/ l.tid = dnstid_l)
  /\ dns_answerip' = IF l.tid = dnstid_l THEN HostIp[l.host] ELSE dns_answerip

(* What parse_ip leaves: of a name (which begins with no digit) nothing, for *)
(* it empties the address first, the one to fall back to included.           *)
parse_ip(h) == IF h \in HostNames THEN NoAddress ELSE HostIp[h]

StartLookup ==
  /\ dns_state = 0
  /\ wwwip' = parse_ip(host) /\ UNCHANGED failed
  /\ IF host \in HostNames
     THEN dns_state' = 1 /\ dnslkup_request
     ELSE /\ dns_state' = 2 /\ doubtful' = FALSE
          /\ UNCHANGED <<haveDNSanswer, dns_answerip, dnstid_l, lookups>>

TakeAnswer ==
  /\ dns_state = 1 /\ haveDNSanswer
  /\ wwwip' = dns_answerip /\ dns_state' = 2
  /\ UNCHANGED <<haveDNSanswer, dns_answerip, dnstid_l, lookups, lookup>>

GiveUp ==
  /\ dns_state = 1 /\ ~haveDNSanswer
  /\ dns_state' = 2 /\ failed' = TRUE
  /\ UNCHANGED <<wwwip, haveDNSanswer, dns_answerip, dnstid_l, lookups, doubtful>>

KeepAddress ==
  /\ dns_state = 2 \/ (dns_state = 1 /\ ~haveDNSanswer)
  /\ UNCHANGED <<dns, lookups, lookup>>

(* An address on the LAN is asked for at once; ARP goes on otherwise. *)
AskForServer ==
  IF dns_state # 2 /\ wwwip' \in Lan /\ dns_state' = 2
  THEN get_mac_with_arp(wwwip', "WWW")
  ELSE arpip_state' = Asked /\ UNCHANGED <<arpip, arp_reference_number>>

-----------------------------------------------------------------------------
(* handle_net, of which one call is one step, without and with a packet. *)
IdleBeforeGateway ==
  /\ gw_arp_state # 2
  /\ WhoHas
  /\ \/ AskForGateway
     \/ /\ gw_arp_state = 1
        /\ arpip_state' = Asked /\ UNCHANGED <<gw_arp_state, arpip, arp_reference_number>>
  /\ UNCHANGED <<gwmac, wwwmac, dns, host, lookups, lookup>>

IdleWithGateway ==
  /\ gw_arp_state = 2
  /\ WhoHas
  /\ StartLookup \/ TakeAnswer \/ GiveUp \/ KeepAddress
  /\ AskForServer
  /\ UNCHANGED <<macs, host>>

PacketArp(ip) ==
  /\ ip \in arps /\ cable
  /\ arps' \in {arps, arps \ {ip}}
  /\ gw_arp_state # 0
  /\ ArpReply(ip)
  /\ UNCHANGED <<arpip, arp_reference_number, arp_delaycnt, dns, host, lookups, lookup>>

(* The first packet may come before the gateway has been asked for. *)
PacketBeforeArp ==
  /\ AskForGateway
  /\ UNCHANGED <<arp_delaycnt, gwmac, wwwmac, dns, host, arps, lookups, lookup>>

PacketDns(l) ==
  /\ l \in lookups /\ cable
  /\ lookups' \in {lookups, lookups \ {l}}
  /\ gw_arp_state # 0
  /\ udp_client_check_for_dns_answer(l)
  /\ UNCHANGED <<arp, macs, dns_state, wwwip, dnstid_l, host, arps, lookup>>

(* The settings page. *)
SaveHost(h) ==
  /\ host' = h /\ dns_state' = 0 /\ failed' = FALSE
  /\ UNCHANGED <<arp, macs, wwwip, haveDNSanswer, dns_answerip, dnstid_l,
                 arps, lookups, doubtful>>

ResolverLose ==
  /\ \/ \E ip \in arps : arps' = arps \ {ip} /\ UNCHANGED lookups
     \/ \E l \in lookups : lookups' = lookups \ {l} /\ UNCHANGED arps
  /\ UNCHANGED <<arp, macs, dns, host, lookup>>

Idle == IdleBeforeGateway \/ IdleWithGateway

StartUp(ip, gateway) ==
  /\ ~started /\ started' = TRUE
  /\ ipaddr' = ip /\ gwip' = gateway
  /\ UNCHANGED <<cable, arp, macs, dns, host, arps, lookups, lookup>>

LinkFlips ==
  /\ cable' = ~cable
  /\ UNCHANGED <<started, ipaddr, gwip, arp, macs, dns, host, arps, lookups, lookup>>

handle_net == started /\ Idle /\ UNCHANGED own

handle_netArp(ip) == started /\ PacketArp(ip) /\ UNCHANGED own

ResolverNext ==
  \/ \E g \in Gateways : StartUp(g, g) \/ StartUp(NoAddress, NoAddress)
  \/ LinkFlips \/ ResolverReset
  \/ handle_net \/ \E ip \in arps : handle_netArp(ip)
  \/ /\ started
     /\ \/ PacketBeforeArp
        \/ \E l \in lookups : PacketDns(l)
        \/ \E h \in Hosts : SaveHost(h)
        \/ ResolverLose
     /\ UNCHANGED own

ResolverSpec == ResolverInit /\ [][ResolverNext]_resolverVars

(* Calls without a packet come for ever, and a question that is put again    *)
(* and again is answered at some time.                                       *)
ResolverFairness ==
  /\ WF_resolverVars(handle_net)
  /\ \A ip \in Gateways : SF_resolverVars(handle_netArp(ip))

FairResolverSpec == ResolverSpec /\ ResolverFairness

-----------------------------------------------------------------------------
(* A MAC address is used for the address it belongs to: the gateway's once    *)
(* it is known, the server's once the question about it is answered, however *)
(* the hosts changed and the answers were late.                              *)
MacsRight ==
  /\ gwmac \in {NoAddress, gwip}
  /\ gw_arp_state = 2 => gwmac = gwip
  /\ dns_state = 2 /\ wwwip \in Lan /\ arpip_state = "have" => wwwmac = wwwip

(* When the lookup is over (in handle_net) and did not fail, the address is   *)
(* the host's own, and never an answer about a host that was set before.     *)
(* What a failed lookup leaves is the question of FallbackUsed.              *)
AnswerIsForHost == dns_state = 2 /\ ~doubtful /\ ~failed => wwwip = HostIp[host]

(* When the lookup has failed, the address is the one to fall back to, as     *)
(* web.c says at wwwip and prints when it gives up.  The code does not keep  *)
(* it: parse_ip has emptied that address (run resolver_fallback).            *)
FallbackUsed == dns_state = 2 /\ failed => wwwip = Fallback

(* While the cable stays in, a device that has an address finds its gateway. *)
GatewayFound ==
  <>[]cable => (started /\ ipaddr # NoAddress) ~> (gw_arp_state = 2 \/ ~started)
=============================================================================
