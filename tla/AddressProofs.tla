---------------------------- MODULE AddressProofs ----------------------------
(***************************************************************************)
(* Proofs about the addresses the device works with.  Dhcp: a lease is one *)
(* that was granted, for all servers, delays and numbers of messages under *)
(* way.  Resolver: the addresses handle_net works with are the right ones, *)
(* for all hosts, gateways, wraps of the counters and messages under way.  *)
(***************************************************************************)
EXTENDS Dhcp, Resolver, FiniteSetTheorems, TLAPS

(* Unless an earlier start left messages behind, what is under way belongs   *)
(* to offers this start has taken, an ACK to a grant; the lease is of one of *)
(* them, and so is the address a device that is up uses.                     *)
LeaseInv ==
  /\ IsFiniteSet(taken)
  /\ dhcp_opt = dhcp_yiaddr
  /\ taken # {} => dhcp_yiaddr \in taken
  /\ ~stale => /\ \A q \in queries : q.kind = "REQUEST" => q.server \in taken
               /\ \A m \in answers : m.kind = "ACK" => m.server \in taken \cap granted
               /\ \A q \in queries : q.kind \in {"DISCOVER", "REQUEST"}
  /\ LeaseHeld

LEMMA LeaseInitially == DhcpInit => LeaseInv
BY FS_EmptySet DEF DhcpInit, LeaseInv, LeaseHeld

(* A set with one element at most has no two. *)
LEMMA OnlyOne ==
  ASSUME NEW S, IsFiniteSet(S), Cardinality(S) <= 1, NEW x \in S, NEW y \in S
  PROVE  x = y
<1>1. SUFFICES ASSUME x # y PROVE FALSE
  OBVIOUS
<1>2. IsFiniteSet({y}) /\ Cardinality({y}) = 1
  BY FS_Singleton
<1>3. Cardinality({y} \cup {x}) = 2
  BY <1>1, <1>2, FS_AddElement
<1>4. Cardinality({y} \cup {x}) <= Cardinality(S)
  BY FS_Subset
<1>5. Cardinality(S) \in Nat
  BY FS_CardinalityType
<1>6. QED
  BY <1>3, <1>4, <1>5

LEMMA OfferStep ==
  ASSUME LeaseInv, NEW m \in answers, DhcpOffer(m)
  PROVE  LeaseInv'
<1> USE DEF LeaseInv
<1>1. taken' = taken \cup {m.server} /\ IsFiniteSet(taken')
  BY FS_AddElement DEF DhcpOffer
<1>2. dhcp_yiaddr' = m.server /\ dhcp_opt' = m.server
  BY DEF DhcpOffer, Offered
<1>3. ~stale' => /\ \A q \in queries' : q.kind = "REQUEST" => q.server \in taken'
                 /\ \A q \in queries' : q.kind \in {"DISCOVER", "REQUEST"}
  BY <1>1 DEF DhcpOffer, send_dhcp_request, send_udp_transmit
<1>4. ~stale' => \A a \in answers' : a.kind = "ACK" => a.server \in taken' \cap granted'
  BY <1>1 DEF DhcpOffer, Received
<1>5. LeaseHeld'
  BY DEF DhcpOffer, given, LeaseHeld
<1>6. QED
  BY <1>1, <1>2, <1>3, <1>4, <1>5

(* The ACK is of the only server whose offer was taken, and that offer is    *)
(* what the device goes on with.                                             *)
LEMMA AckStep ==
  ASSUME LeaseInv, NEW m \in answers, DhcpAck(m)
  PROVE  LeaseInv'
<1> USE DEF LeaseInv
<1>1. UNCHANGED <<taken, dhcp_yiaddr, dhcp_opt, queries, granted, stale>>
  BY DEF DhcpAck, lease
<1>2. answers' \subseteq answers
  BY DEF DhcpAck, Received
<1>3. ASSUME Cardinality(taken) <= 1, ~stale
      PROVE  myip' \in granted /\ gateway' = myip'
  <2>1. m.server \in taken \cap granted
    BY <1>3 DEF DhcpAck, IsAck
  <2>2. dhcp_yiaddr = m.server
    BY <1>3, <2>1, OnlyOne
  <2>3. QED
    BY <2>1, <2>2 DEF DhcpAck, Assigned
<1>4. LeaseHeld'
  BY <1>1, <1>3 DEF LeaseHeld
<1>5. QED
  BY <1>1, <1>2, <1>4

LEMMA LeaseStep ==
  ASSUME LeaseInv, [DhcpNext]_dhcpVars
  PROVE  LeaseInv'
<1> USE DEF LeaseInv
<1>1. CASE DhcpPoll
  <2>1. UNCHANGED <<taken, dhcp_yiaddr, dhcp_opt, answers, granted, stale, up, myip, gateway>>
    BY <1>1 DEF DhcpPoll, lease, given
  <2>2. \A q \in queries' : q \in queries \/ q.kind = "DISCOVER"
    BY <1>1 DEF DhcpPoll, send_dhcp_discover, send_udp_transmit
  <2>3. QED
    BY <2>1, <2>2 DEF LeaseHeld
<1>2. ASSUME NEW m \in answers, DhcpIgnores(m)
      PROVE  LeaseInv'
  BY <1>2 DEF DhcpIgnores, Received, client, lease, given, LeaseHeld
<1>3. CASE dhcp_6sec_tick
  BY <1>3 DEF dhcp_6sec_tick, lease, given, wire, LeaseHeld
<1>4. ASSUME NEW q \in queries, NEW kind, Answer(q, kind)
      PROVE  LeaseInv'
  <2>1. UNCHANGED <<taken, dhcp_yiaddr, dhcp_opt, stale, up, myip, gateway>>
    BY <1>4 DEF Answer, client, lease, given
  <2>2. queries' \subseteq queries /\ granted \subseteq granted'
    BY <1>4 DEF Answer
  <2>3. ~stale => \A m \in answers' : m.kind = "ACK" => m.server \in taken \cap granted'
    <3> SUFFICES ASSUME ~stale, NEW m \in answers', m.kind = "ACK"
                 PROVE  m.server \in taken \cap granted'
      OBVIOUS
    <3>1. CASE m \in answers
      BY <3>1, <2>2
    <3>2. CASE m \notin answers
      <4>1. m = [kind |-> kind, tid |-> q.tid, server |-> q.server]
        BY <3>2, <1>4 DEF Answer
      <4>2. kind = "ACK" /\ m.server = q.server
        BY <4>1
      <4>3. q.kind = "REQUEST" /\ granted' = granted \cup {q.server}
        BY <1>4, <4>2 DEF Answer
      <4>4. QED
        BY <4>2, <4>3
    <3>3. QED
      BY <3>1, <3>2
  <2>4. QED
    BY <2>1, <2>2, <2>3 DEF LeaseHeld
<1>5. CASE Lose
  BY <1>5 DEF Lose, client, lease, given, LeaseHeld
<1>6. CASE LinkChanges
  BY <1>6 DEF LinkChanges, client, lease, given, LeaseHeld
<1>7. CASE DhcpReset
  BY <1>7, FS_EmptySet DEF DhcpReset, LeaseHeld
<1>8. CASE UNCHANGED dhcpVars
  BY <1>8 DEF dhcpVars, client, lease, given, wire, LeaseHeld
<1>9. QED
  BY <1>1, <1>2, <1>3, <1>4, <1>5, <1>6, <1>7, <1>8, OfferStep, AckStep
  DEF DhcpNext, DhcpRuns, DhcpDevice, DhcpLan

(* The address main goes on with is one a server granted, with its gateway    *)
(* (packetloop_dhcp_initial_ip_assignment and dhcp_get_my_ip), if one offer   *)
(* was taken and nothing of an earlier start was under way.                  *)
THEOREM LeaseIsHeld == DhcpSpec => []LeaseHeld
<1>1. LeaseInv => LeaseHeld
  BY DEF LeaseInv
<1>2. QED
  BY <1>1, LeaseInitially, LeaseStep, PTL DEF DhcpSpec

-----------------------------------------------------------------------------
(* The gateway's half: while it is asked for, the one question there is is    *)
(* about it, and nothing is known before the start.                          *)
GatewayInv ==
  /\ gw_arp_state \in {0, 1, 2}
  /\ ~started => gw_arp_state = 0
  /\ gw_arp_state = 0 => gwmac = NoAddress /\ arpip_state = "none"
  /\ gw_arp_state = 1 => /\ gwmac = NoAddress
                         /\ arp_reference_number = "GW" /\ arpip_state # "have"
  /\ gw_arp_state = 2 => gwmac = gwip
  /\ arp_reference_number = "GW" => arpip = gwip
  /\ gw_arp_state = 0 => arp_reference_number = "none"

(* The server's half: a lookup that is over has put the question about an     *)
(* address on the LAN, and none came after it.                               *)
ServerInv ==
  /\ dns_state # 0 => gw_arp_state = 2
  /\ dns_state = 1 => wwwip = NoAddress
  /\ dns_state = 2 /\ wwwip \in Lan => arp_reference_number = "WWW" /\ arpip = wwwip
  /\ arp_reference_number = "WWW" /\ arpip_state = "have" => wwwmac = arpip

ArpInv == GatewayInv /\ ServerInv

LEMMA ArpInitially == ResolverInit => ArpInv
BY DEF ResolverInit, ArpInv, GatewayInv, ServerInv

(* A call without a packet once the gateway is known. *)
LEMMA IdleKeepsArp ==
  ASSUME ArpInv, IdleWithGateway, UNCHANGED own
  PROVE  ArpInv'
<1> USE DEF ArpInv, GatewayInv, ServerInv
<1>1. /\ gw_arp_state = 2 /\ gwmac = gwip
      /\ UNCHANGED <<started, gwip, gw_arp_state, gwmac, wwwmac>>
  BY DEF IdleWithGateway, macs, own
<1>2. CASE dns_state # 2 /\ wwwip' \in Lan /\ dns_state' = 2
  BY <1>1, <1>2 DEF IdleWithGateway, AskForServer, get_mac_with_arp
<1>3. CASE ~(dns_state # 2 /\ wwwip' \in Lan /\ dns_state' = 2)
  <2>1. arpip_state' = Asked /\ UNCHANGED <<arpip, arp_reference_number>>
    BY <1>3 DEF IdleWithGateway, AskForServer
  <2>2. arpip_state' = "have" => arpip_state = "have"
    BY <2>1 DEF Asked
  <2>3. /\ dns_state' = 1 => wwwip' = NoAddress
        /\ dns_state' = 2 /\ wwwip' \in Lan => dns_state = 2 /\ wwwip' = wwwip
    <3>1. CASE StartLookup
      BY <1>3, <3>1 DEF StartLookup, parse_ip
    <3>2. CASE TakeAnswer
      BY <1>3, <3>2 DEF TakeAnswer
    <3>3. CASE GiveUp
      BY <3>3, ResolverAssumption DEF GiveUp
    <3>4. CASE KeepAddress
      BY <3>4 DEF KeepAddress, dns
    <3>5. QED
      BY <3>1, <3>2, <3>3, <3>4 DEF IdleWithGateway
  <2>4. QED
    BY <1>1, <2>1, <2>2, <2>3
<1>4. QED
  BY <1>2, <1>3

(* A reply ends the question it answers. *)
LEMMA ReplyKeepsArp ==
  ASSUME ArpInv, NEW ip \in arps, PacketArp(ip), UNCHANGED own
  PROVE  ArpInv'
<1> USE DEF ArpInv, GatewayInv, ServerInv
<1>1. CASE arpip_state = "asked" /\ OfAddress(ip)
  <2>1. ip = arpip /\ arpip_state' = "have" /\ gw_arp_state # 0
    BY <1>1 DEF PacketArp, ArpReply, OfAddress
  <2>2. gw_arp_state' = 2
    BY <1>1, <2>1 DEF PacketArp, ArpReply
  <2>3. UNCHANGED <<started, gwip, arpip, arp_reference_number, dns_state, wwwip>>
    BY DEF PacketArp, own, dns
  <2>4. /\ gwmac' = IF arp_reference_number = "GW" THEN ip ELSE gwmac
        /\ wwwmac' = IF arp_reference_number = "WWW" THEN ip ELSE wwwmac
    BY <1>1 DEF PacketArp, ArpReply, arpresolver_result_callback
  <2>5. QED
    BY <2>1, <2>2, <2>3, <2>4 DEF PacketArp
<1>2. CASE ~(arpip_state = "asked" /\ OfAddress(ip))
  BY <1>2 DEF PacketArp, ArpReply, own, dns
<1>3. QED
  BY <1>1, <1>2

LEMMA ArpStep ==
  ASSUME ArpInv, [ResolverNext]_resolverVars
  PROVE  ArpInv'
<1> USE DEF ArpInv, GatewayInv, ServerInv
<1>1. ASSUME NEW i, NEW g, StartUp(i, g)
      PROVE  ArpInv'
  BY <1>1 DEF StartUp, arp, macs, dns
<1>2. CASE LinkFlips
  BY <1>2 DEF LinkFlips, arp, macs, dns
<1>3. CASE ResolverReset
  BY <1>3 DEF ResolverReset
<1>4. CASE IdleBeforeGateway /\ started /\ UNCHANGED own
  <2>1. gw_arp_state # 2 /\ UNCHANGED <<started, gwip, gwmac, wwwmac, dns_state, wwwip>>
    BY <1>4 DEF IdleBeforeGateway, own, dns
  <2>2. CASE AskForGateway
    BY <2>1, <2>2, <1>4 DEF AskForGateway, get_mac_with_arp
  <2>3. CASE /\ gw_arp_state = 1 /\ arpip_state' = Asked
             /\ UNCHANGED <<gw_arp_state, arpip, arp_reference_number>>
    BY <2>1, <2>3, <1>4 DEF Asked
  <2>4. QED
    BY <1>4, <2>2, <2>3 DEF IdleBeforeGateway
<1>5. CASE IdleWithGateway /\ UNCHANGED own
  BY <1>5, IdleKeepsArp
<1>6. ASSUME NEW ip \in arps, handle_netArp(ip)
      PROVE  ArpInv'
  BY <1>6, ReplyKeepsArp DEF handle_netArp
<1>7. CASE started /\ PacketBeforeArp /\ UNCHANGED own
  BY <1>7 DEF PacketBeforeArp, AskForGateway, get_mac_with_arp, own, dns
<1>8. ASSUME NEW l \in lookups, PacketDns(l), UNCHANGED own
      PROVE  ArpInv'
  BY <1>8 DEF PacketDns, own, arp, macs
<1>9. ASSUME NEW h \in Hosts, SaveHost(h), UNCHANGED own
      PROVE  ArpInv'
  BY <1>9 DEF SaveHost, own, arp, macs
<1>10. CASE ResolverLose /\ UNCHANGED own
  BY <1>10 DEF ResolverLose, own, arp, macs, dns
<1>11. CASE UNCHANGED resolverVars
  BY <1>11 DEF resolverVars, own, arp, macs, dns
<1>12. QED
  BY <1>1, <1>2, <1>3, <1>4, <1>5, <1>6, <1>7, <1>8, <1>9, <1>10, <1>11
  DEF ResolverNext, handle_net, Idle

(* A MAC address is used for the address it belongs to (arpresolver_result_  *)
(* callback and the reply half of the packet loop).                          *)
THEOREM MacsAreRight == ResolverSpec => []MacsRight
<1>1. ArpInv => MacsRight
  BY DEF ArpInv, GatewayInv, ServerInv, MacsRight
<1>2. QED
  BY <1>1, ArpInitially, ArpStep, PTL DEF ResolverSpec

-----------------------------------------------------------------------------
(* As long as the number of the last question is no other's, what comes with *)
(* it is about the host that is set, and so is the answer that was taken.    *)
LookupInv ==
  ~doubtful =>
    /\ dns_state = 1 =>
         /\ \A l \in lookups : l.tid = dnstid_l => l.host = host
         /\ haveDNSanswer => dns_answerip = HostIp[host]
         /\ wwwip = NoAddress
    /\ dns_state = 2 /\ ~failed => wwwip = HostIp[host]

LEMMA LookupInitially == ResolverInit => LookupInv
BY DEF ResolverInit, LookupInv

LEMMA LookupStep ==
  ASSUME LookupInv, [ResolverNext]_resolverVars
  PROVE  LookupInv'
<1> USE DEF LookupInv
<1>1. ASSUME NEW i, NEW g, StartUp(i, g)
      PROVE  LookupInv'
  BY <1>1 DEF StartUp, dns, lookup
<1>2. CASE LinkFlips
  BY <1>2 DEF LinkFlips, dns, lookup
<1>3. CASE ResolverReset
  BY <1>3 DEF ResolverReset
<1>4. CASE IdleBeforeGateway
  BY <1>4 DEF IdleBeforeGateway, dns, lookup
<1>5. CASE IdleWithGateway
  <2>1. host' = host
    BY <1>5 DEF IdleWithGateway
  <2>2. CASE StartLookup
    <3>1. CASE host \in HostNames
      <4>1. ~doubtful' => \A l \in lookups' : l.tid = dnstid_l' => l.host = host
        <5> SUFFICES ASSUME ~doubtful', NEW l \in lookups', l.tid = dnstid_l'
                     PROVE  l.host = host
          OBVIOUS
        <5>1. dnslkup_request
          BY <2>2, <3>1 DEF StartLookup, parse_ip
        <5>2. cable /\ l \notin lookups
          BY <5>1 DEF dnslkup_request
        <5>3. l = [tid |-> dnstid_l', host |-> host]
          BY <5>1, <5>2 DEF dnslkup_request
        <5>4. QED
          BY <5>3
      <4>2. QED
        BY <2>1, <2>2, <3>1, <4>1 DEF StartLookup, parse_ip, dnslkup_request, Forgets
    <3>2. CASE host \notin HostNames
      BY <2>1, <2>2, <3>2 DEF StartLookup, parse_ip
    <3>3. QED
      BY <3>1, <3>2
  <2>3. CASE TakeAnswer
    BY <2>1, <2>3 DEF TakeAnswer, lookup
  <2>4. CASE GiveUp
    BY <2>1, <2>4 DEF GiveUp
  <2>5. CASE KeepAddress
    BY <2>1, <2>5 DEF KeepAddress, dns, lookup
  <2>6. QED
    BY <1>5, <2>2, <2>3, <2>4, <2>5 DEF IdleWithGateway
<1>6. ASSUME NEW ip \in arps, handle_netArp(ip)
      PROVE  LookupInv'
  BY <1>6 DEF handle_netArp, PacketArp, dns, lookup
<1>7. CASE PacketBeforeArp
  BY <1>7 DEF PacketBeforeArp, dns, lookup
<1>8. ASSUME NEW l \in lookups, PacketDns(l)
      PROVE  LookupInv'
  BY <1>8 DEF PacketDns, lookup, udp_client_check_for_dns_answer
<1>9. ASSUME NEW h \in Hosts, SaveHost(h)
      PROVE  LookupInv'
  BY <1>9 DEF SaveHost, lookup
<1>10. CASE ResolverLose
  BY <1>10 DEF ResolverLose, dns, lookup
<1>11. CASE UNCHANGED resolverVars
  BY <1>11 DEF resolverVars, dns, lookup
<1>12. QED
  BY <1>1, <1>2, <1>3, <1>4, <1>5, <1>6, <1>7, <1>8, <1>9, <1>10, <1>11
  DEF ResolverNext, handle_net, Idle

(* The address is the host's own unless the lookup failed (dnslkup_request,   *)
(* udp_client_check_for_dns_answer and the lookup in handle_net).            *)
THEOREM AnswersAreForHost == ResolverSpec => []AnswerIsForHost
<1>1. LookupInv => AnswerIsForHost
  BY DEF LookupInv, AnswerIsForHost
<1>2. QED
  BY <1>1, LookupInitially, LookupStep, PTL DEF ResolverSpec
=============================================================================
