-------------------------------- MODULE Dhcp --------------------------------
(***************************************************************************)
(* How S3 gets its address: the start-up loop of main, which takes packets *)
(* and calls packetloop_dhcp_initial_ip_assignment of dhcp_client.c until  *)
(* that returns 1.  The timer is not started yet and the scheduler does not*)
(* run, so nothing calls dhcp_6sec_tick meanwhile.  The handler for        *)
(* renewals is never called by this firmware.                              *)
(*                                                                         *)
(* A server offers one address, and is named by it; the gateway and the    *)
(* mask it gives go with it.  Messages are lost, delayed and duplicated,   *)
(* a server may refuse what it has offered, and the device may be reset at *)
(* any time, its transaction number being the same after each reset.       *)
(***************************************************************************)
EXTENDS Integers, FiniteSets

CONSTANTS
  Servers,      \* the addresses the DHCP servers of the LAN give
  NoIp,         \* 0.0.0.0
  Delay,        \* polls before the first message (0x5fff)
  SixSeconds,   \* counts of six seconds without an answer (5)
  Counts,       \* values of dhcp_6sec_cnt (256)
  Tids,         \* values of dhcp_tid (256)
  initial_tid   \* the last byte of the own MAC

ASSUME DhcpAssumption ==
  /\ NoIp \notin Servers
  /\ Delay \in Nat /\ Delay > 2
  /\ SixSeconds \in Nat /\ Counts \in Nat /\ Counts > SixSeconds + 1
  /\ Tids \in Nat \ {0, 1} /\ initial_tid \in 0 .. Tids - 1

VARIABLES
  up,             \* main has left the start-up loop
  init,           \* the delay: down to 2, 1 when a message was sent
  dhcp_6sec_cnt,
  dhcp_tid,       \* 0 until the first message is sent
  dhcp_yiaddr, dhcp_opt,  \* what the last offer gave: address, server with its options
  myip, gateway,
  link,           \* the cable
  queries,        \* what servers may still answer: [kind, tid, server]
  answers,        \* what is on its way to the device: [kind, tid, server]
  taken, granted, \* history: servers whose offers this start has taken; that sent an ACK
  stale,          \* history: a start found messages of an earlier one under way
  disturbed       \* history: a message was lost, a request refused, the link down, a restart

lease == <<dhcp_yiaddr, dhcp_opt>>
client == <<init, dhcp_6sec_cnt, dhcp_tid, lease, taken>>
given == <<up, myip, gateway>>
wire == <<link, queries, answers, granted, stale, disturbed>>
dhcpVars == <<client, given, wire>>

DhcpInit ==
  /\ up = FALSE /\ myip = NoIp /\ gateway = NoIp
  /\ init = Delay /\ dhcp_6sec_cnt = 0 /\ dhcp_tid = 0
  /\ dhcp_yiaddr = NoIp /\ dhcp_opt = NoIp
  /\ link = TRUE /\ queries = {} /\ answers = {}
  /\ taken = {} /\ granted = {} /\ stale = FALSE /\ disturbed = FALSE

(* Both are broadcast; a REQUEST names its server. *)
send_udp_transmit(messages) == queries' = queries \cup messages

send_dhcp_discover(tid) ==
  send_udp_transmit({[kind |-> "DISCOVER", tid |-> tid, server |-> s] : s \in Servers})

send_dhcp_request(tid, server) ==
  send_udp_transmit({[kind |-> "REQUEST", tid |-> tid, server |-> server]})

(* No packet: the delay goes on; when it is over, the first message is sent  *)
(* (for the mutation runs: the delay does not end); another one only when    *)
(* there is no offer and six seconds have been counted often enough.         *)
StaysAbove(n) == IF n > 3 THEN n - 1 ELSE n

Waited(n) == IF n > 2 THEN n - 1 ELSE n

DhcpPoll ==
  /\ ~up /\ link
  /\ \/ /\ init = 2
        /\ init' = 1
        /\ dhcp_6sec_cnt' = 0 /\ dhcp_tid' = initial_tid
        /\ send_dhcp_discover(dhcp_tid')
     \/ /\ init # 2 /\ dhcp_yiaddr = NoIp /\ dhcp_6sec_cnt > SixSeconds
        /\ dhcp_tid' = (dhcp_tid + 1) % Tids /\ dhcp_6sec_cnt' = 0
        /\ send_dhcp_discover(dhcp_tid')
        /\ UNCHANGED init
     \/ /\ init # 2 /\ ~(dhcp_yiaddr = NoIp /\ dhcp_6sec_cnt > SixSeconds)
        /\ init' = Waited(init)
        /\ UNCHANGED <<dhcp_6sec_cnt, dhcp_tid, queries>>
  /\ UNCHANGED <<lease, taken, given, link, answers, granted, stale, disturbed>>

(* A packet with the transaction number of this start.  An offer gives an    *)
(* address and the server's options; an ACK gives nothing (for the mutation  *)
(* runs: a refusal is taken for an ACK).  A message may come again.          *)
ForMe(m) == m.tid = dhcp_tid

TakesRefusal(m) == m.kind \in {"ACK", "NAK"}

IsAck(m) == m.kind = "ACK"

Offered(m) == dhcp_yiaddr' = m.server /\ dhcp_opt' = m.server

Received(m) == answers' \in {answers, answers \ {m}}

DhcpOffer(m) ==
  /\ ~up /\ link /\ ForMe(m) /\ m.kind = "OFFER"
  /\ Received(m)
  /\ init' = 1
  /\ Offered(m)
  /\ taken' = taken \cup {m.server}
  /\ send_dhcp_request(dhcp_tid, m.server)
  /\ UNCHANGED <<dhcp_6sec_cnt, dhcp_tid, given, link, granted, stale, disturbed>>

(* ... and main goes on with what it has, which dhcp_get_my_ip copies.       *)
Assigned == myip' = dhcp_yiaddr /\ gateway' = dhcp_opt

DhcpAck(m) ==
  /\ ~up /\ link /\ ForMe(m) /\ IsAck(m)
  /\ Received(m)
  /\ init' = 1
  /\ up' = TRUE
  /\ Assigned
  /\ UNCHANGED <<dhcp_6sec_cnt, dhcp_tid, lease, taken, link, queries, granted, stale, disturbed>>

(* Another packet, or the link is down: nothing happens. *)
DhcpIgnores(m) ==
  /\ up \/ ~link \/ ~ForMe(m) \/ (m.kind # "OFFER" /\ ~IsAck(m))
  /\ Received(m)
  /\ UNCHANGED <<client, given, link, queries, granted, stale, disturbed>>

(* The task DHCPTimer, scheduled after the start-up. *)
dhcp_6sec_tick ==
  /\ up
  /\ dhcp_6sec_cnt' = (dhcp_6sec_cnt + 1) % Counts
  /\ UNCHANGED <<init, dhcp_tid, lease, taken, given, wire>>

-----------------------------------------------------------------------------
(* The LAN: a server answers what it was asked; a server may refuse; a       *)
(* message is lost; the link goes down and comes back.                       *)
Answer(q, kind) ==
  /\ kind \in IF q.kind = "DISCOVER" THEN {"OFFER"} ELSE {"ACK", "NAK"}
  /\ queries' = queries \ {q}
  /\ answers' = answers \cup {[kind |-> kind, tid |-> q.tid, server |-> q.server]}
  /\ granted' = IF kind = "ACK" THEN granted \cup {q.server} ELSE granted
  /\ disturbed' = (disturbed \/ kind = "NAK")
  /\ UNCHANGED <<client, given, link, stale>>

Lose ==
  /\ \/ \E q \in queries : queries' = queries \ {q} /\ UNCHANGED answers
     \/ \E m \in answers : answers' = answers \ {m} /\ UNCHANGED queries
  /\ disturbed' = TRUE
  /\ UNCHANGED <<client, given, link, granted, stale>>

LinkChanges ==
  /\ link' = ~link
  /\ disturbed' = TRUE
  /\ UNCHANGED <<client, given, queries, answers, granted, stale>>

(* Power fails, or the watchdog or a button resets the device. *)
DhcpReset ==
  /\ up' = FALSE /\ myip' = NoIp /\ gateway' = NoIp
  /\ init' = Delay /\ dhcp_6sec_cnt' = 0 /\ dhcp_tid' = 0
  /\ dhcp_yiaddr' = NoIp /\ dhcp_opt' = NoIp
  /\ taken' = {} /\ granted' = {}
  /\ stale' = (queries # {} \/ answers # {})
  /\ disturbed' = TRUE
  /\ UNCHANGED <<link, queries, answers>>

DhcpDevice == DhcpPoll \/ \E m \in answers : DhcpOffer(m) \/ DhcpAck(m) \/ DhcpIgnores(m)

DhcpLan == \E q \in queries, kind \in {"OFFER", "ACK"} : Answer(q, kind)

DhcpRuns ==
  \/ DhcpDevice \/ dhcp_6sec_tick
  \/ DhcpLan \/ \E q \in queries : Answer(q, "NAK")
  \/ Lose \/ LinkChanges

DhcpNext == DhcpRuns \/ DhcpReset

DhcpSpec == DhcpInit /\ [][DhcpNext]_dhcpVars

(* The start-up loop goes round, servers answer, and each message that stays *)
(* under way is taken once.                                                  *)
Takes(m) == m \in answers /\ (DhcpOffer(m) \/ DhcpAck(m))

DhcpFairness ==
  /\ WF_dhcpVars(DhcpPoll) /\ WF_dhcpVars(DhcpLan)
  /\ \A k \in {"OFFER", "ACK"}, s \in Servers :
       WF_dhcpVars(Takes([kind |-> k, tid |-> initial_tid, server |-> s]))

FairDhcpSpec == DhcpSpec /\ DhcpFairness

-----------------------------------------------------------------------------
(* A device uses an address that a server has granted it with an ACK, if it  *)
(* has taken the offer of one server only and no messages of an earlier      *)
(* start were under way: a refused, repeated or foreign message does not     *)
(* give it an address.                                                       *)
LeaseHeld == up /\ Cardinality(taken) <= 1 /\ ~stale => myip \in granted /\ gateway = myip

(* When the LAN loses and refuses nothing, a device that has begun to start   *)
(* gets its address.                                                         *)
StartsUp == init < Delay ~> (up \/ disturbed)

(* "Still no IP after 30 sec": a device that has sent its first message and  *)
(* has no offer sends another.  (The seconds are not counted yet.)           *)
AsksAgain ==
  (~up /\ init = 1 /\ dhcp_yiaddr = NoIp /\ dhcp_tid = initial_tid)
    ~> (up \/ ~link \/ init # 1 \/ dhcp_yiaddr # NoIp \/ dhcp_tid # initial_tid)
=============================================================================
