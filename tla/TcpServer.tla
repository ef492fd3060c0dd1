----------------------------- MODULE TcpServer -----------------------------
(***************************************************************************)
(* How S3 serves pages: the server half of packetloop_arp_icmp_tcp and the *)
(* end of handle_net.  The device keeps nothing of a connection: it makes  *)
(* each answer from the segment it answers, by exchanging the addresses and *)
(* ports, taking the acknowledged number for its own and stepping the other *)
(* one (make_tcphead, step_seq).  A page is one packet that ends the        *)
(* connection.  A page that saves settings of the network or of the pins is *)
(* the last thing the device does before it restarts.                       *)
(*                                                                         *)
(* A browser is what TCP makes it; it is also its port.  Segments are lost, *)
(* late, repeated and sent again.  What a page says is left out.            *)
(***************************************************************************)
EXTENDS Integers, FiniteSets

CONSTANTS
  Browsers,   \* each opens one connection
  Requests,   \* what it asks for: "page" or "save", a save that restarts
  Base,       \* values of a byte (256)
  Seqnum,     \* the first value of seqnum (10)
  Isns,       \* numbers a browser may begin with
  GetLen,     \* bytes of a request
  PageLens    \* bytes of a page

SequenceSize == Base * Base * Base * Base

Sequence == 0 .. SequenceSize - 1

ASSUME ServerAssumption ==
  /\ Base \in Nat \ {0, 1} /\ Seqnum \in 0 .. Base - 1
  /\ Isns \subseteq Sequence
  /\ GetLen \in Nat \ {0} /\ PageLens \subseteq Nat \ {0}

VARIABLES
  seqnum,      \* third byte of the next initial number
  stopped,       \* while (true): the watchdog is about to restart the device
  browser,     \* [at, own, peer, acked]: its state and the next numbers
  toDevice, toBrowser,
  lost         \* history: a segment was lost

tcpVars == <<seqnum, stopped, browser, toDevice, toBrowser, lost>>

NewBrowsers ==
  [Browsers -> [at : {"new"}, own : Isns, peer : {0}, acked : {FALSE}, request : Requests]]

ServerInit ==
  /\ seqnum = Seqnum /\ stopped = FALSE
  /\ browser \in NewBrowsers
  /\ toDevice = {} /\ toBrowser = {} /\ lost = FALSE

TcpSegment(port, flags, seq, ackno, len) ==
  [port |-> port, flags |-> flags, seq |-> seq, ackno |-> ackno, len |-> len]

-----------------------------------------------------------------------------
(* What each of the four bytes counts, from the lowest to the highest. *)
Weight == <<1, Base, Base * Base, Base * Base * Base>>

(* The sum goes into the lowest byte and its carry on from byte to byte. *)
step_seq(number, n) ==
  LET byte(i) == (number \div Weight[i]) % Base
      carry[i \in 1 .. 4] == IF i = 1 THEN n ELSE (byte(i - 1) + carry[i - 1]) \div Base
      digit(i) == (byte(i) + carry[i]) % Base
  IN  digit(1) + Base * (digit(2) + Base * (digit(3) + Base * digit(4)))

(* A SYN starts a connection, with a number that takes nothing from it. *)
make_tcp_synack_from_syn(m) ==
  TcpSegment(m.port, {"SYN", "ACK"}, seqnum * Base, step_seq(m.seq, 1), 0)

(* The sequence number is the one the segment acknowledged (for the mutation *)
(* runs: the one that was given out last).                                   *)
FromSeqnum(m) == (((seqnum + Base - 3) % Base) * Base + 1) % SequenceSize

CopiedSeq(m) == m.ackno

make_tcp_ack_from_any(m, len) ==
  TcpSegment(m.port, {"ACK"}, CopiedSeq(m), step_seq(m.seq, IF len = 0 THEN 1 ELSE len), 0)

(* A page goes out in the packet the acknowledgement was made in. *)
make_tcp_ack_with_data(ack, len) ==
  [ack EXCEPT !.flags = {"ACK", "PSH", "FIN"}, !.len = len]

www_server_reply(m, len) ==
  LET ack == make_tcp_ack_from_any(m, m.len)
  IN  {ack, make_tcp_ack_with_data(ack, len)}

(* What the device sends for a segment: nothing for one without data, unless *)
(* that ends the connection.                                                 *)
AnswerWithoutData(m) == IF "FIN" \in m.flags THEN {make_tcp_ack_from_any(m, 0)} ELSE {}

Received(m) == toDevice' \in {toDevice, toDevice \ {m}}

(* The driver waits for the packet before: all are sent, in order. *)
enc28j60PacketSend(segments) == toBrowser' = toBrowser \cup segments

GetSyn(m) ==
  /\ ~stopped /\ "SYN" \in m.flags
  /\ Received(m)
  /\ enc28j60PacketSend({make_tcp_synack_from_syn(m)})
  /\ seqnum' = (seqnum + 3) % Base
  /\ UNCHANGED <<stopped, browser, lost>>

GetWithoutData(m) ==
  /\ ~stopped /\ "SYN" \notin m.flags /\ m.len = 0
  /\ Received(m)
  /\ enc28j60PacketSend(AnswerWithoutData(m))
  /\ UNCHANGED <<seqnum, stopped, browser, lost>>

handle_net(m) ==
  /\ ~stopped /\ "SYN" \notin m.flags /\ m.len > 0
  /\ Received(m)
  /\ \E len \in PageLens : enc28j60PacketSend(www_server_reply(m, len))
  /\ stopped' = (browser[m.port].request = "save")
  /\ UNCHANGED <<seqnum, browser, lost>>

(* The device's own client takes the numbers of its connections from the     *)
(* same counter.                                                             *)
tcp_client_syn ==
  /\ ~stopped
  /\ seqnum' = (seqnum + 3) % Base
  /\ UNCHANGED <<stopped, browser, toDevice, toBrowser, lost>>

ServerRestart ==
  /\ seqnum' = Seqnum /\ stopped' = FALSE
  /\ UNCHANGED <<browser, toDevice, toBrowser, lost>>

-----------------------------------------------------------------------------
(* The browsers. *)
Plus(number, n) == (number + n) % SequenceSize

Sends(segments) == toDevice' = toDevice \cup segments

Becomes(b, at, own, peer) ==
  browser' = [browser EXCEPT ![b].at = at, ![b].own = own, ![b].peer = peer]

Syn(b) == TcpSegment(b, {"SYN"}, browser[b].own, 0, 0)

Open(b) ==
  /\ browser[b].at = "new"
  /\ Sends({Syn(b)})
  /\ Becomes(b, "opening", browser[b].own, 0)
  /\ UNCHANGED <<seqnum, stopped, toBrowser, lost>>

Get(b, own, peer) == TcpSegment(b, {"ACK", "PSH"}, own, peer, GetLen)

(* A browser's number counts what was acknowledged; it takes the segments    *)
(* its connection waits for and leaves the others.                           *)
IsSynAck(b, m) ==
  browser[b].at = "opening" /\ "SYN" \in m.flags /\ m.ackno = Plus(browser[b].own, 1)

IsAck(b, m) ==
  /\ browser[b].at = "waiting" /\ "SYN" \notin m.flags /\ m.len = 0
  /\ m.ackno = Plus(browser[b].own, GetLen)

IsPage(b, m) ==
  /\ browser[b].at = "waiting" /\ m.len > 0
  /\ m.seq = browser[b].peer /\ m.ackno = Plus(browser[b].own, GetLen)

IsFinAck(b, m) ==
  /\ browser[b].at = "closing" /\ "SYN" \notin m.flags /\ m.len = 0
  /\ m.seq = browser[b].peer /\ m.ackno = Plus(browser[b].own, 1)

Fin(b, own, peer) == TcpSegment(b, {"ACK", "FIN"}, own, peer, 0)

TakeSynAck(b, m) ==
  LET peer == Plus(m.seq, 1) IN
  /\ IsSynAck(b, m)
  /\ Becomes(b, "waiting", m.ackno, peer)
  /\ Sends({TcpSegment(b, {"ACK"}, m.ackno, peer, 0), Get(b, m.ackno, peer)})

TakeAck(b, m) ==
  /\ IsAck(b, m)
  /\ browser' = [browser EXCEPT ![b].acked = TRUE]
  /\ UNCHANGED toDevice

TakePage(b, m) ==
  LET peer == Plus(m.seq, m.len + 1) IN
  /\ IsPage(b, m)
  /\ Becomes(b, "closing", m.ackno, peer)
  /\ Sends({Fin(b, m.ackno, peer)})

TakeFinAck(b, m) ==
  /\ IsFinAck(b, m)
  /\ Becomes(b, "closed", m.ackno, m.seq)
  /\ UNCHANGED toDevice

Leave(b, m) ==
  /\ ~(IsSynAck(b, m) \/ IsAck(b, m) \/ IsPage(b, m) \/ IsFinAck(b, m))
  /\ UNCHANGED <<browser, toDevice>>

Reaches(m) ==
  LET b == m.port IN
  /\ toBrowser' \in {toBrowser, toBrowser \ {m}}
  /\ TakeSynAck(b, m) \/ TakeAck(b, m) \/ TakePage(b, m) \/ TakeFinAck(b, m) \/ Leave(b, m)
  /\ UNCHANGED <<seqnum, stopped, lost>>

(* What is not acknowledged is sent again after a time. *)
SendAgain(b) ==
  /\ LET own == browser[b].own
         peer == browser[b].peer
     IN  \/ browser[b].at = "opening" /\ Sends({Syn(b)})
         \/ browser[b].at = "waiting" /\ ~browser[b].acked /\ Sends({Get(b, own, peer)})
         \/ browser[b].at = "closing" /\ Sends({Fin(b, own, peer)})
  /\ UNCHANGED <<seqnum, stopped, browser, toBrowser, lost>>

LoseSegment ==
  /\ lost' = TRUE
  /\ \/ \E m \in toDevice : toDevice' = toDevice \ {m} /\ UNCHANGED toBrowser
     \/ \E m \in toBrowser : toBrowser' = toBrowser \ {m} /\ UNCHANGED toDevice
  /\ UNCHANGED <<seqnum, stopped, browser>>

ServerNext ==
  \/ \E m \in toDevice : GetSyn(m) \/ GetWithoutData(m) \/ handle_net(m)
  \/ tcp_client_syn \/ ServerRestart
  \/ \E b \in Browsers : Open(b) \/ SendAgain(b)
  \/ \E m \in toBrowser : Reaches(m)
  \/ LoseSegment

ServerSpec == ServerInit /\ [][ServerNext]_tcpVars

-----------------------------------------------------------------------------
(* A connection ends, with a page, unless a segment is lost on the way: when  *)
(* no segment is under way, no browser waits for one.  So each page and each *)
(* answer continues the connection its browser has, though the device keeps  *)
(* none, gives a SYN that is sent again another number and starts again      *)
(* between two segments.                                                     *)
ServedUnlessLost ==
  ~lost /\ toDevice = {} /\ toBrowser = {} =>
    \A b \in Browsers : browser[b].at \in {"new", "closed"}
=============================================================================
