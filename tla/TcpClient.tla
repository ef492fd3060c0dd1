----------------------------- MODULE TcpClient -----------------------------
(***************************************************************************)
(* The TCP client of S3/ip_arp_udp_tcp.c: client_browse_url starts a       *)
(* request, the packet loop sends its SYN when nothing is to be received,  *)
(* and handles one received segment per call.  There is one connection     *)
(* state (tcp_client_state) for all connections there ever were: what      *)
(* tells the segments of the current request from those of earlier ones is *)
(* the 3 bit number tcp_fd, carried in the source port, and it is looked   *)
(* at only by the two callbacks.                                           *)
(*                                                                         *)
(* Nothing is ever sent twice by this client; the server may send anything *)
(* it has reason to send, at any time and any number of times, which is    *)
(* what loss, delay, reordering and duplication look like from here.  Once *)
(* tcp_fd comes round to a number, the segments of its last use are gone.  *)
(***************************************************************************)
EXTENDS Integers

CONSTANTS
  NumFd,      \* number of values of tcp_fd (8)
  Callers,    \* the callbacks of client_browse_url
  NoCaller,
  Statuses    \* http status codes

ASSUME TcpClientAssumption ==
  /\ NumFd \in Nat /\ NumFd >= 2
  /\ NoCaller \notin Callers
  /\ Statuses \subseteq Nat

VARIABLES
  tcp_client_state,         \* 0 .. 7
  tcp_fd, www_fd,
  client_browser_callback,
  linkup,                   \* whether the Ethernet link is up
  server,                   \* per fd: what the server has received of it
  asked,                    \* history, per fd: who asked for it
  fills, replies,           \* history, per fd: how often filled in, replied
  event                     \* the callback the last step has called

clientVars == <<tcp_client_state, tcp_fd, www_fd, client_browser_callback, linkup,
                server, asked, fills, replies, event>>

Fd == 0 .. NumFd - 1
Short == -1     \* instead of a status: less than a status line

(* The calls of client_browser_callback and of the datafill callback.      *)
NoEvent == [kind |-> "none"]
Fill == [kind |-> "fill"]
Stray(caller) == [kind |-> "stray", caller |-> caller]
Reply(caller, status, fd) ==
  [kind |-> "reply", caller |-> caller, status |-> status, fd |-> fd]

(* A segment the server may send for the connections of an fd.             *)
Segment == [fd : Fd, kind : {"SYNACK", "ACK", "DATA", "DATAFIN", "FIN", "RST"},
            status : Statuses \cup {Short}]

HasData(p) == p.kind \in {"DATA", "DATAFIN"}
HasFin(p) == p.kind \in {"FIN", "DATAFIN"}

Arrives(p) ==
  /\ server[p.fd] # "nothing"
  /\ HasData(p) => server[p.fd] = "request"

ClientInit ==
  /\ tcp_client_state = 0
  /\ tcp_fd = 0 /\ www_fd = 0
  /\ client_browser_callback = NoCaller
  /\ linkup = TRUE
  /\ server = [f \in Fd |-> "nothing"]
  /\ asked = [f \in Fd |-> NoCaller]
  /\ fills = [f \in Fd |-> 0]
  /\ replies = [f \in Fd |-> 0]
  /\ event = NoEvent

-----------------------------------------------------------------------------
(* client_browse_url and client_tcp_req: with the link down it does nothing.*)
NextFd == IF tcp_fd + 1 > NumFd - 1 THEN 0 ELSE tcp_fd + 1

client_browse_url(callback) ==
  /\ \/ /\ linkup
        /\ client_browser_callback' = callback
        /\ tcp_fd' = NextFd
        /\ www_fd' = NextFd
        /\ tcp_client_state' = 1
        /\ server' = [server EXCEPT ![NextFd] = "nothing"]
        /\ asked' = [asked EXCEPT ![NextFd] = callback]
        /\ fills' = [fills EXCEPT ![NextFd] = 0]
        /\ replies' = [replies EXCEPT ![NextFd] = 0]
     \/ /\ ~linkup
        /\ UNCHANGED <<client_browser_callback, tcp_fd, www_fd, tcp_client_state,
                       server, asked, fills, replies>>
  /\ event' = NoEvent
  /\ UNCHANGED linkup

(* Nothing received: a request that is waiting sends its SYN, which may or  *)
(* may not reach the server.                                                *)
SendSyn ==
  /\ tcp_client_state = 1
  /\ linkup
  /\ tcp_client_state' = 2
  /\ server' \in {server, [server EXCEPT ![tcp_fd] = IF @ = "nothing" THEN "syn" ELSE @]}
  /\ event' = NoEvent
  /\ UNCHANGED <<tcp_fd, www_fd, client_browser_callback, linkup, asked, fills, replies>>

-----------------------------------------------------------------------------
(* The result callback: a segment of another fd makes a 500, a status line  *)
(* a reply, anything shorter and a reset of the current connection nothing. *)
(* For the mutation runs: the fd is not looked at.                          *)
AnyResult(p, status) ==
  /\ event' = IF status = Short THEN NoEvent
              ELSE Reply(client_browser_callback, status, p.fd)
  /\ replies' = [replies EXCEPT ![p.fd] = IF status = Short THEN @ ELSE @ + 1]

www_client_internal_result_callback(p, status) ==
  /\ event' = IF p.fd # www_fd THEN Stray(client_browser_callback)
              ELSE IF status = Short THEN NoEvent
              ELSE Reply(client_browser_callback, status, p.fd)
  /\ replies' = [replies EXCEPT ![p.fd] =
                   IF p.fd = www_fd /\ status # Short THEN @ + 1 ELSE @]

GetReset(p) ==
  /\ p.kind = "RST"
  /\ www_client_internal_result_callback(p, Short)
  /\ tcp_client_state' = 6
  /\ UNCHANGED <<server, fills>>

(* The datafill callback writes the request into the answer to a SYN-ACK,   *)
(* or nothing if it is of another fd.                                       *)
www_client_internal_datafill_callback(p) ==
  IF p.fd = www_fd
  THEN /\ event' = Fill
       /\ fills' = [fills EXCEPT ![p.fd] = @ + 1]
       /\ server' \in {server, [server EXCEPT ![p.fd] = "request"]}
  ELSE /\ event' = NoEvent
       /\ UNCHANGED <<fills, server>>

GetSynAck(p) ==
  /\ tcp_client_state = 2
  /\ p.kind = "SYNACK"
  /\ www_client_internal_datafill_callback(p)
  /\ tcp_client_state' = 3
  /\ UNCHANGED replies

(* Instead of a SYN-ACK something else: start over with a new SYN.          *)
Retry(p) ==
  /\ tcp_client_state = 2
  /\ p.kind \notin {"SYNACK", "RST"}
  /\ tcp_client_state' = 1
  /\ event' = NoEvent
  /\ UNCHANGED <<server, fills, replies>>

(* The first segment with data.  For the mutation runs: the state stays as  *)
(* it is, so that the next one counts as the first again.                   *)
StaysInThree(p) ==
  /\ tcp_client_state = 3
  /\ HasData(p)
  /\ www_client_internal_result_callback(p, p.status)
  /\ tcp_client_state' = IF HasFin(p) THEN 5 ELSE 3
  /\ UNCHANGED <<server, fills>>

GetFirstData(p) ==
  /\ tcp_client_state = 3
  /\ HasData(p)
  /\ www_client_internal_result_callback(p, p.status)
  /\ tcp_client_state' = IF HasFin(p) THEN 5 ELSE 4
  /\ UNCHANGED <<server, fills>>

(* Everything else changes the state alone, or not even that.               *)
GetOther(p) ==
  /\ p.kind # "RST"
  /\ \/ tcp_client_state = 5 /\ tcp_client_state' = 6
     \/ tcp_client_state = 6 /\ tcp_client_state' = 7
     \/ /\ tcp_client_state \in {0, 1, 3, 4, 7}
        /\ tcp_client_state = 3 => ~HasData(p)
        /\ tcp_client_state' = IF HasFin(p) THEN 5 ELSE tcp_client_state
  /\ event' = NoEvent
  /\ UNCHANGED <<server, fills, replies>>

packetloop(p) ==
  /\ Arrives(p)
  /\ \/ GetReset(p)
     \/ GetSynAck(p)
     \/ Retry(p)
     \/ GetFirstData(p)
     \/ GetOther(p)
  /\ UNCHANGED <<tcp_fd, www_fd, client_browser_callback, linkup, asked>>

LinkChanges ==
  /\ linkup' = ~linkup
  /\ event' = NoEvent
  /\ UNCHANGED <<tcp_client_state, tcp_fd, www_fd, client_browser_callback,
                 server, asked, fills, replies>>

ClientNext ==
  \/ \E callback \in Callers : client_browse_url(callback)
  \/ SendSyn
  \/ \E p \in Segment : packetloop(p)
  \/ LinkChanges

ClientSpec == ClientInit /\ [][ClientNext]_clientVars

-----------------------------------------------------------------------------
ClientTypeOK ==
  /\ tcp_client_state \in 0 .. 7
  /\ tcp_fd \in Fd /\ www_fd \in Fd
  /\ client_browser_callback \in Callers \cup {NoCaller}
  /\ linkup \in BOOLEAN
  /\ server \in [Fd -> {"nothing", "syn", "request"}]
  /\ asked \in [Fd -> Callers \cup {NoCaller}]
  /\ fills \in [Fd -> Nat] /\ replies \in [Fd -> Nat]
  /\ \/ event \in {NoEvent, Fill}
     \/ \E c \in Callers : event = Stray(c)
     \/ \E c \in Callers, s \in Statuses, f \in Fd : event = Reply(c, s, f)

(* Late segments of earlier requests, whatever their order, never reach a   *)
(* callback as a reply: what a callback gets was sent by the server, for    *)
(* the connection of a request that named this callback, after the server   *)
(* had received that request.                                               *)
ReplyReachesItsCaller ==
  event.kind = "reply" =>
    /\ asked[event.fd] = event.caller
    /\ server[event.fd] = "request"

(* A request is written to the server at most once, and its callback called *)
(* at most once with a reply, however often the server retransmits and      *)
(* however often the client starts over.                                    *)
OnceEach == \A f \in Fd : fills[f] <= 1 /\ replies[f] <= fills[f]

-----------------------------------------------------------------------------
(* A SYN-ACK of an earlier fd takes the state to 3 with nothing written: the *)
(* request is lost.                                                          *)
Stage == IF tcp_client_state \in {1, 2} THEN "asked"
         ELSE IF tcp_client_state = 3 /\ fills[www_fd] > 0 THEN "sent"
         ELSE "idle"

PlainEvent == IF event.kind # "reply" THEN event
              ELSE [kind |-> "reply", caller |-> event.caller, status |-> event.status]

Channel == INSTANCE RequestChannel WITH stage <- Stage, event <- PlainEvent

(* The client keeps the promise the web client is written against.          *)
ImplementsChannel == Channel!Spec
=============================================================================
