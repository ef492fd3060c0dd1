-------------------------- MODULE TcpClientProofs --------------------------
(***************************************************************************)
(* Proofs about TcpClient.  The inductive invariant says what the state    *)
(* machine relies on: before the SYN-ACK the current request has not been  *)
(* written, before the first data it has not been replied to, and only for *)
(* what was written does the server have a request to reply to.            *)
(***************************************************************************)
EXTENDS TcpClient, TLAPS

OneCurrent ==
  /\ tcp_fd = www_fd
  /\ client_browser_callback = asked[www_fd]

Counted ==
  /\ OnceEach
  /\ tcp_client_state \in {1, 2} => fills[www_fd] = 0
  /\ tcp_client_state = 3 => replies[www_fd] = 0

ServerKnows ==
  \A f \in Fd :
    /\ server[f] = "request" => fills[f] = 1
    /\ server[f] # "nothing" => asked[f] \in Callers

(* A segment can only arrive once there was a request.                     *)
SomeCaller ==
  /\ tcp_client_state # 0 => client_browser_callback \in Callers
  /\ \A f \in Fd : server[f] # "nothing" => tcp_client_state # 0

TcpInv ==
  /\ ClientTypeOK
  /\ OneCurrent
  /\ Counted
  /\ ServerKnows
  /\ SomeCaller
  /\ ReplyReachesItsCaller

LEMMA NextFdInRange ==
  ASSUME tcp_fd \in Fd
  PROVE  NextFd \in Fd
  BY TcpClientAssumption DEF NextFd, Fd

(* The kinds of events differ, and a reply carries what it was made of.    *)
LEMMA EventKinds ==
  /\ NoEvent.kind = "none"
  /\ Fill.kind = "fill"
  /\ \A c : Stray(c).kind = "stray"
  /\ \A c, s, f : /\ Reply(c, s, f).kind = "reply"
                  /\ Reply(c, s, f).caller = c
                  /\ Reply(c, s, f).status = s
                  /\ Reply(c, s, f).fd = f
  BY DEF NoEvent, Fill, Stray, Reply

LEMMA InitInv == ClientInit => TcpInv
<1> SUFFICES ASSUME ClientInit PROVE TcpInv
  OBVIOUS
<1> USE DEF ClientInit
<1>1. ClientTypeOK
  BY TcpClientAssumption DEF ClientTypeOK, Fd
<1>2. 0 \in Fd
  BY TcpClientAssumption DEF Fd
<1>3. OneCurrent
  BY <1>2 DEF OneCurrent
<1>4. Counted /\ ServerKnows /\ SomeCaller
  BY <1>2 DEF Counted, OnceEach, ServerKnows, SomeCaller
<1>5. ReplyReachesItsCaller
  BY EventKinds DEF ReplyReachesItsCaller
<1>6. QED BY <1>1, <1>3, <1>4, <1>5 DEF TcpInv

-----------------------------------------------------------------------------
(* A new request takes the next fd, and what was known of that fd is        *)
(* forgotten.                                                               *)
LEMMA BrowseInv ==
  ASSUME TcpInv, NEW callback \in Callers, client_browse_url(callback)
  PROVE  TcpInv'
<1> USE DEF TcpInv
<1>1. event' = NoEvent /\ linkup' = linkup
  BY DEF client_browse_url
<1>2. ReplyReachesItsCaller'
  BY <1>1, EventKinds DEF ReplyReachesItsCaller
<1>3. CASE ~linkup
  <2>1. UNCHANGED <<client_browser_callback, tcp_fd, www_fd, tcp_client_state,
                    server, asked, fills, replies>>
    BY <1>3 DEF client_browse_url
  <2>2. ClientTypeOK'
    BY <1>1, <2>1 DEF ClientTypeOK
  <2>3. OneCurrent' /\ Counted' /\ ServerKnows' /\ SomeCaller'
    BY <2>1 DEF OneCurrent, Counted, OnceEach, ServerKnows, SomeCaller
  <2>4. QED BY <1>2, <2>2, <2>3
<1>4. CASE linkup
  <2>1. /\ client_browser_callback' = callback
        /\ tcp_fd' = NextFd /\ www_fd' = NextFd
        /\ tcp_client_state' = 1
        /\ server' = [server EXCEPT ![NextFd] = "nothing"]
        /\ asked' = [asked EXCEPT ![NextFd] = callback]
        /\ fills' = [fills EXCEPT ![NextFd] = 0]
        /\ replies' = [replies EXCEPT ![NextFd] = 0]
    BY <1>4 DEF client_browse_url
  <2>2. NextFd \in Fd
    BY NextFdInRange DEF ClientTypeOK
  <2>3. ClientTypeOK'
    BY <1>1, <2>1, <2>2 DEF ClientTypeOK
  <2>4. OneCurrent'
    BY <2>1, <2>2 DEF OneCurrent, ClientTypeOK
  <2>5. Counted'
    BY <2>1, <2>2 DEF Counted, OnceEach, ClientTypeOK
  <2>6. ServerKnows' /\ SomeCaller'
    BY <2>1, <2>2 DEF ServerKnows, SomeCaller, ClientTypeOK
  <2>7. QED BY <1>2, <2>3, <2>4, <2>5, <2>6
<1>5. QED BY <1>3, <1>4

LEMMA SynInv ==
  ASSUME TcpInv, SendSyn
  PROVE  TcpInv'
<1> USE DEF TcpInv
<1>1. /\ tcp_client_state = 1 /\ tcp_client_state' = 2
      /\ event' = NoEvent
      /\ UNCHANGED <<tcp_fd, www_fd, client_browser_callback, linkup, asked, fills, replies>>
      /\ server' = server \/ server' = [server EXCEPT ![tcp_fd] =
                                         IF @ = "nothing" THEN "syn" ELSE @]
  BY DEF SendSyn
<1>2. /\ tcp_fd \in Fd /\ tcp_fd = www_fd
      /\ asked[tcp_fd] = client_browser_callback
      /\ client_browser_callback \in Callers
  BY <1>1 DEF ClientTypeOK, OneCurrent, SomeCaller
<1>3. \A f \in Fd : /\ server'[f] = "request" => server[f] = "request"
                    /\ server'[f] # "nothing" => server[f] # "nothing" \/ f = tcp_fd
  BY <1>1, <1>2 DEF ClientTypeOK
<1>4. server' \in [Fd -> {"nothing", "syn", "request"}]
  BY <1>1, <1>2 DEF ClientTypeOK
<1>5. ClientTypeOK'
  BY <1>1, <1>4 DEF ClientTypeOK
<1>6. OneCurrent' /\ Counted'
  BY <1>1 DEF OneCurrent, Counted, OnceEach
<1>7. ServerKnows'
  BY <1>1, <1>2, <1>3 DEF ServerKnows
<1>8. SomeCaller'
  BY <1>1, <1>2 DEF SomeCaller
<1>9. ReplyReachesItsCaller'
  BY <1>1, EventKinds DEF ReplyReachesItsCaller
<1>10. QED BY <1>5, <1>6, <1>7, <1>8, <1>9

LEMMA LinkInv ==
  ASSUME TcpInv, LinkChanges
  PROVE  TcpInv'
<1> USE DEF TcpInv
<1>1. /\ linkup' = ~linkup /\ event' = NoEvent
      /\ UNCHANGED <<tcp_client_state, tcp_fd, www_fd, client_browser_callback,
                     server, asked, fills, replies>>
  BY DEF LinkChanges
<1>2. ClientTypeOK'
  BY <1>1 DEF ClientTypeOK
<1>3. OneCurrent' /\ Counted' /\ ServerKnows' /\ SomeCaller'
  BY <1>1 DEF OneCurrent, Counted, OnceEach, ServerKnows, SomeCaller
<1>4. ReplyReachesItsCaller'
  BY <1>1, EventKinds DEF ReplyReachesItsCaller
<1>5. QED BY <1>2, <1>3, <1>4

-----------------------------------------------------------------------------
(* A segment that arrives.  The result callback makes a reply only of a      *)
(* segment of the current fd.                                                *)
LEMMA ResultType ==
  ASSUME TcpInv, NEW p \in Segment, server[p.fd] # "nothing",
         NEW status \in Statuses \cup {Short},
         www_client_internal_result_callback(p, status)
  PROVE  /\ event' = NoEvent \/ event' = Stray(client_browser_callback)
           \/ (/\ p.fd = www_fd /\ status \in Statuses
               /\ event' = Reply(client_browser_callback, status, p.fd)
               /\ replies' = [replies EXCEPT ![p.fd] = replies[p.fd] + 1])
         /\ (p.fd # www_fd \/ status = Short) => replies' = replies
         /\ replies' = replies \/ replies' = [replies EXCEPT ![p.fd] = replies[p.fd] + 1]
         /\ client_browser_callback \in Callers
<1>1. p.fd \in Fd
  BY DEF Segment
<1>2. client_browser_callback \in Callers
  BY <1>1 DEF TcpInv, SomeCaller
<1>3. (p.fd # www_fd \/ status = Short) => replies' = replies
  BY <1>1 DEF www_client_internal_result_callback, TcpInv, ClientTypeOK
<1>4. p.fd = www_fd /\ status # Short =>
        replies' = [replies EXCEPT ![p.fd] = replies[p.fd] + 1]
  BY <1>1 DEF www_client_internal_result_callback
<1>5. QED BY <1>2, <1>3, <1>4 DEF www_client_internal_result_callback

LEMMA PacketInv ==
  ASSUME TcpInv, NEW p \in Segment, packetloop(p)
  PROVE  TcpInv'
<1> USE DEF TcpInv
<1>1. /\ server[p.fd] # "nothing"
      /\ HasData(p) => server[p.fd] = "request"
      /\ UNCHANGED <<tcp_fd, www_fd, client_browser_callback, linkup, asked>>
  BY DEF packetloop, Arrives
<1>2. /\ p.fd \in Fd /\ p.status \in Statuses \cup {Short} /\ Short \in Statuses \cup {Short}
      /\ www_fd \in Fd
  BY DEF Segment, ClientTypeOK
<1>3. client_browser_callback \in Callers /\ tcp_client_state # 0
  BY <1>1, <1>2 DEF SomeCaller
<1>4. OneCurrent'
  BY <1>1 DEF OneCurrent
<1>5. CASE GetReset(p)
  <2>1. /\ tcp_client_state' = 6 /\ UNCHANGED <<server, fills>>
        /\ www_client_internal_result_callback(p, Short)
    BY <1>5 DEF GetReset
  <2>2. replies' = replies /\ (event' = NoEvent \/ event' = Stray(client_browser_callback))
    BY <2>1, <1>1, <1>2, ResultType, TcpClientAssumption DEF Short
  <2>3. ClientTypeOK'
    BY <1>1, <1>3, <2>1, <2>2 DEF ClientTypeOK
  <2>4. Counted' /\ ServerKnows' /\ SomeCaller'
    BY <1>1, <1>3, <2>1, <2>2 DEF Counted, OnceEach, ServerKnows, SomeCaller
  <2>5. ReplyReachesItsCaller'
    BY <2>2, EventKinds DEF ReplyReachesItsCaller
  <2>6. QED BY <1>4, <2>3, <2>4, <2>5
<1>6. CASE GetSynAck(p)
  <2>1. /\ tcp_client_state = 2 /\ tcp_client_state' = 3 /\ replies' = replies
        /\ www_client_internal_datafill_callback(p)
    BY <1>6 DEF GetSynAck
  <2>2. fills[www_fd] = 0 /\ replies[www_fd] = 0
    BY <1>2, <2>1 DEF Counted, OnceEach, ClientTypeOK
  <2>3. CASE p.fd # www_fd
    <3>1. event' = NoEvent /\ UNCHANGED <<fills, server>>
      BY <2>1, <2>3 DEF www_client_internal_datafill_callback
    <3>2. ClientTypeOK'
      BY <1>1, <2>1, <3>1 DEF ClientTypeOK
    <3>3. Counted' /\ ServerKnows' /\ SomeCaller'
      BY <1>1, <1>3, <2>1, <2>2, <3>1 DEF Counted, OnceEach, ServerKnows, SomeCaller
    <3>4. ReplyReachesItsCaller'
      BY <3>1, EventKinds DEF ReplyReachesItsCaller
    <3>5. QED BY <1>4, <3>2, <3>3, <3>4
  <2>4. CASE p.fd = www_fd
    <3>1. /\ event' = Fill
          /\ fills' = [fills EXCEPT ![www_fd] = fills[www_fd] + 1]
          /\ server' = server \/ server' = [server EXCEPT ![www_fd] = "request"]
      BY <2>1, <2>4 DEF www_client_internal_datafill_callback
    <3>2. fills' = [fills EXCEPT ![www_fd] = 1]
      BY <2>2, <3>1
    <3>3. ClientTypeOK'
      BY <1>1, <1>2, <2>1, <3>1, <3>2 DEF ClientTypeOK
    <3>4. Counted'
      BY <1>1, <1>2, <2>1, <2>2, <3>2 DEF Counted, OnceEach, ClientTypeOK
    <3>5. ServerKnows' /\ SomeCaller'
      BY <1>1, <1>2, <1>3, <2>1, <2>4, <3>1, <3>2 DEF ServerKnows, SomeCaller, ClientTypeOK
    <3>6. ReplyReachesItsCaller'
      BY <3>1, EventKinds DEF ReplyReachesItsCaller
    <3>7. QED BY <1>4, <3>3, <3>4, <3>5, <3>6
  <2>5. QED BY <2>3, <2>4
<1>7. CASE Retry(p)
  <2>1. /\ tcp_client_state = 2 /\ tcp_client_state' = 1 /\ event' = NoEvent
        /\ UNCHANGED <<server, fills, replies>>
    BY <1>7 DEF Retry
  <2>2. ClientTypeOK'
    BY <1>1, <2>1 DEF ClientTypeOK
  <2>3. Counted' /\ ServerKnows' /\ SomeCaller'
    BY <1>1, <1>3, <2>1 DEF Counted, OnceEach, ServerKnows, SomeCaller
  <2>4. ReplyReachesItsCaller'
    BY <2>1, EventKinds DEF ReplyReachesItsCaller
  <2>5. QED BY <1>4, <2>2, <2>3, <2>4
<1>8. CASE GetFirstData(p)
  <2>1. /\ tcp_client_state = 3 /\ tcp_client_state' \in {4, 5}
        /\ server[p.fd] = "request"
        /\ UNCHANGED <<server, fills>>
        /\ www_client_internal_result_callback(p, p.status)
    BY <1>1, <1>8 DEF GetFirstData
  <2>2. fills[p.fd] = 1 /\ replies[www_fd] = 0
    BY <1>2, <2>1 DEF ServerKnows, Counted
  <2>3. \/ replies' = replies /\ (event' = NoEvent \/ event' = Stray(client_browser_callback))
        \/ /\ p.fd = www_fd /\ p.status \in Statuses
           /\ event' = Reply(client_browser_callback, p.status, p.fd)
           /\ replies' = [replies EXCEPT ![www_fd] = 1]
    <3>1. CASE p.fd # www_fd \/ p.status = Short
      <4>1. replies' = replies
        BY <3>1, <1>1, <1>2, <2>1, ResultType
      <4>2. event' = NoEvent \/ event' = Stray(client_browser_callback)
        BY <3>1, <2>1 DEF www_client_internal_result_callback
      <4>3. QED BY <4>1, <4>2
    <3>2. CASE p.fd = www_fd /\ p.status # Short
      <4>1. event' = Reply(client_browser_callback, p.status, p.fd)
        BY <3>2, <2>1 DEF www_client_internal_result_callback
      <4>2. replies' = [replies EXCEPT ![p.fd] = replies[p.fd] + 1]
        BY <3>2, <2>1 DEF www_client_internal_result_callback
      <4>3. replies[p.fd] + 1 = 1
        BY <3>2, <2>2
      <4>4. p.status \in Statuses
        BY <3>2, <1>2
      <4>5. replies' = [replies EXCEPT ![www_fd] = 1]
        BY <3>2, <4>2, <4>3
      <4>6. QED BY <3>2, <4>1, <4>4, <4>5
    <3>3. QED BY <3>1, <3>2
  <2>4. ClientTypeOK'
    BY <1>1, <1>2, <1>3, <2>1, <2>3 DEF ClientTypeOK
  <2>5. Counted'
    BY <1>1, <1>2, <2>1, <2>2, <2>3 DEF Counted, OnceEach, ClientTypeOK
  <2>6. ServerKnows' /\ SomeCaller'
    BY <1>1, <1>3, <2>1 DEF ServerKnows, SomeCaller
  <2>7. ReplyReachesItsCaller'
    BY <1>1, <2>1, <2>3, EventKinds DEF ReplyReachesItsCaller, OneCurrent
  <2>8. QED BY <1>4, <2>4, <2>5, <2>6, <2>7
<1>9. CASE GetOther(p)
  <2>1. /\ event' = NoEvent
        /\ UNCHANGED <<server, fills, replies>>
        /\ tcp_client_state' \in {1, 3, 4, 5, 6, 7}
        /\ tcp_client_state' \in {1, 3} => tcp_client_state' = tcp_client_state
    BY <1>3, <1>9 DEF GetOther
  <2>2. ClientTypeOK'
    BY <1>1, <2>1 DEF ClientTypeOK
  <2>3. Counted' /\ ServerKnows' /\ SomeCaller'
    BY <1>1, <1>3, <2>1 DEF Counted, OnceEach, ServerKnows, SomeCaller
  <2>4. ReplyReachesItsCaller'
    BY <2>1, EventKinds DEF ReplyReachesItsCaller
  <2>5. QED BY <1>4, <2>2, <2>3, <2>4
<1>10. QED BY <1>5, <1>6, <1>7, <1>8, <1>9 DEF packetloop

LEMMA StepInv == TcpInv /\ [ClientNext]_clientVars => TcpInv'
<1> SUFFICES ASSUME TcpInv, [ClientNext]_clientVars PROVE TcpInv'
  OBVIOUS
<1>1. ASSUME NEW callback \in Callers, client_browse_url(callback) PROVE TcpInv'
  BY <1>1, BrowseInv
<1>2. CASE SendSyn
  BY <1>2, SynInv
<1>3. ASSUME NEW p \in Segment, packetloop(p) PROVE TcpInv'
  BY <1>3, PacketInv
<1>4. CASE LinkChanges
  BY <1>4, LinkInv
<1>5. CASE UNCHANGED clientVars
  BY <1>5 DEF clientVars, TcpInv, ClientTypeOK, OneCurrent, Counted, OnceEach, ServerKnows,
     SomeCaller, ReplyReachesItsCaller
<1>6. QED BY <1>1, <1>2, <1>3, <1>4, <1>5 DEF ClientNext

-----------------------------------------------------------------------------
(* The inductive invariant holds in every state.                            *)
THEOREM ClientConsistent == ClientSpec => []TcpInv
  BY InitInv, StepInv, PTL DEF ClientSpec

(* The variables of packetloop_arp_icmp_tcp's client part keep their types. *)
THEOREM ClientTypeCorrect == ClientSpec => []ClientTypeOK
<1>1. TcpInv => ClientTypeOK
  BY DEF TcpInv
<1>2. QED BY <1>1, ClientConsistent, PTL

(* For any number of fds: what reaches a callback as a reply was sent for   *)
(* the connection of its own request.                                       *)
THEOREM RepliesReachTheirCallers == ClientSpec => []ReplyReachesItsCaller
<1>1. TcpInv => ReplyReachesItsCaller
  BY DEF TcpInv
<1>2. QED BY <1>1, ClientConsistent, PTL

(* For any number of fds: every request is written at most once and         *)
(* replied to at most once.                                                 *)
THEOREM WrittenAndRepliedOnce == ClientSpec => []OnceEach
<1>1. TcpInv => OnceEach
  BY DEF TcpInv, Counted
<1>2. QED BY <1>1, ClientConsistent, PTL

-----------------------------------------------------------------------------
(* Refinement: the plain form of each event, and what a step that calls      *)
(* nobody, or calls with a 500, is for the channel.                          *)
LEMMA PlainEvents ==
  /\ event' = NoEvent => PlainEvent' = Channel!NoEvent
  /\ event' = Fill => PlainEvent' = Channel!Fill
  /\ \A c : event' = Stray(c) => PlainEvent' = Channel!Stray(c)
  /\ \A c, s, f : event' = Reply(c, s, f) => PlainEvent' = Channel!Reply(c, s)
  BY DEF PlainEvent, NoEvent, Fill, Stray, Reply,
         Channel!NoEvent, Channel!Fill, Channel!Stray, Channel!Reply

LEMMA LoseMaps ==
  ASSUME Stage' \in {Stage, "idle"},
         client_browser_callback' = client_browser_callback,
         \/ event' = NoEvent
         \/ client_browser_callback \in Callers /\ event' = Stray(client_browser_callback)
  PROVE  Channel!Next
<1>1. PlainEvent' \in {Channel!NoEvent} \cup
        {Channel!Stray(c) : c \in {client_browser_callback} \cap Callers}
  BY PlainEvents
<1>2. QED BY <1>1 DEF Channel!Next, Channel!Lose

LEMMA PacketMaps ==
  ASSUME TcpInv, NEW p \in Segment, packetloop(p)
  PROVE  Channel!Next
<1>1. /\ server[p.fd] # "nothing"
      /\ HasData(p) => server[p.fd] = "request"
      /\ UNCHANGED <<tcp_fd, www_fd, client_browser_callback, linkup, asked>>
  BY DEF packetloop, Arrives
<1>2. /\ p.fd \in Fd /\ p.status \in Statuses \cup {Short} /\ Short \in Statuses \cup {Short}
      /\ www_fd \in Fd
  BY DEF Segment, TcpInv, ClientTypeOK
<1>3. client_browser_callback \in Callers /\ tcp_client_state # 0
  BY <1>1, <1>2 DEF TcpInv, SomeCaller
<1>5. CASE GetReset(p)
  <2>1. Stage' = "idle"
    BY <1>5 DEF GetReset, Stage
  <2>2. event' = NoEvent \/ event' = Stray(client_browser_callback)
    BY <1>5 DEF GetReset, www_client_internal_result_callback
  <2>3. QED BY <1>1, <1>3, <2>1, <2>2, LoseMaps
<1>6. CASE GetSynAck(p)
  <2>1. /\ tcp_client_state = 2 /\ tcp_client_state' = 3
        /\ www_client_internal_datafill_callback(p)
    BY <1>6 DEF GetSynAck
  <2>2. fills[www_fd] = 0 /\ Stage = "asked"
    BY <2>1 DEF TcpInv, Counted, Stage
  <2>3. CASE p.fd # www_fd
    <3>1. event' = NoEvent /\ fills' = fills
      BY <2>1, <2>3 DEF www_client_internal_datafill_callback
    <3>2. Stage' = "idle"
      BY <1>1, <2>1, <2>2, <3>1 DEF Stage
    <3>3. QED BY <1>1, <3>1, <3>2, LoseMaps
  <2>4. CASE p.fd = www_fd
    <3>1. event' = Fill /\ fills' = [fills EXCEPT ![www_fd] = fills[www_fd] + 1]
      BY <2>1, <2>4 DEF www_client_internal_datafill_callback
    <3>2. fills'[www_fd'] = 1
      BY <1>1, <1>2, <2>2, <3>1 DEF TcpInv, ClientTypeOK
    <3>3. Stage' = "sent"
      BY <2>1, <3>2 DEF Stage
    <3>4. QED BY <1>1, <2>2, <3>1, <3>3, PlainEvents DEF Channel!Next, Channel!Send
  <2>5. QED BY <2>3, <2>4
<1>7. CASE Retry(p)
  <2>1. event' = NoEvent /\ Stage = "asked" /\ Stage' = "asked"
    BY <1>7 DEF Retry, Stage
  <2>2. QED BY <1>1, <2>1, LoseMaps
<1>8. CASE GetFirstData(p)
  <2>1. /\ tcp_client_state = 3 /\ tcp_client_state' \in {4, 5}
        /\ server[p.fd] = "request"
        /\ www_client_internal_result_callback(p, p.status)
    BY <1>1, <1>8 DEF GetFirstData
  <2>2. Stage' = "idle"
    BY <2>1 DEF Stage
  <2>3. CASE p.fd # www_fd \/ p.status = Short
    <3>1. event' = NoEvent \/ event' = Stray(client_browser_callback)
      BY <2>1, <2>3 DEF www_client_internal_result_callback
    <3>2. QED BY <1>1, <1>3, <2>2, <3>1, LoseMaps
  <2>4. CASE p.fd = www_fd /\ p.status # Short
    <3>1. event' = Reply(client_browser_callback, p.status, p.fd)
      BY <2>1, <2>4 DEF www_client_internal_result_callback
    <3>2. p.status \in Statuses
      BY <1>2, <2>4
    <3>3. fills[www_fd] = 1
      BY <1>2, <2>1, <2>4 DEF TcpInv, ServerKnows
    <3>4. Stage = "sent"
      BY <2>1, <3>3 DEF Stage
    <3>5. Channel!Answer(p.status)
      BY <1>1, <2>2, <3>1, <3>4, PlainEvents DEF Channel!Answer
    <3>6. QED BY <3>2, <3>5 DEF Channel!Next
  <2>5. QED BY <2>3, <2>4
<1>9. CASE GetOther(p)
  <2>1. /\ event' = NoEvent /\ fills' = fills
        /\ tcp_client_state' \in {1, 3, 4, 5, 6, 7}
        /\ tcp_client_state' \in {1, 3} => tcp_client_state' = tcp_client_state
    BY <1>3, <1>9 DEF GetOther, TcpInv, ClientTypeOK
  <2>2. Stage' \in {Stage, "idle"}
    BY <1>1, <2>1 DEF Stage
  <2>3. QED BY <1>1, <2>1, <2>2, LoseMaps
<1>10. QED BY <1>5, <1>6, <1>7, <1>8, <1>9 DEF packetloop

LEMMA StepMaps == TcpInv /\ [ClientNext]_clientVars => [Channel!Next]_Channel!vars
<1> SUFFICES ASSUME TcpInv, [ClientNext]_clientVars PROVE [Channel!Next]_Channel!vars
  OBVIOUS
<1>1. ASSUME NEW callback \in Callers, client_browse_url(callback)
      PROVE  Channel!Next
  <2>1. event' = NoEvent
    BY <1>1 DEF client_browse_url
  <2>2. CASE ~linkup
    <3>1. Stage' = Stage /\ client_browser_callback' = client_browser_callback
      BY <1>1, <2>2 DEF client_browse_url, Stage
    <3>2. QED BY <2>1, <3>1, LoseMaps
  <2>3. CASE linkup
    <3>1. Stage' = "asked" /\ client_browser_callback' = callback
      BY <1>1, <2>3 DEF client_browse_url, Stage
    <3>2. Channel!Ask(callback)
      BY <2>1, <3>1, PlainEvents DEF Channel!Ask
    <3>3. QED BY <1>1, <3>2 DEF Channel!Next
  <2>4. QED BY <2>2, <2>3
<1>2. CASE SendSyn
  <2>1. /\ event' = NoEvent /\ Stage' = Stage
        /\ client_browser_callback' = client_browser_callback
    BY <1>2 DEF SendSyn, Stage
  <2>2. QED BY <2>1, LoseMaps
<1>3. ASSUME NEW p \in Segment, packetloop(p) PROVE Channel!Next
  BY <1>3, PacketMaps
<1>4. CASE LinkChanges
  <2>1. /\ event' = NoEvent /\ Stage' = Stage
        /\ client_browser_callback' = client_browser_callback
    BY <1>4 DEF LinkChanges, Stage
  <2>2. QED BY <2>1, LoseMaps
<1>5. CASE UNCHANGED clientVars
  BY <1>5 DEF clientVars, Channel!vars, Stage, PlainEvent
<1>6. QED BY <1>1, <1>2, <1>3, <1>4, <1>5 DEF ClientNext

(* For any number of fds: the TCP client is the channel the web client is   *)
(* written against.                                                         *)
THEOREM ClientImplementsChannel == ClientSpec => ImplementsChannel
<1>1. ClientInit => Channel!Init
  BY DEF ClientInit, Stage, PlainEvent, NoEvent, Channel!Init, Channel!NoEvent
<1>2. QED BY <1>1, StepMaps, ClientConsistent, PTL DEF ClientSpec, ImplementsChannel, Channel!Spec
=============================================================================
