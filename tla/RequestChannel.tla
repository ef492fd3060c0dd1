--------------------------- MODULE RequestChannel ---------------------------
(***************************************************************************)
(* What the TCP client of S3/ip_arp_udp_tcp.c promises the web client of   *)
(* S3/web.c: one request at a time, filled in at most once and replied to  *)
(* at most once, the reply going to the callback given with the request.   *)
(* A request may get lost at any point without a word, a new one replaces  *)
(* it, and the callback may at any time be told 500, which says nothing.   *)
(***************************************************************************)
CONSTANTS Callers,    \* the callbacks a request may name
          NoCaller,   \* before the first request
          Statuses    \* the http status codes a server may answer with

VARIABLES
  stage,    \* of the current request: "idle", "asked" or "sent"
  client_browser_callback,
  event     \* the callback the last step has called, if any

vars == <<stage, client_browser_callback, event>>

NoEvent == [kind |-> "none"]
Fill == [kind |-> "fill"]
Reply(caller, status) == [kind |-> "reply", caller |-> caller, status |-> status]
Stray(caller) == [kind |-> "stray", caller |-> caller]

Init ==
  /\ stage = "idle"
  /\ client_browser_callback = NoCaller
  /\ event = NoEvent

Ask(caller) ==
  /\ stage' = "asked"
  /\ client_browser_callback' = caller
  /\ event' = NoEvent

Send ==
  /\ stage = "asked"
  /\ stage' = "sent"
  /\ event' = Fill
  /\ UNCHANGED client_browser_callback

Answer(status) ==
  /\ stage = "sent"
  /\ stage' = "idle"
  /\ event' = Reply(client_browser_callback, status)
  /\ UNCHANGED client_browser_callback

Lose ==
  /\ stage' \in {stage, "idle"}
  /\ event' \in {NoEvent} \cup {Stray(c) : c \in {client_browser_callback} \cap Callers}
  /\ UNCHANGED client_browser_callback

Next ==
  \/ \E caller \in Callers : Ask(caller)
  \/ Send
  \/ \E status \in Statuses : Answer(status)
  \/ Lose

Spec == Init /\ [][Next]_vars
=============================================================================
