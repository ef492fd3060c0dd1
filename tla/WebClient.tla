----------------------------- MODULE WebClient -----------------------------
(***************************************************************************)
(* The web client of S3/web.c: handle_net's state machine, which turns the *)
(* wishes that the tasks leave in start_web_client (1: upload, 10: fetch   *)
(* the LCD's text) into requests, the callbacks that take the replies, and *)
(* web_client_monitor, which restarts the device when replies are missing. *)
(* One variable, start_web_client, is the wish, the request in progress    *)
(* (2) and the end of it (0), and is written by tasks, callbacks and       *)
(* handle_net alike; one timer, dnsTimer, serves the name lookup and the   *)
(* requests.  What a request says is left out.                             *)
(*                                                                         *)
(* Requests go through a RequestChannel (TcpClient is shown to be one).    *)
(* The state machine waits for the gateway's MAC address: the model starts *)
(* when it is known.                                                       *)
(***************************************************************************)
EXTENDS LcdWishes, FiniteSetsExt

CONSTANTS
  W,              \* number of values of tickS (2^16)
  RequestTimeout, \* seconds a request may take (10)
  DnsTimeout,     \* seconds a name lookup may take (20)
  BoxEvery,       \* uploads between two reports of the box's address (30)
  UploadLimit,    \* web_client_monitor that restarts at an upload (5)
  DnsLimit,       \* web_client_monitor that restarts at a lookup (60)
  Statuses,       \* the http status codes a server answers with
  MaxSaves        \* bound: how often the host is saved between good replies

ASSUME WebClientAssumption ==
  /\ RequestTimeout \in 1 .. W - 2 /\ DnsTimeout \in 1 .. W - 2
  /\ BoxEvery \in Nat \ {0}
  /\ UploadLimit \in Nat /\ DnsLimit \in Nat /\ UploadLimit <= DnsLimit
  /\ 0 \in Statuses /\ 200 \in Statuses

VARIABLES
  stage, client_browser_callback, event,     \* of the channel
  start_web_client,    \* 0, 1, 2 or 10
  dns_state,           \* 0, 1 or 2
  dnsAge,              \* tickDiffS(dnsTimer)
  sendBoxData, web_client_monitor,
  httpType,
  lcd_current_screen,  \* 255, 254, 250, or 0 for any screen that is shown
  seconds,             \* seconds since handle_net last found no packet
  dead,                \* while (true): the watchdog restarts the device
  unanswered, saves    \* history: uploads asked for, and hosts saved, since
                       \* the last good reply to an upload

channel == <<stage, client_browser_callback, event>>
request == <<start_web_client, sendBoxData, httpType>>
lookup == <<dns_state, dnsAge>>
monitor == <<web_client_monitor, unanswered, saves, dead>>
webVars == <<channel, request, lookup, monitor,
             lcd_current_screen, seconds>>

Channel == INSTANCE RequestChannel WITH
  Callers <- {"boxcallback", "browserresult_callback", "lcd_callback"},
  NoCaller <- "none"

WebInit ==
  /\ Channel!Init
  /\ start_web_client = 0
  /\ dns_state = 0 /\ dnsAge = 0
  /\ sendBoxData = 0 /\ web_client_monitor = 0
  /\ httpType = 0
  /\ lcd_current_screen = 255
  /\ seconds = 0
  /\ dead = FALSE
  /\ unanswered = 0 /\ saves = 0

-----------------------------------------------------------------------------
(* A new second: the scheduler may call sendData, which wishes for an       *)
(* upload, then lcd_update.                                                  *)
scheduleRun ==
  /\ ~dead
  /\ seconds = 0
  /\ seconds' = 1
  /\ dnsAge' = (dnsAge + 1) % W
  /\ \E wish \in {start_web_client, 1} :
       \E after \in {<<wish, lcd_current_screen>>} \cup lcd_wishes(wish, lcd_current_screen) :
         start_web_client' = after[1] /\ lcd_current_screen' = after[2]
  /\ event' = Channel!NoEvent
  /\ UNCHANGED <<stage, client_browser_callback, sendBoxData, httpType,
                 dns_state, monitor>>

-----------------------------------------------------------------------------
(* client_browse_url does nothing when the link is down, which it may be at *)
(* any time.                                                                *)
client_browse_url(callback) ==
  \/ Channel!Ask(callback)
  \/ event' = Channel!NoEvent /\ UNCHANGED <<stage, client_browser_callback>>

(* The counts at which the device is given up. *)
LookupGivesUp == web_client_monitor >= DnsLimit
UploadGivesUp == web_client_monitor + 1 >= UploadLimit

(* dns_state 0: count, read the settings, start the lookup if the host is a *)
(* name.                                                                    *)
StartLookup ==
  /\ dns_state = 0
  /\ ~LookupGivesUp
  /\ web_client_monitor' = web_client_monitor + 1
  /\ \/ dns_state' = 1 /\ dnsAge' = 0
     \/ dns_state' = 2 /\ UNCHANGED dnsAge
  /\ event' = Channel!NoEvent
  /\ UNCHANGED <<stage, client_browser_callback, request, unanswered, saves, dead>>

(* dns_state 1 without an answer: wait, or fall back on the last address.   *)
AwaitLookup ==
  /\ dns_state = 1
  /\ dns_state' = IF dnsAge > DnsTimeout THEN 2 ELSE 1
  /\ event' = Channel!NoEvent
  /\ UNCHANGED <<stage, client_browser_callback, request, dnsAge, monitor>>

(* The address is known, or the answer is in: the wish becomes a request.   *)
Resolved == dns_state \in {1, 2} /\ dns_state' = 2

NoWish ==
  /\ start_web_client \in {0, 2}
  /\ event' = Channel!NoEvent
  /\ UNCHANGED <<stage, client_browser_callback, sendBoxData, httpType,
                 dnsAge, monitor>>

ReportBox ==
  /\ start_web_client = 1 /\ sendBoxData = 0
  /\ sendBoxData' = BoxEvery
  /\ httpType' = 2
  /\ client_browse_url("boxcallback")
  /\ UNCHANGED <<dnsAge, monitor>>

Upload ==
  /\ start_web_client = 1 /\ sendBoxData # 0
  /\ ~UploadGivesUp
  /\ sendBoxData' = sendBoxData - 1
  /\ dnsAge' = 0
  /\ httpType' = 1
  /\ web_client_monitor' = web_client_monitor + 1
  /\ client_browse_url("browserresult_callback")
  /\ unanswered' = Min({unanswered + 1, UploadLimit})
  /\ UNCHANGED <<saves, dead>>

FetchLcd ==
  /\ start_web_client = 10
  /\ dnsAge' = 0
  /\ httpType' = 3
  /\ client_browse_url("lcd_callback")
  /\ UNCHANGED <<sendBoxData, monitor>>

(* The last lines of the branch: a request is over when its time is up (for *)
(* the mutation runs: only a reply ends it).                                *)
RunsOn(wish) == IF wish # 0 THEN 2 ELSE 0

TimeOut(wish) == IF wish # 0 /\ dnsAge' <= RequestTimeout THEN 2 ELSE 0

(* handle_net finds no packet.                                              *)
Idle ==
  /\ ~dead
  /\ seconds' = 0
  /\ \/ StartLookup
     \/ AwaitLookup
     \/ /\ Resolved
        /\ \/ NoWish \/ ReportBox \/ Upload \/ FetchLcd
        /\ start_web_client' = TimeOut(start_web_client)
  /\ UNCHANGED lcd_current_screen

(* ... and gives up: too many uploads or lookups without a good reply.      *)
Die ==
  /\ ~dead
  /\ \/ dns_state = 0 /\ LookupGivesUp
     \/ /\ dns_state \in {1, 2}
        /\ start_web_client = 1 /\ sendBoxData # 0
        /\ UploadGivesUp
  /\ dead' = TRUE
  /\ event' = Channel!NoEvent
  /\ UNCHANGED <<stage, client_browser_callback, request, lookup,
                 web_client_monitor, unanswered, saves, lcd_current_screen, seconds>>

(* The watchdog restarts the device; what the old requests still bring is   *)
(* not heard during the start.                                              *)
Restart ==
  /\ dead
  /\ stage' = "idle" /\ client_browser_callback' = "none" /\ event' = Channel!NoEvent
  /\ start_web_client' = 0 /\ sendBoxData' = 0 /\ httpType' = 0
  /\ dns_state' = 0 /\ dnsAge' = 0 /\ seconds' = 0
  /\ lcd_current_screen' = 255
  /\ web_client_monitor' = 0 /\ dead' = FALSE
  /\ unanswered' = 0 /\ saves' = 0

-----------------------------------------------------------------------------
(* handle_net finds a packet of the TCP client, and the callbacks run.  (For *)
(* the mutation runs: a good reply does not reset the monitor; a reply to    *)
(* the LCD's request does.)                                                  *)
boxcallback == UNCHANGED <<start_web_client, lcd_current_screen, monitor>>

GoodReply ==
  /\ web_client_monitor' = 0
  /\ unanswered' = 0 /\ saves' = 0
  /\ UNCHANGED dead

ForgetsMonitor(status) ==
  /\ start_web_client' = 0
  /\ unanswered' = IF status = 200 THEN 0 ELSE unanswered
  /\ UNCHANGED <<web_client_monitor, saves, dead, lcd_current_screen>>

browserresult_callback(status) ==
  /\ start_web_client' = 0
  /\ IF status = 200 THEN GoodReply ELSE UNCHANGED monitor
  /\ UNCHANGED lcd_current_screen

LcdIsGood(status) ==
  /\ start_web_client' = 0
  /\ web_client_monitor' = 0
  /\ UNCHANGED <<lcd_current_screen, unanswered, saves, dead>>

lcd_callback(status) ==
  /\ start_web_client' = 0
  /\ lcd_current_screen' \in {lcd_current_screen} \cup
       IF status = 0 /\ lcd_current_screen = 254 THEN {250} ELSE {}
  /\ UNCHANGED monitor

Callback(status) ==
  \/ event'.caller = "boxcallback" /\ boxcallback
  \/ event'.caller = "browserresult_callback" /\ browserresult_callback(status)
  \/ event'.caller = "lcd_callback" /\ lcd_callback(status)

Packet ==
  /\ ~dead
  /\ \/ /\ Channel!Send
        /\ UNCHANGED <<start_web_client, lcd_current_screen, monitor>>
     \/ \E status \in Statuses : Channel!Answer(status) /\ Callback(status)
     \/ /\ Channel!Lose
        /\ IF event'.kind = "stray" THEN Callback(500)
           ELSE UNCHANGED <<start_web_client, lcd_current_screen, monitor>>
  /\ UNCHANGED <<sendBoxData, httpType, lookup, seconds>>

(* handle_net serves a page; /settings/webclient may save the host, which    *)
(* starts the lookup again.                                                 *)
ServePage ==
  /\ ~dead
  /\ \/ UNCHANGED <<dns_state, saves>>
     \/ saves < MaxSaves /\ dns_state' = 0 /\ saves' = saves + 1
  /\ event' = Channel!NoEvent
  /\ UNCHANGED <<stage, client_browser_callback, request, dnsAge,
                 web_client_monitor, unanswered, dead, lcd_current_screen, seconds>>

WebNext ==
  \/ scheduleRun
  \/ Idle
  \/ Die
  \/ Restart
  \/ Packet
  \/ ServePage

WebSpec == WebInit /\ [][WebNext]_webVars

(* The main loop goes round, seconds pass, and the network is quiet for one *)
(* poll in each; nothing is assumed of replies and of users.                *)
FairWebSpec ==
  /\ WebSpec
  /\ WF_webVars(scheduleRun) /\ WF_webVars(Idle \/ Die) /\ WF_webVars(Restart)

-----------------------------------------------------------------------------
(* The device restarts itself only when uploads stay without a good reply:  *)
(* UploadLimit - 2 of them at least (the count starts at one for the first  *)
(* lookup, and the last upload is not even sent), one less for every time   *)
(* the user has saved the host meanwhile.  Lost and late replies, strays    *)
(* and replies to other requests do not bring it about.                     *)
ResetNeedsFailures == dead => unanswered + saves >= UploadLimit - 2

(* A request is over some time, whatever becomes of it on the network and   *)
(* although lookups, box reports and requests share one timer.              *)
RequestsEnd == start_web_client = 2 ~> start_web_client # 2

(* The watchdog of the upload: if uploads are started again and again, then *)
(* there are good replies again and again, or the device restarts.          *)
MissingServerRestarts ==
  []<><<Upload>>_webVars =>
    []<>(dead \/ (/\ event.kind = "reply" /\ event.status = 200
                  /\ event.caller = "browserresult_callback"))
=============================================================================
