----------------------------- MODULE LcdScreens -----------------------------
(***************************************************************************)
(* The screens of the LCD: lcd_update of S3/web.c, a task of every second, *)
(* asks the web client for texts, shows one screen after the other, each   *)
(* for a time of its own, and asks again while it shows the last one;      *)
(* lcd_callback takes the texts of a reply, each with its number, its time *)
(* and a sum that says whether it has come whole.                          *)
(*                                                                         *)
(* A screen is defined when it has a time.  lcd_update counts the defined  *)
(* ones and takes the count for the number of the last.  What a screen     *)
(* says is left out; a text is its screen and its time.  The server's      *)
(* screens are those the LCD has place for.                                *)
(*                                                                         *)
(* The web client is what the screens see of it: a wish becomes a request, *)
(* uploads take the wish as well, a request ends, with a reply or without. *)
(***************************************************************************)
EXTENDS LcdWishes, FiniteSets

CONSTANTS
  Screens,   \* places for texts (6)
  Octet,     \* values of a time and of the timer (256)
  Retry,     \* seconds without a text before it is asked for again (60)
  Renew,     \* seconds between two requests at least (30)
  Early,     \* a single screen's texts are asked for so long before its end (20)
  Times,     \* what a text may say of its time
  Statuses   \* the http status codes a server answers with

Screen == 0 .. Screens - 1

ASSUME LcdAssumption ==
  /\ Screens \in Nat \ {0} /\ Octet \in Nat \ {0} /\ Screens < 250
  /\ Retry + 1 \in 1 .. Octet - 1 /\ Renew \in 1 .. Octet - 1 /\ Early \in Nat
  /\ Times \subseteq Nat

VARIABLES
  lcd_current_screen,   \* 255: not begun, 254: no text yet, 250: there is one
  lcd_current_timeleft, lcd_network_timer, lcd_timeouts,
  start_web_client,     \* 0, 1: an upload, 2: a request, 10: the texts
  listening,            \* a reply would go to lcd_callback
  patchy                \* history: the texts that came were not of the
                        \* first screens up to some one, each with a time

screens == <<lcd_current_screen, lcd_current_timeleft, lcd_network_timer>>
texts == <<lcd_timeouts, patchy>>
lcdVars == <<screens, texts, start_web_client, listening>>

LcdInit ==
  /\ lcd_current_screen = 255 /\ lcd_current_timeleft = 0 /\ lcd_network_timer = 0
  /\ lcd_timeouts = [s \in Screen |-> 0]
  /\ start_web_client = 0 /\ listening = FALSE
  /\ patchy = FALSE

Defined == {s \in Screen : lcd_timeouts[s] > 0}

Lower(n) == IF n > 0 THEN n - 1 ELSE 0

-----------------------------------------------------------------------------
(* lcd_update *)
FirstCall ==
  /\ lcd_current_screen = 255
  /\ IF start_web_client = 0
     THEN start_web_client' = 10 /\ lcd_current_screen' = 254
     ELSE UNCHANGED <<start_web_client, lcd_current_screen>>
  /\ UNCHANGED <<lcd_current_timeleft, lcd_network_timer, texts, listening>>

(* Without a text the request is repeated, whatever is wished for (for the   *)
(* mutation runs: it is not).                                                *)
NeverOverdue(timer) == FALSE

TextsOverdue(timer) == timer > Retry

AwaitTexts ==
  /\ lcd_current_screen = 254
  /\ IF TextsOverdue(lcd_network_timer)
     THEN start_web_client' = 10 /\ lcd_network_timer' = 0
     ELSE /\ lcd_network_timer' = (lcd_network_timer + 1) % Octet
          /\ UNCHANGED start_web_client
  /\ UNCHANGED <<lcd_current_screen, lcd_current_timeleft, texts, listening>>

(* The screen after screen s, of n (for the mutation runs: one more, one     *)
(* less).                                                                    *)
OneMore(s, n) == IF s + 1 > n THEN 0 ELSE s + 1

OneLess(s, n) == IF s + 2 >= n THEN 0 ELSE s + 1

Following(s, n) == IF s + 1 >= n THEN 0 ELSE s + 1

(* Texts are asked for when the last screen is shown (for the mutation runs: *)
(* also when another request is wished for).                                 *)
TakesWish(wish) == wish \in {0, 1}

NoWish(wish) == wish = 0

Renews(s, left, n) ==
  /\ lcd_network_timer <= 1
  /\ (n = 1 /\ left < Early) \/ n = s + 1
  /\ NoWish(start_web_client)

ShowScreens ==
  LET begins == lcd_current_screen = 250
      s == IF begins THEN 0 ELSE lcd_current_screen
      left == Lower(IF begins THEN lcd_timeouts[0] ELSE lcd_current_timeleft)
      n == Cardinality(Defined)
  IN  /\ lcd_current_screen \in Screen \cup {250}
      /\ IF Renews(s, left, n)
         THEN start_web_client' = 10 /\ lcd_network_timer' = Renew
         ELSE /\ lcd_network_timer' = Lower(lcd_network_timer)
              /\ UNCHANGED start_web_client
      /\ IF left = 0
         THEN /\ lcd_current_screen' = Following(s, n)
              /\ lcd_current_timeleft' = lcd_timeouts[Following(s, n)]
         ELSE lcd_current_screen' = s /\ lcd_current_timeleft' = left
      /\ UNCHANGED <<texts, listening>>

lcd_update == FirstCall \/ AwaitTexts \/ ShowScreens

-----------------------------------------------------------------------------
(* A reply: the request is over; the texts of a reply with status 0 that     *)
(* have come whole are taken, one after the other.                           *)
Whole == UNION {[S -> Times] : S \in SUBSET Screen}

FirstOnes(t) == \A r, s \in DOMAIN t : r < s /\ t[s] > 0 => t[r] > 0

lcd_callback(status, came) ==
  /\ start_web_client' = 0
  /\ IF status = 0
     THEN /\ lcd_timeouts' = [s \in Screen |-> IF s \in DOMAIN came THEN came[s] % Octet
                                               ELSE lcd_timeouts[s]]
          /\ lcd_current_screen' = IF lcd_current_screen = 254 /\ came # << >> THEN 250
                                   ELSE lcd_current_screen
          /\ patchy' = (patchy \/ ~FirstOnes(lcd_timeouts')
                        \/ \E s \in DOMAIN came : came[s] % Octet = 0)
     ELSE UNCHANGED <<lcd_timeouts, lcd_current_screen, patchy>>
  /\ UNCHANGED <<lcd_current_timeleft, lcd_network_timer>>

Reply ==
  /\ listening
  /\ listening' = FALSE
  /\ \E status \in Statuses, came \in Whole : lcd_callback(status, came)

(* The web client.  A request is not sent when the link is down, and a later *)
(* one takes the place of an earlier.                                        *)
StartRequest ==
  /\ start_web_client \in {1, 10}
  /\ listening' \in {listening, start_web_client = 10}
  /\ start_web_client' = 2
  /\ UNCHANGED <<screens, texts>>

EndRequest ==
  /\ start_web_client = 2
  /\ start_web_client' = 0
  /\ UNCHANGED <<screens, texts, listening>>

(* A late reply to an upload, or to nothing, takes the wish away.            *)
StrayReply ==
  /\ start_web_client' = 0
  /\ UNCHANGED <<screens, texts, listening>>

sendData ==
  /\ start_web_client' = 1
  /\ UNCHANGED <<screens, texts, listening>>

LcdRestart ==
  /\ lcd_current_screen' = 255 /\ lcd_current_timeleft' = 0 /\ lcd_network_timer' = 0
  /\ lcd_timeouts' = [s \in Screen |-> 0]
  /\ start_web_client' = 0 /\ listening' = FALSE
  /\ patchy' = FALSE

LcdNext ==
  \/ lcd_update \/ Reply
  \/ StartRequest \/ EndRequest \/ StrayReply \/ sendData
  \/ LcdRestart

LcdSpec == LcdInit /\ [][LcdNext]_lcdVars

(* The task runs in every second and the web client goes on and ends what    *)
(* it has begun (RequestsEnd); no server owes a reply.                       *)
FairLcdSpec ==
  /\ LcdSpec
  /\ WF_lcdVars(lcd_update) /\ WF_lcdVars(StartRequest) /\ WF_lcdVars(EndRequest)

-----------------------------------------------------------------------------
(* The screen that is shown is a defined one, though the LCD knows only how   *)
(* many there are and though texts come while it is shown; unless a reply     *)
(* left a gap (a text that did not come whole) or took a screen away.         *)
OnScreen == IF lcd_current_screen = 250 THEN 0 ELSE lcd_current_screen

ShownIsDefined == ~patchy /\ OnScreen \in Screen => lcd_timeouts[OnScreen] > 0

(* Each defined screen is shown again and again, also when texts come and    *)
(* their number grows.                                                       *)
EveryScreenShown ==
  \A s \in Screen :
    <>[](~patchy /\ lcd_current_screen \in Screen /\ s \in Defined)
      => []<>(lcd_current_screen = s)

(* Texts are asked for again and again once the screens have begun, whatever *)
(* becomes of the requests, as long as there is a screen to show, or none has*)
(* come yet, and uploads leave the web client free.                          *)
TextsRenewed ==
  <>[](/\ lcd_current_screen # 255 /\ start_web_client # 1
       /\ (lcd_current_screen \in Screen \cup {250} => Defined # {}))
    => []<>(start_web_client = 10)

(* What the LCD does to the wishes of others is what the web client's model   *)
(* says: once there are texts it never replaces an upload that is wished for  *)
(* or a request in progress.                                                 *)
Abstract(screen) == IF screen \in {254, 255} THEN screen ELSE 0

KeepsToWishes ==
  [][lcd_update =>
       <<start_web_client', Abstract(lcd_current_screen')>>
          \in lcd_wishes(start_web_client, Abstract(lcd_current_screen))]_lcdVars
=============================================================================
