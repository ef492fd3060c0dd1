----------------------------- MODULE MCLcdFirst -----------------------------
(***************************************************************************)
(* TLC instance of LcdScreens that keeps what each reply was, for what is  *)
(* said of a proper one.                                                   *)
(***************************************************************************)
EXTENDS LcdScreens

VARIABLE reply  \* history: what the last step gave the LCD, its status and texts

firstVars == <<lcdVars, reply>>

NoReply == [status |-> -1, texts |-> << >>]

FirstInit == LcdInit /\ reply = NoReply

(* Reply, with its status and its texts in sight. *)
ReplyOf(status, came) ==
  /\ listening /\ listening' = FALSE
  /\ lcd_callback(status, came)
  /\ reply' = [status |-> status, texts |-> came]

FirstNext ==
  \/ \E status \in Statuses, came \in Whole : ReplyOf(status, came)
  \/ /\ \/ lcd_update \/ StartRequest \/ EndRequest \/ StrayReply \/ sendData
        \/ LcdRestart
     /\ reply' = NoReply

FirstSpec == FirstInit /\ [][FirstNext]_firstVars

-----------------------------------------------------------------------------
(* "Callback function sets it to 250 when theres valid data" (web.c): a       *)
(* proper reply to the LCD, of status 200 and with a text, ends the wait for *)
(* the first one.                                                            *)
FirstTextTaken ==
  [][/\ lcd_current_screen = 254
     /\ reply'.status = 200 /\ DOMAIN reply'.texts # {}
     => lcd_current_screen' = 250]_firstVars
=============================================================================
