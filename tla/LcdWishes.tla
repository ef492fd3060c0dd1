----------------------------- MODULE LcdWishes -----------------------------
(***************************************************************************)
(* What the LCD asks of the web client: the pairs of start_web_client and  *)
(* lcd_current_screen that a call of lcd_update may leave, where 0 stands  *)
(* for any screen with texts and for 250, a first text that is there.  The *)
(* web client is modelled over this; LcdScreens is shown to keep to it.    *)
(***************************************************************************)
EXTENDS Integers

lcd_wishes(wish, screen) ==
  CASE screen = 255 -> {IF wish = 0 THEN <<10, 254>> ELSE <<wish, 255>>}
    [] screen = 254 -> {<<wish, 254>>, <<10, 254>>}
    [] OTHER        -> {<<wish, 0>>, <<IF wish = 0 THEN 10 ELSE wish, 0>>}
=============================================================================
