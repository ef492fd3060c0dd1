------------------------------- MODULE Forms -------------------------------
(***************************************************************************)
(* The forms of two settings pages: the browser writes what was typed into *)
(* an address, find_key_val (websrv_help_functions.c) finds the fields in  *)
(* it and the pages of web.c save them, a text in cells of the EEPROM that *)
(* end with a 0, a number in a byte, a box as 1 or 0.                      *)
(*                                                                         *)
(* What is typed, chosen or ticked is a sequence of characters; names are  *)
(* cut to what tells them apart.  digital and analog stand for the other   *)
(* intervals of their page as well.  A blank is named "blank", the 0 that  *)
(* ends a text "nul".                                                      *)
(***************************************************************************)
EXTENDS Integers, Sequences, SequencesExt

CONSTANTS
  Texts,      \* bound: what is typed as a password, a host, an url
  Numbers,    \* bound: what is typed or chosen as a number
  CellValues, \* values of a byte (256)
  PassLimit,  \* room for a password with its 0 (10)
  TextLimit,  \* room for a host or an url (99)
  Factory     \* what the defaults say of every field

VARIABLES
  request,   \* the address the browser asks for, << >> if none
  typed,     \* history: the form of each page that was sent last
  saved     \* texts in cells, numbers and boxes in bytes

formVars == <<request, typed, saved>>

(* The fields in the order of the forms, their names, and the names that the *)
(* pages look for.                                                           *)
Order == [general   |-> <<"PASS", "LCD", "digital", "analog">>,
          webclient |-> <<"interval", "host", "url", "coap">>]

Pages == DOMAIN Order
TextFields == {"PASS", "host", "url"}
NumberFields == {"digital", "analog", "interval"}
Boxes == {"LCD", "coap"}

Named == [PASS |-> <<"P">>, LCD |-> <<"L">>, digital |-> <<"d", "a">>, analog |-> <<"a">>,
          interval |-> <<"i">>, host |-> <<"h">>, url |-> <<"u">>, coap |-> <<"c">>]
Sought == [Named EXCEPT !.digital = <<"d", "l">>]

Digits == <<"0", "1", "2", "3", "4", "5", "6", "7", "8", "9">>

Digit(c) == CHOOSE d \in 0 .. 9 : Digits[d + 1] = c

atoi(text) == FoldLeft(LAMBDA n, c : 10 * n + Digit(c), 0, text)

(* What a browser does not write as it is, in two hexadecimal digits.        *)
Hex == [c \in {"&", "=", "%", "+"} |->
          CASE c = "&" -> <<"2", "6">> [] c = "=" -> <<"3", "D">>
            [] c = "%" -> <<"2", "5">> [] c = "+" -> <<"2", "B">>]

Room(field) == IF field = "PASS" THEN PassLimit ELSE TextLimit

ASSUME FormsAssumption ==
  /\ CellValues \in Nat \ {0, 1} /\ PassLimit \in Nat \ {0} /\ TextLimit \in Nat \ {0}
  /\ \A t \in Texts : /\ t \in Seq(STRING) /\ "nul" \notin ToSet(t)
                      /\ 3 * Len(t) < PassLimit /\ 3 * Len(t) < TextLimit
  /\ \A n \in Numbers : n \in Seq(ToSet(Digits)) /\ Len(n) < 10
  /\ \A f \in TextFields : Len(Factory[f]) < Room(f)

FormsInit ==
  /\ request = << >>
  /\ typed = [page \in Pages |-> [f \in ToSet(Order[page]) |-> << >>]]
  /\ saved = [f \in DOMAIN Named |->
       IF f \in TextFields
       THEN [i \in 1 .. Room(f) |-> IF i <= Len(Factory[f]) THEN Factory[f][i] ELSE "nul"]
       ELSE atoi(Factory[f])]

-----------------------------------------------------------------------------
(* The browser.  A box that is not ticked is left out.                       *)
Values(field) ==
  CASE field \in TextFields -> Texts
    [] field \in NumberFields -> Numbers
    [] field \in Boxes -> {<< >>, <<"1">>}

FormsOf == [page \in Pages |->
  {form \in [ToSet(Order[page]) -> Texts \cup Numbers \cup {<< >>, <<"1">>}] :
     \A f \in DOMAIN form : form[f] \in Values(f)}]

Encoded(c) ==
  CASE c \in DOMAIN Hex -> <<"%", Hex[c][1], Hex[c][2]>> [] c = "blank" -> <<"+">> [] OTHER -> <<c>>

Written(value) == FlattenSeq([i \in DOMAIN value |-> Encoded(value[i])])

Part(mark, field, value) ==
  IF field \in Boxes /\ value = << >> THEN << >>
  ELSE <<mark>> \o Named[field] \o <<"=">> \o Written(value)

Query(page, form) ==
  LET part(i) == Part(IF i = 1 THEN "?" ELSE "&", Order[page][i], form[Order[page][i]])
  IN  part(1) \o part(2) \o part(3) \o part(4)

Asks(page, query) == <<"/", page>> \o query \o <<"blank">>

Send(page, form) ==
  /\ request = << >>
  /\ request' = Asks(page, Query(page, form))
  /\ typed' = [typed EXCEPT ![page] = form]
  /\ UNCHANGED saved

Visit(page) ==
  /\ request = << >>
  /\ request' = Asks(page, << >>)
  /\ UNCHANGED <<typed, saved>>

-----------------------------------------------------------------------------
(* Where the value of a key begins, 0 if there is none.  After the characters *)
(* of a key that turn out to be no name, the next one is skipped.            *)
ValueStart(str, key) ==
  LET begins(i) == str[i - 1] \in {"?", "&"}
      at[i \in 1 .. Len(str) + 2] == [k \in 1 .. Len(key) |->
        IF i > Len(str) \/ str[i] = "blank" THEN 0
        ELSE IF str[i] # key[k] \/ (k = 1 /\ ~begins(i)) THEN at[i + 1][1]
        ELSE IF k < Len(key) THEN at[i + 1][k + 1]
        ELSE IF str[i + 1] = "=" THEN i + 2
        ELSE at[i + 2][1]]
  IN  at[1][1]

(* The value that is copied; what the function returns is its length.        *)
find_key_val(str, maxlen, key) ==
  LET first == ValueStart(str, key)
      from[i \in 1 .. Len(str) + 1] ==
        IF i > Len(str) \/ str[i] \in {"blank", "&"} \/ i - first >= maxlen - 1 THEN << >>
        ELSE <<str[i]>> \o from[i + 1]
  IN  IF first = 0 THEN << >> ELSE from[first]

Unhex(high, low) == CHOOSE c \in DOMAIN Hex : Hex[c] = <<high, low>>

Decode(text, plus) ==
  LET from[i \in 1 .. Len(text) + 3] ==
        IF i > Len(text) THEN << >>
        ELSE IF text[i] = "+" THEN <<plus>> \o from[i + 1]
        ELSE IF text[i] = "%"
        THEN <<Unhex(text[i + 1], text[i + 2])>> \o from[i + 3]
        ELSE <<text[i]>> \o from[i + 1]
  IN  from[1]

(* For the mutation runs: a plus stays one.                                  *)
KeepsPlus(text) == Decode(text, "+")

urldecode(text) == Decode(text, "blank")

-----------------------------------------------------------------------------
(* The saves: what each leaves of an EEPROM.                                 *)
Value(field) == find_key_val(request, IF field \in TextFields THEN Room(field) ELSE 10, Sought[field])

save_cgivalue_if_found(memory, field) ==
  IF Value(field) = << >> THEN memory
  ELSE [memory EXCEPT ![field] = atoi(Value(field)) % CellValues]

save_checkbox_cgivalue(memory, field) ==
  [memory EXCEPT ![field] = atoi(Value(field)) % CellValues]

eepromSaveStr(memory, field, text, limit) ==
  [memory EXCEPT ![field] = [i \in DOMAIN @ |->
     IF i > limit THEN @[i] ELSE IF i <= Len(text) THEN text[i] ELSE "nul"]]

(* A host or an url is decoded and saved with its 0, a password as it came    *)
(* and without.                                                              *)
SaveText(memory, field) ==
  LET text == urldecode(Value(field))
  IN  IF text = << >> THEN memory ELSE eepromSaveStr(memory, field, text, Len(text) + 1)

General ==
  LET password == eepromSaveStr(saved, "PASS", Value("PASS"), Len(Value("PASS")))
      box == save_checkbox_cgivalue(password, "LCD")
  IN  IF Value("PASS") = << >> THEN saved
      ELSE save_cgivalue_if_found(save_cgivalue_if_found(box, "digital"), "analog")

(* The box is saved when there is a host, not when the page is looked at.    *)
HostAndBox(memory) ==
  IF Value("host") = << >> THEN memory
  ELSE SaveText(save_checkbox_cgivalue(memory, "coap"), "host")

Webclient == SaveText(HostAndBox(save_cgivalue_if_found(saved, "interval")), "url")

Serve ==
  /\ request # << >>
  /\ saved' = IF request[2] = "general" THEN General ELSE Webclient
  /\ request' = << >>
  /\ UNCHANGED typed

FormsNext ==
  \/ \E page \in Pages : Visit(page) \/ \E form \in FormsOf[page] : Send(page, form)
  \/ Serve

FormsSpec == FormsInit /\ [][FormsNext]_formVars

-----------------------------------------------------------------------------
TextIn(cells) ==
  LET ends == {i \in DOMAIN cells : cells[i] = "nul"} \cup {Len(cells) + 1}
  IN  SubSeq(cells, 1, Min(ends) - 1)

(* A number that a byte has no room for is left out: it is cut to one.       *)
FitsByte(text) == atoi(text) \in 0 .. CellValues - 1

Holds(field, text) ==
  IF field \in TextFields THEN TextIn(saved[field]) = text
  ELSE FitsByte(text) => saved[field] = atoi(text)

Served(page) == request = << >> \/ request[2] # page

(* What was typed is what is saved, whatever characters are in it and         *)
(* whatever forms and visits there were before: a text that is not empty, a   *)
(* number of 0 to 255, a box with its host or password.  Not asked: an empty  *)
(* text or number, which leaves the old one, a larger number, of which the    *)
(* low byte is saved, and the digital interval, which never is.              *)
SavedAsTyped ==
  /\ Served("webclient") =>
       LET form == typed.webclient IN
       /\ \A f \in {"interval", "host", "url"} : form[f] # << >> => Holds(f, form[f])
       /\ form.host # << >> => Holds("coap", form.coap)
  /\ Served("general") /\ typed.general.PASS # << >> =>
       /\ Holds("LCD", typed.general.LCD)
       /\ typed.general.analog # << >> => Holds("analog", typed.general.analog)

(* "Password : ", the text the form asks for: the password after a save is    *)
(* the one that was typed.  (A longer one leaves its end.)                   *)
PasswordAsTyped ==
  Served("general") /\ typed.general.PASS # << >> => Holds("PASS", typed.general.PASS)
=============================================================================
