------------------------------ MODULE MCForms ------------------------------
(* Forms with a few texts: one that spells a field, one of blanks and a plus; *)
(* and with a plain one that is shorter than the factory's password.          *)
EXTENDS Forms

MCTexts == {<< >>, <<"&", "h", "=">>, <<"blank", "+">>}
MCPlain == {<<"x">>}
MCNumbers == {<<"1", "0">>}
MCFactory == [PASS |-> <<"S", "N">>, LCD |-> <<"0">>, digital |-> <<"1">>, analog |-> <<"1">>,
              interval |-> <<"3">>, host |-> <<"s">>, url |-> <<"v">>, coap |-> <<"0">>]
=============================================================================
