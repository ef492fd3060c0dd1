---------------------------- MODULE MCRemoteIO ----------------------------
(* Two entries, two relays, a byte of three values: the third id looks like  *)
(* a free entry, the fourth outgrows the word, and a delay of three is cut   *)
(* to zero; pin 2 is no relay.                                               *)
EXTENDS RemoteIO

MCIds == <<1, 2, 3, 5>>

MCRequests == {
  [pin |-> 0, state |-> 1, delay |-> 2],
  [pin |-> 0, state |-> 0, delay |-> 0],
  [pin |-> 1, state |-> 1, delay |-> 3],
  [pin |-> 2, state |-> 1, delay |-> 1]}
=============================================================================
