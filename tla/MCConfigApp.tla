----------------------------- MODULE MCConfigApp -----------------------------
(***************************************************************************)
(* A small instance of ConfigApp for TLC: the application is the only       *)
(* client, nothing fails, and its user turns to the radio, lowers the       *)
(* trigger, and turns back.                                                 *)
(***************************************************************************)
EXTENDS ConfigApp

CONSTANTS serial, main

MCEntries ==
  {Defaults,
   [Defaults EXCEPT !.mode = "radio"],
   [Defaults EXCEPT !.trigger_lux = 20],
   [Defaults EXCEPT !.trigger_lux = 20, !.dead_zone_lux = 4]}

MCRequests == {Encoded(c) : c \in MCEntries}
=============================================================================
