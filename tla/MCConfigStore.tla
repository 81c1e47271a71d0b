---------------------------- MODULE MCConfigStore ----------------------------
(***************************************************************************)
(* Small instances of ConfigStore for TLC.                                 *)
(***************************************************************************)
EXTENDS ConfigStore

CONSTANTS serial, http, main

\* Requests that name one lux value or both.  The last is out of range, the third
\* asks for too wide a dead zone, and the second leaves one that is wider than the
\* trigger, which a boot turns into another that is.
SomeRequests ==
  {[trigger_lux |-> 200, dead_zone_lux |-> 120],
   [trigger_lux |-> 40],
   [mode |-> "radio", dead_zone_lux |-> 300],
   [trigger_lux |-> 0]}
=============================================================================
