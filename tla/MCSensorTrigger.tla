--------------------------- MODULE MCSensorTrigger ---------------------------
(***************************************************************************)
(* Small instances of SensorTrigger for TLC.                               *)
(***************************************************************************)
EXTENDS SensorTrigger

Cfg(m, d, t, z) == [mode |-> m, direction |-> d, trigger |-> t, dead |-> z]

MCFirst == Cfg("birthday", "above", 300, 50)

\* Dead zones below the trigger, as the configuration keeps them when every
\* request gives both values; one that starts the song in the dark.
MCConfigs ==
  {MCFirst, Cfg("birthday", "below", 100, 20), Cfg("radio", "above", 300, 50)}

\* Dark, between the two zones, inside a dead zone, bright.
MCLuxes == {0, 110, 260, 310}

=============================================================================
