--------------------------- MODULE MCAudioService ---------------------------
(***************************************************************************)
(* Small instances of AudioService for TLC.                                *)
(***************************************************************************)
EXTENDS AudioService

CONSTANTS c1, c2, once, song, live, r1, r2

MCSources == {once, song, live}

Command(k, s, n) == [kind |-> k, source |-> s, repeat |-> n]

\* A WAV file played once, an MP3 file looped, a radio station.
AllCommands ==
  {Command("wav", once, 1), Command("mp3", song, 0), Command("radio", live, 1)}

LoopCommands == {Command("wav", song, 0)}
=============================================================================
