--------------------------- MODULE MCUploadSession ---------------------------
(***************************************************************************)
(* Small instances of UploadSession for TLC.                               *)
(***************************************************************************)
EXTENDS UploadSession

CONSTANTS serial, http, song, tune
=============================================================================
