----------------------------- MODULE MCUartRate -----------------------------
(***************************************************************************)
(* A small instance of UartRate for TLC.                                   *)
(***************************************************************************)
EXTENDS UartRate
=============================================================================
