---------------------------- MODULE MCWifiManager ----------------------------
(***************************************************************************)
(* One network, left and joined again; two radio stations; birthday mode.  *)
(***************************************************************************)
EXTENDS WifiManager

CONSTANTS home, one, two

Boot == [net |-> home, mode |-> "radio", url |-> one]

Choices ==
  {Boot, [Boot EXCEPT !.net = None, !.url = two], [Boot EXCEPT !.mode = "birthday"]}
=============================================================================
