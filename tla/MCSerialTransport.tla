------------------------- MODULE MCSerialTransport -------------------------
(***************************************************************************)
(* A small instance of SerialTransport for TLC: lines that fit, that fit    *)
(* exactly (2) and that are too long, behind and before each other.        *)
(***************************************************************************)
EXTENDS SerialTransport

MCSendings ==
  {[usb |-> s[1], uart |-> s[2]] :
     s \in {<< <<1, 2, 2>>, <<2, 1>> >>, << <<2, 1, 1>>, <<4, 2>> >>,
            << <<4, 2>>, <<1, 1, 2>> >>}}
=============================================================================
