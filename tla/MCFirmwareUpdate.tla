-------------------------- MODULE MCFirmwareUpdate --------------------------
(***************************************************************************)
(* Small instances of FirmwareUpdate for TLC.                              *)
(***************************************************************************)
EXTENDS FirmwareUpdate

CONSTANTS pc, phone, factory

\* The PC tool sends a full window and a rest, and both try twice.
MCSize == [h \in Hosts |-> IF h = pc THEN 3 ELSE 1]
MCAttempts == [h \in Hosts |-> 2]

MCFactory == <<factory>>

\* The factory image and the file of every update of every host.
MCImages ==
  {MCFactory} \cup
  UNION {{[nr \in 1 .. MCSize[h] |-> [host |-> h, attempt |-> k, nr |-> nr]] :
            k \in 1 .. MCAttempts[h]} : h \in Hosts}
=============================================================================
