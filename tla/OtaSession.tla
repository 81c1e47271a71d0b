----------------------------- MODULE OtaSession -----------------------------
(***************************************************************************)
(* The firmware update of the device (main/usb_serial/usb_serial.c, the    *)
(* ota commands): one session, two application partitions, and the       *)
(* choice of the partition to boot.  Commands come from one task, so each  *)
(* is one step.  Three calls of the update library are modelled by what    *)
(* the code relies on: esp_ota_begin erases the partition, esp_ota_write   *)
(* appends to it, esp_ota_end refuses an image that is not a whole one.    *)
(***************************************************************************)
EXTENDS Naturals, Sequences

CONSTANTS
  Images,    \* whole firmware files: sequences of chunks
  Factory,   \* the image the device is delivered with
  Broken     \* what a failed write leaves at the end of a partition

ASSUME ImageAssumption == Factory \in Images

VARIABLES
  ota,        \* s_ota_active, s_ota_expected and s_ota_written
  slots,      \* content of the partitions ota_0 and ota_1
  running,    \* the partition the device runs from
  boot,       \* the partition it boots next
  restarting  \* restart_after_response

device == <<ota, slots, running, boot, restarting>>

NoUpdate == [active |-> FALSE, expected |-> 0, written |-> 0]

InitDevice ==
  /\ ota = NoUpdate
  /\ slots = [s \in {0, 1} |-> IF s = 0 THEN Factory ELSE <<>>]
  /\ running = 0
  /\ boot = 0
  /\ restarting = FALSE

Target_Running == running

\* esp_ota_get_next_update_partition: the partition the device is not running.
Target == 1 - running

(***************************************************************************)
(* What is answered with an error before anything is done.                 *)
(***************************************************************************)

BeginRefused == ota.active
ChunkRefused == ~ota.active \/ ota.written + 1 > ota.expected
EndRefused == ~ota.active \/ ota.written # ota.expected

(***************************************************************************)
(* Commands that are carried out.                                          *)
(***************************************************************************)

Begin(size) ==
  /\ ~BeginRefused
  /\ ota' = [active |-> TRUE, expected |-> size, written |-> 0]
  /\ slots' = [slots EXCEPT ![Target] = <<>>]
  /\ UNCHANGED <<running, boot, restarting>>

\* The file does not fit, or esp_ota_begin fails, before or after it erased:
\* the size of the session that did not begin stays behind.
BeginFails(size) ==
  /\ ~BeginRefused
  /\ ota' = [active |-> FALSE, expected |-> size, written |-> 0]
  /\ \/ slots' = [slots EXCEPT ![Target] = <<>>]
     \/ UNCHANGED slots
  /\ UNCHANGED <<running, boot, restarting>>

Chunk(piece) ==
  /\ ~ChunkRefused
  /\ ota' = [ota EXCEPT !.written = @ + 1]
  /\ slots' = [slots EXCEPT ![Target] = Append(@, piece)]
  /\ UNCHANGED <<running, boot, restarting>>

\* A failed write is not counted, whatever of it is in flash.
ChunkFails ==
  /\ ~ChunkRefused
  /\ \/ slots' = [slots EXCEPT ![Target] = Append(@, Broken)]
     \/ UNCHANGED slots
  /\ UNCHANGED <<ota, running, boot, restarting>>

\* The session is over before the image is verified and made the next to boot.
End ==
  /\ ~EndRefused
  /\ slots[Target] \in Images
  /\ ota' = NoUpdate
  /\ boot' = Target
  /\ restarting' = TRUE
  /\ UNCHANGED <<slots, running>>

\* The image is not a whole one, or esp_ota_set_boot_partition fails.
EndFails ==
  /\ ~EndRefused
  /\ ota' = NoUpdate
  /\ UNCHANGED <<slots, running, boot, restarting>>

Abort_Inactive ==
  /\ ota' = [ota EXCEPT !.expected = 0, !.written = 0]
  /\ UNCHANGED <<slots, running, boot, restarting>>

Abort ==
  /\ ota' = NoUpdate
  /\ UNCHANGED <<slots, running, boot, restarting>>

\* esp_restart, and a loss of power at any time: RAM is lost.
Reboot ==
  /\ running' = boot
  /\ ota' = NoUpdate
  /\ restarting' = FALSE
  /\ UNCHANGED <<slots, boot>>

-----------------------------------------------------------------------------
\* Whatever commands arrive and whenever the power fails, the partition that
\* runs and the one that boots next hold whole images: an update never writes
\* to either of them before it has been verified.
AlwaysBootable == slots[boot] \in Images /\ slots[running] \in Images
=============================================================================
