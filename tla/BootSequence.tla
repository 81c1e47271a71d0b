---------------------------- MODULE BootSequence ----------------------------
(***************************************************************************)
(* The start of the firmware (main/app_main.c) with the test tone that is   *)
(* asked for while it runs and given at the next start                      *)
(* (main/audio/sine_test.c, audio.sine in main/usb_serial/usb_serial.c).    *)
(*                                                                         *)
(* The request is two keys of the flash.  Each is on the flash as soon as   *)
(* it is written, so a failure or a power cut between the two leaves a      *)
(* request nobody was told of.  owed, stray, taken and unread are history:   *)
(* what was acknowledged and not yet given, whether the flash holds a       *)
(* request that was not acknowledged, what the present start has taken, and *)
(* whether it could not read the width.                                     *)
(***************************************************************************)
EXTENDS Naturals, Sequences

CONSTANTS
  Seconds,     \* lengths of a tone
  None,        \* no key, no test
  Stray,       \* taken: a request that was not acknowledged
  MaxRequests, \* bound: requests of a tone
  MaxFaults    \* bound: power cuts, failing calls

Bits == {16, 32}
Tests == [seconds : Seconds, bits : Bits]

ASSUME SecondsAssumption == Seconds \subseteq 1..60 /\ None \notin Seconds \cup Bits \cup Tests
ASSUME StrayAssumption == Stray \notin Tests \cup {None}
ASSUME BoundAssumption == MaxRequests \in Nat /\ MaxFaults \in Nat

\* What app_main starts one after the other, and which failures it lives with.
Stages == <<"config", "files", "mirror", "audio", "sensor", "wifi", "web", "serial", "song">>
Optional == {"mirror", "sensor", "song"}
StageNames == {Stages[i] : i \in 1..Len(Stages)}
After(stage) ==
  LET i == CHOOSE i \in 1..Len(Stages) : Stages[i] = stage
  IN  IF i = Len(Stages) THEN "running" ELSE Stages[i + 1]

VARIABLES
  pc,        \* where the start, or the handler of audio.sine, is
  sineSec,   \* the key sine_sec
  sineBits,  \* the key sine_bits
  test,      \* the test read from the flash, or the one being requested
  absent,    \* optional parts that never work, such as a sensor not fitted
  owed,      \* the test acknowledged and not yet taken
  stray,     \* sine_sec is not that of owed
  taken,     \* the test the present start has taken
  unread,    \* the present start could not read sine_bits
  requests,  \* counted for MaxRequests
  faults     \* counted for MaxFaults

flash == <<sineSec, sineBits>>
history == <<owed, stray, taken, unread>>
vars == <<pc, flash, test, absent, history, requests, faults>>

TypeOK ==
  /\ pc \in StageNames \cup {"nvs", "read", "clear_seconds", "clear_bits", "tone",
                             "running", "write_seconds", "write_bits", "answer", "restart"}
  /\ sineSec \in Seconds \cup {None}
  /\ sineBits \in Bits \cup {None}
  /\ test \in Tests \cup {None}
  /\ absent \subseteq Optional
  /\ owed \in Tests \cup {None}
  /\ stray \in BOOLEAN
  /\ taken \in Tests \cup {None, Stray}
  /\ unread \in BOOLEAN
  /\ requests \in 0..MaxRequests
  /\ faults \in 0..MaxFaults

Init ==
  /\ pc = "nvs"
  /\ sineSec = None
  /\ sineBits = None
  /\ test = None
  /\ absent \in SUBSET Optional
  /\ owed = None
  /\ stray = FALSE
  /\ taken = None
  /\ unread = FALSE
  /\ requests = 0
  /\ faults = 0

\* Something goes wrong: only so often.
Fault ==
  /\ faults < MaxFaults
  /\ faults' = faults + 1

Calm == faults' = faults

StartAnew ==
  /\ pc' = "nvs"
  /\ test' = None
  /\ taken' = None
  /\ unread' = FALSE

-----------------------------------------------------------------------------
(* The start.                                                              *)

InitializeNvs ==
  /\ pc = "nvs"
  /\ pc' = "read"
  /\ Calm
  /\ UNCHANGED <<flash, test, absent, history, requests>>

\* No free page, or the layout of another version: all keys go.
EraseNvs ==
  /\ pc = "nvs"
  /\ Fault
  /\ pc' = "read"
  /\ sineSec' = None
  /\ sineBits' = None
  /\ owed' = None
  /\ stray' = FALSE
  /\ UNCHANGED <<test, absent, taken, unread, requests>>

NothingPending ==
  /\ pc = "read"
  /\ sineSec = None
  /\ pc' = "config"
  /\ Calm
  /\ UNCHANGED <<flash, test, absent, history, requests>>

\* A missing key of the width stands for 16 bits, and so does one that cannot be
\* read: the result of that call is not looked at.
ReadPending ==
  /\ pc = "read"
  /\ sineSec # None
  /\ \/ /\ Calm
        /\ test' = [seconds |-> sineSec, bits |-> IF sineBits = None THEN 16 ELSE sineBits]
        /\ UNCHANGED unread
     \/ /\ Fault
        /\ test' = [seconds |-> sineSec, bits |-> 16]
        /\ unread' = TRUE
  /\ pc' = "clear_seconds"
  /\ UNCHANGED <<flash, absent, owed, stray, taken, requests>>

\* nvs_open fails, or sine_sec cannot be read.  The keys stay for a later start,
\* which nobody waits for any more.
ReadFails ==
  /\ pc = "read"
  /\ Fault
  /\ pc' = "config"
  /\ owed' = None
  /\ stray' = (sineSec # None)
  /\ UNCHANGED <<flash, test, absent, taken, unread, requests>>

TakeOwed ==
  /\ taken' = IF stray THEN Stray ELSE owed
  /\ owed' = None
  /\ UNCHANGED unread

ClearSeconds_Kept ==
  /\ pc = "clear_seconds"
  /\ TakeOwed
  /\ Calm
  /\ stray' = FALSE
  /\ pc' = "clear_bits"
  /\ UNCHANGED <<flash, test, absent, requests>>

\* clear_pending, whose result is not looked at: the tone follows in any case.
ClearSeconds ==
  /\ pc = "clear_seconds"
  /\ TakeOwed
  /\ \/ /\ Calm
        /\ sineSec' = None
        /\ stray' = FALSE
        /\ pc' = "clear_bits"
     \/ /\ Fault
        /\ stray' = TRUE
        /\ pc' = "tone"
        /\ UNCHANGED sineSec
  /\ UNCHANGED <<sineBits, test, absent, requests>>

ClearBits ==
  /\ pc = "clear_bits"
  /\ pc' = "tone"
  /\ \/ Calm /\ sineBits' = None
     \/ Fault /\ UNCHANGED sineBits
  /\ UNCHANGED <<sineSec, test, absent, history, requests>>

Tone ==
  /\ pc = "tone"
  /\ pc' = "config"
  /\ test' = None
  /\ taken' = None
  /\ unread' = FALSE
  /\ Calm
  /\ UNCHANGED <<flash, absent, owed, stray, requests>>

Stage ==
  /\ pc \in StageNames \ absent
  /\ pc' = After(pc)
  /\ Calm
  /\ UNCHANGED <<flash, test, absent, history, requests>>

SkipAbsent_Checked ==
  /\ pc \in absent
  /\ StartAnew
  /\ Calm
  /\ UNCHANGED <<flash, absent, owed, stray, requests>>

\* An optional part that does not work is logged or not even that.
SkipAbsent ==
  /\ pc \in absent
  /\ pc' = After(pc)
  /\ Calm
  /\ UNCHANGED <<flash, test, absent, history, requests>>

\* ESP_ERROR_CHECK: the firmware aborts and starts anew.
StageFails ==
  /\ pc \in (StageNames \ Optional) \cup {"nvs"}
  /\ Fault
  /\ StartAnew
  /\ UNCHANGED <<flash, absent, owed, stray, requests>>

-----------------------------------------------------------------------------
(* The command audio.sine.                                                 *)

Request ==
  /\ pc = "running"
  /\ requests < MaxRequests
  /\ requests' = requests + 1
  /\ test' \in Tests
  /\ pc' = "write_seconds"
  /\ Calm
  /\ UNCHANGED <<flash, absent, history>>

\* A failure is answered with an error, whatever is on the flash by then.
Refuse ==
  /\ Fault
  /\ pc' = "running"
  /\ test' = None

WriteSeconds ==
  /\ pc = "write_seconds"
  /\ \/ /\ Calm
        /\ sineSec' = test.seconds
        /\ stray' = TRUE
        /\ pc' = "write_bits"
        /\ UNCHANGED test
     \/ Refuse /\ UNCHANGED <<sineSec, stray>>
  /\ UNCHANGED <<sineBits, absent, owed, taken, unread, requests>>

WriteBits ==
  /\ pc = "write_bits"
  /\ \/ /\ Calm
        /\ sineBits' = test.bits
        /\ pc' = "answer"
        /\ UNCHANGED test
     \/ Refuse /\ UNCHANGED sineBits
  /\ UNCHANGED <<sineSec, absent, history, requests>>

Answer_NoRestart ==
  /\ pc = "answer"
  /\ owed' = test
  /\ stray' = FALSE
  /\ test' = None
  /\ pc' = "running"
  /\ Calm
  /\ UNCHANGED <<flash, absent, taken, unread, requests>>

Answer ==
  /\ pc = "answer"
  /\ owed' = test
  /\ stray' = FALSE
  /\ test' = None
  /\ pc' = "restart"
  /\ Calm
  /\ UNCHANGED <<flash, absent, taken, unread, requests>>

Restart ==
  /\ pc = "restart"
  /\ StartAnew
  /\ Calm
  /\ UNCHANGED <<flash, absent, owed, stray, requests>>

PowerCut ==
  /\ Fault
  /\ StartAnew
  /\ UNCHANGED <<flash, absent, owed, stray, requests>>

-----------------------------------------------------------------------------
Step ==
  \/ InitializeNvs
  \/ NothingPending
  \/ ReadPending
  \/ ClearSeconds
  \/ ClearBits
  \/ Tone
  \/ Stage
  \/ SkipAbsent
  \/ WriteSeconds
  \/ WriteBits
  \/ Answer
  \/ Restart

\* The device runs on without a further request.
Idle ==
  /\ pc = "running"
  /\ UNCHANGED vars

Next ==
  \/ Step
  \/ EraseNvs
  \/ ReadFails
  \/ StageFails
  \/ Request
  \/ PowerCut
  \/ Idle

Spec == Init /\ [][Next]_vars

\* One thread that runs on; nobody has to ask or to pull the plug.
FairSpec == Spec /\ WF_vars(Step)

-----------------------------------------------------------------------------
\* Unless the flash holds a request that was not acknowledged, the tone of a
\* start is the one last acknowledged, and it is given once: a start nobody has
\* asked for a tone gives none.  Its length is always the one acknowledged; its
\* width is too, but for a start that could not read the key of the width, which
\* gives 16 bits all the same (sine_test.c:162).
ToneAsAsked ==
  pc = "tone" /\ taken # Stray =>
    test = IF unread THEN [taken EXCEPT !.bits = 16] ELSE taken

\* An acknowledged test is given, unless a fault comes in between, the one that
\* left its width unread included.
AskedIsDone ==
  \A t \in Tests, n \in 0..MaxFaults :
    owed = t /\ faults = n /\ ~unread ~> faults > n \/ (pc = "tone" /\ test = t)

\* The device always comes to run again, without its sensor, the mirror of its
\* configuration or its song too.
BootCompletes == []<>(pc = "running")
=============================================================================
