------------------------- MODULE AudioServiceProofs -------------------------
(***************************************************************************)
(* Proofs of the safety properties of AudioService, for any number of      *)
(* callers, commands, sources and rates.                                   *)
(*                                                                         *)
(* The properties look at single fields; what keeps them true is where     *)
(* audio_task stands.  IInv says for every control point what the flags,   *)
(* the published status and the player look like there.                    *)
(***************************************************************************)
EXTENDS AudioService, TLAPS

\* Control points with no pass behind the status: nothing plays.
SilentPoints == {"Idle", "Received", "ClearStop", "SetLoop", "Deactivate"}

\* Control points at which the loop flag may be up.
LoopPoints == {"LoopHead", "Check", "Read", "Write", "PassEnd", "Silence",
               "ReadStop", "ClearLoop"}

\* Control points at which the player is off.
OffPoints == {"Idle", "Received", "ClearStop", "SetLoop", "ReadStop",
              "ClearLoop", "Report", "Deactivate"}

StatusInv ==
  /\ status.playback \in {"playing", "buffering"} =>
       apc \notin SilentPoints /\ status.source = cmd.source
  /\ apc \in {"Check", "Read", "Write"} =>
       status.playback \in {"playing", "buffering"}
  /\ status.loop => apc \in LoopPoints /\ Loops(cmd)
  /\ status.playback = "error" <=> status.error # "none"

PlayerInv == apc \in OffPoints => ~enabled

RadioInv ==
  /\ apc = "LoopHead" => ~IsRadio(cmd)
  /\ apc \in {"RadioHead", "Retry"} => IsRadio(cmd)
  /\ RadioEndsByStop

\* Once a buffer is written with the bit up, the decode loops are left for
\* good: only a new command withdraws the bit.
TailInv ==
  /\ tail > 0 => stopBit /\ apc \notin {"Read", "Write"}
  /\ tail <= 1

\* A file's first pass finds the player off and so gets its own rate; the pass
\* counter of a finite command cannot wrap back to zero.
RateInv ==
  /\ apc = "Write" \/ (apc \in {"Check", "Read"} /\ cmd.kind = "wav") => enabled
  /\ ~IsRadio(cmd) /\ cmd.repeat # 0 =>
       /\ apc = "LoopHead" /\ played = 0 => ~enabled
       /\ apc \in {"Check", "Read", "Write", "PassEnd"} => played < cmd.repeat
       /\ apc \in {"Check", "Read", "Write"} /\ played = 0 /\ enabled =>
            rate = stream.rate

IInv ==
  /\ TypeOK
  /\ ActiveWhileServing
  /\ NoPhantomPending
  /\ StatusInv
  /\ PlayerInv
  /\ RadioInv
  /\ TailInv
  /\ RateInv

(***************************************************************************)
(* Type correctness.                                                       *)
(***************************************************************************)

\* The fields of a queued or held command are in range.
LEMMA CommandShape ==
  ASSUME NEW q \in Commands \cup {NoCommand}
  PROVE  /\ q.kind \in Kinds
         /\ q.source \in Sources \cup {""}
         /\ q.repeat \in 0 .. (CounterMod - 1)
<1>1. CASE q \in Commands
  BY <1>1, CommandAssumption
<1>2. CASE q = NoCommand
  <2>1. q.kind = "radio" /\ q.source = "" /\ q.repeat = 0
    BY <1>2 DEF NoCommand
  <2>2. 0 \in 0 .. (CounterMod - 1)
    BY CounterAssumption
  <2>3. QED
    BY <2>1, <2>2 DEF Kinds
<1>3. QED
  BY <1>1, <1>2

\* Booting leaves every variable in its range.
LEMMA InitType == Init => TypeOK
<1> SUFFICES ASSUME Init PROVE TypeOK
  OBVIOUS
<1>0. QueueType
  <2>1. queue = <<>>
    BY DEF Init
  <2>2. QED
    BY <2>1, QueueAssumption DEF QueueType
<1>1. FlagType
  BY DEF Init, FlagType
<1>2. StatusType
  BY DEF Init, StatusType
<1>3. OutputType
  BY DEF Init, OutputType
<1>4. HistoryType
  <2>1. halted = FALSE /\ tail = 0
    BY DEF Init
  <2>2. tail \in 0 .. 2
    BY <2>1
  <2>3. QED
    BY <2>1, <2>2 DEF HistoryType
<1>5. TaskType
  <2>1. apc = "Idle" /\ cmd = NoCommand /\ err = FALSE /\ stopped = FALSE
    BY DEF Init
  <2>2. played = 0
    BY DEF Init
  <2>3. played \in 0 .. (CounterMod - 1)
    BY <2>2, CounterAssumption
  <2>4. QED
    BY <2>1, <2>3 DEF TaskType, TaskPoints
<1>6. StreamType
  <2>1. stream = NoStream
    BY DEF Init
  <2>2. QED
    BY <2>1, BoundAssumption, RateAssumption DEF StreamType, NoStream
<1>7. ClientType
  <2>1. pc = [c \in Clients |-> "Idle"] /\ req = [c \in Clients |-> NoCommand]
    BY DEF Init
  <2>2. calls = 0
    BY DEF Init
  <2>3. calls \in 0 .. MaxCalls
    BY <2>2, BoundAssumption
  <2>4. QED
    BY <2>1, <2>3 DEF ClientType, ClientPoints
<1>8. QED
  BY <1>0, <1>1, <1>2, <1>3, <1>4, <1>5, <1>6, <1>7 DEF TypeOK

\* Only commands that were asked for enter the queue, and only into a free slot.
LEMMA QueueTypeStep == TypeOK /\ [Next]_vars => QueueType'
<1> SUFFICES ASSUME TypeOK, [Next]_vars PROVE QueueType'
  OBVIOUS
<1> USE DEF TypeOK, QueueType
<1>1. CASE Receive
  <2>1. queue # <<>> /\ queue' = Tail(queue)
    BY <1>1 DEF Receive
  <2>2. queue \in Seq(Commands) /\ Len(queue) <= QueueLength
    OBVIOUS
  <2>3. Tail(queue) \in Seq(Commands) /\ Len(Tail(queue)) = Len(queue) - 1
    BY <2>1, <2>2
  <2>4. Len(queue) \in Nat /\ QueueLength \in Nat
    BY <2>2, QueueAssumption
  <2>5. QED
    BY <2>1, <2>2, <2>3, <2>4
<1>2. ASSUME NEW c \in Clients, ResetQueue(c) PROVE QueueType'
  BY <1>2, QueueAssumption DEF ResetQueue
<1>3. ASSUME NEW c \in Clients, Send(c) PROVE QueueType'
  BY <1>3, QueueAssumption DEF Send, ClientType, ClientGoto
<1>4. CASE UNCHANGED queue
  BY <1>4
<1>5. QED
  BY <1>1, <1>2, <1>3, <1>4
  DEF Next, TaskStep, ClientStep, Rest, vars, TakeOver, WithdrawStop,
  Announce, LoopEnd, PassFails, OpenWav, OpenMp3, RadioEnd, Connect,
  CheckStop, ReadEnd, ReadFails, ReadNothing, ReadSamples, ReadFrame, Write,
  FilePassEnd, RadioPassEnd, Retry, Silence, ReadStop, ClearLoop, Report,
  Deactivate, CallPlay, CallPlayIfIdle, CallStop, RaiseStop, MarkPending,
  SendTimeout, UnmarkTimedOut, UnmarkStopped, BeginPass, DecodeStep,
  ChooseCommand, shared

\* The event bit and the two flags stay Boolean.
LEMMA FlagTypeStep == TypeOK /\ [Next]_vars => FlagType'
<1> SUFFICES ASSUME TypeOK, [Next]_vars PROVE FlagType'
  OBVIOUS
<1> USE DEF TypeOK, FlagType
<1>1. CASE TakeOver
  BY <1>1 DEF TakeOver
<1>2. CASE WithdrawStop
  BY <1>2 DEF WithdrawStop
<1>3. CASE Deactivate
  BY <1>3 DEF Deactivate
<1>4. ASSUME NEW c \in Clients, RaiseStop(c) PROVE FlagType'
  BY <1>4 DEF RaiseStop
<1>5. ASSUME NEW c \in Clients, MarkPending(c) PROVE FlagType'
  BY <1>5 DEF MarkPending
<1>6. ASSUME NEW c \in Clients, UnmarkTimedOut(c) PROVE FlagType'
  BY <1>6 DEF UnmarkTimedOut
<1>7. ASSUME NEW c \in Clients, UnmarkStopped(c) PROVE FlagType'
  BY <1>7 DEF UnmarkStopped
<1>8. CASE UNCHANGED <<stopBit, pending, active>>
  BY <1>8
<1>9. QED
  BY <1>1, <1>2, <1>3, <1>4, <1>5, <1>6, <1>7, <1>8
  DEF Next, TaskStep, ClientStep, Rest, vars, Receive, Announce, LoopEnd,
  PassFails, OpenWav, OpenMp3, RadioEnd, Connect, CheckStop, ReadEnd,
  ReadFails, ReadNothing, ReadSamples, ReadFrame, Write, FilePassEnd,
  RadioPassEnd, Retry, Silence, ReadStop, ClearLoop, Report, CallPlay,
  CallPlayIfIdle, CallStop, ResetQueue, Send, SendTimeout, BeginPass,
  DecodeStep, ChooseCommand, shared

\* The published status stays in its range.
LEMMA StatusTypeStep == TypeOK /\ [Next]_vars => StatusType'
<1> SUFFICES ASSUME TypeOK, [Next]_vars PROVE StatusType'
  OBVIOUS
<1> USE DEF TypeOK, StatusType
<1>1. CASE Announce
  BY <1>1 DEF Announce, SetPlaybackLoop, Loops, IsRadio
<1>2. CASE OpenWav
  BY <1>2, ZenonT(30), CommandShape DEF OpenWav, SetPlayback, TaskType
<1>3. CASE OpenMp3
  BY <1>3, ZenonT(30), CommandShape DEF OpenMp3, SetPlayback, TaskType
<1>4. CASE Connect
  BY <1>4, ZenonT(30), CommandShape DEF Connect, SetPlayback, TaskType
<1>5. CASE ReadFrame
  BY <1>5, ZenonT(30) DEF ReadFrame, SetPlayback
<1>6. CASE RadioPassEnd
  BY <1>6 DEF RadioPassEnd, SetError
<1>7. CASE ClearLoop
  BY <1>7 DEF ClearLoop, SetPlaybackLoop
<1>8. CASE Report
  BY <1>8, ZenonT(30) DEF Report, SetPlayback, SetError
<1>9. CASE UNCHANGED status
  BY <1>9
<1>10. QED
  BY <1>1, <1>2, <1>3, <1>4, <1>5, <1>6, <1>7, <1>8, <1>9
  DEF Next, TaskStep, ClientStep, Rest, vars, Receive, TakeOver, WithdrawStop,
  LoopEnd, PassFails, RadioEnd, CheckStop, ReadEnd, ReadFails, ReadNothing,
  ReadSamples, Write, FilePassEnd, Retry, Silence, ReadStop, Deactivate,
  CallPlay, CallPlayIfIdle, CallStop, RaiseStop, ResetQueue, MarkPending,
  Send, SendTimeout, UnmarkTimedOut, UnmarkStopped, BeginPass, DecodeStep,
  ChooseCommand

\* The player takes its rate from a stream.
LEMMA OutputTypeStep == TypeOK /\ [Next]_vars => OutputType'
<1> SUFFICES ASSUME TypeOK, [Next]_vars PROVE OutputType'
  OBVIOUS
<1> USE DEF TypeOK, OutputType, output
<1>1. CASE OpenWav
  BY <1>1 DEF OpenWav, Configure
<1>2. CASE ReadFrame
  BY <1>2 DEF ReadFrame, Configure, StreamType
<1>3. CASE Silence
  BY <1>3 DEF Silence
<1>4. CASE UNCHANGED output
  BY <1>4
<1>5. QED
  BY <1>1, <1>2, <1>3, <1>4
  DEF Next, TaskStep, ClientStep, Rest, vars, Receive, TakeOver, WithdrawStop,
  Announce, LoopEnd, PassFails, OpenMp3, RadioEnd, Connect, CheckStop,
  ReadEnd, ReadFails, ReadNothing, ReadSamples, Write, FilePassEnd,
  RadioPassEnd, Retry, ReadStop, ClearLoop, Report, Deactivate, CallPlay,
  CallPlayIfIdle, CallStop, RaiseStop, ResetQueue, MarkPending, Send,
  SendTimeout, UnmarkTimedOut, UnmarkStopped, BeginPass, DecodeStep,
  ChooseCommand

\* audio_task moves between its control points; the pass counter stays in its width.
LEMMA TaskTypeStep == TypeOK /\ [Next]_vars => TaskType'
<1> SUFFICES ASSUME TypeOK, [Next]_vars PROVE TaskType'
  OBVIOUS
<1> USE DEF TypeOK, TaskType, TaskPoints, Serving
<1>1. CASE Receive
  BY <1>1 DEF Receive, TaskGoto, QueueType
<1>2. CASE TakeOver
  BY <1>2 DEF TakeOver, TaskGoto
<1>3. CASE WithdrawStop
  BY <1>3 DEF WithdrawStop, TaskGoto
<1>4. CASE Announce
  <2>1. played' = 0
    BY <1>4 DEF Announce
  <2>2. played' \in 0 .. (CounterMod - 1)
    BY <2>1, CounterAssumption
  <2>3. apc' \in TaskPoints /\ UNCHANGED <<cmd, stopped>> /\ err' = FALSE
    BY <1>4 DEF Announce, TaskGoto
  <2>4. QED
    BY <2>2, <2>3
<1>5. CASE LoopEnd
  BY <1>5 DEF LoopEnd, TaskGoto
<1>6. CASE PassFails
  BY <1>6 DEF PassFails, BeginPass, TaskGoto
<1>7. CASE OpenWav
  BY <1>7 DEF OpenWav, BeginPass
<1>8. CASE OpenMp3
  BY <1>8 DEF OpenMp3, BeginPass
<1>9. CASE RadioEnd
  BY <1>9 DEF RadioEnd, TaskGoto
<1>10. CASE Connect
  BY <1>10 DEF Connect
<1>11. CASE CheckStop
  BY <1>11 DEF CheckStop, TaskGoto
<1>12. CASE ReadEnd
  BY <1>12 DEF ReadEnd, DecodeStep, FlagType, StreamType
<1>13. CASE ReadFails
  BY <1>13 DEF ReadFails, DecodeStep
<1>14. CASE ReadNothing
  BY <1>14 DEF ReadNothing, DecodeStep
<1>15. CASE ReadSamples
  BY <1>15 DEF ReadSamples, DecodeStep
<1>16. CASE ReadFrame
  BY <1>16 DEF ReadFrame, DecodeStep
<1>17. CASE Write
  BY <1>17 DEF Write
<1>18. CASE FilePassEnd
  BY <1>18, CounterAssumption DEF FilePassEnd, TaskGoto
<1>19. CASE RadioPassEnd
  BY <1>19 DEF RadioPassEnd
<1>20. CASE Retry
  BY <1>20 DEF Retry, TaskGoto
<1>21. CASE Silence
  BY <1>21 DEF Silence, TaskGoto
<1>22. CASE ReadStop
  BY <1>22 DEF ReadStop, TaskGoto, FlagType
<1>23. CASE ClearLoop
  BY <1>23 DEF ClearLoop, TaskGoto
<1>24. CASE Report
  BY <1>24 DEF Report, TaskGoto
<1>25. CASE Deactivate
  BY <1>25 DEF Deactivate, TaskGoto
<1>26. CASE UNCHANGED <<apc, cmd, played, err, stopped>>
  BY <1>26
<1>27. QED
  BY <1>1, <1>2, <1>3, <1>4, <1>5, <1>6, <1>7, <1>8, <1>9, <1>10, <1>11,
  <1>12, <1>13, <1>14, <1>15, <1>16, <1>17, <1>18, <1>19, <1>20, <1>21, <1>22,
  <1>23, <1>24, <1>25, <1>26
  DEF Next, TaskStep, ClientStep, Rest, vars, CallPlay, CallPlayIfIdle,
  CallStop, RaiseStop, ResetQueue, MarkPending, Send, SendTimeout,
  UnmarkTimedOut, UnmarkStopped, ChooseCommand, task

\* A pass never reads more buffers than its stream holds.
LEMMA StreamTypeStep == TypeOK /\ [Next]_vars => StreamType'
<1> SUFFICES ASSUME TypeOK, [Next]_vars PROVE StreamType'
  OBVIOUS
<1> USE DEF TypeOK, StreamType
<1>1. CASE OpenWav
  BY <1>1 DEF OpenWav
<1>2. CASE OpenMp3
  BY <1>2 DEF OpenMp3
<1>3. CASE Connect
  BY <1>3, BoundAssumption DEF Connect
<1>4. CASE ReadNothing
  BY <1>4, BoundAssumption DEF ReadNothing, IsRadio
<1>5. CASE ReadSamples
  BY <1>5, BoundAssumption DEF ReadSamples
<1>6. CASE ReadFrame
  <2>1. PICK ok \in BOOLEAN :
          stream' = [stream EXCEPT !.left = IF IsRadio(cmd) THEN @ ELSE @ - 1,
                                   !.decoded = ok \/ @]
    BY <1>6 DEF ReadFrame
  <2>2. IsRadio(cmd) \/ stream.left > 0
    BY <1>6 DEF ReadFrame
  <2>3. stream.left \in 0 .. MaxChunks /\ stream.rate \in Rates
    OBVIOUS
  <2>4. (IF IsRadio(cmd) THEN stream.left ELSE stream.left - 1) \in 0 .. MaxChunks
    BY <2>2, <2>3, BoundAssumption
  <2>5. (ok \/ stream.decoded) \in BOOLEAN
    OBVIOUS
  <2>6. QED
    BY <2>1, <2>3, <2>4, <2>5
<1>7. CASE UNCHANGED stream
  BY <1>7
<1>8. QED
  BY <1>1, <1>2, <1>3, <1>4, <1>5, <1>6, <1>7
  DEF Next, TaskStep, ClientStep, Rest, vars, Receive, TakeOver, WithdrawStop,
  Announce, LoopEnd, PassFails, RadioEnd, CheckStop, ReadEnd, ReadFails,
  Write, FilePassEnd, RadioPassEnd, Retry, Silence, ReadStop, ClearLoop,
  Report, Deactivate, CallPlay, CallPlayIfIdle, CallStop, RaiseStop,
  ResetQueue, MarkPending, Send, SendTimeout, UnmarkTimedOut, UnmarkStopped,
  BeginPass, DecodeStep, ChooseCommand, task

\* A caller that is about to send holds a command.
LEMMA ClientTypeStep == TypeOK /\ [Next]_vars => ClientType'
<1> SUFFICES ASSUME TypeOK, [Next]_vars PROVE ClientType'
  OBVIOUS
<1> USE DEF TypeOK, ClientType, ClientPoints, client
<1>1. ASSUME NEW c \in Clients, CallPlay(c) PROVE ClientType'
  BY <1>1, BoundAssumption DEF CallPlay, ChooseCommand, BeginCall, ClientGoto
<1>2. ASSUME NEW c \in Clients, CallPlayIfIdle(c) PROVE ClientType'
  BY <1>2, BoundAssumption
     DEF CallPlayIfIdle, ChooseCommand, BeginCall, ClientGoto
<1>3. ASSUME NEW c \in Clients, CallStop(c) PROVE ClientType'
  BY <1>3, BoundAssumption DEF CallStop, BeginCall, ClientGoto
<1>4. ASSUME NEW c \in Clients, RaiseStop(c) PROVE ClientType'
  BY <1>4 DEF RaiseStop, ClientGoto
<1>5. ASSUME NEW c \in Clients, ResetQueue(c) PROVE ClientType'
  BY <1>5 DEF ResetQueue, ClientGoto
<1>6. ASSUME NEW c \in Clients, MarkPending(c) PROVE ClientType'
  BY <1>6 DEF MarkPending, ClientGoto
<1>7. ASSUME NEW c \in Clients, Send(c) PROVE ClientType'
  BY <1>7 DEF Send, ClientGoto
<1>8. ASSUME NEW c \in Clients, SendTimeout(c) PROVE ClientType'
  BY <1>8 DEF SendTimeout, ClientGoto
<1>9. ASSUME NEW c \in Clients, UnmarkTimedOut(c) PROVE ClientType'
  BY <1>9 DEF UnmarkTimedOut, ClientGoto
<1>10. ASSUME NEW c \in Clients, UnmarkStopped(c) PROVE ClientType'
  BY <1>10 DEF UnmarkStopped, ClientGoto
<1>11. CASE UNCHANGED client
  BY <1>11
<1>12. QED
  BY <1>1, <1>2, <1>3, <1>4, <1>5, <1>6, <1>7, <1>8, <1>9, <1>10, <1>11
  DEF Next, TaskStep, ClientStep, Rest, vars, Receive, TakeOver, WithdrawStop,
  Announce, LoopEnd, PassFails, OpenWav, OpenMp3, RadioEnd, Connect,
  CheckStop, ReadEnd, ReadFails, ReadNothing, ReadSamples, ReadFrame, Write,
  FilePassEnd, RadioPassEnd, Retry, Silence, ReadStop, ClearLoop, Report,
  Deactivate, BeginPass, DecodeStep

\* The history variables stay in their range.
LEMMA HistoryTypeStep == TypeOK /\ [Next]_vars => HistoryType'
<1> SUFFICES ASSUME TypeOK, [Next]_vars PROVE HistoryType'
  OBVIOUS
<1> USE DEF TypeOK, HistoryType, history
<1>1. CASE WithdrawStop
  BY <1>1 DEF WithdrawStop
<1>2. CASE Write
  BY <1>2 DEF Write
<1>3. CASE Deactivate
  BY <1>3 DEF Deactivate
<1>4. ASSUME NEW c \in Clients, RaiseStop(c) PROVE HistoryType'
  BY <1>4 DEF RaiseStop, TaskType
<1>5. CASE UNCHANGED history
  BY <1>5
<1>6. QED
  BY <1>1, <1>2, <1>3, <1>4, <1>5
  DEF Next, TaskStep, ClientStep, Rest, vars, Receive, TakeOver, Announce,
  LoopEnd, PassFails, OpenWav, OpenMp3, RadioEnd, Connect, CheckStop, ReadEnd,
  ReadFails, ReadNothing, ReadSamples, ReadFrame, FilePassEnd, RadioPassEnd,
  Retry, Silence, ReadStop, ClearLoop, Report, CallPlay, CallPlayIfIdle,
  CallStop, ResetQueue, MarkPending, Send, SendTimeout, UnmarkTimedOut,
  UnmarkStopped, BeginPass, DecodeStep, ChooseCommand


\* Every step keeps every variable in its range.
LEMMA TypeStep == TypeOK /\ [Next]_vars => TypeOK'
  BY QueueTypeStep, FlagTypeStep, StatusTypeStep, OutputTypeStep, TaskTypeStep,
     StreamTypeStep, ClientTypeStep, HistoryTypeStep DEF TypeOK

\* Every reachable state of the service is well typed: queue within its slots,
\* counter within its width.
THEOREM TypeCorrect == Spec => []TypeOK
  BY InitType, TypeStep, PTL DEF Spec

(***************************************************************************)
(* The inductive invariant, part by part.                                  *)
(***************************************************************************)

CallerStep(c) ==
  CallPlay(c) \/ CallPlayIfIdle(c) \/ CallStop(c) \/ ClientStep(c)

\* Callers touch neither the task, nor its status, nor the player.
LEMMA CallerFrame ==
  ASSUME NEW c \in Clients, CallerStep(c)
  PROVE  UNCHANGED <<active, status, output, task, tail>>
  BY DEF CallerStep, shared, history, CallPlay, CallPlayIfIdle, ChooseCommand,
         CallStop, ClientStep, RaiseStop, ResetQueue, MarkPending, Send,
         SendTimeout, UnmarkTimedOut, UnmarkStopped

\* s_active follows the control point of audio_task.
LEMMA ActiveStep == IInv /\ [Next]_vars => ActiveWhileServing'
<1> SUFFICES ASSUME IInv, [Next]_vars PROVE ActiveWhileServing'
  OBVIOUS
<1> USE DEF IInv, ActiveWhileServing, Serving
<1>1. CASE Receive
  BY <1>1 DEF Receive, TaskGoto, shared
<1>2. CASE TakeOver
  BY <1>2 DEF TakeOver, TaskGoto
<1>3. CASE Deactivate
  BY <1>3 DEF Deactivate, TaskGoto
<1>4. CASE WithdrawStop \/ Announce \/ LoopEnd \/ PassFails \/ OpenWav \/ OpenMp3 \/
         RadioEnd \/ Connect \/ CheckStop \/ ReadEnd \/ ReadFails \/ ReadNothing \/
         ReadSamples \/ ReadFrame \/ Write \/ FilePassEnd \/ RadioPassEnd \/ Retry \/
         Silence \/ ReadStop \/ ClearLoop \/ Report
  BY <1>4 DEF WithdrawStop, Announce, LoopEnd, PassFails, OpenWav, OpenMp3,
     RadioEnd, Connect, CheckStop, ReadEnd, ReadFails, ReadNothing,
     ReadSamples, ReadFrame, Write, FilePassEnd, RadioPassEnd, Retry, Silence,
     ReadStop, ClearLoop, Report, TaskGoto, BeginPass, DecodeStep, shared
<1>5. ASSUME NEW c \in Clients, CallerStep(c) PROVE ActiveWhileServing'
  BY <1>5, CallerFrame DEF task
<1>6. CASE UNCHANGED vars
  BY <1>6 DEF vars, shared, output, task, client, history
<1>7. QED
  BY <1>1, <1>2, <1>3, <1>4, <1>5, <1>6 DEF Next, TaskStep, Rest, CallerStep

\* Every step keeps the status in line with the served command.
LEMMA StatusStep == IInv /\ [Next]_vars => StatusInv'
<1> SUFFICES ASSUME IInv, [Next]_vars PROVE StatusInv'
  OBVIOUS
<1> USE DEF IInv, StatusInv, SilentPoints, LoopPoints, Loops, IsRadio
<1>1. CASE Receive
  BY <1>1 DEF Receive, TaskGoto
<1>2. CASE Announce
  BY <1>2 DEF Announce, TaskGoto, SetPlaybackLoop, TypeOK, StatusType
<1>3. CASE OpenWav
  BY <1>3, ZenonT(30) DEF OpenWav, BeginPass, SetPlayback, TypeOK, StatusType
<1>4. CASE OpenMp3
  BY <1>4, ZenonT(30) DEF OpenMp3, BeginPass, SetPlayback, TypeOK, StatusType
<1>5. CASE Connect
  BY <1>5, ZenonT(30) DEF Connect, SetPlayback, TypeOK, StatusType
<1>6. CASE ReadFrame
  BY <1>6, ZenonT(30) DEF ReadFrame, DecodeStep, SetPlayback, TypeOK, StatusType
<1>7. CASE RadioPassEnd
  BY <1>7 DEF RadioPassEnd, SetError, TypeOK, StatusType
<1>8. CASE ClearLoop
  BY <1>8 DEF ClearLoop, TaskGoto, SetPlaybackLoop, TypeOK, StatusType
<1>9. CASE Report
  BY <1>9, ZenonT(30) DEF Report, TaskGoto, SetPlayback, SetError, TypeOK, StatusType
<1>10. CASE TakeOver \/ WithdrawStop \/ LoopEnd \/ PassFails \/ RadioEnd \/ CheckStop \/
         ReadEnd \/ ReadFails \/ ReadNothing \/ ReadSamples \/ Write \/ FilePassEnd \/
         Retry \/ Silence \/ ReadStop \/ Deactivate
  BY <1>10
     DEF TakeOver, WithdrawStop, LoopEnd, PassFails, RadioEnd, CheckStop,
     ReadEnd, ReadFails, ReadNothing, ReadSamples, Write, FilePassEnd, Retry,
     Silence, ReadStop, Deactivate, TaskGoto, BeginPass, DecodeStep
<1>11. ASSUME NEW c \in Clients, CallerStep(c) PROVE StatusInv'
  BY <1>11, CallerFrame DEF task
<1>12. CASE UNCHANGED vars
  BY <1>12 DEF vars, shared, output, task, client, history
<1>13. QED
  BY <1>1, <1>2, <1>3, <1>4, <1>5, <1>6, <1>7, <1>8, <1>9, <1>10, <1>11, <1>12
     DEF Next, TaskStep, Rest, CallerStep

\* Every command leaves the player off, however it ends.
LEMMA PlayerStep == IInv /\ [Next]_vars => PlayerInv'
<1> SUFFICES ASSUME IInv, [Next]_vars PROVE PlayerInv'
  OBVIOUS
<1> USE DEF IInv, PlayerInv, OffPoints
<1>1. CASE Announce
  BY <1>1 DEF Announce, TaskGoto
<1>2. CASE OpenWav
  BY <1>2 DEF OpenWav, BeginPass, Configure
<1>3. CASE ReadFrame
  BY <1>3 DEF ReadFrame, DecodeStep, Configure
<1>4. CASE Silence
  BY <1>4 DEF Silence, TaskGoto
<1>5. CASE Receive \/ TakeOver \/ WithdrawStop \/ LoopEnd \/ PassFails \/ OpenMp3 \/
         RadioEnd \/ Connect \/ CheckStop \/ ReadEnd \/ ReadFails \/ ReadNothing \/
         ReadSamples \/ Write \/ FilePassEnd \/ RadioPassEnd \/ Retry \/ ReadStop \/
         ClearLoop \/ Report \/ Deactivate
  BY <1>5 DEF Receive, TakeOver, WithdrawStop, LoopEnd, PassFails, OpenMp3,
     RadioEnd, Connect, CheckStop, ReadEnd, ReadFails, ReadNothing,
     ReadSamples, Write, FilePassEnd, RadioPassEnd, Retry, ReadStop,
     ClearLoop, Report, Deactivate, TaskGoto, BeginPass, DecodeStep, output
<1>6. ASSUME NEW c \in Clients, CallerStep(c) PROVE PlayerInv'
  BY <1>6, CallerFrame DEF task, output
<1>7. CASE UNCHANGED vars
  BY <1>7 DEF vars, shared, output, task, client, history
<1>8. QED
  BY <1>1, <1>2, <1>3, <1>4, <1>5, <1>6, <1>7
     DEF Next, TaskStep, Rest, CallerStep

\* With the bit up, the write in progress is the last one.
LEMMA TailStep == IInv /\ [Next]_vars => TailInv'
<1> SUFFICES ASSUME IInv, [Next]_vars PROVE TailInv'
  OBVIOUS
<1> USE DEF IInv, TailInv
<1>1. CASE WithdrawStop
  BY <1>1 DEF WithdrawStop, TaskGoto
<1>2. CASE Write
  BY <1>2 DEF Write, shared, TypeOK, HistoryType
<1>3. CASE CheckStop
  BY <1>3 DEF CheckStop, TaskGoto, shared, history
<1>4. CASE Receive \/ TakeOver \/ Announce \/ LoopEnd \/ PassFails \/ OpenWav \/ OpenMp3 \/
         RadioEnd \/ Connect \/ ReadEnd \/ ReadFails \/ ReadNothing \/ ReadSamples \/
         ReadFrame \/ FilePassEnd \/ RadioPassEnd \/ Retry \/ Silence \/ ReadStop \/
         ClearLoop \/ Report \/ Deactivate
  BY <1>4
     DEF Receive, TakeOver, Announce, LoopEnd, PassFails, OpenWav, OpenMp3,
     RadioEnd, Connect, ReadEnd, ReadFails, ReadNothing, ReadSamples,
     ReadFrame, FilePassEnd, RadioPassEnd, Retry, Silence, ReadStop,
     ClearLoop, Report, Deactivate, TaskGoto, BeginPass, DecodeStep, shared,
     history
<1>5. ASSUME NEW c \in Clients, CallerStep(c) PROVE TailInv'
  <2>1. UNCHANGED <<apc, tail>> /\ (stopBit => stopBit')
    BY <1>5, CallerFrame
    DEF CallerStep, task, shared, CallPlay, CallPlayIfIdle, ChooseCommand,
        CallStop, ClientStep, RaiseStop, ResetQueue, MarkPending, Send,
        SendTimeout, UnmarkTimedOut, UnmarkStopped
  <2>2. QED
    BY <2>1
<1>6. CASE UNCHANGED vars
  BY <1>6 DEF vars, shared, output, task, client, history
<1>7. QED
  BY <1>1, <1>2, <1>3, <1>4, <1>5, <1>6 DEF Next, TaskStep, Rest, CallerStep

\* A radio command reaches its end only with the stop bit up, which nobody
\* withdraws before the next command.
LEMMA RadioStep == IInv /\ [Next]_vars => RadioInv'
<1> SUFFICES ASSUME IInv, [Next]_vars PROVE RadioInv'
  OBVIOUS
<1> USE DEF IInv, RadioInv, RadioEndsByStop, IsRadio
<1>1. CASE Announce
  BY <1>1 DEF Announce, TaskGoto
<1>2. CASE RadioEnd
  BY <1>2 DEF RadioEnd, TaskGoto, shared
<1>3. CASE RadioPassEnd
  BY <1>3 DEF RadioPassEnd, shared
<1>4. CASE FilePassEnd
  BY <1>4 DEF FilePassEnd, TaskGoto
<1>5. CASE LoopEnd
  BY <1>5 DEF LoopEnd, TaskGoto
<1>6. CASE Connect
  BY <1>6 DEF Connect
<1>7. CASE ReadFrame
  BY <1>7 DEF ReadFrame, DecodeStep
<1>8. CASE Silence
  BY <1>8 DEF Silence, TaskGoto, shared
<1>9. CASE ReadStop
  BY <1>9 DEF ReadStop, TaskGoto, shared
<1>10. CASE ClearLoop
  BY <1>10 DEF ClearLoop, TaskGoto, shared
<1>11. CASE Report
  BY <1>11 DEF Report, TaskGoto, shared
<1>12. CASE Receive \/ TakeOver \/ WithdrawStop \/ PassFails \/ OpenWav \/ OpenMp3 \/
         CheckStop \/ ReadEnd \/ ReadFails \/ ReadNothing \/ ReadSamples \/ Write \/
         Retry \/ Deactivate
  BY <1>12 DEF Receive, TakeOver, WithdrawStop, PassFails, OpenWav, OpenMp3,
     CheckStop, ReadEnd, ReadFails, ReadNothing, ReadSamples, Write, Retry,
     Deactivate, TaskGoto, BeginPass, DecodeStep, shared
<1>13. ASSUME NEW c \in Clients, CallerStep(c) PROVE RadioInv'
  <2>1. UNCHANGED <<apc, cmd, err>> /\ (stopBit => stopBit')
    BY <1>13, CallerFrame
    DEF CallerStep, task, shared, CallPlay, CallPlayIfIdle, ChooseCommand,
        CallStop, ClientStep, RaiseStop, ResetQueue, MarkPending, Send,
        SendTimeout, UnmarkTimedOut, UnmarkStopped
  <2>2. QED
    BY <2>1
<1>14. CASE UNCHANGED vars
  BY <1>14 DEF vars, shared, output, task, client, history
<1>15. QED
  BY <1>1, <1>2, <1>3, <1>4, <1>5, <1>6, <1>7, <1>8, <1>9, <1>10, <1>11,
  <1>12, <1>13, <1>14
     DEF Next, TaskStep, Rest, CallerStep

\* A caller leaves s_pending up only if it settles it later or has queued a
\* command.
LEMMA PendingCallerStep ==
  ASSUME TypeOK, NoPhantomPending, NEW c \in Clients, CallerStep(c)
  PROVE  NoPhantomPending'
<1> USE DEF TypeOK, ClientType, NoPhantomPending, WillSettle, ClientGoto
<1>1. CASE CallPlay(c) \/ CallPlayIfIdle(c) \/ CallStop(c)
  BY <1>1 DEF CallPlay, CallPlayIfIdle, ChooseCommand, CallStop, shared, task
<1>2. CASE RaiseStop(c)
  BY <1>2 DEF RaiseStop, task
<1>3. CASE ResetQueue(c)
  <2>1. WillSettle(c)'
    BY <1>3 DEF ResetQueue
  <2>2. QED
    BY <2>1
<1>4. CASE MarkPending(c)
  <2>1. WillSettle(c)'
    BY <1>4 DEF MarkPending
  <2>2. QED
    BY <2>1
<1>5. CASE Send(c)
  <2>1. queue \in Seq(Commands) /\ queue' = Append(queue, req[c])
    BY <1>5 DEF Send, QueueType
  <2>2. queue' # <<>>
    BY <2>1
  <2>3. QED
    BY <2>2
<1>6. CASE SendTimeout(c)
  <2>1. WillSettle(c)'
    BY <1>6 DEF SendTimeout
  <2>2. QED
    BY <2>1
<1>7. CASE UnmarkTimedOut(c) \/ UnmarkStopped(c)
  BY <1>7 DEF UnmarkTimedOut, UnmarkStopped
<1>8. QED
  BY <1>1, <1>2, <1>3, <1>4, <1>5, <1>6, <1>7 DEF CallerStep, ClientStep

\* s_pending stays justified.
LEMMA PendingStep == IInv /\ [Next]_vars => NoPhantomPending'
<1> SUFFICES ASSUME IInv, [Next]_vars PROVE NoPhantomPending'
  OBVIOUS
<1> USE DEF IInv, NoPhantomPending, WillSettle
<1>1. CASE Receive
  BY <1>1 DEF Receive, TaskGoto
<1>2. CASE TakeOver
  BY <1>2 DEF TakeOver, TaskGoto
<1>3. CASE WithdrawStop \/ Announce \/ LoopEnd \/ PassFails \/ OpenWav \/ OpenMp3 \/
         RadioEnd \/ Connect \/ CheckStop \/ ReadEnd \/ ReadFails \/ ReadNothing \/
         ReadSamples \/ ReadFrame \/ Write \/ FilePassEnd \/ RadioPassEnd \/ Retry \/
         Silence \/ ReadStop \/ ClearLoop \/ Report \/ Deactivate
  BY <1>3 DEF WithdrawStop, Announce, LoopEnd, PassFails, OpenWav, OpenMp3,
     RadioEnd, Connect, CheckStop, ReadEnd, ReadFails, ReadNothing,
     ReadSamples, ReadFrame, Write, FilePassEnd, RadioPassEnd, Retry, Silence,
     ReadStop, ClearLoop, Report, Deactivate, TaskGoto, BeginPass, DecodeStep,
     shared, client
<1>4. ASSUME NEW c \in Clients, CallerStep(c) PROVE NoPhantomPending'
  BY <1>4, PendingCallerStep
<1>5. CASE UNCHANGED vars
  BY <1>5 DEF vars, shared, output, task, client, history
<1>6. QED
  BY <1>1, <1>2, <1>3, <1>4, <1>5 DEF Next, TaskStep, Rest, CallerStep

\* Below the number of passes asked for, the counter does not wrap.
LEMMA CountPass ==
  ASSUME NEW n \in 0 .. (CounterMod - 1), NEW m \in 0 .. (CounterMod - 1), n < m
  PROVE  (n + 1) % CounterMod = n + 1
<1>1. n + 1 \in Nat /\ n + 1 < CounterMod
  BY CounterAssumption
<1>2. QED
  BY <1>1, CounterAssumption

\* The rate of the player on the first pass of a finite file.
LEMMA RateStep == IInv /\ [Next]_vars => RateInv'
<1> SUFFICES ASSUME IInv, [Next]_vars PROVE RateInv'
  OBVIOUS
<1> USE DEF IInv, RateInv, IsRadio
<1>1. CASE Announce
  BY <1>1 DEF Announce, TaskGoto, PlayerInv, OffPoints, output
<1>2. CASE OpenWav
  <2>1. PICK n \in 0 .. MaxChunks, r \in Rates, ok \in BOOLEAN :
          /\ stream' = [left |-> n, rate |-> r, decoded |-> TRUE]
          /\ Configure(r, ok)
          /\ apc' = IF ok THEN "Check" ELSE "PassEnd"
    BY <1>2 DEF OpenWav
  <2>2. /\ apc = "LoopHead" /\ cmd' = cmd /\ played' = played
        /\ cmd.repeat = 0 \/ played < cmd.repeat
    BY <1>2 DEF OpenWav, BeginPass
  <2>3. stream'.rate = r
    BY <2>1
  <2>4. CASE enabled
    BY <2>1, <2>2, <2>4 DEF Configure, output
  <2>5. CASE ~enabled
    <3>1. rate' = r /\ enabled' = ok
      BY <2>1, <2>5 DEF Configure
    <3>2. QED
      BY <2>1, <2>2, <2>3, <3>1
  <2>6. QED
    BY <2>4, <2>5
<1>3. CASE OpenMp3
  BY <1>3 DEF OpenMp3, BeginPass, output
<1>4. CASE Connect
  BY <1>4 DEF Connect, RadioInv
<1>5. CASE ReadNothing
  BY <1>5 DEF ReadNothing, DecodeStep, output, TypeOK, StreamType
<1>6. CASE ReadSamples
  BY <1>6 DEF ReadSamples, DecodeStep, output, TypeOK, StreamType
<1>7. CASE ReadFrame
  <2>1. PICK ok \in BOOLEAN :
          /\ Configure(stream.rate, ok)
          /\ apc' = IF ok THEN "Write" ELSE "PassEnd"
    BY <1>7 DEF ReadFrame
  <2>2. apc = "Read" /\ UNCHANGED <<cmd, played>>
    BY <1>7 DEF ReadFrame, DecodeStep
  <2>3. stream'.rate = stream.rate
    BY <1>7 DEF ReadFrame, TypeOK, StreamType
  <2>4. CASE enabled
    BY <2>1, <2>2, <2>3, <2>4 DEF Configure, output
  <2>5. CASE ~enabled
    <3>1. rate' = stream.rate /\ enabled' = ok
      BY <2>1, <2>5 DEF Configure
    <3>2. QED
      BY <2>1, <2>2, <2>3, <3>1
  <2>6. QED
    BY <2>4, <2>5
<1>8. CASE Write
  BY <1>8 DEF Write, output
<1>9. CASE FilePassEnd
  <2>1. CASE err
    BY <1>9, <2>1 DEF FilePassEnd, TaskGoto
  <2>2. CASE ~err /\ cmd.repeat # 0
    <3>1. played < cmd.repeat /\ apc' = "LoopHead" /\ cmd' = cmd
          /\ played' = (played + 1) % CounterMod
      BY <1>9, <2>2 DEF FilePassEnd, TaskGoto
    <3>2. cmd.repeat \in 0 .. (CounterMod - 1) /\ played \in 0 .. (CounterMod - 1)
      BY CommandShape DEF TypeOK, TaskType
    <3>3. played' # 0
      BY <3>1, <3>2, CountPass
    <3>4. QED
      BY <3>1, <3>3
  <2>3. CASE ~err /\ cmd.repeat = 0
    BY <1>9, <2>3 DEF FilePassEnd, TaskGoto
  <2>4. QED
    BY <2>1, <2>2, <2>3
<1>10. CASE Silence
  BY <1>10 DEF Silence, TaskGoto
<1>11. CASE CheckStop
  BY <1>11 DEF CheckStop, TaskGoto, output
<1>12. CASE PassFails
  BY <1>12 DEF PassFails, BeginPass, TaskGoto, output
<1>13. CASE ReadEnd
  BY <1>13 DEF ReadEnd, DecodeStep, output
<1>14. CASE ReadFails
  BY <1>14 DEF ReadFails, DecodeStep, output
<1>15. CASE Receive \/ TakeOver \/ WithdrawStop \/ LoopEnd \/ RadioEnd \/ RadioPassEnd \/
         Retry \/ ReadStop \/ ClearLoop \/ Report \/ Deactivate
  BY <1>15
     DEF Receive, TakeOver, WithdrawStop, LoopEnd, RadioEnd, RadioPassEnd,
     Retry, ReadStop, ClearLoop, Report, Deactivate, TaskGoto, output
<1>16. ASSUME NEW c \in Clients, CallerStep(c) PROVE RateInv'
  BY <1>16, CallerFrame DEF task, output
<1>17. CASE UNCHANGED vars
  BY <1>17 DEF vars, shared, output, task, client, history
<1>18. QED
  BY <1>1, <1>2, <1>3, <1>4, <1>5, <1>6, <1>7, <1>8, <1>9, <1>10, <1>11,
  <1>12, <1>13, <1>14, <1>15, <1>16, <1>17
     DEF Next, TaskStep, Rest, CallerStep

\* The device boots into a silent, idle service.
LEMMA InitInv == Init => IInv
<1> SUFFICES ASSUME Init PROVE IInv
  OBVIOUS
<1>1. TypeOK
  BY InitType
<1>2. ActiveWhileServing /\ NoPhantomPending
  BY DEF Init, ActiveWhileServing, NoPhantomPending, Serving
<1>3. StatusInv /\ PlayerInv
  BY DEF Init, StatusInv, PlayerInv
<1>4. RadioInv
  BY DEF Init, RadioInv, RadioEndsByStop
<1>5. TailInv
  <2>1. tail = 0
    BY DEF Init
  <2>2. QED
    BY <2>1 DEF TailInv
<1>6. RateInv
  <2>1. apc = "Idle"
    BY DEF Init
  <2>2. QED
    BY <2>1 DEF RateInv
<1>7. QED
  BY <1>1, <1>2, <1>3, <1>4, <1>5, <1>6 DEF IInv

\* IInv is inductive.
LEMMA InvStep == IInv /\ [Next]_vars => IInv'
<1> SUFFICES ASSUME IInv, [Next]_vars PROVE IInv'
  OBVIOUS
<1>1. TypeOK'
  BY TypeStep DEF IInv
<1>2. QED
  BY <1>1, ActiveStep, PendingStep, StatusStep, PlayerStep, RadioStep, TailStep,
     RateStep DEF IInv

(***************************************************************************)
(* The safety properties.                                                  *)
(***************************************************************************)

\* The flags, the status and the player are what the control point of
\* audio_task says in every reachable state.
THEOREM Invariance == Spec => []IInv
  BY InitInv, InvStep, PTL DEF Spec

\* audio_service_is_active never stays true with nothing to play.
THEOREM PhantomFree == Spec => []NoPhantomPending
<1>1. IInv => NoPhantomPending
  BY DEF IInv
<1>2. QED
  BY <1>1, Invariance, PTL

\* The published status always fits the command in service.
THEOREM StatusCorrect == Spec => []StatusMatchesService
<1>1. IInv => StatusMatchesService
  BY DEF IInv, StatusMatchesService, StatusInv, ActiveWhileServing, Serving,
         SilentPoints, LoopPoints, TypeOK, TaskType, TaskPoints
<1>2. QED
  BY <1>1, Invariance, PTL

\* Between two commands the player is off and the status says so.
THEOREM QuietBetweenCommands == Spec => []QuietWhenIdle
<1>1. IInv => QuietWhenIdle
  BY DEF IInv, QuietWhenIdle, StatusInv, PlayerInv, ActiveWhileServing, Serving,
         SilentPoints, LoopPoints, OffPoints, TypeOK, StatusType
<1>2. QED
  BY <1>1, Invariance, PTL

\* After the stop bit at most one more buffer is written.
THEOREM StopLatency == Spec => []BoundedTail
<1>1. IInv => BoundedTail
  BY DEF IInv, BoundedTail, TailInv
<1>2. QED
  BY <1>1, Invariance, PTL

\* No file starts at the sample rate of the command before it.
THEOREM RateIsFresh == Spec => []FirstPassRate
<1>1. IInv => FirstPassRate
  BY DEF IInv, FirstPassRate, RateInv
<1>2. QED
  BY <1>1, Invariance, PTL

\* The radio only ever ends by a stop, and never as a failure.
THEOREM RadioPersists == Spec => []RadioEndsByStop
<1>1. IInv => RadioEndsByStop
  BY DEF IInv, RadioInv
<1>2. QED
  BY <1>1, Invariance, PTL
=============================================================================
