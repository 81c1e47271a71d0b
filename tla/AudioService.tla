---------------------------- MODULE AudioService ----------------------------
(***************************************************************************)
(* The playback service of the firmware (main/audio/audio_service.c) with  *)
(* the part of the runtime state it publishes (main/app_state.c) and the   *)
(* part of the I2S player that outlives a pass (main/audio/i2s_player.c).  *)
(*                                                                         *)
(* Producers (the serial task, the HTTP server, the sensor task, the Wi-Fi *)
(* task and app_main) and the audio task run on two cores and share a      *)
(* command queue, one event bit and two flags under a mutex.  One action   *)
(* is one FreeRTOS call, so every interleaving of the calls is a           *)
(* behaviour of the specification.                                         *)
(***************************************************************************)
EXTENDS Naturals, Sequences

CONSTANTS
  Clients,      \* tasks that call the service
  Automatic,    \* those of them that ask audio_service_is_active first
  Commands,     \* commands they may ask for
  Sources,      \* file paths and radio URLs
  Rates,        \* sample rates a stream may have
  QueueLength,  \* slots of s_queue (3 in the code)
  CounterMod,   \* modulus of the uint16_t counter "played" (2^16 in the code)
  MaxCalls,     \* bound: calls made in one behaviour
  MaxChunks     \* bound: buffers in one file

Kinds == {"wav", "mp3", "radio"}

ASSUME QueueAssumption == QueueLength \in Nat \ {0}
ASSUME CounterAssumption == CounterMod \in Nat \ {0}
ASSUME BoundAssumption == MaxCalls \in Nat /\ MaxChunks \in Nat
ASSUME ClientAssumption == Automatic \subseteq Clients
ASSUME RateAssumption == Rates # {}
ASSUME CommandAssumption ==
  /\ Commands \subseteq
       [kind : Kinds, source : Sources, repeat : 0 .. (CounterMod - 1)]
  /\ "" \notin Sources

VARIABLES
  queue,     \* s_queue
  stopBit,   \* AUDIO_STOP_BIT of s_events
  pending,   \* s_pending
  active,    \* s_active
  status,    \* the playback fields of app_state
  enabled,   \* s_enabled of the I2S player
  rate,      \* s_source_sample_rate of the I2S player
  apc,       \* control point of audio_task
  cmd,       \* the command audio_task holds
  played,    \* passes of the command already played
  err,       \* TRUE: the local err of audio_task is not ESP_OK
  stream,    \* the stream of the current pass
  stopped,   \* local "stopped" of audio_task
  pc,        \* control point of each client
  req,       \* the command each client is queueing
  calls,     \* calls made so far (bounded by MaxCalls)
  halted,    \* history: a client asked for silence while cmd was held
  tail       \* history: buffers written with the stop bit set

shared == <<queue, stopBit, pending, active>>
output == <<enabled, rate>>
task == <<apc, cmd, played, err, stream, stopped>>
client == <<pc, req, calls>>
history == <<halted, tail>>
vars == <<shared, status, output, task, client, history>>

NoCommand == [kind |-> "radio", source |-> "", repeat |-> 0]
NoStream == [left |-> 0, rate |-> CHOOSE r \in Rates : TRUE, decoded |-> FALSE]

IsRadio(c) == c.kind = "radio"
Loops(c) == ~IsRadio(c) /\ c.repeat = 0

\* The control points at which audio_task serves a command with s_active set
\* and the stop bit of its predecessor withdrawn.
Serving == {"SetLoop", "LoopHead", "RadioHead", "Check", "Read", "Write",
            "PassEnd", "Retry", "Silence", "ReadStop", "ClearLoop", "Report",
            "Deactivate"}
TaskPoints == {"Idle", "Received", "ClearStop"} \cup Serving
ClientPoints == {"Idle", "SetStop", "Reset", "Mark", "Send", "TimedOut",
                 "Stop", "StopReset", "StopUnmark"}

Init ==
  /\ queue = <<>>
  /\ stopBit = FALSE
  /\ pending = FALSE
  /\ active = FALSE
  /\ status = [playback |-> "stopped", source |-> "", loop |-> FALSE,
               error |-> "none"]
  /\ enabled = FALSE
  /\ rate \in Rates
  /\ apc = "Idle"
  /\ cmd = NoCommand
  /\ played = 0
  /\ err = FALSE
  /\ stream = NoStream
  /\ stopped = FALSE
  /\ pc = [c \in Clients |-> "Idle"]
  /\ req = [c \in Clients |-> NoCommand]
  /\ calls = 0
  /\ halted = FALSE
  /\ tail = 0

(***************************************************************************)
(* The runtime state the tasks read through app_state_get.                 *)
(***************************************************************************)

\* A state other than error clears the message of the last error.
SetPlayback(state, source) ==
  status' = [status EXCEPT !.playback = state, !.source = source,
                           !.error = IF state = "error" THEN @ ELSE "none"]

SetPlaybackLoop(on) == status' = [status EXCEPT !.loop = on]

SetError(message) ==
  status' = [status EXCEPT !.playback = "error", !.error = message]

(***************************************************************************)
(* Callers of the service.                                                 *)
(***************************************************************************)

ClientGoto(c, from, to) ==
  /\ pc[c] = from
  /\ pc' = [pc EXCEPT ![c] = to]

\* audio_service_is_active: what the automatic producers ask first.
IsActive == active \/ pending

BeginCall(c) == calls < MaxCalls /\ calls' = calls + 1

ChooseCommand(c) ==
  /\ BeginCall(c)
  /\ ClientGoto(c, "Idle", "SetStop")
  /\ \E q \in Commands : req' = [req EXCEPT ![c] = q]
  /\ UNCHANGED <<shared, status, output, task, history>>

\* A user asks for a file, app_main for the birthday song.
CallPlay(c) == c \notin Automatic /\ ChooseCommand(c)

\* The sensor and Wi-Fi tasks ask only when the service looks idle; the
\* decision is older than the command it leads to.
CallPlayIfIdle(c) == c \in Automatic /\ ~IsActive /\ ChooseCommand(c)

CallStop(c) ==
  /\ BeginCall(c)
  /\ ClientGoto(c, "Idle", "Stop")
  /\ UNCHANGED <<shared, status, output, task, history, req>>

\* xEventGroupSetBits, of queue_command and of audio_service_stop.
RaiseStop(c) ==
  /\ \/ ClientGoto(c, "SetStop", "Reset")
     \/ ClientGoto(c, "Stop", "StopReset")
  /\ stopBit' = TRUE
  /\ halted' = (halted \/ apc # "Idle")
  /\ UNCHANGED <<queue, pending, active, status, output, task, req, calls, tail>>

ResetQueue(c) ==
  /\ \/ ClientGoto(c, "Reset", "Mark")
     \/ ClientGoto(c, "StopReset", "StopUnmark")
  /\ queue' = <<>>
  /\ UNCHANGED <<stopBit, pending, active, status, output, task, req, calls,
                 history>>

MarkPending(c) ==
  /\ ClientGoto(c, "Mark", "Send")
  /\ pending' = TRUE
  /\ UNCHANGED <<queue, stopBit, active, status, output, task, req, calls,
                 history>>

Send(c) ==
  /\ ClientGoto(c, "Send", "Idle")
  /\ Len(queue) < QueueLength
  /\ queue' = Append(queue, req[c])
  /\ req' = [req EXCEPT ![c] = NoCommand]
  /\ UNCHANGED <<stopBit, pending, active, status, output, task, calls, history>>

\* The queue stayed full for the 100 ms of xQueueSend.
SendTimeout(c) ==
  /\ ClientGoto(c, "Send", "TimedOut")
  /\ Len(queue) = QueueLength
  /\ UNCHANGED <<shared, status, output, task, req, calls, history>>

UnmarkTimedOut(c) ==
  /\ ClientGoto(c, "TimedOut", "Idle")
  /\ pending' = FALSE
  /\ req' = [req EXCEPT ![c] = NoCommand]
  /\ UNCHANGED <<queue, stopBit, active, status, output, task, calls, history>>

\* Mutant: a stop that empties the queue leaves s_pending up.
UnmarkStopped_LeavesPending(c) ==
  /\ ClientGoto(c, "StopUnmark", "Idle")
  /\ UNCHANGED <<shared, status, output, task, req, calls, history>>

UnmarkStopped(c) ==
  /\ ClientGoto(c, "StopUnmark", "Idle")
  /\ pending' = FALSE
  /\ UNCHANGED <<queue, stopBit, active, status, output, task, req, calls,
                 history>>

ClientStep(c) ==
  \/ RaiseStop(c)
  \/ ResetQueue(c)
  \/ MarkPending(c)
  \/ Send(c)
  \/ SendTimeout(c)
  \/ UnmarkTimedOut(c)
  \/ UnmarkStopped(c)

(***************************************************************************)
(* audio_task: receiving a command.                                        *)
(***************************************************************************)

TaskGoto(from, to) == apc = from /\ apc' = to

Receive ==
  /\ TaskGoto("Idle", "Received")
  /\ queue # <<>>
  /\ cmd' = Head(queue)
  /\ queue' = Tail(queue)
  /\ UNCHANGED <<stopBit, pending, active, status, output, played, err, stream,
                 stopped, client, history>>

TakeOver ==
  /\ TaskGoto("Received", "ClearStop")
  /\ pending' = FALSE
  /\ active' = TRUE
  /\ UNCHANGED <<queue, stopBit, status, output, cmd, played, err, stream,
                 stopped, client, history>>

\* The bit that ended the predecessor is withdrawn, and with it every request
\* to stop that arrived since the command left the queue.
WithdrawStop ==
  /\ TaskGoto("ClearStop", "SetLoop")
  /\ stopBit' = FALSE
  /\ tail' = 0
  /\ UNCHANGED <<queue, pending, active, status, output, cmd, played, err,
                 stream, stopped, client, halted>>

Announce ==
  /\ TaskGoto("SetLoop", IF IsRadio(cmd) THEN "RadioHead" ELSE "LoopHead")
  /\ SetPlaybackLoop(Loops(cmd))
  /\ err' = FALSE
  /\ played' = 0
  /\ UNCHANGED <<shared, output, cmd, stream, stopped, client, history>>

(***************************************************************************)
(* audio_task: one pass over a file, one connection to a radio.            *)
(***************************************************************************)

\* i2s_player_configure: a running pipeline keeps its rate; a stopped one
\* takes the rate and may fail to start.
Configure(r, ok) ==
  IF enabled
  THEN ok /\ UNCHANGED output
  ELSE rate' = r /\ enabled' = ok

LoopEnd ==
  /\ TaskGoto("LoopHead", "Silence")
  /\ stopBit \/ (cmd.repeat # 0 /\ played >= cmd.repeat)
  /\ UNCHANGED <<shared, status, output, cmd, played, err, stream, stopped,
                 client, history>>

BeginPass ==
  /\ apc = "LoopHead"
  /\ ~stopBit
  /\ cmd.repeat = 0 \/ played < cmd.repeat
  /\ UNCHANGED <<shared, cmd, played, stopped, client, history>>

\* The file is missing, or is no playable WAV file.
PassFails ==
  /\ BeginPass
  /\ TaskGoto("LoopHead", "PassEnd")
  /\ err' = TRUE
  /\ UNCHANGED <<status, output, stream>>

OpenWav ==
  /\ BeginPass
  /\ cmd.kind = "wav"
  /\ \E n \in 0 .. MaxChunks, r \in Rates, ok \in BOOLEAN :
       /\ stream' = [left |-> n, rate |-> r, decoded |-> TRUE]
       /\ Configure(r, ok)
       /\ err' = ~ok
       /\ IF ok
          THEN SetPlayback("playing", cmd.source) /\ apc' = "Check"
          ELSE UNCHANGED status /\ apc' = "PassEnd"

OpenMp3 ==
  /\ BeginPass
  /\ cmd.kind = "mp3"
  /\ \E n \in 0 .. MaxChunks, r \in Rates :
       stream' = [left |-> n, rate |-> r, decoded |-> FALSE]
  /\ apc' = "Check"
  /\ err' = FALSE
  /\ SetPlayback("buffering", cmd.source)
  /\ UNCHANGED output

RadioEnd ==
  /\ TaskGoto("RadioHead", "Silence")
  /\ stopBit
  /\ err' = FALSE
  /\ UNCHANGED <<shared, status, output, cmd, played, stream, stopped, client,
                 history>>

\* Opening the connection, or its answer, fails (to "PassEnd") or succeeds.
Connect ==
  /\ apc = "RadioHead"
  /\ ~stopBit
  /\ \E r \in Rates : stream' = [left |-> 0, rate |-> r, decoded |-> FALSE]
  /\ SetPlayback("buffering", cmd.source)
  /\ \/ apc' = "Check" /\ err' = FALSE
     \/ apc' = "PassEnd" /\ err' = TRUE
  /\ UNCHANGED <<shared, output, cmd, played, stopped, client, history>>

(***************************************************************************)
(* audio_task: the decode loops.  They look at the stop bit before every   *)
(* buffer.                                                                 *)
(***************************************************************************)

\* Mutant: the decode loop does not ask for the stop bit.
CheckStop_Ignored ==
  /\ TaskGoto("Check", "Read")
  /\ UNCHANGED <<shared, status, output, cmd, played, err, stream, stopped,
                 client, history>>

CheckStop ==
  /\ TaskGoto("Check", IF stopBit THEN "PassEnd" ELSE "Read")
  /\ UNCHANGED <<shared, status, output, cmd, played, err, stream, stopped,
                 client, history>>

DecodeStep ==
  /\ apc = "Read"
  /\ UNCHANGED <<shared, cmd, played, stopped, client, history>>

\* End of input: an MP3 stream that never gave a frame is an invalid one,
\* unless the stop bit is up by now.
ReadEnd ==
  /\ DecodeStep
  /\ IsRadio(cmd) \/ stream.left = 0
  /\ apc' = "PassEnd"
  /\ err' = (~stream.decoded /\ ~stopBit)
  /\ UNCHANGED <<status, output, stream>>

\* fread or the HTTP client reports an error, or the frame has no usable format.
ReadFails ==
  /\ DecodeStep
  /\ cmd.kind # "wav"
  /\ apc' = "PassEnd"
  /\ err' = TRUE
  /\ UNCHANGED <<status, output, stream>>

\* Input without a frame: no sync word, an underflow, a broken frame.
ReadNothing ==
  /\ DecodeStep
  /\ cmd.kind # "wav"
  /\ IsRadio(cmd) \/ stream.left > 0
  /\ apc' = "Check"
  /\ stream' = IF IsRadio(cmd) THEN stream
               ELSE [stream EXCEPT !.left = @ - 1]
  /\ UNCHANGED <<status, output, err>>

ReadSamples ==
  /\ DecodeStep
  /\ cmd.kind = "wav"
  /\ stream.left > 0
  /\ apc' = "Write"
  /\ stream' = [stream EXCEPT !.left = @ - 1]
  /\ UNCHANGED <<status, output, err>>

\* A frame (re)configures the player; the first one makes the state "playing".
ReadFrame ==
  /\ DecodeStep
  /\ cmd.kind # "wav"
  /\ IsRadio(cmd) \/ stream.left > 0
  /\ \E ok \in BOOLEAN :
       /\ Configure(stream.rate, ok)
       /\ err' = ~ok
       /\ apc' = IF ok THEN "Write" ELSE "PassEnd"
       /\ stream' = [stream EXCEPT !.left = IF IsRadio(cmd) THEN @ ELSE @ - 1,
                                   !.decoded = ok \/ @]
       /\ IF ok /\ ~stream.decoded
          THEN SetPlayback("playing", status.source)
          ELSE UNCHANGED status

\* i2s_player_write blocks on the ring buffer of the pipeline and may time out.
Write ==
  /\ apc = "Write"
  /\ \/ apc' = "Check" /\ err' = FALSE
     \/ apc' = "PassEnd" /\ err' = TRUE
  /\ tail' = IF stopBit /\ tail < 2 THEN tail + 1 ELSE tail
  /\ UNCHANGED <<shared, status, output, cmd, played, stream, stopped, client,
                 halted>>

FilePassEnd ==
  /\ ~IsRadio(cmd)
  /\ TaskGoto("PassEnd", IF err THEN "Silence" ELSE "LoopHead")
  /\ played' = IF err THEN played ELSE (played + 1) % CounterMod
  /\ UNCHANGED <<shared, status, output, cmd, err, stream, stopped, client,
                 history>>

\* Mutant: the radio gives up at the first lost connection.
RadioPassEnd_GivesUp ==
  /\ IsRadio(cmd)
  /\ TaskGoto("PassEnd", "Silence")
  /\ UNCHANGED <<shared, status, output, cmd, played, err, stream, stopped,
                 client, history>>

\* The connection is closed: stopped for good, or an error and a new try.
RadioPassEnd ==
  /\ IsRadio(cmd)
  /\ apc = "PassEnd"
  /\ IF stopBit
     THEN apc' = "Silence" /\ err' = FALSE /\ UNCHANGED status
     ELSE apc' = "Retry" /\ SetError("radio") /\ UNCHANGED err
  /\ UNCHANGED <<shared, output, cmd, played, stream, stopped, client, history>>

\* The two seconds before the next try, cut short by the stop bit.
Retry ==
  /\ TaskGoto("Retry", "RadioHead")
  /\ UNCHANGED <<shared, status, output, cmd, played, err, stream, stopped,
                 client, history>>

(***************************************************************************)
(* audio_task: the end of a command.                                       *)
(***************************************************************************)

\* Mutant: the pipeline keeps running after a failed command.
Silence_KeepsPipeline ==
  /\ TaskGoto("Silence", "ReadStop")
  /\ enabled' = (enabled /\ err)
  /\ UNCHANGED <<shared, status, rate, cmd, played, err, stream, stopped,
                 client, history>>

\* i2s_player_silence ends in the disabled state whether the pipeline stops
\* in time or not.
Silence ==
  /\ TaskGoto("Silence", "ReadStop")
  /\ enabled' = FALSE
  /\ UNCHANGED <<shared, status, rate, cmd, played, err, stream, stopped,
                 client, history>>

ReadStop ==
  /\ TaskGoto("ReadStop", "ClearLoop")
  /\ stopped' = stopBit
  /\ UNCHANGED <<shared, status, output, cmd, played, err, stream, client,
                 history>>

ClearLoop ==
  /\ TaskGoto("ClearLoop", "Report")
  /\ SetPlaybackLoop(FALSE)
  /\ UNCHANGED <<shared, output, cmd, played, err, stream, stopped, client,
                 history>>

\* Mutant: only a failure is reported.
Report_OnlyFailure ==
  /\ TaskGoto("Report", "Deactivate")
  /\ IF err /\ ~stopped THEN SetError("failed") ELSE UNCHANGED status
  /\ UNCHANGED <<shared, output, cmd, played, err, stream, stopped, client,
                 history>>

Report ==
  /\ TaskGoto("Report", "Deactivate")
  /\ IF ~err \/ stopped THEN SetPlayback("stopped", "") ELSE SetError("failed")
  /\ UNCHANGED <<shared, output, cmd, played, err, stream, stopped, client,
                 history>>

Deactivate ==
  /\ TaskGoto("Deactivate", "Idle")
  /\ active' = FALSE
  /\ halted' = FALSE
  /\ UNCHANGED <<queue, stopBit, pending, status, output, cmd, played, err,
                 stream, stopped, client, tail>>

TaskStep ==
  \/ Receive \/ TakeOver \/ WithdrawStop \/ Announce
  \/ LoopEnd \/ PassFails \/ OpenWav \/ OpenMp3
  \/ RadioEnd \/ Connect
  \/ CheckStop \/ ReadEnd \/ ReadFails \/ ReadNothing \/ ReadSamples
  \/ ReadFrame \/ Write \/ FilePassEnd \/ RadioPassEnd \/ Retry
  \/ Silence \/ ReadStop \/ ClearLoop \/ Report \/ Deactivate

\* Nobody has anything to do until the next call, and no call is left.
Quiet ==
  /\ apc = "Idle"
  /\ queue = <<>>
  /\ calls = MaxCalls
  /\ \A c \in Clients : pc[c] = "Idle"

\* The bound on calls is reached: the system rests, it does not deadlock.
Rest == Quiet /\ UNCHANGED vars

Next ==
  \/ TaskStep
  \/ Rest
  \/ \E c \in Clients : CallPlay(c) \/ CallPlayIfIdle(c) \/ CallStop(c)
                        \/ ClientStep(c)

Spec == Init /\ [][Next]_vars

\* The scheduler runs a task that is ready; nobody has to call the service.
Fairness ==
  /\ WF_vars(TaskStep)
  /\ \A c \in Clients : WF_vars(ClientStep(c))

FairSpec == Spec /\ Fairness

(***************************************************************************)
(* Properties.                                                             *)
(***************************************************************************)

QueueType == queue \in Seq(Commands) /\ Len(queue) <= QueueLength

FlagType ==
  stopBit \in BOOLEAN /\ pending \in BOOLEAN /\ active \in BOOLEAN

StatusType ==
  status \in [playback : {"stopped", "buffering", "playing", "error"},
              source : Sources \cup {""},
              loop : BOOLEAN,
              error : {"none", "radio", "failed"}]

OutputType == enabled \in BOOLEAN /\ rate \in Rates

TaskType ==
  /\ apc \in TaskPoints
  /\ cmd \in Commands \cup {NoCommand}
  /\ played \in 0 .. (CounterMod - 1)
  /\ err \in BOOLEAN /\ stopped \in BOOLEAN

StreamType ==
  stream \in [left : 0 .. MaxChunks, rate : Rates, decoded : BOOLEAN]

ClientType ==
  /\ pc \in [Clients -> ClientPoints]
  /\ req \in [Clients -> Commands \cup {NoCommand}]
  /\ calls \in 0 .. MaxCalls
  /\ \A c \in Clients :
       pc[c] \in {"SetStop", "Reset", "Mark", "Send"} => req[c] \in Commands

HistoryType == halted \in BOOLEAN /\ tail \in 0 .. 2

\* Every variable stays in its range: the queue within its slots, the pass
\* counter within its width, both tasks and callers at known control points.
TypeOK == QueueType /\ FlagType /\ StatusType /\ OutputType /\ TaskType
          /\ StreamType /\ ClientType /\ HistoryType

\* A caller of queue_command or audio_service_stop that still has to queue its
\* command or to withdraw s_pending.
WillSettle(c) ==
  pc[c] \in {"Reset", "Mark", "Send", "TimedOut", "StopReset", "StopUnmark"}

\* audio_service_is_active never stays true with nothing to play: s_pending
\* means a queued command, one just received, or a caller about to settle it.
\* Otherwise the sensor trigger and the radio would be locked out for good.
NoPhantomPending ==
  pending => \/ queue # <<>>
             \/ apc = "Received"
             \/ \E c \in Clients : WillSettle(c)

\* s_active is up exactly while audio_task serves a command.
ActiveWhileServing == active <=> apc \in Serving \cup {"ClearStop"}

\* What app_state_get shows fits what audio_task does: "playing" names the
\* source of the served command, playback_loop is up only for a served looping
\* file, and a message is shown exactly in the error state.
StatusMatchesService ==
  /\ status.playback = "playing" => active /\ status.source = cmd.source
  /\ status.playback = "buffering" => active /\ status.source = cmd.source
  /\ status.loop => active /\ Loops(cmd)
  /\ status.playback = "error" <=> status.error # "none"

\* Between two commands the player is off and the status says so, on every
\* path through the decoders, errors included.
QuietWhenIdle ==
  apc \in {"Idle", "Received"} =>
    /\ ~active
    /\ ~enabled
    /\ ~status.loop
    /\ status.playback \in {"stopped", "error"}

\* The stop bit silences a served command after at most one more buffer.
BoundedTail == tail <= 1

\* The first pass of a file is resampled from the file's own rate, whatever
\* rate the command before it had and however that command ended.
FirstPassRate ==
  apc = "Write" /\ ~IsRadio(cmd) /\ cmd.repeat # 0 /\ played = 0 =>
    rate = stream.rate

\* The radio reconnects on every failure: only the stop bit ends it, and its
\* end is never reported as a failure.
RadioEndsByStop ==
  IsRadio(cmd) /\ apc \in {"Silence", "ReadStop", "ClearLoop", "Report"} =>
    stopBit /\ ~err

\* Once audio_task has withdrawn the old stop bit, the next one ends the
\* command, whether it is a loop over one file or a radio that cannot connect.
StopEndsService == (stopBit /\ apc \in Serving) ~> (apc = "Idle")

\* docs/PROTOCOL.md: a looped file plays until audio.stop arrives or another
\* file is played, so a request for silence ends the loop it finds.
StopOrNewFileEndsLoop == (halted /\ Loops(cmd)) ~> ~halted
=============================================================================
