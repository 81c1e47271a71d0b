----------------------------- MODULE Resampler -----------------------------
(***************************************************************************)
(* The output of the player (main/audio/i2s_player.c).  A call of          *)
(* i2s_player_write turns frames at the rate of the source into frames at  *)
(* the rate of the output, by linear interpolation, and hands them over    *)
(* whenever the conversion buffer is full and at the end of the call.  Two *)
(* counters of frames go on from call to call, and from one pass over a    *)
(* file to the next, until the output is silenced.  The samples themselves *)
(* are left out: what matters of them is where an output frame lies        *)
(* between two input frames.                                               *)
(***************************************************************************)
EXTENDS Integers

CONSTANTS
  OutputRate,        \* I2S_OUTPUT_SAMPLE_RATE (48000 in the code)
  LowRate,           \* rates i2s_player_configure accepts (8000 in the code)
  HighRate,          \* (96000 in the code)
  ConversionFrames,  \* frames of the conversion buffer (1024 in the code)
  Faults             \* whether the pipeline may fail to start or to take data

ASSUME RateAssumption ==
  /\ {OutputRate, LowRate, HighRate} \subseteq Nat \ {0}
  /\ LowRate <= HighRate /\ OutputRate \in LowRate .. HighRate
ASSUME BufferAssumption == ConversionFrames \in Nat \ {0}
ASSUME FaultAssumption == Faults \in BOOLEAN

VARIABLES
  enabled,   \* s_enabled
  rate,      \* s_source_sample_rate
  have,      \* s_have_previous_sample
  inIndex,   \* s_input_frame_index
  outIndex,  \* s_output_frame_index
  buffered,  \* output_frames, local of i2s_player_write
  todo,      \* input frames of this call still to convert
  phase,     \* i2s_player_write: "idle" (no call), "next" input frame,
             \* "interval" between two of them, "failed"
  heard      \* history: frames handed over since the output was enabled

player == <<enabled, rate, have, inIndex, outIndex, buffered, todo, phase, heard>>
counters == <<have, inIndex, outIndex>>

InitPlayer ==
  /\ enabled = FALSE
  /\ rate = OutputRate
  /\ have = FALSE
  /\ inIndex = 0 /\ outIndex = 0
  /\ buffered = 0
  /\ todo = 0
  /\ phase = "idle"
  /\ heard = 0

\* i2s_player_configure, which changes nothing while the output runs.  Both of
\* its callers have made sure that it takes the rate.  The pipeline may not run.
Configure(r) ==
  /\ phase = "idle" /\ ~enabled
  /\ rate' = r
  /\ have' = FALSE
  /\ inIndex' = 0 /\ outIndex' = 0
  /\ heard' = 0
  /\ \/ enabled' = TRUE /\ UNCHANGED phase
     \/ Faults /\ phase' = "failed" /\ UNCHANGED enabled
  /\ UNCHANGED <<buffered, todo>>

\* i2s_player_write is called with n frames.
Write(n) ==
  /\ phase = "idle"
  /\ enabled
  /\ todo' = n
  /\ buffered' = 0
  /\ phase' = "next"
  /\ UNCHANGED <<enabled, rate, counters, heard>>

Full == buffered + 1 = ConversionFrames

\* append_output_sample, with what write_converted_frames takes from it.
AppendOutput ==
  /\ buffered' = IF Full THEN 0 ELSE buffered + 1
  /\ heard' = IF Full THEN heard + ConversionFrames ELSE heard

\* The first frame since the output was enabled is put out as it is.
FirstFrame ==
  /\ phase = "next" /\ todo > 0
  /\ ~have
  /\ AppendOutput
  /\ have' = TRUE
  /\ inIndex' = 1 /\ outIndex' = 1
  /\ todo' = todo - 1
  /\ UNCHANGED <<enabled, rate, phase>>

NextFrame ==
  /\ phase = "next" /\ todo > 0
  /\ have
  /\ phase' = "interval"
  /\ UNCHANGED <<enabled, rate, counters, buffered, todo, heard>>

\* Where the output frame lies between the previous input frame and this one.
Position == outIndex * rate - (inIndex - 1) * OutputRate

InInterval_Open == outIndex * rate < inIndex * OutputRate

InInterval == outIndex * rate <= inIndex * OutputRate

Interpolate ==
  /\ phase = "interval"
  /\ InInterval
  /\ AppendOutput
  /\ outIndex' = outIndex + 1
  /\ UNCHANGED <<enabled, rate, have, inIndex, todo, phase>>

LeaveInterval ==
  /\ phase = "interval"
  /\ ~InInterval
  /\ inIndex' = inIndex + 1
  /\ todo' = todo - 1
  /\ phase' = "next"
  /\ UNCHANGED <<enabled, rate, have, outIndex, buffered, heard>>

\* The last, incomplete buffer is handed over and the call returns.
Return ==
  /\ phase = "next" /\ todo = 0
  /\ heard' = heard + buffered
  /\ buffered' = 0
  /\ phase' = "idle"
  /\ UNCHANGED <<enabled, rate, counters, todo>>

\* raw_stream_write refuses: the call returns in the middle.
WriteFails ==
  /\ Faults
  /\ \/ phase = "next" /\ todo = 0 /\ buffered > 0
     \/ phase = "next" /\ todo > 0 /\ ~have /\ Full
     \/ phase = "interval" /\ InInterval /\ Full
  /\ phase' = "failed"
  /\ UNCHANGED <<enabled, rate, counters, buffered, todo, heard>>

\* i2s_player_silence: the output is off, the next configuration starts anew.
Silence ==
  /\ phase \in {"idle", "failed"}
  /\ enabled' = FALSE
  /\ have' = FALSE
  /\ phase' = "idle"
  /\ buffered' = 0 /\ todo' = 0
  /\ UNCHANGED <<rate, inIndex, outIndex, heard>>

PlayerStep ==
  \/ FirstFrame
  \/ NextFrame
  \/ Interpolate
  \/ LeaveInterval
  \/ Return
  \/ WriteFails

-----------------------------------------------------------------------------
PlayerType ==
  /\ enabled \in BOOLEAN
  /\ have \in BOOLEAN /\ (have => enabled)
  /\ rate \in LowRate .. HighRate
  /\ {inIndex, outIndex, todo, heard} \subseteq Nat
  /\ buffered \in 0 .. ConversionFrames - 1
  /\ phase \in {"idle", "next", "interval", "failed"}

\* Between calls the next output frame is the first one beyond the last input
\* frame.  An output frame lies behind the first and not behind the second of
\* the input frames it is made of, so interpolation stays between their values.
InTime ==
  /\ have /\ phase = "idle" =>
       /\ (outIndex - 1) * rate <= (inIndex - 1) * OutputRate
       /\ (inIndex - 1) * OutputRate < outIndex * rate
  /\ phase = "interval" /\ InInterval => Position \in 1 .. OutputRate

\* What was handed over and what is in the conversion buffer is what was
\* counted, also where buffers and calls meet.
AllHeard == have /\ phase # "failed" => heard + buffered = outIndex

\* Source and output keep time, from the first frame to the silence and across
\* calls and passes, for every ratio of the rates: no output frame is lost,
\* given twice or made of the wrong input frames (the loop of i2s_player_write,
\* append_output_sample).
KeepsTime == InTime /\ AllHeard
=============================================================================
