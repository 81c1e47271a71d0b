--------------------------- MODULE LocalPlayback ---------------------------
(***************************************************************************)
(* The passes of audio_task over a file of the music directory: play_wav   *)
(* or mp3_decode_stream gives its frames to the I2S player, which goes on  *)
(* from one pass to the next; silence follows the last one.  This is one   *)
(* task; what happens around it is the module AudioService.                *)
(***************************************************************************)
EXTENDS Resampler, Mp3Decoder, WavDecoder

CONSTANTS
  Mp3Files,      \* letters and the positions of frames, see Mp3Decoder
  WavFiles,      \* chunks and their positions, see WavDecoder
  Mp3Rates,      \* rates a frame of an MP3 file may have
  FrameSamples,  \* output frames of one MP3 frame (1152 in the code)
  MaxPasses      \* repeat_count

Letters == {"F", "E", "h", "x", "m", "l"}
Formats == [tag : Nat, channels : Nat, rate : Nat, bits : Nat]
ChunkSizes == 0 .. SizeLimit - 1
Chunks == [id : STRING \ {"fmt "}, size : ChunkSizes]
          \cup [id : {"fmt "}, size : ChunkSizes, format : Formats, sub : Nat]

ASSUME Mp3Assumption ==
  \A f \in Mp3Files : f.letters \in Seq(Letters) /\ Parsed(f)
ASSUME WavAssumption ==
  \A f \in WavFiles :
    /\ f.chunks \in Seq(Chunks)
    /\ f.at \in [1 .. Len(f.chunks) + 1 -> Nat \cup {Nowhere}]
    /\ f.length \in Nat
    /\ LaidOut(f)
ASSUME MusicAssumption ==
  /\ Mp3Rates \cup PlayedRates \subseteq LowRate .. HighRate
  /\ FrameSamples \in Nat \ {0}
  /\ MaxPasses \in Nat

VARIABLES
  song,    \* the file that is played, again and again
  result,  \* of the pass: "running", "ended", "stopped", "failed"; "none" between
           \* commands
  passes,  \* played
  begun    \* history: inIndex when the pass began

vars == <<player, decoder, reader, song, result, passes, begun>>

Songs == [kind : {"mp3"}, bytes : Mp3Files] \cup [kind : {"wav"}, bytes : WavFiles]

Init ==
  /\ InitPlayer
  /\ InitDecoder
  /\ InitReader
  /\ song \in Songs
  /\ result = "none"
  /\ passes = 0
  /\ begun = 0

\* audio_task takes a command.
Begin ==
  /\ result = "none"
  /\ result' = "ended"
  /\ passes' = 0
  /\ UNCHANGED <<player, decoder, reader, song, begun>>

\* play_local_once opens the file.
Pass ==
  /\ result = "ended" /\ passes < MaxPasses
  /\ \/ song.kind = "mp3" /\ OpenMp3(song.bytes) /\ UNCHANGED reader
     \/ song.kind = "wav" /\ OpenWav(song.bytes) /\ UNCHANGED decoder
  /\ result' = "running"
  /\ begun' = IF enabled THEN inIndex ELSE 0
  /\ UNCHANGED <<player, song, passes>>

\* The file cannot be opened, or there is no memory for it.
PassFails ==
  /\ Faults
  /\ result = "ended" /\ passes < MaxPasses
  /\ result' = "failed"
  /\ UNCHANGED <<player, decoder, reader, song, passes, begun>>

\* mp3_decode_stream and play_wav between two calls of the player.
Decode ==
  /\ phase = "idle"
  /\ \/ DecoderStep /\ UNCHANGED reader
     \/ ReaderStep /\ UNCHANGED decoder
     \/ Faults /\ ReadFails /\ UNCHANGED decoder
  /\ UNCHANGED <<player, song, result, passes, begun>>

\* The rate of a frame, or of the file, is set if the output is off.
SetRate ==
  /\ ~enabled
  /\ \/ step = "write" /\ \E r \in Mp3Rates : Configure(r)
     \/ wav = "open" /\ Configure(format.rate)
  /\ UNCHANGED <<decoder, reader, song, result, passes, begun>>

\* play_wav goes on to its reads.
StartReads ==
  /\ enabled /\ phase = "idle"
  /\ wav = "open"
  /\ wav' = "read"
  /\ UNCHANGED <<player, decoder, file, place, format, found, remaining, locals, missed,
                 song, result, passes, begun>>

GiveMp3 ==
  /\ step = "write"
  /\ Write(FrameSamples)
  /\ step' = "fill"
  /\ UNCHANGED <<input, from, got, offset, ended, frames, reader, song, result, passes,
                 begun>>

GiveWav ==
  /\ wav = "write" /\ converted > 0
  /\ Write(converted \div format.channels)
  /\ wav' = "read"
  /\ UNCHANGED <<decoder, file, place, format, found, remaining, locals, missed, song,
                 result, passes, begun>>

\* i2s_player_write converts.
Convert == PlayerStep /\ UNCHANGED <<decoder, reader, song, result, passes, begun>>

\* The pass is over: the decoder is freed, the file closed.
EndPass(r) ==
  /\ result = "running"
  /\ result' = r
  /\ IF song.kind = "mp3" THEN CloseMp3 /\ UNCHANGED reader
                          ELSE CloseWav /\ UNCHANGED decoder
  /\ passes' = IF r = "ended" THEN passes + 1 ELSE passes
  /\ UNCHANGED <<player, song, begun>>

\* An MP3 file without a frame is none.
Mp3Ends ==
  /\ step = "done"
  /\ EndPass(IF frames > 0 THEN "ended" ELSE "failed")

WavEnds ==
  \/ wav = "write" /\ converted = 0 /\ EndPass("ended")
  \/ wav = "refused" /\ EndPass("failed")

\* The player or the read of an MP3 file has failed, or the frame is none to play.
Fails ==
  \/ step = "unfit" /\ EndPass("failed")
  \/ phase = "failed" /\ EndPass("failed")
  \/ Faults /\ phase = "idle" /\ ReadError /\ EndPass("failed")

\* Stops are looked for before each round of the loops.
Stopped ==
  /\ phase = "idle"
  /\ step = "fill" \/ wav = "read"
  /\ EndPass("stopped")

\* The last pass is over, a stop is seen before the next, or one has failed.
EndCommand ==
  /\ result \notin {"running", "none"}
  /\ Silence
  /\ result' = "none"
  /\ passes' = 0 /\ begun' = 0
  /\ UNCHANGED <<decoder, reader, song>>

Next ==
  \/ Begin
  \/ Pass
  \/ PassFails
  \/ Decode
  \/ SetRate
  \/ StartReads
  \/ GiveMp3
  \/ GiveWav
  \/ Convert
  \/ Mp3Ends
  \/ WavEnds
  \/ Fails
  \/ Stopped
  \/ EndCommand

Spec == Init /\ [][Next]_vars

\* The task runs whenever it can; commands and stops come or do not.
FairSpec ==
  /\ Spec
  /\ WF_vars(Decode)
  /\ WF_vars(SetRate \/ StartReads \/ GiveMp3 \/ GiveWav)
  /\ WF_vars(Convert)
  /\ WF_vars(Mp3Ends \/ WavEnds \/ Fails)

-----------------------------------------------------------------------------
TypeOK ==
  /\ PlayerType
  /\ DecoderType
  /\ ReaderType
  /\ song \in Songs
  /\ result \in {"none", "running", "ended", "stopped", "failed"}
  /\ passes \in 0 .. MaxPasses
  /\ begun \in Nat

PassDone(kind) == song.kind = kind /\ result = "ended" /\ passes > 0

\* A file is played whole, in each of its passes: every frame that is in it has
\* gone through the player once when the pass ends, however reads, buffers and
\* blocks cut it up, and a WAV file is refused only if there is nothing in it
\* to be played (play_wav, mp3_decode_stream).
\* It is not where a read of a WAV file has failed: wav_decoder_open refuses the
\* file, wav_decoder_read takes it for the end, and the pass is a success.  Nor are
\* all frames of an MP3 file played that has noise longer than the threshold before
\* a frame (not Clean: a frame across the end of the buffer is lost with its header,
\* mp3_decoder.c:74-81), or main data that is missed once the file has ended (not
\* MissesEarly: the loop ends there).
PlayedWhole ==
  /\ wav = "refused" /\ ~missed => ~Playable(file)
  /\ PassDone("wav") /\ ~missed =>
       \E k \in DOMAIN song.bytes.chunks : \E m \in 1 .. k - 1 :
         Offers(song.bytes, k, m) /\ inIndex - begun = Frames(song.bytes, k, m)
  /\ PassDone("mp3") => inIndex - begun = frames * FrameSamples
  /\ PassDone("mp3") /\ Clean(song.bytes) /\ MissesEarly(song.bytes) =>
       frames = Cardinality(Good(song.bytes))

\* The walk over the chunks of the file never ends.
Endless == song.kind = "wav" /\ GoesRound(song.bytes)

\* Every pass comes to an end: no round of a loop leaves everything as it was
\* (mp3_decode_stream, wav_decoder_open, play_wav).  The exception are WAV files with a
\* chunk whose size leads fseek back (wav_decoder.c:65), to a header wav_decoder_open
\* has passed before: it goes round for ever, and as it looks for no stop, nothing but
\* a failing read ends that pass.
PassEnds ==
  /\ result = "running" ~> result # "running" \/ Endless
  /\ [][Endless /\ result = "running" /\ result' # "running" => missed]_vars
=============================================================================
