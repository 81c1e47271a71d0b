----------------------------- MODULE Mp3Decoder -----------------------------
(***************************************************************************)
(* The decode loop of main/audio/mp3_decoder.c on a file: a buffer is      *)
(* filled from the file and frames are taken out of it.  The buffer always *)
(* holds a part of the file without a gap, so it is described by two       *)
(* positions in the file and by the place of the read pointer.             *)
(*                                                                         *)
(* Letters stand for stretches of bytes: "F" and "E" in this order are a   *)
(* sync word, "h" after them the rest of a valid header with its side      *)
(* information; the letter behind is the main data of the frame: good      *)
(* ("x"), good but in need of earlier frames ("m"), decoded without an     *)
(* error though of another layer ("l"), or anything else.  A file comes    *)
(* with the positions of its frames.  Frames of a free bit rate, whose     *)
(* length the decoder guesses, are left out.                               *)
(***************************************************************************)
EXTENDS Integers, Sequences, FiniteSets

CONSTANTS
  Capacity,   \* MP3_INPUT_BUFFER_SIZE (16384 in the code)
  Threshold,  \* MP3_REFILL_THRESHOLD (4096 in the code)
  Keep        \* what is kept when there is no sync word (3 in the code)

SyncBytes == 2
HeadBytes == 3
BeyondBytes == 1  \* of a header behind its sync word
FrameBytes == 4

\* A frame (1441 bytes at most) fits below the threshold, a sync word without
\* its last byte into what is kept.
ASSUME SizeAssumption ==
  /\ {Capacity, Threshold, Keep} \subseteq Nat
  /\ FrameBytes <= Threshold /\ Threshold <= Capacity
  /\ SyncBytes - 1 <= Keep /\ Keep < Threshold

VARIABLES
  input,    \* the file: its letters, and the positions of its frames
  from,     \* bytes of the file before the read pointer
  got,      \* bytes read from the file
  offset,   \* read_pointer - input in the code's names
  ended,    \* end_of_input
  step,     \* "off", "fill", "decode", "write" (to the player), "unfit", "done"
  frames    \* history: frames decoded

decoder == <<input, from, got, offset, ended, step, frames>>

NoInput == [letters |-> <<>>, heads |-> {}]

InitDecoder ==
  /\ input = NoInput
  /\ from = 0 /\ got = 0 /\ offset = 0
  /\ ended = FALSE
  /\ step = "off"
  /\ frames = 0

\* bytes_left; below zero when a header was read beyond what is in the buffer.
Left == got - from

OpenMp3(f) ==
  /\ step = "off"
  /\ input' = f
  /\ from' = 0 /\ got' = 0 /\ offset' = 0
  /\ ended' = FALSE
  /\ frames' = 0
  /\ step' = "fill"

\* What the file still has.
Unread == Len(input.letters) - got

\* fread gives all there is room for, or what the file still has.
Portion == IF Unread < Capacity - Left THEN Unread ELSE Capacity - Left

Refill_KeepsOffset ==
  /\ step = "fill"
  /\ ~ended /\ Left < Threshold
  /\ Portion > 0
  /\ got' = got + Portion
  /\ step' = "decode"
  /\ UNCHANGED <<input, from, offset, ended, frames>>

\* The rest is moved to the beginning of the buffer and more is read.
Refill ==
  /\ step = "fill"
  /\ ~ended /\ Left < Threshold
  /\ Portion > 0
  /\ got' = got + Portion
  /\ offset' = 0
  /\ step' = "decode"
  /\ UNCHANGED <<input, from, ended, frames>>

EndOfInput_NotNoted ==
  /\ step = "fill"
  /\ ~ended /\ Left < Threshold
  /\ Portion = 0
  /\ offset' = 0
  /\ step' = "decode"
  /\ UNCHANGED <<input, from, got, ended, frames>>

\* The file has nothing more.
EndOfInput ==
  /\ step = "fill"
  /\ ~ended /\ Left < Threshold
  /\ Portion = 0
  /\ ended' = TRUE
  /\ offset' = 0
  /\ step' = IF Left = 0 THEN "done" ELSE "decode"
  /\ UNCHANGED <<input, from, got, frames>>

EnoughLeft ==
  /\ step = "fill"
  /\ ended \/ Left >= Threshold
  /\ step' = IF Left = 0 THEN "done" ELSE "decode"
  /\ UNCHANGED <<input, from, got, offset, ended, frames>>

\* A sync word wholly in the buffer, i bytes into the file.
Sync(i) ==
  i + SyncBytes <= got /\ input.letters[i + 1] = "F" /\ input.letters[i + 2] = "E"

\* MP3FindSyncWord: the first one.
SyncAt(i) == Sync(i) /\ \A j \in from .. i - 1 : ~Sync(j)

\* Without a sync word all but the last bytes are dropped.
DropNoise ==
  /\ step = "decode"
  /\ \A i \in from .. got : ~Sync(i)
  /\ IF ended THEN step' = "done" /\ UNCHANGED <<from, offset>>
     ELSE /\ from' = IF Left > Keep THEN got - Keep ELSE from
          /\ offset' = 0
          /\ step' = "fill"
  /\ UNCHANGED <<input, got, ended, frames>>

\* The read pointer goes on to position i.
GoTo(i) == from' = i /\ offset' = offset + i - from

\* A header that is not wholly in the buffer is completed by what lies there
\* from before, so it may be taken for either.
ValidHead(i) == i + HeadBytes <= got => input.letters[i + HeadBytes] = "h"
InvalidHead(i) == i + HeadBytes <= got => input.letters[i + HeadBytes] # "h"

\* ERR_MP3_INVALID_FRAMEHEADER: nothing is consumed, the search goes on one
\* byte later.
SkipByte ==
  /\ step = "decode"
  /\ \E i \in from .. got : SyncAt(i) /\ InvalidHead(i) /\ GoTo(i + 1)
  /\ step' = "fill"
  /\ UNCHANGED <<input, got, ended, frames>>

\* ERR_MP3_INDATA_UNDERFLOW: the frame is cut off behind its header, which is
\* consumed.
Underflow ==
  /\ step = "decode"
  /\ \E i \in from .. got :
       SyncAt(i) /\ ValidHead(i) /\ i + FrameBytes > got /\ GoTo(i + HeadBytes)
  /\ step' = IF ended THEN "done" ELSE "fill"
  /\ UNCHANGED <<input, got, ended, frames>>

\* A whole frame whose main data is one of the letters is consumed.
Consume(letters) ==
  /\ step = "decode"
  /\ \E i \in from .. got :
       /\ SyncAt(i) /\ ValidHead(i)
       /\ i + FrameBytes <= got /\ input.letters[i + FrameBytes] \in letters
       /\ GoTo(i + FrameBytes)
  /\ UNCHANGED <<input, got, ended>>

DecodeFrame ==
  /\ Consume({"x"})
  /\ step' = "write"
  /\ frames' = frames + 1

\* ERR_MP3_MAINDATA_UNDERFLOW: at the end of the input it ends the loop.
MissMainData ==
  /\ Consume({"m"})
  /\ step' = IF ended THEN "done" ELSE "fill"
  /\ UNCHANGED frames

\* Any other error of a frame.
SkipFrame ==
  /\ Consume({"F", "E", "h"})
  /\ step' = "fill"
  /\ UNCHANGED frames

\* MP3GetLastFrameInfo has no channels to tell of: ESP_ERR_NOT_SUPPORTED.
Unfit ==
  /\ Consume({"l"})
  /\ step' = "unfit"
  /\ UNCHANGED frames

\* ferror after an fread that gave nothing.  (One that gave something is left out: the
\* flag stays, so the pass fails all the same, at the end of the file at the latest.)
ReadError == step = "fill" /\ ~ended /\ Left < Threshold

CloseMp3 ==
  /\ input' = NoInput
  /\ from' = 0 /\ got' = 0 /\ offset' = 0
  /\ ended' = FALSE
  /\ step' = "off"
  /\ UNCHANGED frames

DecoderStep ==
  \/ Refill
  \/ EndOfInput
  \/ EnoughLeft
  \/ DropNoise
  \/ SkipByte
  \/ Underflow
  \/ DecodeFrame
  \/ MissMainData
  \/ SkipFrame
  \/ Unfit

-----------------------------------------------------------------------------
DecoderType ==
  /\ got \in 0 .. Len(input.letters)
  /\ from \in 0 .. got + BeyondBytes
  /\ offset \in Nat
  /\ ended \in BOOLEAN
  /\ step \in {"off", "fill", "decode", "write", "unfit", "done"}
  /\ frames \in Nat

\* A frame begins at position i, whole or cut off by the end of the file.
Begins(letters, i) ==
  /\ i + SyncBytes <= Len(letters)
  /\ \A k \in 1 .. HeadBytes :
       i + k <= Len(letters) => letters[i + k] = <<"F", "E", "h">>[k]

\* The positions of the frames of a file: what looks like one within a frame is
\* none.  Every file has exactly one such set.
Parsed(f) ==
  /\ \A p \in f.heads : p \in Nat /\ Begins(f.letters, p)
  /\ \A p, q \in f.heads : p < q => p + FrameBytes <= q
  /\ \A i \in 0 .. Len(f.letters) :
       Begins(f.letters, i) => \E p \in f.heads : p <= i /\ i < p + FrameBytes

\* Where noise may begin: at the beginning of the file and behind each frame.
Edges(f) == {0} \cup {p + FrameBytes : p \in f.heads}

Whole(f, p) == p + FrameBytes <= Len(f.letters)

\* The good frames of a file.
Good(f) == {p \in f.heads : Whole(f, p) /\ f.letters[p + FrameBytes] = "x"}

\* Files with little noise before each of their frames.  Behind more of it a
\* frame may lie across the end of the buffer: MP3Decode has consumed its header
\* before it says so, and the frame is lost.
Clean(f) ==
  \A p \in f.heads : \E q \in Edges(f) : q <= p /\ p + FrameBytes <= q + Threshold

\* There is little noise behind the last of them, too.
CleanEnd(f) == \E q \in Edges(f) : Len(f.letters) <= q + Threshold

\* Main data that is missed while there is more of the file to come.  Once the
\* file is known to have ended, below the threshold, the loop ends there.
MissesEarly(f) ==
  \A i \in 1 .. Len(f.letters) :
    f.letters[i] = "m" => i <= Len(f.letters) - Threshold + FrameBytes

\* What is in the buffer fits into it, wherever the read pointer is, and a header that
\* was read beyond it leaves bytes_left below zero by no more than that header.  In
\* that state more is read only if there is noise longer than the threshold before a
\* frame or behind the last: without it (Clean, CleanEnd) the file has nothing more.
\* With it mp3_decode_stream does read, to input + bytes_left (mp3_decoder.c:50-51),
\* which is before the buffer; that is not excluded here.
BufferFits ==
  /\ offset + Left <= Capacity
  /\ Left >= -BeyondBytes
  /\ step = "fill" /\ Left < 0 /\ Clean(input) /\ CleanEnd(input) => Portion = 0
=============================================================================
