----------------------------- MODULE WavDecoder -----------------------------
(***************************************************************************)
(* The reader of WAV files (main/audio/wav_decoder.c): the walk over the   *)
(* chunks up to the samples, and reads of the samples, block by block.     *)
(*                                                                         *)
(* A file is a list of chunks in the order in which the walk comes to      *)
(* them, at positions it comes with, and it has "length" bytes.  Chunks    *)
(* lie one behind the other as long as fseek takes their sizes for what    *)
(* they are; it takes a size of 2^31 and more for a way back.              *)
(***************************************************************************)
EXTENDS Integers, Sequences

CONSTANTS
  BufferSamples,  \* WAV_BUFFER_SAMPLES of audio_service.c (4096 in the code)
  BlockBytes,     \* sizeof(temporary) (384 in the code)
  PlayedRates,    \* rates it takes (8000 .. 96000 in the code)
  SizeLimit       \* sizes of chunks are below it (2^32 in the code)

RiffBytes == 12
HeaderBytes == 8
FormatBytes == 40
MinFormatBytes == 16
Pcm == 1
Float == 3
Extensible == 65534

\* Blocks hold whole samples of every width, the buffer holds whole frames.
ASSUME BlockAssumption ==
  /\ BufferSamples \in Nat \ {0} /\ BufferSamples % 2 = 0
  /\ BlockBytes \in Nat \ {0}
  /\ \A bytes \in {1, 3, 4} : BlockBytes % bytes = 0
  /\ SizeLimit \in Nat

NoFormat == [tag |-> 0, channels |-> 0, rate |-> 0, bits |-> 0]

VARIABLES
  file,       \* [chunks, at, length]: its chunks, where each of them is and where the
              \* walk goes from the last one, and its length; a chunk has id and
              \* size, and a "fmt " chunk format and sub
  place,      \* position in the file
  format,     \* the fields of wav_decoder_t a "fmt " chunk sets
  found,      \* format_found
  remaining,  \* data_remaining
  wanted,     \* locals of wav_decoder_read
  converted,
  wav,        \* "closed", "walk", "refused", "open", "read", "block", "write"
  missed      \* history: fread has given less than the file holds, since it was opened

reader == <<file, place, format, found, remaining, wanted, converted, wav, missed>>
locals == <<wanted, converted>>

NoFile == [chunks |-> <<>>, at |-> <<RiffBytes>>, length |-> 0]

InitReader ==
  /\ file = NoFile
  /\ place = 0
  /\ format = NoFormat
  /\ found = FALSE
  /\ remaining = 0
  /\ wanted = 0 /\ converted = 0
  /\ wav = "closed"
  /\ missed = FALSE

Least(a, b) == IF a < b THEN a ELSE b

\* What fread gives of n bytes.
Present(n) == IF place >= file.length THEN 0 ELSE Least(n, file.length - place)

\* A chunk is followed by a byte of padding if its size is odd.
Padded(n) == n + (n % 2)

OpenWav(f) ==
  /\ wav = "closed"
  /\ file' = f
  /\ place' = RiffBytes
  /\ wav' = IF f.length < RiffBytes THEN "refused" ELSE "walk"
  /\ format' = NoFormat
  /\ found' = FALSE
  /\ remaining' = 0
  /\ missed' = FALSE
  /\ UNCHANGED locals

\* The chunk whose header the walk reads, if there is one.
Chunk ==
  {file.chunks[k] : k \in {k \in 1 .. Len(file.chunks) :
                            wav = "walk" /\ file.at[k] = place
                            /\ Present(HeaderBytes) = HeaderBytes}}

Nowhere == -1

\* A size as the long that fseek takes.
AsOffset(n) == IF 2 * n < SizeLimit THEN n ELSE n - SizeLimit

\* Where the walk goes from chunk c at position p: over what is unread of it and over
\* the padding; nowhere if that is before the beginning of the file.
After(p, c) ==
  LET read == IF c.id = "fmt " THEN Least(c.size, FormatBytes) ELSE 0
      target == p + HeaderBytes + read + AsOffset(c.size - read)
  IN  IF target < 0 THEN Nowhere ELSE target + (c.size % 2)

NextPlace_NoPadding(c) ==
  IF After(place, c) = Nowhere THEN Nowhere ELSE After(place, c) - (c.size % 2)

NextPlace(c) == After(place, c)

\* The code of an extensible format is found further down in a long chunk.
TagOf(c) ==
  IF c.format.tag = Extensible /\ c.size >= FormatBytes THEN c.sub ELSE c.format.tag

\* A "fmt " chunk of which enough is there.
GoodFormat(c) ==
  /\ c.size >= MinFormatBytes
  /\ place + HeaderBytes + Least(c.size, FormatBytes) <= file.length

ReadFormat ==
  /\ \E c \in Chunk :
       /\ c.id = "fmt "
       /\ GoodFormat(c)
       /\ NextPlace(c) # Nowhere
       /\ format' = [c.format EXCEPT !.tag = TagOf(c)]
       /\ place' = NextPlace(c)
  /\ found' = TRUE
  /\ UNCHANGED <<file, remaining, locals, wav, missed>>

SkipChunk ==
  /\ \E c \in Chunk :
       /\ c.id \notin {"fmt ", "data"}
       /\ NextPlace(c) # Nowhere
       /\ place' = NextPlace(c)
  /\ UNCHANGED <<file, format, found, remaining, locals, wav, missed>>

Supported(f) ==
  /\ \/ f.tag = Pcm /\ f.bits \in {8, 16, 24, 32}
     \/ f.tag = Float /\ f.bits = 32
  /\ f.channels \in {1, 2}
  /\ f.rate \in PlayedRates

EnterData ==
  /\ \E c \in Chunk :
       /\ c.id = "data"
       /\ found /\ Supported(format)
       /\ remaining' = c.size
  /\ place' = place + HeaderBytes
  /\ wav' = "open"
  /\ UNCHANGED <<file, format, found, locals, missed>>

\* The walk ends without samples: where no further chunk begins, at a bad "fmt ", where
\* it cannot go on, or at samples in a format that is missing or not supported.
Refuse ==
  /\ wav = "walk"
  /\ \/ Chunk = {}
     \/ \E c \in Chunk :
          \/ c.id = "fmt " /\ ~GoodFormat(c)
          \/ c.id # "data" /\ NextPlace(c) = Nowhere
          \/ c.id = "data" /\ ~(found /\ Supported(format))
  /\ format' = NoFormat
  /\ wav' = "refused"
  /\ UNCHANGED <<file, place, found, remaining, locals, missed>>

\* A failing read of a header or a format ends it, too.
WalkFails ==
  /\ wav = "walk"
  /\ format' = NoFormat
  /\ wav' = "refused"
  /\ missed' = TRUE
  /\ UNCHANGED <<file, place, found, remaining, locals>>

SampleBytes == format.bits \div 8

\* wav_decoder_read, 16 bits: all in one read, an even number of bytes.
Wanted16 == LET most == Least(2 * BufferSamples, remaining) IN most - (most % 2)

Receive16(bytes) ==
  /\ wav = "read"
  /\ format.bits = 16
  /\ place' = place + bytes
  /\ remaining' = remaining - bytes
  /\ converted' = bytes \div 2
  /\ wav' = "write"
  /\ UNCHANGED <<file, format, found, wanted>>

Read16_Unbounded == Receive16(Present(2 * BufferSamples)) /\ UNCHANGED missed

Read16 == Receive16(Present(Wanted16)) /\ UNCHANGED missed

\* A failing read gives some of it and is taken for the end of the file.
ShortRead16 ==
  /\ \E bytes \in 0 .. Present(Wanted16) - 1 : Receive16(bytes)
  /\ missed' = TRUE

\* wav_decoder_read, other widths: block by block.
BeginBlocks ==
  /\ wav = "read"
  /\ format.bits # 16
  /\ wanted' = Least(BufferSamples, remaining \div SampleBytes)
  /\ converted' = 0
  /\ wav' = "block"
  /\ UNCHANGED <<file, place, format, found, remaining, missed>>

WantedBlock == Least(wanted - converted, BlockBytes \div SampleBytes) * SampleBytes

ReceiveBlock(bytes) ==
  /\ wav = "block"
  /\ converted < wanted
  /\ place' = place + bytes
  /\ converted' = converted + bytes \div SampleBytes
  /\ IF bytes < WantedBlock
       THEN /\ wav' = "write"
            /\ remaining' = remaining - converted' * SampleBytes
       ELSE UNCHANGED <<wav, remaining>>
  /\ UNCHANGED <<file, format, found, wanted>>

ReadBlock == ReceiveBlock(Present(WantedBlock)) /\ UNCHANGED missed

ShortBlock ==
  /\ wav = "block"
  /\ \E bytes \in 0 .. Present(WantedBlock) - 1 : ReceiveBlock(bytes)
  /\ missed' = TRUE

EndBlocks ==
  /\ wav = "block"
  /\ converted = wanted
  /\ remaining' = remaining - converted * SampleBytes
  /\ wav' = "write"
  /\ UNCHANGED <<file, place, format, found, locals, missed>>

\* wav_decoder_close
CloseWav ==
  /\ wav' = "closed"
  /\ file' = NoFile
  /\ place' = 0
  /\ format' = NoFormat
  /\ found' = FALSE
  /\ remaining' = 0
  /\ wanted' = 0 /\ converted' = 0
  /\ UNCHANGED missed

ReaderStep ==
  \/ ReadFormat
  \/ SkipChunk
  \/ EnterData
  \/ Refuse
  \/ Read16
  \/ BeginBlocks
  \/ ReadBlock
  \/ EndBlocks

\* What a read that fails does instead.
ReadFails ==
  \/ WalkFails
  \/ ShortRead16
  \/ ShortBlock

-----------------------------------------------------------------------------
ReaderType ==
  /\ place \in Nat
  /\ found \in BOOLEAN
  /\ {remaining, wanted} \subseteq Nat
  /\ converted \in 0 .. BufferSamples
  /\ wav \in {"closed", "walk", "refused", "open", "read", "block", "write"}
  /\ missed \in BOOLEAN

\* The order of the chunks: the next one lies behind each, as RIFF has it, if its size
\* is below 2^31.  Where the last one leads there is no more, or the walk has been there.
LaidOut(f) ==
  LET count == Len(f.chunks)
      places == {f.at[k] : k \in 1 .. count}
  IN  /\ f.at[1] = RiffBytes
      /\ \A k \in 1 .. count :
           f.at[k + 1] = IF 2 * f.chunks[k].size < SizeLimit
                         THEN f.at[k] + HeaderBytes + Padded(f.chunks[k].size)
                         ELSE After(f.at[k], f.chunks[k])
      /\ Nowhere \notin places
      /\ \A j, k \in 1 .. count : f.at[j] = f.at[k] => j = k
      /\ \/ f.at[count + 1] \in places \cup {Nowhere}
         \/ f.length < f.at[count + 1] + HeaderBytes

\* What a file has to offer, read off its layout: the samples are those of the first
\* "data" chunk the walk comes to, in the format of the last "fmt " before it.
Passed(f, k) ==
  /\ f.at[k] + HeaderBytes <= f.length
  /\ f.chunks[k].id # "data"
  /\ f.chunks[k].id = "fmt " =>
       /\ f.chunks[k].size >= MinFormatBytes
       /\ f.at[k] + HeaderBytes + Least(f.chunks[k].size, FormatBytes) <= f.length

LastFormat(f, m, k) ==
  f.chunks[m].id = "fmt " /\ \A j \in m + 1 .. k - 1 : f.chunks[j].id # "fmt "

\* Its samples are those of chunk k, and chunk m says what they are.
Offers(f, k, m) ==
  /\ \A j \in 1 .. k - 1 : Passed(f, j)
  /\ f.chunks[k].id = "data" /\ f.at[k] + HeaderBytes <= f.length
  /\ LastFormat(f, m, k)
  /\ Supported([f.chunks[m].format EXCEPT !.tag = TagOf(f.chunks[m])])

Playable(f) == \E k \in DOMAIN f.chunks : \E m \in 1 .. k - 1 : Offers(f, k, m)

\* The walk passes all the chunks and comes to one of them again.
GoesRound(f) ==
  /\ \E k \in DOMAIN f.chunks : f.at[Len(f.chunks) + 1] = f.at[k]
  /\ \A k \in DOMAIN f.chunks : Passed(f, k)

\* Whole frames of the data chunk that the file holds.
Frames(f, k, m) ==
  LET held == f.length - f.at[k] - HeaderBytes
      c == f.chunks[m].format
  IN  (Least(f.chunks[k].size, held) \div (c.bits \div 8)) \div c.channels
=============================================================================
