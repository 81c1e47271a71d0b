------------------------ MODULE LocalPlaybackProofs ------------------------
(***************************************************************************)
(* Proofs about LocalPlayback: source and output keep time, and every pass *)
(* gives the player each frame of the file once, for every ratio of the    *)
(* rates, every size of the buffers and every file.                        *)
(*                                                                         *)
(* KeepsTime is not inductive.  Within an interval the next output frame   *)
(* lies behind its first input frame, and the one before it not behind its *)
(* second; between the intervals both bounds meet at one input frame.  And *)
(* nothing may have been heard before the first frame.                     *)
(***************************************************************************)
EXTENDS LocalPlayback, FiniteSetTheorems, TLAPS

\* The end of the interval before the next input frame.
Now == (inIndex - 1) * OutputRate

Tight ==
  /\ have /\ phase \in {"idle", "next"} =>
       (outIndex - 1) * rate <= Now /\ Now < outIndex * rate
  /\ phase = "interval" =>
       (outIndex - 1) * rate <= inIndex * OutputRate /\ Now < outIndex * rate

Fresh ==
  /\ ~have /\ enabled /\ phase \in {"idle", "next"} => heard = 0 /\ buffered = 0
  /\ phase \in {"next", "interval"} => enabled
  /\ phase = "interval" => have
  /\ phase = "idle" => buffered = 0

Counters ==
  /\ rate \in Nat \ {0}
  /\ inIndex \in Nat /\ outIndex \in Nat
  /\ heard \in Nat /\ buffered \in Nat

Switches ==
  /\ enabled \in BOOLEAN /\ have \in BOOLEAN
  /\ phase \in {"idle", "next", "interval", "failed"}

\* The samples of an open file have a rate that is played.
OpenRate == wav = "open" => format.rate \in PlayedRates

IInv == Counters /\ Switches /\ Fresh /\ Tight /\ AllHeard /\ OpenRate

\* What a step may do to the player: one of its own operations or nothing.
PlayerAction ==
  \/ \E r \in Mp3Rates \cup PlayedRates : Configure(r)
  \/ \E n : Write(n)
  \/ PlayerStep
  \/ Silence
  \/ UNCHANGED player

\* Rates are positive.
LEMMA RatesPositive == OutputRate \in Nat \ {0} /\ Mp3Rates \cup PlayedRates \subseteq Nat \ {0}
<1>1. LowRate \in Nat \ {0} /\ HighRate \in Nat \ {0} /\ OutputRate \in Nat \ {0}
  BY RateAssumption
<1>2. LowRate .. HighRate \subseteq Nat \ {0}
  BY <1>1
<1>. QED BY <1>1, <1>2, MusicAssumption

\* The rate of a song is set by one of its frames or by its format; everything
\* around the player leaves it alone.
LEMMA PlayerOnly == OpenRate /\ [Next]_vars => PlayerAction
<1> SUFFICES ASSUME OpenRate, [Next]_vars PROVE PlayerAction
  OBVIOUS
<1>1. CASE SetRate
  <2>1. \/ \E r \in Mp3Rates : Configure(r)
        \/ wav = "open" /\ Configure(format.rate)
    BY <1>1, Zenon DEF SetRate
  <2>. QED BY <2>1, Zenon DEF OpenRate, PlayerAction
<1>2. CASE GiveMp3
  BY <1>2, Zenon DEF GiveMp3, PlayerAction
<1>3. CASE GiveWav
  BY <1>3, Zenon DEF GiveWav, PlayerAction
<1>4. CASE Convert
  BY <1>4, Zenon DEF Convert, PlayerAction
<1>5. CASE EndCommand
  BY <1>5, Zenon DEF EndCommand, PlayerAction
<1>6. CASE UNCHANGED player
  BY <1>6, Zenon DEF PlayerAction
<1>. QED
  BY <1>1, <1>2, <1>3, <1>4, <1>5, <1>6, Zenon DEF Next, Begin, Pass, PassFails,
     Decode, StartReads, Mp3Ends, WavEnds, Fails, Stopped, EndPass, vars

\* Only samples in a format that is supported are opened.
LEMMA OpenStep == OpenRate /\ [Next]_vars => OpenRate'
<1> SUFFICES ASSUME OpenRate, [Next]_vars, wav' = "open" PROVE format'.rate \in PlayedRates
  BY DEF OpenRate
<1>1. CASE UNCHANGED reader
  BY <1>1, Zenon DEF OpenRate, reader
<1>2. CASE EnterData
  BY <1>2, Zenon DEF EnterData, Supported
<1>3. CASE ReaderStep
  <2>1. CASE wav = "walk"
    BY <1>2, <1>3, <2>1 DEF ReaderStep, ReadFormat, SkipChunk, Refuse, Read16, Receive16,
       BeginBlocks, ReadBlock, ReceiveBlock, EndBlocks
  <2>2. CASE wav # "walk"
    <3>1. Chunk = {}
      BY <2>2 DEF Chunk
    <3>. QED BY <1>3, <2>2, <3>1 DEF ReaderStep, ReadFormat, SkipChunk, EnterData, Refuse,
            Read16, Receive16, BeginBlocks, ReadBlock, ReceiveBlock, EndBlocks
  <2>. QED BY <2>1, <2>2
<1>4. CASE Pass
  <2>1. \/ wav' \in {"refused", "walk"}
        \/ UNCHANGED reader
    BY <1>4 DEF Pass, OpenWav
  <2>. QED BY <1>1, <2>1
<1>5. ASSUME NEW r, EndPass(r) PROVE FALSE \/ UNCHANGED reader
  BY <1>5 DEF EndPass, CloseWav
<1>6. CASE StartReads \/ GiveWav
  BY <1>6 DEF StartReads, GiveWav
<1>7. CASE ReadFails
  <2>1. ASSUME NEW y, Receive16(y) \/ ReceiveBlock(y) PROVE FALSE
    BY <2>1 DEF Receive16, ReceiveBlock
  <2>2. ~WalkFails
    BY DEF WalkFails
  <2>. QED BY <1>7, <2>1, <2>2, Zenon DEF ReadFails, ShortRead16, ShortBlock
<1>. QED
  BY <1>1, <1>3, <1>4, <1>5, <1>6, <1>7, Zenon DEF Next, Begin, PassFails, Decode, SetRate,
     GiveMp3, Convert, Mp3Ends, WavEnds, Fails, Stopped, EndCommand, vars

\* The arithmetic of one more frame on either side.
LEMMA OneMore ==
  ASSUME NEW n \in Nat, NEW k \in Nat
  PROVE  /\ (n + 1) * k = n * k + k
         /\ ((n + 1) - 1) * k = n * k
         /\ n * k = (n - 1) * k + k
         /\ n * k \in Nat
  OBVIOUS

\* The counters stay natural numbers.
LEMMA CountersStep == Counters /\ PlayerAction => Counters'
<1> SUFFICES ASSUME Counters, PlayerAction PROVE Counters'
  OBVIOUS
<1> USE DEF Counters
<1>1. ASSUME NEW r \in Mp3Rates \cup PlayedRates, Configure(r) PROVE Counters'
  BY <1>1, RatesPositive DEF Configure
<1>2. ASSUME NEW n, Write(n) PROVE Counters'
  BY <1>2 DEF Write, counters
<1>3. AppendOutput => heard' \in Nat /\ buffered' \in Nat
  BY BufferAssumption DEF AppendOutput
<1>4. CASE FirstFrame
  BY <1>3, <1>4 DEF FirstFrame
<1>5. CASE Interpolate
  BY <1>3, <1>5 DEF Interpolate
<1>6. CASE LeaveInterval
  BY <1>6 DEF LeaveInterval
<1>7. CASE Return
  BY <1>7 DEF Return, counters
<1>8. CASE Silence
  BY <1>8 DEF Silence
<1>9. CASE UNCHANGED <<rate, counters, heard, buffered>>
  BY <1>9 DEF counters
<1>. QED
  BY <1>1, <1>2, <1>4, <1>5, <1>6, <1>7, <1>8, <1>9 DEF PlayerAction, PlayerStep,
     NextFrame, WriteFails, player

\* Output, first frame and place in the call.
LEMMA SwitchesStep == Switches /\ PlayerAction => Switches'
<1> SUFFICES ASSUME Switches, PlayerAction PROVE Switches'
  OBVIOUS
<1> USE DEF Switches
<1>1. ASSUME NEW r, Configure(r) PROVE Switches'
  BY <1>1, Zenon DEF Configure
<1>2. ASSUME NEW n, Write(n) PROVE Switches'
  BY <1>2, Zenon DEF Write, counters
<1>3. CASE PlayerStep
  BY <1>3, Zenon DEF PlayerStep, FirstFrame, NextFrame, Interpolate, LeaveInterval, Return,
     WriteFails, counters
<1>4. CASE Silence
  BY <1>4, Zenon DEF Silence
<1>5. CASE UNCHANGED player
  BY <1>5, Zenon DEF player, counters
<1>. QED BY <1>1, <1>2, <1>3, <1>4, <1>5, Zenon DEF PlayerAction

\* Nothing is heard before the first frame, and no call of the player begins
\* with something in the buffer.
LEMMA FreshStep == Counters /\ Switches /\ Fresh /\ PlayerAction => Fresh'
<1> SUFFICES ASSUME Counters, Switches, Fresh, PlayerAction PROVE Fresh'
  OBVIOUS
<1> USE DEF Fresh, Counters, Switches
<1>1. ASSUME NEW r, Configure(r) PROVE Fresh'
  BY <1>1 DEF Configure
<1>2. ASSUME NEW n, Write(n) PROVE Fresh'
  BY <1>2 DEF Write, counters
<1>3. CASE PlayerStep
  <2>1. CASE FirstFrame
    BY <2>1 DEF FirstFrame
  <2>2. CASE NextFrame
    BY <2>2 DEF NextFrame, counters
  <2>3. CASE Interpolate
    BY <2>3 DEF Interpolate
  <2>4. CASE LeaveInterval
    BY <2>4 DEF LeaveInterval
  <2>5. CASE Return
    BY <2>5 DEF Return, counters
  <2>6. CASE WriteFails
    BY <2>6 DEF WriteFails
  <2>. QED BY <1>3, <2>1, <2>2, <2>3, <2>4, <2>5, <2>6 DEF PlayerStep
<1>4. CASE Silence
  BY <1>4 DEF Silence
<1>5. CASE UNCHANGED player
  BY <1>5 DEF player, counters
<1>. QED BY <1>1, <1>2, <1>3, <1>4, <1>5 DEF PlayerAction

\* What was handed over and what is buffered is what was counted.
LEMMA HeardStep ==
  Counters /\ Switches /\ Fresh /\ AllHeard /\ PlayerAction => AllHeard'
<1> SUFFICES ASSUME Counters, Switches, Fresh, AllHeard, PlayerAction PROVE AllHeard'
  OBVIOUS
<1> USE DEF AllHeard, Fresh, Counters, Switches
<1>1. ASSUME NEW r, Configure(r) PROVE AllHeard'
  BY <1>1 DEF Configure
<1>2. ASSUME NEW n, Write(n) PROVE AllHeard'
  BY <1>2 DEF Write, counters
<1>3. AppendOutput => heard' + buffered' = heard + buffered + 1
  BY BufferAssumption DEF AppendOutput, Full
<1>4. CASE FirstFrame
  BY <1>3, <1>4 DEF FirstFrame
<1>5. CASE Interpolate
  BY <1>3, <1>5 DEF Interpolate
<1>6. CASE NextFrame \/ LeaveInterval \/ WriteFails
  BY <1>6 DEF NextFrame, LeaveInterval, WriteFails, counters
<1>7. CASE Return
  BY <1>7 DEF Return, counters
<1>8. CASE Silence
  BY <1>8 DEF Silence
<1>9. CASE UNCHANGED player
  BY <1>9 DEF player, counters
<1>. QED
  BY <1>1, <1>2, <1>4, <1>5, <1>6, <1>7, <1>8, <1>9 DEF PlayerAction, PlayerStep

\* The next output frame stays next to the input frame that is to come.
LEMMA TightStep ==
  Counters /\ Switches /\ Fresh /\ Tight /\ PlayerAction => Tight'
<1> SUFFICES ASSUME Counters, Switches, Fresh, Tight, PlayerAction PROVE Tight'
  OBVIOUS
<1>0. rate \in Nat \ {0} /\ OutputRate \in Nat \ {0} /\ inIndex \in Nat /\ outIndex \in Nat
  BY RatesPositive DEF Counters
<1>1. ASSUME NEW r, Configure(r) PROVE Tight'
  BY <1>1 DEF Configure, Tight
<1>2. ASSUME NEW n, Write(n) PROVE Tight'
  BY <1>2 DEF Write, counters, Tight, Now
<1>3. CASE FirstFrame
  <2>1. inIndex' = 1 /\ outIndex' = 1 /\ rate' = rate /\ phase' = "next"
    BY <1>3 DEF FirstFrame
  <2>2. (1 - 1) * rate <= (1 - 1) * OutputRate /\ (1 - 1) * OutputRate < 1 * rate
    BY <1>0
  <2>. QED BY <2>1, <2>2 DEF Tight, Now
<1>4. CASE NextFrame
  <2>1. (outIndex - 1) * rate <= Now /\ Now < outIndex * rate
    BY <1>4 DEF NextFrame, Tight
  <2>2. Now <= inIndex * OutputRate
    <3>1. inIndex * OutputRate = (inIndex - 1) * OutputRate + OutputRate
      BY <1>0, OneMore
    <3>2. (inIndex - 1) * OutputRate \in Int
      BY <1>0
    <3>. QED BY <1>0, <3>1, <3>2 DEF Now
  <2>3. (outIndex - 1) * rate \in Int /\ Now \in Int /\ inIndex * OutputRate \in Int
    BY <1>0 DEF Now
  <2>4. (outIndex - 1) * rate <= inIndex * OutputRate
    BY <2>1, <2>2, <2>3
  <2>5. phase' = "interval" /\ UNCHANGED <<rate, inIndex, outIndex>>
    BY <1>4 DEF NextFrame, counters
  <2>. QED BY <2>1, <2>4, <2>5 DEF Tight, Now
<1>5. CASE Interpolate
  <2>1. outIndex * rate <= inIndex * OutputRate /\ Now < outIndex * rate
    BY <1>5 DEF Interpolate, InInterval, Tight
  <2>2. (outIndex + 1) * rate = outIndex * rate + rate
        /\ ((outIndex + 1) - 1) * rate = outIndex * rate /\ outIndex * rate \in Nat
    BY <1>0, OneMore
  <2>3. Now \in Int
    BY <1>0 DEF Now
  <2>4. Now < (outIndex + 1) * rate
    BY <1>0, <2>1, <2>2, <2>3
  <2>5. /\ phase' = "interval" /\ outIndex' = outIndex + 1
        /\ UNCHANGED <<rate, inIndex>>
    BY <1>5 DEF Interpolate
  <2>. QED BY <2>1, <2>2, <2>4, <2>5 DEF Tight, Now
<1>6. CASE LeaveInterval
  <2>1. (outIndex - 1) * rate <= inIndex * OutputRate /\ ~(outIndex * rate <= inIndex * OutputRate)
    BY <1>6 DEF LeaveInterval, InInterval, Tight
  <2>2. outIndex * rate \in Nat /\ inIndex * OutputRate \in Nat
    BY <1>0, OneMore
  <2>3. ((inIndex + 1) - 1) * OutputRate = inIndex * OutputRate
    BY <1>0, OneMore
  <2>4. /\ phase' = "next" /\ inIndex' = inIndex + 1
        /\ UNCHANGED <<rate, outIndex>>
    BY <1>6 DEF LeaveInterval
  <2>5. inIndex * OutputRate < outIndex * rate
    BY <2>1, <2>2
  <2>. QED BY <2>1, <2>3, <2>4, <2>5 DEF Tight, Now
<1>7. CASE Return
  BY <1>7 DEF Return, counters, Tight, Now
<1>8. CASE WriteFails
  BY <1>8 DEF WriteFails, Tight
<1>9. CASE Silence
  BY <1>9 DEF Silence, Tight
<1>10. CASE UNCHANGED player
  BY <1>10 DEF player, counters, Tight, Now
<1>. QED
  BY <1>1, <1>2, <1>3, <1>4, <1>5, <1>6, <1>7, <1>8, <1>9, <1>10 DEF PlayerAction,
     PlayerStep

\* The output starts off, with both counters at zero.
LEMMA InitInv == Init => IInv
<1> SUFFICES ASSUME Init PROVE IInv
  OBVIOUS
<1>1. Counters /\ Switches /\ Fresh /\ AllHeard /\ Tight
  BY RatesPositive DEF Init, InitPlayer, Counters, Switches, Fresh, AllHeard, Tight
<1>2. OpenRate
  BY DEF Init, InitReader, OpenRate
<1>. QED BY <1>1, <1>2 DEF IInv

\* No step breaks it.
LEMMA InvStep == IInv /\ [Next]_vars => IInv'
BY PlayerOnly, OpenStep, CountersStep, SwitchesStep, FreshStep, HeardStep, TightStep,
   Zenon DEF IInv

\* The inductive invariant holds in every reachable state.
THEOREM Invariance == Spec => []IInv
BY InitInv, InvStep, PTL DEF Spec

\* For all rates, buffers and files: no output frame is lost, given twice or
\* made of the wrong input frames, from the first frame to the silence.
THEOREM InStep == Spec => []KeepsTime
<1>1. IInv => KeepsTime
  <2> SUFFICES ASSUME IInv PROVE InTime /\ AllHeard
    BY DEF KeepsTime
  <2>1. rate \in Nat \ {0} /\ OutputRate \in Nat \ {0} /\ inIndex \in Nat /\ outIndex \in Nat
    BY RatesPositive DEF IInv, Counters
  <2>2. ASSUME have, phase = "idle"
        PROVE  (outIndex - 1) * rate <= Now /\ Now < outIndex * rate
    BY <2>2 DEF IInv, Tight
  <2>3. ASSUME phase = "interval", InInterval PROVE Position \in 1 .. OutputRate
    <3>1. Now < outIndex * rate /\ outIndex * rate <= inIndex * OutputRate
      BY <2>3 DEF IInv, Tight, InInterval
    <3>2. inIndex * OutputRate = Now + OutputRate
      BY <2>1, OneMore DEF Now
    <3>3. outIndex * rate \in Nat /\ Now \in Int
      BY <2>1, OneMore DEF Now
    <3>4. Position = outIndex * rate - Now
      BY DEF Position, Now
    <3>. QED BY <2>1, <3>1, <3>2, <3>3, <3>4
  <2>. QED BY <2>2, <2>3 DEF IInv, InTime, Now
<1>. QED BY Invariance, <1>1, PTL

-----------------------------------------------------------------------------
(***************************************************************************)
(* What the decode loop finds in an MP3 file.                              *)
(*                                                                         *)
(* In a clean file the first frame that is not behind the read pointer is  *)
(* wholly in the buffer whenever the decoder looks for it, unless the file *)
(* ends before: it begins within little noise, and below the threshold the *)
(* buffer was filled.  So no frame is passed without having been decoded,  *)
(* and no header is read beyond the buffer.                                *)
(***************************************************************************)

\* A file of the music directory is open, or none.
Known == IF step = "off" THEN input = NoInput ELSE input \in Mp3Files

\* Below the threshold the buffer holds the rest of a file of n bytes.
Fits(n, g, r, o, e, s) ==
  /\ g \in 0 .. n /\ r \in 0 .. g + 1 /\ o \in Nat
  /\ o + (g - r) <= Capacity
  /\ e => g = n /\ g - r < Threshold
  /\ s = "decode" => g = n \/ g - r >= Threshold
  /\ s = "write" => g - r >= 0

Sizes == DecoderType /\ Fits(Len(input.letters), got, from, offset, ended, step)

\* The read pointer is in no frame, unless the file cuts that frame off.
Aligned ==
  step # "off" /\ Clean(input) =>
    \A p \in input.heads :
      p < from => p + FrameBytes <= from \/ (~Whole(input, p) /\ got = Len(input.letters))

GoodBefore(n) == {p \in Good(input) : p < n}

\* The frames behind the read pointer are decoded.
Counted == step # "off" /\ Clean(input) => frames = Cardinality(GoodBefore(from))

\* In the end all of them are.
AllRead ==
  step = "done" /\ Clean(input) /\ MissesEarly(input) => GoodBefore(from) = Good(input)

\* A header is read beyond the buffer only at the end of the file.
EndKnown ==
  step = "fill" /\ Left < 0 /\ Clean(input) /\ CleanEnd(input) => got = Len(input.letters)

DecoderInv == Known /\ Sizes /\ Aligned /\ Counted /\ AllRead /\ EndKnown

\* What a step may do to the decoder.
DecoderAction ==
  \/ \E f \in Mp3Files : OpenMp3(f)
  \/ DecoderStep
  \/ step = "write" /\ step' = "fill" /\ UNCHANGED <<input, from, got, offset, ended, frames>>
  \/ CloseMp3
  \/ UNCHANGED decoder

\* Every set of natural numbers but the empty one has a least element: of its
\* initial parts, which are finite, one is minimal.
LEMMA LeastOf ==
  ASSUME NEW S \in SUBSET Nat, S # {}
  PROVE  \E x \in S : \A y \in S : x <= y
<1> DEFINE Part(x) == S \cap 0 .. x
           T == {Part(x) : x \in S}
           R == StrictSubsetOrdering(Nat)
<1>1. ASSUME NEW x \in S PROVE Part(x) \in FiniteSubsetsOf(Nat)
  <2>1. IsFiniteSet(0 .. x)
    BY FS_Interval
  <2>2. IsFiniteSet(Part(x))
    BY <2>1, FS_Intersection, Zenon
  <2>3. Part(x) \in SUBSET Nat
    OBVIOUS
  <2>. QED BY <2>2, <2>3, Zenon DEF FiniteSubsetsOf
<1>2. T \subseteq FiniteSubsetsOf(Nat) /\ T # {}
  BY <1>1, Zenon
<1>3. IsWellFoundedOn(R, FiniteSubsetsOf(Nat))
  BY FS_StrictSubsetOrderingWellFounded, Zenon
<1>4. PICK u \in T : \A v \in T : ~ (<<v, u>> \in R)
  <2>. HIDE DEF R, T
  <2>. QED BY <1>2, <1>3, WFMin, Zenon
<1>5. PICK x \in S : u = Part(x)
  BY <1>4, Zenon
<1>6. ASSUME NEW y \in S, y < x PROVE FALSE
  <2>1. Part(y) \subseteq Part(x) /\ Part(y) # Part(x)
    BY <1>6
  <2>2. Part(y) \subseteq Nat /\ Part(x) \subseteq Nat
    OBVIOUS
  <2>3. <<Part(y), Part(x)>> \in R
    BY <2>1, <2>2, Zenon DEF StrictSubsetOrdering
  <2>. QED BY <1>4, <1>5, <2>3, Zenon
<1>. QED BY <1>6

\* What a frame begins with.
LEMMA HeadLetters ==
  ASSUME NEW f \in Mp3Files, NEW p \in f.heads
  PROVE  /\ p \in Nat /\ Len(f.letters) \in Nat
         /\ p + 2 <= Len(f.letters)
         /\ f.letters[p + 1] = "F" /\ f.letters[p + 2] = "E"
         /\ p + 3 <= Len(f.letters) => f.letters[p + 3] = "h"
<1>1. f.letters \in Seq(Letters) /\ Parsed(f)
  BY Mp3Assumption
<1>2. Len(f.letters) \in Nat
  BY <1>1
<1>3. p \in Nat /\ Begins(f.letters, p)
  BY <1>1 DEF Parsed
<1>4. \A k \in 1 .. 3 :
        p + k <= Len(f.letters) => f.letters[p + k] = <<"F", "E", "h">>[k]
  BY <1>3 DEF Begins, HeadBytes
<1>5. p + 2 <= Len(f.letters)
  BY <1>3 DEF Begins, SyncBytes
<1>6. p + 1 <= Len(f.letters)
  BY <1>2, <1>3, <1>5
<1>7. f.letters[p + 1] = "F" /\ f.letters[p + 2] = "E"
      /\ (p + 3 <= Len(f.letters) => f.letters[p + 3] = "h")
  BY <1>4, <1>5, <1>6
<1>. QED BY <1>2, <1>3, <1>5, <1>7

\* The letters the buffer is measured in, as numbers.
LEMMA DecoderNumbers ==
  ASSUME Known, Sizes
  PROVE  /\ Len(input.letters) \in Nat /\ got \in Nat /\ from \in Nat /\ offset \in Nat
         /\ got <= Len(input.letters) /\ from <= got + 1
         /\ Left \in Int /\ Left = got - from
         /\ Unread \in Nat /\ Unread = Len(input.letters) - got
         /\ Capacity \in Nat /\ Threshold \in Nat /\ Keep \in Nat
         /\ 4 <= Threshold /\ Threshold <= Capacity /\ 1 <= Keep /\ Keep < Threshold
<1>1. Len(input.letters) \in Nat
  <2>1. input \in Mp3Files \/ input = NoInput
    BY DEF Known
  <2>2. input.letters \in Seq(Letters) \/ input.letters = <<>>
    BY <2>1, Mp3Assumption DEF NoInput
  <2>. QED BY <2>2
<1>2. got \in 0 .. Len(input.letters) /\ from \in 0 .. got + 1 /\ offset \in Nat
  BY DEF Sizes, DecoderType, BeyondBytes
<1>3. Capacity \in Nat /\ Threshold \in Nat /\ Keep \in Nat
      /\ 4 <= Threshold /\ Threshold <= Capacity /\ 1 <= Keep /\ Keep < Threshold
  BY SizeAssumption DEF FrameBytes, SyncBytes
<1>. DEFINE n == Len(input.letters)
<1>4. n \in Nat /\ got \in 0 .. n
  BY <1>1, <1>2
<1>. HIDE DEF n
<1>5. got \in Nat /\ got <= n /\ from \in Nat /\ from <= got + 1 /\ n - got \in Nat
      /\ got - from \in Int
  BY <1>2, <1>4
<1>. QED BY <1>1, <1>2, <1>3, <1>5 DEF n, Left, Unread

\* The sync word that is found is not behind the first frame that is to come.
LEMMA FirstSync ==
  ASSUME Known, Sizes, step = "decode", NEW i \in from .. got, SyncAt(i),
         NEW p \in input.heads, from <= p
  PROVE  i <= p
<1>1. input \in Mp3Files
  BY DEF Known
<1>2. p \in Nat /\ input.letters[p + 1] = "F" /\ input.letters[p + 2] = "E"
  BY <1>1, HeadLetters
<1>3. from \in Nat /\ got \in Nat /\ i \in Nat
  BY DecoderNumbers
<1>4. ASSUME p < i PROVE FALSE
  <2>1. i + 2 <= got
    BY DEF SyncAt, Sync, SyncBytes
  <2>2. p + 2 <= got /\ p \in from .. i - 1
    BY <1>2, <1>3, <1>4, <2>1
  <2>3. Sync(p)
    BY <1>2, <2>2 DEF Sync, SyncBytes
  <2>. QED BY <2>2, <2>3 DEF SyncAt
<1>. QED BY <1>2, <1>3, <1>4

\* In a clean file the first frame that is to come is wholly in the buffer,
\* while there is more to read.
LEMMA FirstInBuffer ==
  ASSUME Known, Sizes, Aligned, Clean(input), step = "decode",
         got # Len(input.letters),
         NEW p \in input.heads, from <= p, \A q \in input.heads : from <= q => p <= q
  PROVE  p + 4 <= got
<1>1. input \in Mp3Files
  BY DEF Known
<1>2. p \in Nat
  BY <1>1, HeadLetters
<1>3. from \in Nat /\ got \in Nat /\ Threshold \in Nat /\ Left = got - from
  BY DecoderNumbers
<1>4. from + Threshold <= got
  <2>1. Left >= Threshold
    BY DEF Sizes, Fits, Left
  <2>. QED BY <1>3, <2>1
<1>5. PICK q \in Edges(input) : q <= p /\ p + 4 <= q + Threshold
  BY DEF Clean, FrameBytes
<1>6. q \in Nat /\ q <= from
  <2>1. CASE q = 0
    BY <1>3, <2>1
  <2>2. CASE q # 0
    <3>1. PICK r \in input.heads : q = r + 4
      BY <2>2 DEF Edges, FrameBytes
    <3>2. r \in Nat
      BY <1>1, HeadLetters
    <3>3. ~(p <= r)
      BY <1>2, <1>5, <3>1, <3>2
    <3>4. r < from
      BY <1>2, <1>3, <3>2, <3>3
    <3>5. r + 4 <= from
      BY <3>4 DEF Aligned, FrameBytes
    <3>. QED BY <3>1, <3>2, <3>5
  <2>. QED BY <2>1, <2>2
<1>. QED BY <1>2, <1>3, <1>4, <1>5, <1>6

\* So every frame that begins where the sync word is found, or less than a frame
\* behind it, is wholly in the buffer, or the file has ended.
LEMMA NextInBuffer ==
  ASSUME Known, Sizes, Aligned, Clean(input), step = "decode",
         NEW i \in from .. got, SyncAt(i),
         NEW p \in input.heads, from <= p, p < i + 4, got # Len(input.letters)
  PROVE  p + 4 <= got
<1>1. input \in Mp3Files
  BY DEF Known
<1>2. p \in Nat /\ from \in Nat /\ got \in Nat /\ i \in Nat
  <2>1. from \in Nat /\ got \in Nat
    BY DecoderNumbers, Zenon
  <2>2. p \in Nat
    BY <1>1, HeadLetters, Zenon
  <2>3. i \in Nat
    BY <2>1
  <2>. QED BY <2>1, <2>2, <2>3, Zenon
<1>3. ASSUME NEW q \in input.heads, from <= q PROVE p <= q
  <2>1. q \in Nat
    BY <1>1, HeadLetters
  <2>2. i <= q
    BY <1>3, FirstSync
  <2>3. q < p => q + 4 <= p
    BY <1>1, Mp3Assumption DEF Parsed, FrameBytes
  <2>. QED BY <1>2, <2>1, <2>2, <2>3
<1>. QED BY <1>3, FirstInBuffer

\* What is taken for a whole frame is one.
LEMMA FrameFound ==
  ASSUME Known, Sizes, Aligned, Clean(input), step = "decode",
         NEW i \in from .. got, SyncAt(i), ValidHead(i), i + 4 <= got
  PROVE  i \in input.heads
<1>1. input \in Mp3Files
  BY DEF Known
<1>2. /\ from \in Nat /\ got \in Nat /\ i \in Nat /\ from <= i
      /\ Len(input.letters) \in Nat /\ got <= Len(input.letters)
  BY DecoderNumbers
<1>3. input.letters[i + 1] = "F" /\ input.letters[i + 2] = "E" /\ input.letters[i + 3] = "h"
  BY <1>2 DEF SyncAt, Sync, ValidHead, HeadBytes
<1>4. Begins(input.letters, i)
  <2>1. i + 2 <= Len(input.letters)
    BY <1>2
  <2>2. ASSUME NEW k \in 1 .. 3 PROVE input.letters[i + k] = <<"F", "E", "h">>[k]
    <3>1. CASE k = 1
      BY <1>3, <3>1
    <3>2. CASE k = 2
      BY <1>3, <3>2
    <3>3. CASE k = 3
      BY <1>3, <3>3
    <3>. QED BY <3>1, <3>2, <3>3
  <2>. QED BY <2>1, <2>2 DEF Begins, SyncBytes, HeadBytes
<1>5. i \in 0 .. Len(input.letters)
  BY <1>2
<1>6. PICK p \in input.heads : p <= i /\ i < p + 4
  BY <1>1, <1>4, <1>5, Mp3Assumption DEF Parsed, FrameBytes
<1>7. p \in Nat
  BY <1>1, HeadLetters
<1>8. CASE from <= p
  BY <1>2, <1>6, <1>7, <1>8, FirstSync
<1>9. CASE p < from
  <2>1. p + 4 <= from \/ ~(p + 4 <= Len(input.letters))
    BY <1>9 DEF Aligned, FrameBytes, Whole
  <2>. QED BY <1>2, <1>6, <1>7, <2>1
<1>. QED BY <1>2, <1>7, <1>8, <1>9

\* No frame begins in the noise that is dropped.
LEMMA DropsNoHead ==
  ASSUME Known, Sizes, DropNoise, NEW p \in input.heads, from <= p
  PROVE  from' <= p /\ (ended => got < p + 2)
<1>1. input \in Mp3Files
  BY DEF Known, DropNoise
<1>2. p \in Nat /\ input.letters[p + 1] = "F" /\ input.letters[p + 2] = "E"
  BY <1>1, HeadLetters
<1>3. from \in Nat /\ got \in Nat /\ Keep \in Nat /\ 1 <= Keep
  BY DecoderNumbers
<1>4. ASSUME p + 2 <= got PROVE FALSE
  <2>1. p \in from .. got
    BY <1>2, <1>3, <1>4
  <2>2. Sync(p)
    BY <1>2, <1>4 DEF Sync, SyncBytes
  <2>. QED BY <2>1, <2>2 DEF DropNoise
<1>5. got < p + 2
  BY <1>2, <1>3, <1>4
<1>6. from' = from \/ from' = got - Keep
  BY DEF DropNoise
<1>. QED BY <1>2, <1>3, <1>5, <1>6

\* A frame whose first byte is skipped is cut off by the end of the file.
LEMMA SkipsNoFrame ==
  ASSUME Known, Sizes, Aligned, Clean(input), SkipByte,
         NEW p \in input.heads, from <= p, p < from'
  PROVE  ~Whole(input, p) /\ got = Len(input.letters)
<1>1. PICK i \in from .. got : SyncAt(i) /\ InvalidHead(i) /\ from' = i + 1
  BY DEF SkipByte, GoTo
<1>2. input \in Mp3Files /\ step = "decode"
  BY DEF Known, SkipByte
<1>3. from \in Nat /\ got \in Nat /\ i \in Nat /\ p \in Nat /\ Len(input.letters) \in Nat
      /\ got <= Len(input.letters)
  <2>1. from \in Nat /\ got \in Nat /\ Len(input.letters) \in Nat /\ got <= Len(input.letters)
    BY DecoderNumbers, Zenon
  <2>2. p \in Nat
    BY <1>2, HeadLetters, Zenon
  <2>3. i \in Nat
    BY <2>1
  <2>. QED BY <2>1, <2>2, <2>3, Zenon
<1>4. p = i
  <2>1. i <= p
    BY <1>1, <1>2, FirstSync
  <2>. QED BY <1>1, <1>3, <2>1
<1>5. ASSUME p + 4 <= got PROVE FALSE
  <2>1. p + 3 <= Len(input.letters) /\ i + 3 <= got
    BY <1>3, <1>4, <1>5
  <2>2. input.letters[p + 3] = "h"
    BY <1>2, <2>1, HeadLetters
  <2>. QED BY <1>1, <1>4, <2>1, <2>2 DEF InvalidHead, HeadBytes
<1>6. got = Len(input.letters)
  <2>1. p < i + 4
    BY <1>3, <1>4
  <2>. QED BY <1>1, <1>2, <1>5, <2>1, NextInBuffer
<1>. QED BY <1>5, <1>6 DEF Whole, FrameBytes

\* And so is one whose header is read beyond the buffer.
LEMMA UnderflowsNoFrame ==
  ASSUME Known, Sizes, Aligned, Clean(input), Underflow,
         NEW p \in input.heads, from <= p, p < from'
  PROVE  ~Whole(input, p) /\ got = Len(input.letters)
<1>1. PICK i \in from .. got : SyncAt(i) /\ i + 4 > got /\ from' = i + 3
  BY DEF Underflow, GoTo, HeadBytes, FrameBytes
<1>2. input \in Mp3Files /\ step = "decode"
  BY DEF Known, Underflow
<1>3. from \in Nat /\ got \in Nat /\ i \in Nat /\ p \in Nat
  <2>1. from \in Nat /\ got \in Nat
    BY <1>2, DecoderNumbers, Zenon
  <2>2. p \in Nat
    BY <1>2, HeadLetters, Zenon
  <2>3. i \in Nat
    BY <2>1
  <2>. QED BY <2>1, <2>2, <2>3
<1>4. i <= p
  BY <1>1, <1>2, FirstSync
<1>5. p + 4 > got /\ p < i + 4
  BY <1>1, <1>3, <1>4
<1>6. got = Len(input.letters)
  <2>1. ~(p + 4 <= got)
    BY <1>3, <1>5
  <2>. QED BY <1>1, <1>2, <1>5, <2>1, NextInBuffer
<1>7. ~(p + 4 <= got)
  BY <1>3, <1>5
<1>. QED BY <1>6, <1>7 DEF Whole, FrameBytes

\* What is consumed is the first frame that is to come.
LEMMA ConsumesFrame ==
  ASSUME Known, Sizes, Aligned, Clean(input), NEW L, Consume(L)
  PROVE  \E i \in input.heads :
           /\ from <= i /\ i + 4 <= got /\ from' = i + 4
           /\ input.letters[i + 4] \in L
           /\ \A p \in input.heads : from <= p /\ p < from' => p = i
<1>1. PICK i \in from .. got :
        /\ SyncAt(i) /\ ValidHead(i) /\ i + 4 <= got /\ input.letters[i + 4] \in L
        /\ from' = i + 4
  BY DEF Consume, GoTo, FrameBytes
<1>2. input \in Mp3Files /\ step = "decode"
  BY DEF Known, Consume
<1>3. i \in input.heads
  BY <1>1, <1>2, FrameFound
<1>4. from \in Nat /\ got \in Nat /\ i \in Nat /\ from <= i
  BY DecoderNumbers
<1>5. ASSUME NEW p \in input.heads, from <= p, p < from' PROVE p = i
  <2>1. p \in Nat /\ i <= p
    BY <1>1, <1>2, <1>5, FirstSync, HeadLetters
  <2>2. i < p => i + 4 <= p
    BY <1>2, <1>3, Mp3Assumption DEF Parsed, FrameBytes
  <2>. QED BY <1>1, <1>4, <1>5, <2>1, <2>2
<1>. QED BY <1>1, <1>3, <1>4, <1>5

\* The file stays the same from one open to the close.
LEMMA KnownStep == Known /\ DecoderAction => Known'
<1> SUFFICES ASSUME Known, DecoderAction PROVE Known'
  OBVIOUS
<1>1. ASSUME NEW f \in Mp3Files, OpenMp3(f) PROVE Known'
  BY <1>1 DEF OpenMp3, Known
<1>2. CASE DecoderStep
  <2>1. input' = input /\ step # "off" /\ step' # "off"
    BY <1>2, Zenon DEF DecoderStep, Refill, EndOfInput, EnoughLeft, DropNoise, SkipByte,
       Underflow, DecodeFrame, MissMainData, SkipFrame, Unfit, Consume
  <2>. QED BY <2>1 DEF Known
<1>3. CASE step = "write" /\ step' = "fill" /\ UNCHANGED <<input, from, got, offset, ended, frames>>
  BY <1>3 DEF Known
<1>4. CASE CloseMp3
  BY <1>4 DEF CloseMp3, Known
<1>5. CASE UNCHANGED decoder
  BY <1>5 DEF decoder, Known
<1>. QED BY <1>1, <1>2, <1>3, <1>4, <1>5 DEF DecoderAction

\* Reading fills the buffer, or takes the rest of the file; nothing comes only
\* if there is nothing more.
LEMMA PortionRead ==
  ASSUME Known, Sizes, Left < Threshold
  PROVE  /\ Portion \in Nat
         /\ got + Portion <= Len(input.letters) /\ got + Portion - from <= Capacity
         /\ got + Portion = Len(input.letters) \/ got + Portion - from >= Threshold
         /\ Portion = 0 <=> got = Len(input.letters)
<1>1. PICK n \in Nat : n = Len(input.letters)
  BY DecoderNumbers
<1>2. /\ got \in Nat /\ from \in Nat /\ got <= n /\ from <= got + 1
      /\ Unread = n - got /\ Left = got - from
      /\ Capacity \in Nat /\ Threshold \in Nat /\ Threshold <= Capacity
  BY <1>1, DecoderNumbers
<1>3. Portion = IF n - got < Capacity - (got - from) THEN n - got ELSE Capacity - (got - from)
  BY <1>2 DEF Portion
<1>. QED BY <1>1, <1>2, <1>3

\* The sizes of an open file, as they are and as they may be next.
LEMMA SizesFit ==
  ASSUME Known, Sizes
  PROVE  \E n \in Nat :
           /\ n = Len(input.letters)
           /\ Fits(n, got, from, offset, ended, step)
           /\ UNCHANGED input /\ Fits(n, got', from', offset', ended', step')
              /\ ended' \in BOOLEAN /\ frames' \in Nat
              /\ step' \in {"fill", "decode", "write", "unfit", "done"}
                => Sizes'
<1>1. PICK n \in Nat : n = Len(input.letters)
  BY DecoderNumbers
<1>2. Fits(n, got, from, offset, ended, step)
  BY <1>1, Zenon DEF Sizes
<1>3. ASSUME UNCHANGED input, Fits(n, got', from', offset', ended', step'),
             ended' \in BOOLEAN, frames' \in Nat,
             step' \in {"fill", "decode", "write", "unfit", "done"}
      PROVE  Sizes'
  <2>1. n = Len(input'.letters)
    BY <1>1, <1>3
  <2>2. got' \in 0 .. n /\ from' \in 0 .. got' + 1 /\ offset' \in Nat
    BY <1>3, Zenon DEF Fits
  <2>3. step' \in {"off", "fill", "decode", "write", "unfit", "done"}
    BY <1>3
  <2>4. DecoderType'
    BY <1>3, <2>1, <2>2, <2>3, Zenon DEF DecoderType, BeyondBytes
  <2>. QED BY <1>3, <2>1, <2>4, Zenon DEF Sizes
<1>. QED BY <1>1, <1>2, <1>3, Zenon

\* Positions and sizes stay what they are.
LEMMA SizesStep == Known /\ Sizes /\ DecoderAction => Sizes'
<1> SUFFICES ASSUME Known, Sizes, DecoderAction PROVE Sizes'
  OBVIOUS
<1>1. PICK n \in Nat :
        /\ n = Len(input.letters)
        /\ Fits(n, got, from, offset, ended, step)
        /\ UNCHANGED input /\ Fits(n, got', from', offset', ended', step')
           /\ ended' \in BOOLEAN /\ frames' \in Nat
           /\ step' \in {"fill", "decode", "write", "unfit", "done"}
             => Sizes'
  BY SizesFit, Zenon
<1>2. /\ Capacity \in Nat /\ Threshold \in Nat /\ 4 <= Threshold /\ Threshold <= Capacity
      /\ Keep \in Nat /\ Keep < Threshold
  BY DecoderNumbers
<1>3. ended \in BOOLEAN /\ frames \in Nat
  BY Zenon DEF Sizes, DecoderType
<1>4. ASSUME NEW f \in Mp3Files, OpenMp3(f) PROVE Sizes'
  <2>1. f.letters \in Seq(Letters) /\ input' = f /\ from' = 0 /\ got' = 0 /\ offset' = 0
        /\ ended' = FALSE /\ frames' = 0 /\ step' = "fill"
    BY <1>4, Mp3Assumption DEF OpenMp3
  <2>2. Len(f.letters) \in Nat
    BY <2>1
  <2>3. Fits(Len(f.letters), 0, 0, 0, FALSE, "fill")
    BY <1>2, <2>2 DEF Fits
  <2>4. /\ 0 \in 0 .. Len(f.letters) /\ 0 \in 0 .. 0 + 1 /\ 0 \in Nat /\ FALSE \in BOOLEAN
        /\ "fill" \in {"off", "fill", "decode", "write", "unfit", "done"}
    BY <2>2
  <2>5. DecoderType'
    BY <2>1, <2>4, Zenon DEF DecoderType, BeyondBytes
  <2>. QED BY <2>1, <2>3, <2>5, Zenon DEF Sizes
<1>5. CASE Refill
  <2>1. Fits(n, got + Portion, from, 0, FALSE, "decode")
    <3>1. /\ Portion \in Nat
          /\ got + Portion <= n /\ got + Portion - from <= Capacity
          /\ got + Portion = n \/ got + Portion - from >= Threshold
      BY <1>1, <1>5, PortionRead DEF Refill
    <3>2. got \in 0 .. n /\ from \in 0 .. got + 1
      BY <1>1, Zenon DEF Fits
    <3>. QED BY <1>2, <3>1, <3>2 DEF Fits
  <2>. QED BY <1>1, <1>3, <1>5, <2>1 DEF Refill
<1>6. CASE EndOfInput
  <2>1. ASSUME NEW s \in {"done", "decode"} PROVE Fits(n, got, from, 0, TRUE, s)
    <3>1. got = n /\ got - from < Threshold
      BY <1>1, <1>6, PortionRead DEF EndOfInput, Left
    <3>. QED BY <1>1, <1>2, <3>1 DEF Fits
  <2>. QED BY <1>1, <1>3, <1>6, <2>1 DEF EndOfInput
<1>7. CASE EnoughLeft
  <2>1. ASSUME NEW s \in {"done", "decode"} PROVE Fits(n, got, from, offset, ended, s)
    <3>1. ended \/ got - from >= Threshold
      BY <1>7 DEF EnoughLeft, Left
    <3>2. ended => got = n
      BY <1>1 DEF Fits
    <3>. QED BY <1>1, <3>1, <3>2, Zenon DEF Fits
  <2>. QED BY <1>1, <1>3, <1>7, <2>1 DEF EnoughLeft
<1>8. CASE DropNoise
  <2>1. ASSUME NEW s \in {"done", "fill"} PROVE Fits(n, got, from, offset, ended, s)
    BY <1>1 DEF Fits
  <2>2. Fits(n, got, IF Left > Keep THEN got - Keep ELSE from, 0, FALSE, "fill")
    BY <1>1, <1>2 DEF Fits, Left
  <2>. QED BY <1>1, <1>3, <1>8, <2>1, <2>2, Zenon DEF DropNoise
<1>9. ASSUME NEW i \in from .. got, NEW d \in 1 .. 4, i + 2 <= got,
             GoTo(i + d), NEW s \in {"fill", "done", "write", "unfit"}, s = "write" => i + d <= got,
             UNCHANGED <<input, got, ended>>, step' = s, frames' \in Nat, d <= 3 \/ i + d <= got
      PROVE  Sizes'
  <2>1. Fits(n, got, i + d, offset + (i + d) - from, ended, s)
    BY <1>1, <1>2, <1>9 DEF Fits
  <2>. QED BY <1>1, <1>3, <1>9, <2>1, Zenon DEF GoTo
<1>10. CASE SkipByte \/ Underflow
  <2>1. PICK i \in from .. got : i + 2 <= got /\ (GoTo(i + 1) \/ GoTo(i + 3))
    BY <1>10 DEF SkipByte, Underflow, SyncAt, Sync, SyncBytes, HeadBytes
  <2>2. step' \in {"fill", "done"} /\ UNCHANGED <<input, got, ended, frames>>
    BY <1>10 DEF SkipByte, Underflow
  <2>. QED BY <1>3, <1>9, <2>1, <2>2
<1>11. ASSUME NEW L, Consume(L), step' \in {"fill", "write", "unfit", "done"}, frames' \in Nat
       PROVE  Sizes'
  <2>1. PICK i \in from .. got : i + 4 <= got /\ GoTo(i + 4)
    BY <1>11 DEF Consume, FrameBytes
  <2>2. UNCHANGED <<input, got, ended>>
    BY <1>11 DEF Consume
  <2>3. i + 2 <= got
    BY <1>1, <2>1 DEF Fits
  <2>. QED BY <1>9, <1>11, <2>1, <2>2, <2>3
<1>12. CASE DecodeFrame \/ MissMainData \/ SkipFrame \/ Unfit
  <2>1. (\E L : Consume(L)) /\ step' \in {"fill", "write", "unfit", "done"} /\ frames' \in {frames, frames + 1}
    BY <1>12 DEF DecodeFrame, MissMainData, SkipFrame, Unfit
  <2>. QED BY <1>3, <1>11, <2>1
<1>13. CASE step = "write" /\ step' = "fill" /\ UNCHANGED <<input, from, got, offset, ended, frames>>
  <2>1. Fits(n, got, from, offset, ended, "fill")
    BY <1>1, Zenon DEF Fits
  <2>. QED BY <1>1, <1>3, <1>13, <2>1
<1>14. CASE CloseMp3
  <2>1. Len(input'.letters) = 0 /\ from' = 0 /\ got' = 0 /\ offset' = 0 /\ ended' = FALSE
        /\ step' = "off" /\ frames' = frames
    BY <1>14 DEF CloseMp3, NoInput
  <2>2. Fits(0, 0, 0, 0, FALSE, "off")
    BY <1>2 DEF Fits
  <2>3. /\ 0 \in 0 .. 0 /\ 0 \in 0 .. 0 + 1 /\ 0 \in Nat /\ FALSE \in BOOLEAN
        /\ "off" \in {"off", "fill", "decode", "write", "unfit", "done"}
    OBVIOUS
  <2>4. DecoderType'
    BY <1>3, <2>1, <2>3, Zenon DEF DecoderType, BeyondBytes
  <2>. QED BY <2>1, <2>2, <2>4, Zenon DEF Sizes
<1>15. CASE UNCHANGED decoder
  BY <1>15 DEF Sizes, DecoderType, Fits, decoder
<1>. QED BY <1>4, <1>5, <1>6, <1>7, <1>8, <1>10, <1>12, <1>13, <1>14, <1>15, Zenon
         DEF DecoderAction, DecoderStep

\* No step of the decoder passes a frame that it has not consumed.
LEMMA NoHeadPassed ==
  ASSUME Known, Sizes, Aligned, Clean(input), DecoderStep,
         NEW p \in input.heads, from <= p, p < from'
  PROVE  (~Whole(input, p) /\ got = Len(input.letters)) \/ p + 4 = from'
<1>1. CASE Refill \/ EndOfInput \/ EnoughLeft
  <2>1. from' = from
    BY <1>1 DEF Refill, EndOfInput, EnoughLeft
  <2>2. input \in Mp3Files
    BY <1>1 DEF Known, Refill, EndOfInput, EnoughLeft
  <2>3. p \in Nat /\ from \in Nat
    BY <2>2, HeadLetters, DecoderNumbers
  <2>. QED BY <2>1, <2>3
<1>2. CASE DropNoise
  <2>1. from' <= p
    BY <1>2, DropsNoHead
  <2>2. from' \in Int
    <3>1. from' = from \/ from' = got - Keep
      BY <1>2 DEF DropNoise
    <3>. QED BY <3>1, DecoderNumbers
  <2>3. input \in Mp3Files
    BY <1>2 DEF Known, DropNoise
  <2>4. p \in Nat
    BY <2>3, HeadLetters
  <2>. QED BY <2>1, <2>2, <2>4
<1>3. CASE SkipByte \/ Underflow
  BY <1>3, SkipsNoFrame, UnderflowsNoFrame
<1>4. ASSUME NEW L, Consume(L) PROVE p + 4 = from'
  BY <1>4, ConsumesFrame
<1>. QED BY <1>1, <1>2, <1>3, <1>4 DEF DecoderStep, DecodeFrame, MissMainData, SkipFrame, Unfit

\* What a step of the decoder does to the file and what has been read of it.
LEMMA ReadsOn ==
  ASSUME Known, Sizes, DecoderStep
  PROVE  /\ input \in Mp3Files /\ step # "off" /\ UNCHANGED input
         /\ got = Len(input.letters) => got' = got
<1>1. step # "off" /\ UNCHANGED input
  BY Zenon DEF DecoderStep, Refill, EndOfInput, EnoughLeft, DropNoise, SkipByte,
     Underflow, DecodeFrame, MissMainData, SkipFrame, Unfit, Consume
<1>2. Refill => got # Len(input.letters)
  BY PortionRead DEF Refill
<1>3. ~Refill => got' = got
  BY Zenon DEF DecoderStep, EndOfInput, EnoughLeft, DropNoise, SkipByte,
     Underflow, DecodeFrame, MissMainData, SkipFrame, Unfit, Consume
<1>. QED BY <1>1, <1>2, <1>3 DEF Known

\* Every step leaves the read pointer between the frames.
LEMMA AlignedStep == Known /\ Sizes /\ Aligned /\ DecoderAction => Aligned'
<1> SUFFICES ASSUME Known, Sizes, Aligned, DecoderAction, step' # "off", Clean(input'),
                    NEW p \in input'.heads, p < from'
             PROVE  p + 4 <= from' \/ (~Whole(input', p) /\ got' = Len(input'.letters))
  BY DEF Aligned, FrameBytes, Whole, Clean, Edges
<1>1. ASSUME NEW f \in Mp3Files, OpenMp3(f) PROVE FALSE
  <2>1. p \in Nat /\ from' = 0
    BY <1>1, HeadLetters DEF OpenMp3
  <2>. QED BY <2>1
<1>2. CASE DecoderStep
  <2>1. input \in Mp3Files /\ step # "off" /\ UNCHANGED input
        /\ (got = Len(input.letters) => got' = got)
    BY <1>2, ReadsOn
  <2>2. Clean(input) /\ p \in input.heads
    BY <2>1, Zenon
  <2>3. p \in Nat /\ from \in Nat
    BY <2>1, <2>2, HeadLetters, DecoderNumbers
  <2>4. CASE p < from
    <3>1. p + 4 <= from \/ (~Whole(input, p) /\ got = Len(input.letters))
      BY <2>1, <2>2, <2>4 DEF Aligned, FrameBytes
    <3>2. CASE p + 4 <= from
      <4>1. from <= from'
        <5>1. CASE Refill \/ EndOfInput \/ EnoughLeft
          BY <2>3, <5>1 DEF Refill, EndOfInput, EnoughLeft
        <5>2. CASE DropNoise
          BY <5>2, DecoderNumbers DEF DropNoise
        <5>3. CASE SkipByte \/ Underflow \/ DecodeFrame \/ MissMainData \/ SkipFrame \/ Unfit
          <6>1. \E i \in from .. got : from' \in {i + 1, i + 3, i + 4}
            BY <5>3 DEF SkipByte, Underflow, DecodeFrame, MissMainData, SkipFrame, Unfit, Consume,
               GoTo, HeadBytes, FrameBytes
          <6>2. got \in Nat
            BY <2>1, DecoderNumbers, Zenon
          <6>. QED BY <2>3, <6>1, <6>2
        <5>. QED BY <1>2, <5>1, <5>2, <5>3 DEF DecoderStep
      <4>2. from' \in Nat
        <5>1. Sizes'
          BY <1>2, SizesStep DEF DecoderAction
        <5>2. from' \in Nat
          <6>1. Len(input.letters) \in Nat
            BY DecoderNumbers
          <6>2. got' \in 0 .. Len(input.letters) /\ from' \in 0 .. got' + 1
            BY <2>1, <5>1, Zenon DEF Sizes, DecoderType, BeyondBytes
          <6>3. \A n \in Nat : \A g \in 0 .. n : \A r \in 0 .. g + 1 : r \in Nat
            OBVIOUS
          <6>. QED BY <6>1, <6>2, <6>3, Zenon
        <5>. QED BY <5>2
      <4>. QED BY <2>3, <3>2, <4>1, <4>2
    <3>. QED BY <2>1, <3>1, <3>2
  <2>5. CASE from <= p
    <3>1. (~Whole(input, p) /\ got = Len(input.letters)) \/ p + 4 = from'
      BY <1>2, <2>2, <2>5, NoHeadPassed
    <3>2. p + 4 = from' => p + 4 <= from'
      BY <2>3
    <3>. QED BY <2>1, <3>1, <3>2
  <2>. QED BY <2>3, <2>4, <2>5
<1>3. CASE step = "write" /\ step' = "fill" /\ UNCHANGED <<input, from, got, offset, ended, frames>>
  BY <1>3 DEF Aligned, FrameBytes
<1>4. CASE CloseMp3
  BY <1>4 DEF CloseMp3
<1>5. CASE UNCHANGED decoder
  BY <1>5 DEF Aligned, FrameBytes, decoder
<1>. QED BY <1>1, <1>2, <1>3, <1>4, <1>5 DEF DecoderAction

\* The good frames of a file can be counted.
LEMMA GoodFinite ==
  ASSUME NEW f \in Mp3Files
  PROVE  Good(f) \subseteq Nat /\ IsFiniteSet(Good(f))
<1>1. PICK n \in Nat : n = Len(f.letters)
  <2>1. f.letters \in Seq(Letters)
    BY Mp3Assumption
  <2>. QED BY <2>1
<1>2. ASSUME NEW p \in Good(f) PROVE p \in 0 .. n
  <2>1. p \in Nat /\ p + 4 <= n
    BY <1>1, HeadLetters DEF Good, Whole, FrameBytes
  <2>. QED BY <2>1
<1>3. IsFiniteSet(0 .. n)
  BY FS_Interval
<1>4. Good(f) \in SUBSET (0 .. n)
  BY <1>2
<1>5. IsFiniteSet(Good(f))
  BY <1>3, <1>4, FS_Subset, Zenon
<1>. QED BY <1>2, <1>5

\* A decoded frame is counted, and nothing else is.
LEMMA CountedStep ==
  Known /\ Sizes /\ Aligned /\ Counted /\ DecoderAction => Counted'
<1> SUFFICES ASSUME Known, Sizes, Aligned, Counted, DecoderAction, step' # "off", Clean(input')
             PROVE  frames' = Cardinality({p \in Good(input') : p < from'})
  BY Zenon DEF Counted, GoodBefore
<1>1. ASSUME NEW f \in Mp3Files, OpenMp3(f)
      PROVE  frames' = Cardinality({p \in Good(input') : p < from'})
  <2>1. input' = f /\ from' = 0 /\ frames' = 0
    BY <1>1 DEF OpenMp3
  <2>2. Good(f) \subseteq Nat
    BY GoodFinite
  <2>3. {p \in Good(f) : p < 0} = {}
    BY <2>2
  <2>. QED BY <2>1, <2>3, FS_EmptySet
<1>2. CASE DecoderStep
  <2>1. input \in Mp3Files /\ step # "off" /\ UNCHANGED input
    BY <1>2, ReadsOn
  <2>. DEFINE Old == {p \in Good(input) : p < from}
              New == {p \in Good(input) : p < from'}
  <2>. SUFFICES frames' = Cardinality(New)
    BY <2>1, Zenon
  <2>2. frames = Cardinality(Old) /\ Clean(input)
    BY <2>1, Zenon DEF Counted, GoodBefore
  <2>3. Good(input) \subseteq Nat /\ IsFiniteSet(Old)
    <3>1. Good(input) \subseteq Nat /\ IsFiniteSet(Good(input))
      BY <2>1, GoodFinite
    <3>2. Old \in SUBSET Good(input)
      OBVIOUS
    <3>. QED BY <3>1, <3>2, FS_Subset, Zenon
  <2>4. from \in Nat /\ got \in Nat /\ Keep \in Nat
    BY DecoderNumbers
  <2>5. ASSUME UNCHANGED frames, from' \in Int, from <= from',
               \A p \in Good(input) : ~(from <= p /\ p < from')
        PROVE  frames' = Cardinality(New)
    <3>1. \A p \in Good(input) : p < from <=> p < from'
      BY <2>3, <2>4, <2>5
    <3>2. New = Old
      BY <3>1, Zenon
    <3>. QED BY <2>2, <2>5, <3>2, Zenon
  <2>6. CASE Refill \/ EndOfInput \/ EnoughLeft
    <3>1. UNCHANGED <<frames, from>>
      BY <2>6 DEF Refill, EndOfInput, EnoughLeft
    <3>. QED BY <2>3, <2>4, <2>5, <3>1
  <2>7. CASE DropNoise \/ SkipByte \/ Underflow
    <3>1. UNCHANGED frames
      BY <2>7 DEF DropNoise, SkipByte, Underflow
    <3>2. from' \in Int /\ from <= from'
      <4>1. CASE DropNoise
        BY <2>4, <4>1, DecoderNumbers DEF DropNoise
      <4>2. CASE SkipByte \/ Underflow
        <5>1. \E i \in from .. got : from' \in {i + 1, i + 3}
          BY <4>2 DEF SkipByte, Underflow, GoTo, HeadBytes
        <5>. QED BY <2>4, <5>1
      <4>. QED BY <2>7, <4>1, <4>2
    <3>3. ASSUME NEW p \in Good(input), from <= p, p < from' PROVE FALSE
      <4>1. p \in input.heads /\ Whole(input, p)
        BY DEF Good
      <4>2. CASE DropNoise
        <5>1. from' <= p /\ p \in Nat
          BY <2>3, <3>3, <4>1, <4>2, DropsNoHead
        <5>. QED BY <3>2, <3>3, <5>1
      <4>3. CASE SkipByte \/ Underflow
        BY <2>2, <3>3, <4>1, <4>3, SkipsNoFrame, UnderflowsNoFrame
      <4>. QED BY <2>7, <4>2, <4>3
    <3>. QED BY <2>5, <3>1, <3>2, <3>3
  <2>8. ASSUME NEW L, Consume(L)
        PROVE  \E i \in input.heads :
                 /\ i \in Nat /\ from <= i /\ from' = i + 4 /\ i + 4 <= got
                 /\ input.letters[i + 4] \in L
                 /\ \A p \in Good(input) : from <= p /\ p < from' => p = i
    <3>1. PICK i \in input.heads :
            /\ from <= i /\ i + 4 <= got /\ from' = i + 4
            /\ input.letters[i + 4] \in L
            /\ \A p \in input.heads : from <= p /\ p < from' => p = i
      BY <2>2, <2>8, ConsumesFrame
    <3>2. i \in Nat
      BY <2>1, HeadLetters
    <3>3. \A p \in Good(input) : from <= p /\ p < from' => p = i
      BY <3>1 DEF Good
    <3>. QED BY <3>1, <3>2, <3>3
  <2>9. CASE DecodeFrame
    <3>1. PICK i \in input.heads :
            /\ i \in Nat /\ from <= i /\ from' = i + 4 /\ i + 4 <= got
            /\ input.letters[i + 4] = "x"
            /\ \A p \in Good(input) : from <= p /\ p < from' => p = i
      BY <2>8, <2>9 DEF DecodeFrame
    <3>2. i \in Good(input)
      BY <2>1, <2>4, <3>1, DecoderNumbers DEF Good, Whole, FrameBytes
    <3>3. i \notin Old
      BY <2>4, <3>1
    <3>4. ASSUME NEW p \in Good(input) PROVE p < from' <=> p < from \/ p = i
      BY <2>3, <2>4, <3>1
    <3>5. New = Old \cup {i}
      BY <3>2, <3>4, Zenon
    <3>6. Cardinality(New) = Cardinality(Old) + 1
      <4>. HIDE DEF Old, New
      <4>. QED BY <2>3, <3>3, <3>5, FS_AddElement
    <3>7. frames' = frames + 1
      BY <2>9 DEF DecodeFrame
    <3>. QED BY <2>1, <2>2, <3>6, <3>7
  <2>10. CASE MissMainData \/ SkipFrame \/ Unfit
    <3>1. PICK i \in input.heads :
            /\ i \in Nat /\ from <= i /\ from' = i + 4 /\ i + 4 <= got
            /\ input.letters[i + 4] \in {"m", "F", "E", "h", "l"}
            /\ \A p \in Good(input) : from <= p /\ p < from' => p = i
      BY <2>8, <2>10 DEF MissMainData, SkipFrame, Unfit
    <3>2. i \notin Good(input)
      BY <3>1 DEF Good, FrameBytes
    <3>3. UNCHANGED frames
      BY <2>10 DEF MissMainData, SkipFrame, Unfit
    <3>. QED BY <2>4, <2>5, <3>1, <3>2, <3>3
  <2>. QED BY <1>2, <2>6, <2>7, <2>9, <2>10, Zenon DEF DecoderStep
<1>3. CASE step = "write" /\ step' = "fill" /\ UNCHANGED <<input, from, got, offset, ended, frames>>
  BY <1>3, Zenon DEF Counted, GoodBefore
<1>4. CASE CloseMp3
  BY <1>4 DEF CloseMp3
<1>5. CASE UNCHANGED decoder
  BY <1>5, Zenon DEF Counted, GoodBefore, decoder
<1>. QED BY <1>1, <1>2, <1>3, <1>4, <1>5, Zenon DEF DecoderAction

\* Where the loop ends, no good frame is left.
LEMMA AllReadStep ==
  Known /\ Sizes /\ Aligned /\ AllRead /\ DecoderAction => AllRead'
<1> SUFFICES ASSUME Known, Sizes, Aligned, AllRead, DecoderAction,
                    step' = "done", Clean(input'), MissesEarly(input')
             PROVE  {p \in Good(input') : p < from'} = Good(input')
  BY Zenon DEF AllRead, GoodBefore
<1>1. ASSUME DecoderStep, NEW p \in Good(input') PROVE p < from'
  <2>1. input \in Mp3Files /\ UNCHANGED input /\ Clean(input) /\ MissesEarly(input)
    BY <1>1, ReadsOn
  <2>2. p \in input.heads /\ Whole(input, p)
    BY <1>1, <2>1 DEF Good
  <2>3. PICK n \in Nat : n = Len(input.letters)
    BY DecoderNumbers
  <2>4. /\ p \in Nat /\ from \in Nat /\ got \in Nat /\ Left = got - from
        /\ p + 4 <= n /\ got <= n /\ Threshold \in Nat /\ 4 <= Threshold
    BY <2>1, <2>2, <2>3, HeadLetters, DecoderNumbers DEF Whole, FrameBytes
  <2>5. ended => got = n /\ got - from < Threshold
    BY <2>3 DEF Sizes, Fits
  <2>6. CASE EndOfInput
    <3>1. Left = 0 /\ from' = from /\ got = n
      BY <1>1, <2>3, <2>6, PortionRead DEF EndOfInput
    <3>. QED BY <2>4, <3>1
  <2>7. CASE EnoughLeft
    <3>1. Left = 0 /\ from' = from /\ (ended \/ Left >= Threshold)
      BY <2>7 DEF EnoughLeft
    <3>. QED BY <2>4, <2>5, <3>1
  <2>8. CASE DropNoise
    <3>1. ended /\ from' = from
      BY <2>8 DEF DropNoise
    <3>2. ~(from <= p)
      <4>1. from <= p => got < p + 2
        BY <2>2, <2>8, <3>1, DropsNoHead
      <4>. QED BY <2>4, <2>5, <3>1, <4>1
    <3>. QED BY <2>4, <3>1, <3>2
  <2>9. CASE Underflow
    <3>1. PICK i \in from .. got : SyncAt(i) /\ i + 4 > got /\ from' = i + 3 /\ ended
      BY <2>9 DEF Underflow, GoTo, HeadBytes, FrameBytes
    <3>2. from <= p => i <= p
      BY <2>2, <2>9, <3>1, FirstSync DEF Underflow
    <3>. QED BY <2>4, <2>5, <3>1, <3>2
  <2>10. CASE MissMainData
    <3>1. ended /\ Consume({"m"})
      BY <2>10 DEF MissMainData
    <3>2. PICK i \in input.heads :
            /\ from <= i /\ i + 4 <= got /\ input.letters[i + 4] = "m"
      BY <2>1, <3>1, ConsumesFrame
    <3>3. i \in Nat
      BY <2>1, HeadLetters
    <3>4. i + 4 \in 1 .. n
      BY <2>4, <3>2, <3>3
    <3>5. i + 4 <= n - Threshold + 4
      BY <2>1, <2>3, <3>2, <3>4 DEF MissesEarly, FrameBytes
    <3>. QED BY <2>4, <2>5, <3>1, <3>2, <3>3, <3>5
  <2>11. ~(Refill \/ SkipByte \/ DecodeFrame \/ SkipFrame \/ Unfit)
    BY DEF Refill, SkipByte, DecodeFrame, SkipFrame, Unfit
  <2>. QED BY <1>1, <2>6, <2>7, <2>8, <2>9, <2>10, <2>11 DEF DecoderStep
<1>2. CASE DecoderStep
  BY <1>1, <1>2
<1>3. CASE UNCHANGED decoder
  BY <1>3, Zenon DEF decoder, AllRead, GoodBefore
<1>4. ~((\E f \in Mp3Files : OpenMp3(f)) \/ CloseMp3)
  BY DEF OpenMp3, CloseMp3
<1>. QED BY <1>2, <1>3, <1>4 DEF DecoderAction

\* No header is read beyond the buffer while there is more of the file, unless
\* there is much noise.
LEMMA EndKnownStep ==
  Known /\ Sizes /\ Aligned /\ EndKnown /\ DecoderAction => EndKnown'
<1> SUFFICES ASSUME Known, Sizes, Aligned, EndKnown, DecoderAction,
                    step' = "fill", Left' < 0, Clean(input'), CleanEnd(input')
             PROVE  got' = Len(input'.letters)
  BY Zenon DEF EndKnown
<1>1. ASSUME NEW f \in Mp3Files, OpenMp3(f) PROVE FALSE
  BY <1>1 DEF OpenMp3, Left
<1>2. CASE DecoderStep
  <2>1. /\ input \in Mp3Files /\ UNCHANGED input /\ Clean(input) /\ CleanEnd(input)
        /\ got = Len(input.letters) => got' = got
    BY <1>2, ReadsOn
  <2>. SUFFICES ASSUME got # Len(input.letters) PROVE FALSE
    BY <2>1
  <2>2. PICK n \in Nat : n = Len(input.letters)
    BY DecoderNumbers
  <2>3. /\ from \in Nat /\ got \in Nat /\ got < n
        /\ Threshold \in Nat /\ 4 <= Threshold /\ Keep \in Nat
    BY <2>2, DecoderNumbers
  <2>4. step = "decode" => from + Threshold <= got
    <3>1. step = "decode" => got - from >= Threshold
      BY <2>2 DEF Sizes, Fits
    <3>. QED BY <2>3, <3>1
  <2>5. CASE DropNoise
    <3>1. got' = got /\ (from' = from \/ from' = got - Keep) /\ step = "decode"
      BY <2>5 DEF DropNoise
    <3>. QED BY <2>3, <2>4, <3>1 DEF Left
  <2>6. CASE SkipByte
    <3>1. PICK i \in from .. got : i + 2 <= got /\ from' = i + 1 /\ got' = got
      BY <2>6 DEF SkipByte, SyncAt, Sync, SyncBytes, GoTo
    <3>. QED BY <2>3, <3>1 DEF Left
  <2>7. CASE MissMainData \/ SkipFrame \/ Unfit
    <3>1. PICK i \in from .. got : i + 4 <= got /\ from' = i + 4 /\ got' = got
      BY <2>7 DEF MissMainData, SkipFrame, Unfit, Consume, FrameBytes, GoTo
    <3>. QED BY <2>3, <3>1 DEF Left
  <2>8. CASE Underflow
    <3>1. PICK i \in from .. got : SyncAt(i) /\ from' = i + 3 /\ got' = got /\ step = "decode"
      BY <2>8 DEF Underflow, GoTo, HeadBytes
    <3>2. i + 3 > got /\ i \in Nat /\ from <= i
      BY <2>3, <3>1 DEF Left
    <3>3. from + Threshold <= got
      BY <2>4, <3>1
    <3>4. PICK q \in Edges(input) : n <= q + Threshold
      BY <2>1, <2>2 DEF CleanEnd
    <3>5. \E p \in input.heads : from <= p
      <4>1. q # 0
        BY <2>3, <3>3, <3>4
      <4>2. PICK p \in input.heads : q = p + 4
        BY <3>4, <4>1 DEF Edges, FrameBytes
      <4>3. p \in Nat
        BY <2>1, HeadLetters
      <4>4. p < from => p + 4 <= from
        BY <2>1, <3>1 DEF Aligned, FrameBytes
      <4>. QED BY <2>3, <3>3, <3>4, <4>2, <4>3, <4>4
    <3>. DEFINE Rest == {p \in input.heads : from <= p}
    <3>6. Rest \in SUBSET Nat /\ Rest # {}
      BY <2>1, <3>5, HeadLetters
    <3>7. PICK p \in Rest : \A r \in Rest : p <= r
      <4>. HIDE DEF Rest
      <4>. QED BY <3>6, LeastOf, Zenon
    <3>8. p + 4 <= got
      <4>1. p \in input.heads /\ from <= p /\ \A r \in input.heads : from <= r => p <= r
        BY <3>7
      <4>. QED BY <2>1, <3>1, <4>1, FirstInBuffer
    <3>9. i <= p
      BY <3>1, <3>7, FirstSync
    <3>. QED BY <2>3, <3>2, <3>6, <3>7, <3>8, <3>9
  <2>9. CASE Refill \/ EndOfInput \/ EnoughLeft \/ DecodeFrame
    <3>1. step' # "fill"
      BY <2>9 DEF Refill, EndOfInput, EnoughLeft, DecodeFrame
    <3>. QED BY <3>1
  <2>. QED BY <1>2, <2>5, <2>6, <2>7, <2>8, <2>9 DEF DecoderStep
<1>3. CASE step = "write" /\ step' = "fill" /\ UNCHANGED <<input, from, got, offset, ended, frames>>
  <2>1. got - from >= 0
    BY <1>3 DEF Sizes, Fits
  <2>. QED BY <1>3, <2>1, DecoderNumbers DEF Left
<1>4. CASE CloseMp3
  BY <1>4 DEF CloseMp3
<1>5. CASE UNCHANGED decoder
  BY <1>5, Zenon DEF decoder, EndKnown, Left
<1>. QED BY <1>1, <1>2, <1>3, <1>4, <1>5 DEF DecoderAction

\* The invariant of the decode loop is inductive.
LEMMA DecoderInvStep == DecoderInv /\ DecoderAction => DecoderInv'
BY KnownStep, SizesStep, AlignedStep, CountedStep, AllReadStep, EndKnownStep, Zenon
   DEF DecoderInv

\* And what is in the buffer fits into it.
LEMMA DecoderFits == DecoderInv => BufferFits
<1> SUFFICES ASSUME Known, Sizes, EndKnown PROVE BufferFits
  BY DEF DecoderInv
<1>1. offset + Left <= Capacity
  BY DEF Sizes, Fits, Left
<1>2. ASSUME step = "fill", Left < 0, Clean(input), CleanEnd(input) PROVE Portion = 0
  <2>1. got = Len(input.letters)
    BY <1>2 DEF EndKnown
  <2>2. Left < Threshold
    BY <1>2, DecoderNumbers
  <2>. QED BY <2>1, <2>2, PortionRead
<1>3. Left >= -1
  BY DecoderNumbers
<1>. QED BY <1>1, <1>2, <1>3 DEF BufferFits, BeyondBytes

-----------------------------------------------------------------------------
(***************************************************************************)
(* The passes of a command: one decoder at a time is open, on the song, and *)
(* only while a pass runs; it waits while the player converts.             *)
(***************************************************************************)

Control ==
  /\ song \in Songs
  /\ result \in {"none", "running", "ended", "stopped", "failed"}
  /\ passes \in 0 .. MaxPasses /\ (result = "running" => passes < MaxPasses)
  /\ IF result = "running"
       THEN \/ song.kind = "mp3" /\ wav = "closed" /\ step # "off" /\ input = song.bytes
            \/ song.kind = "wav" /\ step = "off" /\ wav # "closed" /\ file = song.bytes
       ELSE step = "off" /\ wav = "closed"
  /\ phase \in {"next", "interval"} =>
       result = "running" /\ step \in {"off", "fill"} /\ wav \in {"closed", "read"}
  /\ phase = "failed" =>
       /\ result \in {"running", "failed"}
       /\ step \in {"off", "fill", "write"} /\ wav \in {"closed", "open", "read"}
  /\ wav \in {"read", "block", "write"} => enabled

\* What a step may do to the reader of WAV files.
ReaderAction ==
  \/ \E f \in WavFiles : OpenWav(f)
  \/ ReaderStep
  \/ ReadFails
  \/ /\ wav \in {"open", "write"} /\ wav' = "read"
     /\ UNCHANGED <<file, place, format, found, remaining, locals, missed>>
  \/ CloseWav
  \/ UNCHANGED reader

\* From where to where the steps of the decoder and of the reader lead.
LEMMA DecoderPlaces ==
  DecoderStep => /\ step \in {"fill", "decode"}
                 /\ step' \in {"fill", "decode", "write", "unfit", "done"}
                 /\ UNCHANGED input
BY DEF DecoderStep, Refill, EndOfInput, EnoughLeft, DropNoise, SkipByte, Underflow,
   DecodeFrame, MissMainData, SkipFrame, Unfit, Consume

\* The same of the reader.
LEMMA ReaderPlaces ==
  ReaderStep \/ ReadFails =>
    /\ wav \in {"walk", "read", "block"}
    /\ wav' \in {"walk", "refused", "open", "block", "write"} /\ UNCHANGED file
    /\ wav' \in {"block", "write"} => wav \in {"read", "block"}
<1> SUFFICES ASSUME ReaderStep \/ ReadFails
             PROVE  /\ wav \in {"walk", "read", "block"}
                    /\ wav' \in {"walk", "refused", "open", "block", "write"} /\ UNCHANGED file
                    /\ wav' \in {"block", "write"} => wav \in {"read", "block"}
  OBVIOUS
<1>1. CASE ReadFormat \/ SkipChunk \/ EnterData
  <2>1. \E c : c \in Chunk
    BY <1>1, Zenon DEF ReadFormat, SkipChunk, EnterData
  <2>2. wav = "walk"
    BY <2>1, Zenon DEF Chunk
  <2>. QED BY <1>1, <2>2 DEF ReadFormat, SkipChunk, EnterData
<1>2. CASE Refuse \/ WalkFails
  BY <1>2 DEF Refuse, WalkFails
<1>3. ASSUME NEW y, Receive16(y)
      PROVE  wav = "read" /\ wav' = "write" /\ UNCHANGED file
  BY <1>3 DEF Receive16
<1>4. ASSUME NEW y, ReceiveBlock(y)
      PROVE  wav = "block" /\ wav' \in {"block", "write"} /\ UNCHANGED file
  BY <1>4 DEF ReceiveBlock
<1>5. CASE Read16 \/ ShortRead16
  <2>1. wav = "read" /\ wav' = "write" /\ UNCHANGED file
    BY <1>3, <1>5, Zenon DEF Read16, ShortRead16
  <2>. QED BY <2>1
<1>6. CASE ReadBlock \/ ShortBlock
  <2>1. wav = "block" /\ wav' \in {"block", "write"} /\ UNCHANGED file
    BY <1>4, <1>6, Zenon DEF ReadBlock, ShortBlock
  <2>. QED BY <2>1
<1>7. CASE BeginBlocks \/ EndBlocks
  BY <1>7 DEF BeginBlocks, EndBlocks
<1>. QED BY <1>1, <1>2, <1>5, <1>6, <1>7, Zenon DEF ReaderStep, ReadFails

\* A step is one of the decoder's and of the reader's, or leaves them alone.
LEMMA StepParts == Control /\ [Next]_vars => DecoderAction /\ ReaderAction
<1> SUFFICES ASSUME Control, [Next]_vars PROVE DecoderAction /\ ReaderAction
  OBVIOUS
<1>1. CASE Pass
  <2>1. song.kind = "mp3" => song.bytes \in Mp3Files
    BY DEF Control, Songs
  <2>2. song.kind = "wav" => song.bytes \in WavFiles
    BY DEF Control, Songs
  <2>3. \/ song.kind = "mp3" /\ OpenMp3(song.bytes) /\ UNCHANGED reader
        \/ song.kind = "wav" /\ OpenWav(song.bytes) /\ UNCHANGED decoder
    BY <1>1, Zenon DEF Pass
  <2>. QED BY <2>1, <2>2, <2>3, Zenon DEF DecoderAction, ReaderAction
<1>2. CASE Decode
  BY <1>2, Zenon DEF Decode, DecoderAction, ReaderAction
<1>3. CASE StartReads
  BY <1>3, Zenon DEF StartReads, DecoderAction, ReaderAction
<1>4. CASE GiveMp3
  BY <1>4, Zenon DEF GiveMp3, DecoderAction, ReaderAction
<1>5. CASE GiveWav
  BY <1>5, Zenon DEF GiveWav, DecoderAction, ReaderAction
<1>6. ASSUME NEW r, EndPass(r) PROVE DecoderAction /\ ReaderAction
  BY <1>6, Zenon DEF EndPass, DecoderAction, ReaderAction
<1>7. CASE UNCHANGED <<decoder, reader>>
  BY <1>7, Zenon DEF DecoderAction, ReaderAction
<1>. QED
  BY <1>1, <1>2, <1>3, <1>4, <1>5, <1>6, <1>7, Zenon DEF Next, Begin, PassFails, SetRate,
     Convert, Mp3Ends, WavEnds, Fails, Stopped, EndCommand, vars

\* The end of a pass, if the player is at rest or the pass has failed.
LEMMA EndPassControl ==
  ASSUME Control, NEW r \in {"ended", "stopped", "failed"}, EndPass(r),
         phase \in {"idle", "failed"}, phase = "idle" \/ r = "failed"
  PROVE  Control'
<1>1. MaxPasses \in Nat
  BY MusicAssumption
<1>2. passes' \in 0 .. MaxPasses
  BY <1>1 DEF Control, EndPass
<1>3. step' = "off" /\ wav' = "closed" /\ result' = r /\ UNCHANGED <<song, phase>>
  BY DEF Control, EndPass, CloseMp3, CloseWav, decoder, reader, player
<1>. QED BY <1>2, <1>3 DEF Control

\* Every step keeps the task in one place.
LEMMA ControlStep == Control /\ Switches /\ [Next]_vars => Control'
<1> SUFFICES ASSUME Control, Switches, [Next]_vars PROVE Control'
  OBVIOUS
<1>1. CASE Begin
  BY <1>1, MusicAssumption DEF Begin, Control, player, decoder, reader, counters, locals
<1>2. CASE Pass
  BY <1>2 DEF Pass, OpenMp3, OpenWav, Control, player, decoder, reader
<1>3. CASE PassFails
  BY <1>3 DEF PassFails, Control, player, decoder, reader
<1>4. CASE Decode
  <2>1. CASE DecoderStep /\ UNCHANGED reader
    BY <1>4, <2>1, DecoderPlaces DEF Decode, Control, player, reader
  <2>2. CASE (ReaderStep \/ ReadFails) /\ UNCHANGED decoder
    BY <1>4, <2>2, ReaderPlaces DEF Decode, Control, player, decoder
  <2>. QED BY <1>4, <2>1, <2>2 DEF Decode
<1>5. CASE SetRate
  BY <1>5 DEF SetRate, Configure, Control, decoder, reader
<1>6. CASE StartReads
  BY <1>6 DEF StartReads, Control, player, decoder
<1>7. CASE GiveMp3
  BY <1>7 DEF GiveMp3, Write, Control, reader
<1>8. CASE GiveWav
  BY <1>8 DEF GiveWav, Write, Control, decoder
<1>9. CASE Convert
  <2>1. phase \in {"next", "interval"} /\ phase' \in {"idle", "next", "interval", "failed"}
        /\ UNCHANGED enabled
    BY <1>9 DEF Convert, PlayerStep, FirstFrame, NextFrame, Interpolate, LeaveInterval,
       Return, WriteFails
  <2>. QED BY <1>9, <2>1 DEF Convert, Control, decoder, reader
<1>10. CASE Mp3Ends
  <2>1. phase = "idle"
    BY <1>10 DEF Mp3Ends, Control, Switches
  <2>. QED BY <1>10, <2>1, EndPassControl DEF Mp3Ends
<1>11. CASE WavEnds
  <2>1. phase = "idle"
    BY <1>11 DEF WavEnds, Control, Switches
  <2>. QED BY <1>11, <2>1, EndPassControl DEF WavEnds
<1>12. CASE Fails
  <2>1. EndPass("failed") /\ phase \in {"idle", "failed"}
    BY <1>12 DEF Fails, Control, Switches
  <2>. QED BY <2>1, EndPassControl
<1>13. CASE Stopped
  BY <1>13, EndPassControl DEF Stopped
<1>14. CASE EndCommand
  BY <1>14, MusicAssumption DEF EndCommand, Silence, Control, decoder, reader
<1>15. CASE UNCHANGED vars
  BY <1>15 DEF vars, Control, player, decoder, reader
<1>. QED
  BY <1>1, <1>2, <1>3, <1>4, <1>5, <1>6, <1>7, <1>8, <1>9, <1>10, <1>11, <1>12, <1>13,
     <1>14, <1>15, Zenon DEF Next

-----------------------------------------------------------------------------
(***************************************************************************)
(* What the reader finds in a WAV file.                                    *)
(*                                                                         *)
(* The walk is at the beginning of a chunk, has passed no samples and no   *)
(* bad "fmt ", and knows the last "fmt " it has passed.  Or it has passed  *)
(* all the chunks and goes round: then there are no samples in the file.   *)
(***************************************************************************)

WavOpen == IF wav = "closed" THEN file = NoFile ELSE file \in WavFiles

\* What a "fmt " chunk of a file says.
Said(f, m) == [f.chunks[m].format EXCEPT !.tag = TagOf(f.chunks[m])]

ReaderSizes ==
  /\ ReaderType
  /\ format \in Formats
  /\ wav \in {"open", "read", "block", "write"} => Supported(format)
  /\ wav = "block" =>
       wanted = Least(BufferSamples, remaining \div SampleBytes) /\ converted <= wanted

\* The walk over file f comes to its kth chunk, at position p, and has found a format
\* or none.
WalkAt(f, k, p, has, fmt) ==
  /\ p = f.at[k]
  /\ \A j \in 1 .. k - 1 : Passed(f, j)
  /\ has => \E m \in 1 .. k - 1 : LastFormat(f, m, k) /\ fmt = Said(f, m)
  /\ ~has => \A j \in 1 .. k - 1 : f.chunks[j].id # "fmt "

\* It has been over all of them.
AllPassed(f) == \A j \in 1 .. Len(f.chunks) : Passed(f, j)

\* It is there for the first time, or goes round.  Behind the last chunk it is in no
\* place it has been to.
OnChunk(f, k, p, has, fmt) ==
  /\ p = f.at[k]
  /\ k = Len(f.chunks) + 1 => \A j \in 1 .. Len(f.chunks) : f.at[j] # p
  /\ WalkAt(f, k, p, has, fmt) \/ AllPassed(f)

OnWay ==
  wav = "walk" =>
    \E k \in 1 .. Len(file.chunks) + 1 : OnChunk(file, k, place, found, format)

Refused == wav = "refused" /\ ~missed => ~Playable(file)

ReaderInv == WavOpen /\ ReaderSizes /\ OnWay /\ Refused

\* The sizes fseek takes for what they are.
LEMMA Offsets ==
  \A n \in Nat : AsOffset(n) \in Int /\ (2 * n < SizeLimit => AsOffset(n) = n)
BY BlockAssumption DEF AsOffset

\* Where it leads: over such a chunk, with any other size to a position of the file
\* or nowhere.
LEMMA AfterForward ==
  ASSUME NEW p \in Nat, NEW c, c.size \in Nat, 2 * c.size < SizeLimit
  PROVE  After(p, c) = p + 8 + Padded(c.size)
<1>1. PICK s \in Nat : s = c.size
  OBVIOUS
<1>2. PICK r \in Nat : r = (IF c.id = "fmt " THEN Least(s, 40) ELSE 0) /\ r <= s
  <2>1. Least(s, 40) \in Nat /\ Least(s, 40) <= s /\ 0 \in Nat /\ 0 <= s
    BY DEF Least
  <2>. QED BY <2>1, Zenon
<1>3. PICK x \in Nat : x = s % 2
  OBVIOUS
<1>4. AsOffset(s - r) = s - r
  <2>1. s - r \in Nat /\ (2 * s < SizeLimit => 2 * (s - r) < SizeLimit)
    <3>1. \A a, b \in Nat : b <= a =>
            a - b \in Nat /\ (2 * a < SizeLimit => 2 * (a - b) < SizeLimit)
      BY BlockAssumption
    <3>. QED BY <1>2, <3>1, Zenon
  <2>. QED BY <1>1, <2>1, Offsets, Zenon
<1>5. After(p, c) = IF p + 8 + r + (s - r) < 0 THEN -1 ELSE p + 8 + r + (s - r) + x
  BY <1>1, <1>2, <1>3, <1>4, Zenon DEF After, HeaderBytes, FormatBytes, Nowhere
<1>6. \A a \in Nat : ~(p + 8 + a + (s - a) < 0) /\ p + 8 + a + (s - a) + x = p + 8 + (s + x)
  OBVIOUS
<1>7. After(p, c) = p + 8 + (s + x)
  BY <1>2, <1>5, <1>6, Zenon
<1>. QED BY <1>1, <1>3, <1>7, Zenon DEF Padded

LEMMA AfterSomewhere ==
  ASSUME NEW p \in Nat, NEW c, c.size \in Nat
  PROVE  After(p, c) \in Nat \/ After(p, c) = -1
<1>1. PICK s \in Nat : s = c.size
  OBVIOUS
<1>2. PICK r \in Nat : r = (IF c.id = "fmt " THEN Least(s, 40) ELSE 0)
  <2>1. Least(s, 40) \in Nat /\ 0 \in Nat
    BY DEF Least
  <2>. QED BY <2>1, Zenon
<1>3. PICK x \in Nat : x = s % 2
  OBVIOUS
<1>4. PICK y \in Int : y = AsOffset(s - r)
  <2>1. \A n \in Int : AsOffset(n) \in Int
    BY BlockAssumption DEF AsOffset
  <2>2. \A a \in Nat : s - a \in Int
    OBVIOUS
  <2>. QED BY <1>2, <2>1, <2>2, Zenon
<1>5. After(p, c) = IF p + 8 + r + y < 0 THEN -1 ELSE p + 8 + r + y + x
  BY <1>1, <1>2, <1>3, <1>4, Zenon DEF After, HeaderBytes, FormatBytes, Nowhere
<1>. QED BY <1>5

\* The layout of a file, chunk by chunk.
LEMMA Layout ==
  ASSUME NEW f \in WavFiles
  PROVE  /\ Len(f.chunks) \in Nat /\ DOMAIN f.chunks = 1 .. Len(f.chunks)
         /\ f.length \in Nat
         /\ f.at[1] = 12
         /\ \A k \in 1 .. Len(f.chunks) :
              /\ f.at[k] \in Nat
              /\ f.chunks[k].size \in Nat
              /\ f.chunks[k].id = "fmt " =>
                   f.chunks[k].format \in Formats /\ f.chunks[k].sub \in Nat
              /\ f.at[k + 1] = After(f.at[k], f.chunks[k])
         /\ \A j, k \in 1 .. Len(f.chunks) : f.at[j] = f.at[k] => j = k
<1>. DEFINE n == Len(f.chunks)
<1>1. f.chunks \in Seq(Chunks) /\ f.at \in [1 .. n + 1 -> Nat \cup {Nowhere}] /\ LaidOut(f)
      /\ f.length \in Nat
  BY WavAssumption
<1>2. n \in Nat /\ DOMAIN f.chunks = 1 .. n
  BY <1>1
<1>3. /\ f.at[1] = 12
      /\ \A k \in 1 .. n :
           f.at[k + 1] = IF 2 * f.chunks[k].size < SizeLimit
                         THEN f.at[k] + 8 + Padded(f.chunks[k].size)
                         ELSE After(f.at[k], f.chunks[k])
      /\ \A k \in 1 .. n : f.at[k] # Nowhere
      /\ \A j, k \in 1 .. n : f.at[j] = f.at[k] => j = k
  BY <1>1, Zenon DEF LaidOut, RiffBytes, HeaderBytes
<1>4. ASSUME NEW k \in 1 .. n
      PROVE  /\ f.chunks[k].size \in Nat
             /\ f.chunks[k].id = "fmt " =>
                  f.chunks[k].format \in Formats /\ f.chunks[k].sub \in Nat
  <2>1. f.chunks[k] \in Chunks
    BY <1>1, <1>2
  <2>2. ChunkSizes \subseteq Nat
    BY BlockAssumption DEF ChunkSizes
  <2>. QED BY <2>1, <2>2 DEF Chunks
<1>5. ASSUME NEW k \in 1 .. n PROVE f.at[k] \in Nat
  <2>1. k \in 1 .. n + 1
    BY <1>2
  <2>2. f.at[k] \in Nat \cup {Nowhere}
    BY <1>1, <2>1, Zenon
  <2>. QED BY <1>3, <2>2
<1>6. ASSUME NEW k \in 1 .. n PROVE f.at[k + 1] = After(f.at[k], f.chunks[k])
  BY <1>3, <1>4, <1>5, AfterForward, Zenon
<1>. QED BY <1>1, <1>2, <1>3, <1>4, <1>5, <1>6, Zenon

\* The walk reads the header of the chunk it is at.
LEMMA ChunkAt ==
  ASSUME WavOpen, ReaderSizes, wav = "walk", NEW k \in 1 .. Len(file.chunks) + 1,
         place = file.at[k],
         k = Len(file.chunks) + 1 => \A j \in 1 .. Len(file.chunks) : file.at[j] # place
  PROVE  /\ \A c \in Chunk :
              k \in 1 .. Len(file.chunks) /\ c = file.chunks[k] /\ place + 8 <= file.length
         /\ Chunk = {} /\ k \in 1 .. Len(file.chunks) => place + 8 > file.length
<1>1. file \in WavFiles
  BY DEF WavOpen
<1>2. PICK n \in Nat : n = Len(file.chunks)
  BY <1>1, Layout
<1>3. place \in Nat /\ file.length \in Nat
  BY <1>1, Layout DEF ReaderSizes, ReaderType
<1>4. Present(8) = 8 <=> place + 8 <= file.length
  BY <1>3 DEF Present, Least
<1>5. k \in 1 .. n \/ k = n + 1
  BY <1>2
<1>6. ASSUME NEW c \in Chunk
      PROVE  k \in 1 .. n /\ c = file.chunks[k] /\ place + 8 <= file.length
  <2>1. PICK j \in 1 .. n :
          c = file.chunks[j] /\ file.at[j] = place /\ Present(8) = 8
    BY <1>2, Zenon DEF Chunk, HeaderBytes
  <2>2. k \in 1 .. n
    BY <1>2, <1>5, <2>1
  <2>3. j = k
    BY <1>1, <1>2, <2>1, <2>2, Layout, Zenon
  <2>. QED BY <1>4, <2>1, <2>2, <2>3
<1>7. ASSUME Chunk = {}, k \in 1 .. n PROVE place + 8 > file.length
  <2>1. Present(8) = 8 => file.chunks[k] \in Chunk
    BY <1>2, <1>7, Zenon DEF Chunk, HeaderBytes
  <2>. QED BY <1>3, <1>4, <1>7, <2>1
<1>. QED BY <1>2, <1>6, <1>7

\* The file stays the same from one open to the close.
LEMMA WavOpenStep == WavOpen /\ ReaderAction => WavOpen'
<1> SUFFICES ASSUME WavOpen, ReaderAction PROVE WavOpen'
  OBVIOUS
<1>1. ASSUME NEW f \in WavFiles, OpenWav(f) PROVE WavOpen'
  BY <1>1 DEF OpenWav, WavOpen
<1>2. CASE ReaderStep \/ ReadFails
  BY <1>2, ReaderPlaces DEF WavOpen
<1>3. CASE /\ wav \in {"open", "write"} /\ wav' = "read"
           /\ UNCHANGED <<file, place, format, found, remaining, locals, missed>>
  BY <1>3 DEF WavOpen
<1>4. CASE CloseWav
  BY <1>4 DEF CloseWav, WavOpen
<1>5. CASE UNCHANGED reader
  BY <1>5 DEF reader, WavOpen
<1>. QED BY <1>1, <1>2, <1>3, <1>4, <1>5 DEF ReaderAction

\* What is up to k is before k, or k.
LEMMA UpTo ==
  ASSUME NEW n \in Nat, NEW k \in 1 .. n
  PROVE  /\ k \in Nat /\ (k + 1) - 1 = k /\ k \in 1 .. k
         /\ \A j \in 1 .. k : j \in 1 .. k - 1 \/ j = k
         /\ \A j \in k + 1 .. k : FALSE
         /\ \A m \in 1 .. k - 1 :
              m \in 1 .. k /\ \A j \in m + 1 .. k : j \in m + 1 .. k - 1 \/ j = k
OBVIOUS

\* The walk goes on from chunk to chunk.
LEMMA WalkOn ==
  ASSUME NEW f \in WavFiles, NEW n \in Nat, n = Len(f.chunks), NEW k \in 1 .. n,
         NEW has \in BOOLEAN, NEW fmt,
         WalkAt(f, k, f.at[k], has, fmt), Passed(f, k),
         NEW has2 \in BOOLEAN, NEW fmt2,
         \/ f.chunks[k].id = "fmt " /\ has2 = TRUE /\ fmt2 = Said(f, k)
         \/ f.chunks[k].id # "fmt " /\ has2 = has /\ fmt2 = fmt
  PROVE  WalkAt(f, k + 1, f.at[k + 1], has2, fmt2)
<1>2. k \in Nat /\ (k + 1) - 1 = k /\ k \in 1 .. k
  BY UpTo, Zenon
<1>4. \A j \in 1 .. k : j \in 1 .. k - 1 \/ j = k
  BY UpTo, Zenon
<1>5. \A j \in 1 .. k : Passed(f, j)
  BY <1>4, Zenon DEF WalkAt
<1>6. ASSUME has2 PROVE \E m \in 1 .. k : LastFormat(f, m, k + 1) /\ fmt2 = Said(f, m)
  <2>1. CASE f.chunks[k].id = "fmt "
    <3>1. k \in 1 .. k /\ \A j \in k + 1 .. k : FALSE
      BY UpTo, Zenon
    <3>2. LastFormat(f, k, k + 1)
      BY <1>2, <2>1, <3>1, Zenon DEF LastFormat
    <3>. QED BY <2>1, <3>1, <3>2
  <2>2. CASE f.chunks[k].id # "fmt "
    <3>1. has2 = has /\ fmt2 = fmt
      BY <2>2, Zenon
    <3>2. PICK m \in 1 .. k - 1 : LastFormat(f, m, k) /\ fmt = Said(f, m)
      BY <1>6, <3>1, Zenon DEF WalkAt
    <3>3. m \in 1 .. k /\ \A j \in m + 1 .. k : j \in m + 1 .. k - 1 \/ j = k
      BY UpTo, Zenon
    <3>4. LastFormat(f, m, k + 1)
      BY <1>2, <2>2, <3>2, <3>3, Zenon DEF LastFormat
    <3>. QED BY <3>1, <3>2, <3>3, <3>4, Zenon
  <2>. QED BY <2>1, <2>2, Zenon
<1>7. ASSUME ~has2, NEW j \in 1 .. k PROVE f.chunks[j].id # "fmt "
  <2>1. f.chunks[k].id # "fmt " /\ ~has
    BY <1>7, Zenon
  <2>. QED BY <1>4, <2>1, Zenon DEF WalkAt
<1>. QED BY <1>2, <1>5, <1>6, <1>7, Zenon DEF WalkAt

\* Behind the last chunk the walk has ended, or it is back at one of them.
LEMMA WalkTo ==
  ASSUME NEW f \in WavFiles, NEW n \in Nat, n = Len(f.chunks), NEW k \in 1 .. n,
         NEW has, NEW fmt, WalkAt(f, k + 1, f.at[k + 1], has, fmt) \/ AllPassed(f)
  PROVE  \E i \in 1 .. n + 1 : OnChunk(f, i, f.at[k + 1], has, fmt)
<1>1. k + 1 \in 1 .. n + 1
  OBVIOUS
<1>2. CASE k + 1 # n + 1
  BY <1>1, <1>2, Zenon DEF OnChunk
<1>3. CASE k + 1 = n + 1 /\ \A j \in 1 .. n : f.at[j] # f.at[k + 1]
  BY <1>1, <1>3, Zenon DEF OnChunk
<1>4. ASSUME k + 1 = n + 1, NEW j \in 1 .. n, f.at[j] = f.at[k + 1]
      PROVE  OnChunk(f, j, f.at[k + 1], has, fmt) /\ j \in 1 .. n + 1
  <2>1. j # n + 1 /\ j \in 1 .. n + 1
    OBVIOUS
  <2>2. WalkAt(f, n + 1, f.at[k + 1], has, fmt) => AllPassed(f)
    <3>1. (n + 1) - 1 = n
      OBVIOUS
    <3>. QED BY <3>1, Zenon DEF WalkAt, AllPassed
  <2>3. AllPassed(f)
    BY <1>4, <2>2, Zenon
  <2>. QED BY <1>4, <2>1, <2>3, Zenon DEF OnChunk
<1>. QED BY <1>2, <1>3, <1>4, Zenon

\* Every step keeps the walk on its way.
LEMMA OnWayStep == WavOpen /\ ReaderSizes /\ OnWay /\ ReaderAction => OnWay'
<1> SUFFICES ASSUME WavOpen, ReaderSizes, OnWay, ReaderAction, wav' = "walk"
             PROVE  \E k \in 1 .. Len(file'.chunks) + 1 : OnChunk(file', k, place', found', format')
  BY Zenon DEF OnWay
<1>1. ASSUME NEW f \in WavFiles, OpenWav(f)
      PROVE  \E k \in 1 .. Len(file'.chunks) + 1 : OnChunk(file', k, place', found', format')
  <2>1. file' = f /\ place' = 12 /\ found' = FALSE
    BY <1>1 DEF OpenWav, RiffBytes
  <2>2. PICK n \in Nat : n = Len(f.chunks)
    BY Layout
  <2>3. f.at[1] = 12 /\ 1 \in 1 .. n + 1
    <3>1. 1 \in 1 .. n + 1
      OBVIOUS
    <3>. QED BY <3>1, Layout, Zenon
  <2>4. \A j \in 1 .. 1 - 1 : FALSE
    OBVIOUS
  <2>5. WalkAt(f, 1, 12, FALSE, format')
    BY <2>3, <2>4, Zenon DEF WalkAt
  <2>6. 1 = n + 1 => \A j \in 1 .. n : FALSE
    OBVIOUS
  <2>7. OnChunk(f, 1, 12, FALSE, format')
    BY <2>2, <2>3, <2>5, <2>6, Zenon DEF OnChunk
  <2>. QED BY <2>1, <2>2, <2>3, <2>7, Zenon
<1>2. CASE ReadFormat \/ SkipChunk
  <2>1. PICK c \in Chunk :
          \/ /\ c.id = "fmt " /\ GoodFormat(c) /\ found' = TRUE
             /\ format' = [c.format EXCEPT !.tag = TagOf(c)]
             /\ place' = NextPlace(c) /\ UNCHANGED file
          \/ /\ c.id \notin {"fmt ", "data"} /\ place' = NextPlace(c)
             /\ UNCHANGED <<file, format, found>>
    BY <1>2, Zenon DEF ReadFormat, SkipChunk
  <2>2. wav = "walk"
    BY <2>1, Zenon DEF Chunk
  <2>3. file \in WavFiles
    BY <2>2 DEF WavOpen
  <2>4. PICK k \in 1 .. Len(file.chunks) + 1 : OnChunk(file, k, place, found, format)
    BY <2>2 DEF OnWay
  <2>5. place = file.at[k]
    BY <2>4, Zenon DEF OnChunk
  <2>6. k \in 1 .. Len(file.chunks) /\ c = file.chunks[k] /\ place + 8 <= file.length
    BY <2>1, <2>2, <2>4, ChunkAt, Zenon DEF OnChunk
  <2>7. found \in BOOLEAN /\ found' \in BOOLEAN
    BY <2>1 DEF ReaderSizes, ReaderType
  <2>8. place' = file.at[k + 1]
    BY <2>1, <2>3, <2>5, <2>6, Layout, Zenon DEF NextPlace
  <2>9. \/ file.chunks[k].id = "fmt " /\ found' = TRUE /\ format' = Said(file, k)
        \/ file.chunks[k].id # "fmt " /\ found' = found /\ format' = format
    <3>1. CASE c.id = "fmt "
      BY <2>1, <2>6, <3>1, Zenon DEF Said
    <3>2. CASE c.id # "fmt "
      BY <2>1, <2>6, <3>2, Zenon
    <3>. QED BY <3>1, <3>2
  <2>10. Passed(file, k)
    <3>1. c.id # "data" /\ (c.id = "fmt " => GoodFormat(c))
      BY <2>1
    <3>. QED BY <2>5, <2>6, <3>1, Zenon DEF Passed, GoodFormat, HeaderBytes
  <2>11. PICK n \in Nat : n = Len(file.chunks)
    BY <2>3, Layout
  <2>12. WalkAt(file, k + 1, place', found', format') \/ AllPassed(file)
    <3>1. WalkAt(file, k, file.at[k], found, format) \/ AllPassed(file)
      BY <2>4, <2>5, Zenon DEF OnChunk
    <3>. QED BY <2>3, <2>6, <2>7, <2>8, <2>9, <2>10, <2>11, <3>1, WalkOn, Zenon
  <2>13. \E i \in 1 .. n + 1 : OnChunk(file, i, place', found', format')
    BY <2>3, <2>6, <2>8, <2>11, <2>12, WalkTo, Zenon
  <2>. QED BY <2>1, <2>11, <2>13, Zenon
<1>3. ASSUME ReaderStep \/ ReadFails, ~(ReadFormat \/ SkipChunk) PROVE FALSE
  <2>1. ASSUME NEW y, Receive16(y) \/ ReceiveBlock(y) PROVE FALSE
    BY <2>1 DEF Receive16, ReceiveBlock
  <2>2. ~(EnterData \/ Refuse \/ WalkFails \/ BeginBlocks \/ EndBlocks)
    BY DEF EnterData, Refuse, WalkFails, BeginBlocks, EndBlocks
  <2>. QED BY <1>3, <2>1, <2>2, Zenon DEF ReaderStep, ReadFails, Read16, ShortRead16,
         ReadBlock, ShortBlock
<1>4. CASE UNCHANGED reader
  BY <1>4, Zenon DEF OnWay, reader
<1>5. ASSUME CloseWav \/ wav' = "read" PROVE FALSE
  BY <1>5 DEF CloseWav
<1>. QED BY <1>1, <1>2, <1>3, <1>4, <1>5, Zenon DEF ReaderAction

\* Why the walk gives up at chunk k, at position a of a file of l bytes.
NoChunk(f, n, k, a, l) == k \in 1 .. n => a + 8 > l
BadFormat(f, n, k, a, l) ==
  /\ k \in 1 .. n /\ f.chunks[k].id = "fmt "
  /\ f.chunks[k].size >= 16 => a + 8 + Least(f.chunks[k].size, 40) > l
NoWayOn(f, n, k) == k \in 1 .. n /\ f.chunks[k].id # "data" /\ f.at[k + 1] = -1
BadData(f, n, k, has, fmt) ==
  k \in 1 .. n /\ f.chunks[k].id = "data" /\ ~(has /\ Supported(fmt))
GivesUp(f, n, k, a, l, has, fmt) ==
  \/ NoChunk(f, n, k, a, l)
  \/ BadFormat(f, n, k, a, l)
  \/ NoWayOn(f, n, k)
  \/ BadData(f, n, k, has, fmt)

LEMMA NotBeyond ==
  \A a, l, s \in Nat : ~(a + 8 + Least(s, 40) <= l /\ a + 8 + Least(s, 40) > l)
BY DEF Least

\* Where it does, the file has nothing to offer.
LEMMA NothingOffered ==
  ASSUME NEW f \in WavFiles, NEW n \in Nat, n = Len(f.chunks), NEW k \in 1 .. n + 1,
         NEW has \in BOOLEAN, NEW fmt, NEW a \in Nat, NEW l \in Nat, a = f.at[k], l = f.length,
         WalkAt(f, k, a, has, fmt) \/ AllPassed(f),
         GivesUp(f, n, k, a, l, has, fmt),
         NEW j \in 1 .. n, NEW m \in 1 .. j - 1, Offers(f, j, m)
  PROVE  FALSE
<1>1. f.chunks[j].id = "data" /\ f.at[j] + 8 <= l /\ LastFormat(f, m, j)
      /\ Supported(Said(f, m))
      /\ \A i \in 1 .. j - 1 : Passed(f, i)
  BY Zenon DEF Offers, HeaderBytes, Said
<1>2. WalkAt(f, k, a, has, fmt)
  BY <1>1, Zenon DEF AllPassed, Passed
<1>3. k <= j
  <2>1. j < k => j \in 1 .. k - 1
    OBVIOUS
  <2>2. ~(j < k)
    BY <1>1, <1>2, <2>1, Zenon DEF WalkAt, Passed
  <2>. QED BY <2>2
<1>4. k \in 1 .. n /\ (k = j \/ k \in 1 .. j - 1)
  BY <1>3
<1>5. ASSUME k # j
      PROVE  /\ a + 8 <= l /\ f.chunks[k].id # "data"
             /\ f.chunks[k].id = "fmt " =>
                  f.chunks[k].size >= 16 /\ a + 8 + Least(f.chunks[k].size, 40) <= l
  BY <1>1, <1>4, <1>5, Zenon DEF Passed, HeaderBytes, MinFormatBytes, FormatBytes
<1>6. CASE NoChunk(f, n, k, a, l)
  <2>1. a + 8 <= l
    BY <1>1, <1>5
  <2>. QED BY <1>4, <1>6, <2>1 DEF NoChunk
<1>7. CASE BadFormat(f, n, k, a, l)
  <2>1. k # j
    BY <1>1, <1>7, Zenon DEF BadFormat
  <2>2. f.chunks[k].size >= 16 /\ a + 8 + Least(f.chunks[k].size, 40) <= l
    BY <1>5, <1>7, <2>1, Zenon DEF BadFormat
  <2>3. a + 8 + Least(f.chunks[k].size, 40) > l
    BY <1>7, <2>2, Zenon DEF BadFormat
  <2>4. f.chunks[k].size \in Nat
    BY <1>4, Layout, Zenon
  <2>. QED BY <2>2, <2>3, <2>4, NotBeyond, Zenon
<1>8. CASE NoWayOn(f, n, k)
  <2>1. k # j
    BY <1>1, <1>8, Zenon DEF NoWayOn
  <2>2. k + 1 \in 1 .. n
    BY <1>4, <2>1
  <2>3. f.at[k + 1] \in Nat
    BY <2>2, Layout, Zenon
  <2>. QED BY <1>8, <2>3 DEF NoWayOn
<1>9. CASE BadData(f, n, k, has, fmt)
  <2>1. k = j
    BY <1>5, <1>9, Zenon DEF BadData
  <2>2. f.chunks[m].id = "fmt "
    BY <1>1, Zenon DEF LastFormat
  <2>3. has
    BY <1>2, <2>1, <2>2, Zenon DEF WalkAt
  <2>4. PICK i \in 1 .. j - 1 : LastFormat(f, i, j) /\ fmt = Said(f, i)
    BY <1>2, <2>1, <2>3, Zenon DEF WalkAt
  <2>5. i = m
    <3>1. i < m => m \in i + 1 .. j - 1
      OBVIOUS
    <3>2. m < i => i \in m + 1 .. j - 1
      OBVIOUS
    <3>3. ~(i < m) /\ ~(m < i)
      BY <1>1, <2>4, <3>1, <3>2, Zenon DEF LastFormat
    <3>. QED BY <3>3
  <2>. QED BY <1>1, <1>9, <2>3, <2>4, <2>5, Zenon DEF BadData
<1>. QED BY <1>6, <1>7, <1>8, <1>9, Zenon DEF GivesUp

\* A file is refused only if there is nothing in it to be played.
LEMMA RefusedStep == WavOpen /\ ReaderSizes /\ OnWay /\ Refused /\ ReaderAction => Refused'
<1> SUFFICES ASSUME WavOpen, ReaderSizes, OnWay, Refused, ReaderAction, wav' = "refused",
                    ~missed', Playable(file')
             PROVE  FALSE
  BY Zenon DEF Refused
<1>1. PICK j \in DOMAIN file'.chunks : \E m \in 1 .. j - 1 : Offers(file', j, m)
  BY Zenon DEF Playable
<1>2. PICK m \in 1 .. j - 1 : Offers(file', j, m)
  BY <1>1
<1>3. ASSUME NEW f \in WavFiles, OpenWav(f) PROVE FALSE
  <2>1. file' = f /\ f.length < 12
    BY <1>3 DEF OpenWav, RiffBytes
  <2>2. PICK n \in Nat : n = Len(f.chunks)
    BY Layout
  <2>3. j \in 1 .. n /\ f.at[j] + 8 <= f.length /\ \A i \in 1 .. j - 1 : Passed(f, i)
    BY <1>2, <2>1, <2>2, Layout, Zenon DEF Offers, HeaderBytes
  <2>4. PICK l \in Nat : l = f.length
    BY Layout
  <2>5. f.at[1] = 12 /\ (j # 1 => 1 \in 1 .. j - 1)
    <3>1. j # 1 => 1 \in 1 .. j - 1
      BY <2>3
    <3>. QED BY <3>1, Layout, Zenon
  <2>6. 12 + 8 <= l
    BY <2>3, <2>4, <2>5, Zenon DEF Passed, HeaderBytes
  <2>7. l < 12
    BY <2>1, <2>4
  <2>. QED BY <2>6, <2>7
<1>4. CASE Refuse
  <2>1. wav = "walk" /\ file' = file
    BY <1>4, Zenon DEF Refuse
  <2>2. file \in WavFiles
    BY <2>1 DEF WavOpen
  <2>3. PICK n \in Nat : n = Len(file.chunks)
    BY <2>2, Layout
  <2>4. PICK k \in 1 .. n + 1 : OnChunk(file, k, place, found, format)
    BY <2>1, <2>3, Zenon DEF OnWay
  <2>5. place = file.at[k]
        /\ (k = Len(file.chunks) + 1 => \A i \in 1 .. Len(file.chunks) : file.at[i] # place)
        /\ (WalkAt(file, k, place, found, format) \/ AllPassed(file))
    BY <2>4, Zenon DEF OnChunk
  <2>6. place \in Nat /\ file.length \in Nat /\ found \in BOOLEAN
    BY <2>2, Layout, Zenon DEF ReaderSizes, ReaderType
  <2>7. GivesUp(file, n, k, place, file.length, found, format)
    <3>1. CASE Chunk = {}
      BY <2>1, <2>3, <2>5, <3>1, ChunkAt, Zenon DEF GivesUp, NoChunk
    <3>2. ASSUME NEW c \in Chunk,
                 \/ c.id = "fmt " /\ ~GoodFormat(c)
                 \/ c.id # "data" /\ NextPlace(c) = Nowhere
                 \/ c.id = "data" /\ ~(found /\ Supported(format))
          PROVE  GivesUp(file, n, k, place, file.length, found, format)
      <4>1. k \in 1 .. n /\ c = file.chunks[k]
        BY <2>1, <2>3, <2>5, ChunkAt, Zenon
      <4>2. c.size \in Nat
        BY <2>2, <2>3, <4>1, Layout, Zenon
      <4>3. Least(c.size, 40) \in Nat
        BY <4>2 DEF Least
      <4>4. ~GoodFormat(c) => (c.size >= 16 => place + 8 + Least(c.size, 40) > file.length)
        BY <2>6, <4>2, <4>3 DEF GoodFormat, MinFormatBytes, HeaderBytes, FormatBytes
      <4>5. CASE c.id = "fmt " /\ ~GoodFormat(c)
        <5>1. file.chunks[k].id = "fmt "
              /\ (file.chunks[k].size >= 16
                    => place + 8 + Least(file.chunks[k].size, 40) > file.length)
          BY <4>1, <4>4, <4>5, Zenon
        <5>. QED BY <4>1, <5>1, Zenon DEF GivesUp, BadFormat
      <4>6. CASE c.id # "data" /\ NextPlace(c) = Nowhere
        <5>1. file.at[k + 1] = -1
          BY <2>2, <2>3, <2>5, <4>1, <4>6, Layout, Zenon DEF NextPlace, Nowhere
        <5>. QED BY <4>1, <4>6, <5>1, Zenon DEF GivesUp, NoWayOn
      <4>7. CASE c.id = "data" /\ ~(found /\ Supported(format))
        BY <4>1, <4>7, Zenon DEF GivesUp, BadData
      <4>. QED BY <3>2, <4>5, <4>6, <4>7, Zenon
    <3>3. \/ Chunk = {}
          \/ \E c \in Chunk :
               \/ c.id = "fmt " /\ ~GoodFormat(c)
               \/ c.id # "data" /\ NextPlace(c) = Nowhere
               \/ c.id = "data" /\ ~(found /\ Supported(format))
      BY <1>4, Zenon DEF Refuse
    <3>. QED BY <3>1, <3>2, <3>3, Zenon
  <2>8. j \in 1 .. n /\ Offers(file, j, m)
    BY <1>2, <2>1, <2>2, <2>3, Layout, Zenon
  <2>. QED BY <2>2, <2>3, <2>5, <2>6, <2>7, <2>8, NothingOffered, Zenon
<1>5. ASSUME ReaderStep \/ ReadFails, ~Refuse PROVE FALSE
  <2>1. ASSUME NEW y, Receive16(y) \/ ReceiveBlock(y) PROVE FALSE
    BY <2>1 DEF Receive16, ReceiveBlock
  <2>2. ~(ReadFormat \/ SkipChunk)
    BY DEF ReadFormat, SkipChunk, Chunk
  <2>3. ~(EnterData \/ WalkFails \/ BeginBlocks \/ EndBlocks)
    BY DEF EnterData, WalkFails, BeginBlocks, EndBlocks
  <2>. QED BY <1>5, <2>1, <2>2, <2>3, Zenon DEF ReaderStep, ReadFails, Read16, ShortRead16,
         ReadBlock, ShortBlock
<1>6. CASE UNCHANGED reader
  BY <1>6, <1>1, Zenon DEF Refused, reader
<1>7. ASSUME CloseWav \/ wav' = "read" PROVE FALSE
  BY <1>7 DEF CloseWav
<1>. QED BY <1>3, <1>4, <1>5, <1>6, <1>7, Zenon DEF ReaderAction

-----------------------------------------------------------------------------
(***************************************************************************)
(* What wav_decoder_read takes from samples that begin D bytes into a file *)
(* of L bytes, S bytes of them, b bytes each: the numbers.                 *)
(***************************************************************************)

\* q samples are taken, and position and rest agree with it.
Exact(D, S, L, b, q, p, r) == p = D + q * b /\ r = S - q * b /\ p <= L

\* Whole samples that the file holds.
Total(D, S, L, b) == Least(S, L - D) \div b

\* There is no further whole sample.
Spent(L, b, p, r) == p >= L \/ r < b

\* Bytes of the file behind position p.
Held(L, p) == IF p >= L THEN 0 ELSE L - p

\* What there is of n bytes at position p.
Bytes(L, p, n) == Least(n, Held(L, p))

Widths == {1, 2, 3, 4}
Channels == {1, 2}

\* Samples are up to four bytes wide, and in one or two channels.
LEMMA WidthOf ==
  ASSUME NEW f \in Formats, Supported(f)
  PROVE  /\ f.bits \div 8 \in Widths /\ (f.bits = 16 <=> f.bits \div 8 = 2)
         /\ f.channels \in Channels
BY DEF Formats, Supported, Widths, Channels

\* Quotients by a width.
LEMMA Quotient ==
  ASSUME NEW b \in Widths, NEW n \in Nat, NEW x \in Nat
  PROVE  /\ x \div b \in Nat /\ (x \div b) * b <= x /\ x < (x \div b) * b + b
         /\ n * b \in Nat /\ (n * b) \div b = n
         /\ n * b <= x /\ x < n * b + b => x \div b = n
         /\ x <= n * b => x \div b <= n
BY DEF Widths

\* What is left of a file is a number of bytes.
LEMMA HeldNumber == \A L, p \in Nat : Held(L, p) \in Nat
BY DEF Held

\* A read of s samples behind the first q has ended at position p with r bytes left:
\* it was full, or it was the last.
ReadEnds(D, S, L, b, q, s, p, r) ==
  \/ s = BufferSamples /\ Exact(D, S, L, b, q + BufferSamples, p, r)
  \/ Total(D, S, L, b) = q + s /\ Spent(L, b, p, r)

\* What a read of 16 bits gives.
Bytes16(L, p, r) ==
  Bytes(L, p, Least(2 * BufferSamples, r) - (Least(2 * BufferSamples, r) % 2))

\* What such a read gives, in numbers.
LEMMA Read16Numbers ==
  ASSUME NEW L \in Nat, NEW p \in Nat, NEW r \in Nat, NEW x, x = Bytes16(L, p, r)
  PROVE  /\ x \in Nat /\ x <= r /\ x \div 2 \in 0 .. BufferSamples
         /\ Spent(L, 2, p, r) => x = 0
<1>1. PICK B \in Nat : B = BufferSamples
  BY BlockAssumption
<1>2. PICK y \in Nat : y = Least(2 * B, r) - (Least(2 * B, r) % 2)
  BY DEF Least
<1>3. y <= r /\ y <= 2 * B /\ y % 2 = 0
  BY <1>2 DEF Least
<1>4. PICK h \in Nat : h = Held(L, p)
  BY HeldNumber, Zenon
<1>5. x = Least(y, h)
  BY <1>1, <1>2, <1>4, Zenon DEF Bytes16, Bytes
<1>6. x \in Nat /\ x <= y /\ x <= h
  BY <1>5 DEF Least
<1>7. x \div 2 \in 0 .. B
  BY <1>3, <1>6
<1>8. Spent(L, 2, p, r) => x = 0
  BY <1>3, <1>4, <1>6 DEF Spent, Held
<1>. QED BY <1>1, <1>3, <1>6, <1>7, <1>8

\* Where it ends.
LEMMA Read16Ends ==
  ASSUME NEW D \in Nat, NEW S \in Nat, NEW L \in Nat, NEW q \in Nat, NEW p \in Nat,
         NEW r \in Nat, Exact(D, S, L, 2, q, p, r), NEW x, x = Bytes16(L, p, r)
  PROVE  ReadEnds(D, S, L, 2, q, x \div 2, p + x, r - x)
<1>0. PICK B \in Nat : B = BufferSamples
  BY BlockAssumption
<1>1. PICK y \in Nat : y = Least(2 * B, r) - (Least(2 * B, r) % 2)
  BY DEF Least
<1>2. /\ y <= r /\ y <= 2 * B /\ y % 2 = 0
      /\ y = 2 * B \/ (y < 2 * B /\ r <= y + 1)
  BY <1>1 DEF Least
<1>3. PICK h \in Nat : h = Held(L, p)
  BY HeldNumber, Zenon
<1>4. x = Least(y, h)
  BY <1>0, <1>1, <1>3, Zenon DEF Bytes16, Bytes
<1>5. x \in Nat /\ x <= y /\ x <= h /\ (x = y \/ x = h)
  BY <1>4 DEF Least
<1>6. p = D + q * 2 /\ r = S - q * 2 /\ p <= L
  BY DEF Exact
<1>7. h = L - p
  BY <1>3, <1>6 DEF Held
<1>8. CASE x = 2 * B
  <2>1. x \div 2 = B
    BY <1>8
  <2>2. p + x = D + (q + B) * 2 /\ r - x = S - (q + B) * 2 /\ p + x <= L
    BY <1>5, <1>6, <1>7, <1>8
  <2>. QED BY <1>0, <2>1, <2>2, Zenon DEF ReadEnds, Exact
<1>9. CASE x # 2 * B
  <2>1. x = h \/ (x = y /\ r <= y + 1)
    BY <1>2, <1>5, <1>9
  <2>2. Spent(L, 2, p + x, r - x)
    BY <1>2, <1>5, <1>6, <1>7, <2>1 DEF Spent
  <2>3. Least(S, L - D) = q * 2 + Least(r, h)
    BY <1>6, <1>7 DEF Least
  <2>4. Least(r, h) \in Nat /\ Least(r, h) \div 2 = x \div 2
    BY <1>2, <1>5, <2>1 DEF Least
  <2>5. \A a \in Nat : (q * 2 + a) \div 2 = q + a \div 2
    OBVIOUS
  <2>6. Total(D, S, L, 2) = q + x \div 2
    BY <2>3, <2>4, <2>5 DEF Total
  <2>. QED BY <2>2, <2>6, Zenon DEF ReadEnds
<1>. QED BY <1>8, <1>9

\* A block of n samples in a read of w samples, of which c are converted.
InRead(b, n, r, w, c) == n # 0 /\ w * b <= r /\ c + n <= w

\* Of it y bytes are there, at position p of a file of L bytes.
BlockRead(b, n, r, w, c, L, p, y) ==
  /\ y \in Nat /\ y <= Held(L, p) /\ y \div b \in Nat /\ c + y \div b <= w
  /\ y < n * b \/ (y = n * b /\ y \div b = n)
  /\ y < n * b => y = Held(L, p)
  /\ r - (c + y \div b) * b \in Nat
  /\ p >= L => y = 0 /\ y < n * b

\* Samples that are in such a part.
LEMMA PartNumbers ==
  ASSUME NEW b \in Widths, NEW n \in Nat, NEW r \in Nat, NEW w \in Nat, NEW c \in Nat,
         InRead(b, n, r, w, c), NEW y \in Nat, y <= n * b
  PROVE  y \div b \in Nat /\ c + y \div b <= w /\ r - (c + y \div b) * b \in Nat
<1>. USE DEF InRead
<1>1. y \div b \in Nat /\ y \div b <= n
  BY Quotient
<1>2. PICK z \in Nat : z = y \div b
  BY <1>1
<1>3. c + z <= w /\ z <= n
  BY <1>1, <1>2
<1>4. (c + z) * b <= w * b /\ (c + z) * b \in Nat /\ w * b \in Nat
  BY <1>3 DEF Widths
<1>5. r - (c + z) * b \in Nat
  BY <1>4
<1>. QED BY <1>2, <1>3, <1>5

\* What fread gives of a block is such a part.
LEMMA BlockNumbers ==
  ASSUME NEW b \in Widths, NEW n \in Nat, NEW r \in Nat, NEW w \in Nat, NEW c \in Nat,
         InRead(b, n, r, w, c), NEW L \in Nat, NEW p \in Nat, NEW y, y = Bytes(L, p, n * b)
  PROVE  BlockRead(b, n, r, w, c, L, p, y)
<1>. USE DEF InRead
<1>0. PICK h \in Nat : h = Held(L, p)
  BY HeldNumber, Zenon
<1>1. n * b \in Nat /\ b <= n * b /\ b \in 1 .. 4
  BY DEF Widths
<1>2. y \in Nat /\ y <= n * b /\ y <= h /\ (y < n * b => y = h)
  BY <1>0, <1>1 DEF Least, Bytes
<1>3. y = n * b => y \div b = n
  BY <1>2, Quotient
<1>4. y \div b \in Nat /\ c + y \div b <= w /\ r - (c + y \div b) * b \in Nat
  BY <1>2, PartNumbers, Zenon
<1>5. p >= L => y = 0 /\ y < n * b
  BY <1>0, <1>1, <1>2 DEF Held
<1>6. y < n * b \/ y = n * b
  BY <1>1, <1>2
<1>. QED BY <1>0, <1>2, <1>3, <1>4, <1>5, <1>6, Zenon DEF BlockRead

\* A block that is wholly there.
LEMMA BlockFull ==
  ASSUME NEW b \in Widths, NEW n \in Nat, NEW D \in Nat, NEW S \in Nat, NEW L \in Nat,
         NEW q \in Nat, NEW p \in Nat, n * b <= Held(L, p), Exact(D, S, L, b, q, p, S - q * b)
  PROVE  Exact(D, S, L, b, q + n, p + n * b, S - (q + n) * b)
<1>1. (q + n) * b = q * b + n * b /\ q * b \in Nat /\ n * b \in Nat
  BY DEF Widths
<1>. QED BY <1>1 DEF Exact, Held

\* A block that is cut off by the end of the file.
LEMMA BlockShort ==
  ASSUME NEW b \in Widths, NEW n \in Nat, NEW D \in Nat, NEW S \in Nat, NEW L \in Nat,
         NEW q \in Nat, NEW c \in Nat, NEW w \in Nat, NEW p \in Nat, NEW r \in Nat,
         InRead(b, n, r, w, c), NEW y \in Nat, y = Held(L, p), y < n * b,
         Exact(D, S, L, b, q + c, p, S - (q + c) * b), r = S - q * b
  PROVE  \A rr : ReadEnds(D, S, L, b, q, c + y \div b, p + y, rr)
<1>1. p = D + (q + c) * b /\ p <= L /\ p + y = L
  BY DEF Exact, Held
<1>2. (q + c) * b = q * b + c * b /\ q * b \in Nat /\ c * b \in Nat /\ n * b \in Nat
      /\ (q + c) * b \in Nat
  BY DEF Widths
<1>3. /\ w * b >= (c + n) * b /\ (c + n) * b = c * b + n * b
      /\ w * b \in Nat /\ w * b <= r
  BY DEF Widths, InRead
<1>4. S > L - D /\ L - D = (q + c) * b + y
  BY <1>1, <1>2, <1>3
<1>5. Least(S, L - D) = (q + c) * b + y
  BY <1>2, <1>4 DEF Least
<1>6. PICK z \in Nat : z = y \div b /\ z * b <= y /\ y < z * b + b
  BY Quotient
<1>7. (q + (c + z)) * b = (q + c) * b + z * b /\ z * b \in Nat
  BY DEF Widths
<1>8. PICK x \in Nat : x = (q + c) * b + y
  BY <1>2
<1>9. (q + (c + z)) * b <= x /\ x < (q + (c + z)) * b + b /\ q + (c + z) \in Nat
  BY <1>2, <1>6, <1>7, <1>8 DEF Widths
<1>10. x \div b = q + (c + z)
  BY <1>9, Quotient
<1>11. Total(D, S, L, b) = q + (c + y \div b)
  BY <1>5, <1>6, <1>8, <1>10 DEF Total
<1>12. p + y >= L
  BY <1>1
<1>. QED BY <1>11, <1>12, Zenon DEF ReadEnds, Spent

\* A read of all w samples that are wanted.
LEMMA WantedNumbers ==
  ASSUME NEW b \in Widths, NEW r \in Nat, NEW w, w = Least(BufferSamples, r \div b)
  PROVE  /\ w \in 0 .. BufferSamples /\ w * b <= r /\ r - w * b \in Nat
         /\ r < b => w = 0
<1>0. PICK B \in Nat : B = BufferSamples
  BY BlockAssumption
<1>1. PICK z \in Nat : z = r \div b /\ z * b <= r /\ r < z * b + b /\ z * b \in Nat
  BY Quotient
<1>2. w \in Nat /\ w <= z /\ w <= B /\ (w = B \/ w = z)
  BY <1>0, <1>1 DEF Least
<1>3. w * b <= z * b /\ w * b \in Nat
  BY <1>1, <1>2 DEF Widths
<1>4. r < b => w = 0
  <2>1. r < b => z = 0
    BY <1>1 DEF Widths
  <2>. QED BY <1>2, <2>1
<1>. QED BY <1>0, <1>1, <1>2, <1>3, <1>4

\* Where it ends.
LEMMA WantedRead ==
  ASSUME NEW b \in Widths, NEW r \in Nat, NEW w, w = Least(BufferSamples, r \div b),
         NEW D \in Nat, NEW S \in Nat, NEW L \in Nat, NEW q \in Nat, NEW p \in Nat,
         Exact(D, S, L, b, q + w, p, S - (q + w) * b), r = S - q * b
  PROVE  ReadEnds(D, S, L, b, q, w, p, r - w * b)
<1>0. PICK B \in Nat : B = BufferSamples
  BY BlockAssumption
<1>1. PICK z \in Nat : z = r \div b /\ z * b <= r /\ r < z * b + b /\ z * b \in Nat
  BY Quotient
<1>2. w \in Nat /\ w <= z /\ w <= B /\ (w = B \/ w = z)
  BY <1>0, <1>1 DEF Least
<1>3. w * b <= z * b /\ w * b \in Nat
  BY <1>1, <1>2 DEF Widths
<1>4. p = D + (q + w) * b /\ p <= L
  BY DEF Exact
<1>5. (q + w) * b = q * b + w * b /\ q * b \in Nat
  BY <1>2 DEF Widths
<1>6. CASE w = B
  <2>1. r - w * b = S - (q + B) * b
    BY <1>3, <1>5, <1>6
  <2>. QED BY <1>0, <1>4, <1>6, <2>1 DEF Exact, ReadEnds
<1>7. CASE w = z
  <2>1. r - w * b < b
    BY <1>1, <1>3, <1>7 DEF Widths
  <2>2. PICK x \in Nat : x = Least(S, L - D)
    <3>1. (q + w) * b \in Nat
      BY <1>3, <1>5
    <3>2. L - D \in Nat
      BY <1>4, <3>1
    <3>. QED BY <3>2 DEF Least
  <2>3. (q + w) * b <= x /\ x < (q + w) * b + b
    <3>1. S = q * b + r /\ b \in Nat
      BY <1>5 DEF Widths
    <3>2. (q + w) * b <= S /\ S < (q + w) * b + b
      BY <1>1, <1>3, <1>5, <1>7, <3>1
    <3>3. (q + w) * b <= L - D
      BY <1>3, <1>4, <1>5
    <3>. QED BY <1>3, <1>5, <2>2, <3>1, <3>2, <3>3 DEF Least
  <2>4. q + w \in Nat
    BY <1>2
  <2>5. x \div b = q + w
    BY <2>3, <2>4, Quotient
  <2>6. Total(D, S, L, b) = q + w
    BY <2>2, <2>5 DEF Total
  <2>. QED BY <2>1, <2>6, Zenon DEF ReadEnds, Spent
<1>. QED BY <1>2, <1>6, <1>7

\* All frames are given, n of them, and no whole sample is left.
Over(D, S, L, b, C, n, p, r) == n = Total(D, S, L, b) \div C /\ Spent(L, b, p, r)

\* Where the reads are when g frames in C channels are given: the reader at w, at
\* position p, r bytes left, "most" samples wanted in this read and c converted.
Taken(D, S, L, b, C, g, w, p, r, most, c) ==
  /\ w = "open" => Exact(D, S, L, b, 0, p, r)
  /\ w = "read" => Exact(D, S, L, b, g * C, p, r) \/ Over(D, S, L, b, C, g, p, r)
  /\ w = "block" =>
       \/ /\ Exact(D, S, L, b, g * C + c, p, S - (g * C + c) * b)
          /\ r = S - (g * C) * b
       \/ Over(D, S, L, b, C, g, p, r) /\ c = 0 /\ (most = 0 \/ p >= L)
  /\ w = "write" =>
       \/ c = BufferSamples /\ Exact(D, S, L, b, g * C + BufferSamples, p, r)
       \/ Over(D, S, L, b, C, g + c \div C, p, r)

\* Samples and frames.
LEMMA InFrames ==
  ASSUME NEW C \in Channels, NEW g \in Nat, NEW c \in Nat
  PROVE  /\ g * C \in Nat /\ 0 * C = 0 /\ c \div C \in Nat /\ (g * C + c) \div C = g + c \div C
         /\ g * C + BufferSamples = (g + BufferSamples \div C) * C
         /\ g + 0 \div C = g
<1>0. PICK k \in Nat : BufferSamples = 2 * k
  BY BlockAssumption
<1>1. CASE C = 1
  BY <1>0, <1>1
<1>2. CASE C = 2
  <2>1. PICK q \in Nat : q = c \div 2 /\ 2 * q <= c /\ c < 2 * q + 2
    OBVIOUS
  <2>2. (g * 2 + c) \div 2 = g + q
    BY <2>1
  <2>3. (2 * k) \div 2 = k /\ g * 2 + 2 * k = (g + k) * 2
    OBVIOUS
  <2>. QED BY <1>0, <1>2, <2>1, <2>2, <2>3
<1>. QED BY <1>1, <1>2 DEF Channels

\* A read that ends.
LEMMA TakeEnds ==
  ASSUME NEW D, NEW S, NEW L, NEW b, NEW C \in Channels, NEW g \in Nat, NEW s \in Nat, NEW p,
         NEW r, NEW w, ReadEnds(D, S, L, b, g * C, s, p, r)
  PROVE  Taken(D, S, L, b, C, g, "write", p, r, w, s)
<1>1. (g * C + s) \div C = g + s \div C
  BY InFrames, ZenonT(30)
<1>2. "write" # "open" /\ "write" # "read" /\ "write" # "block"
  OBVIOUS
<1>. QED BY <1>1, <1>2, Zenon DEF Taken, ReadEnds, Over

\* A read that gives nothing.
LEMMA TakeNothing ==
  ASSUME NEW D, NEW S, NEW L, NEW b, NEW C \in Channels, NEW g \in Nat, NEW p, NEW r, NEW w,
         Over(D, S, L, b, C, g, p, r)
  PROVE  Taken(D, S, L, b, C, g, "write", p, r, w, 0)
<1>1. g + 0 \div C = g
  BY InFrames, Zenon
<1>2. "write" # "open" /\ "write" # "read" /\ "write" # "block"
  OBVIOUS
<1>. QED BY <1>1, <1>2, Zenon DEF Taken

\* A read of 16 bits, from its beginning to its end.
LEMMA TakeRead16 ==
  ASSUME NEW D \in Nat, NEW S \in Nat, NEW L \in Nat, NEW C \in Channels, NEW g \in Nat,
         NEW p \in Nat, NEW r \in Nat, NEW m, NEW c, NEW mm,
         Taken(D, S, L, 2, C, g, "read", p, r, m, c), NEW x, x = Bytes16(L, p, r)
  PROVE  Taken(D, S, L, 2, C, g, "write", p + x, r - x, mm, x \div 2)
<1>1. g * C \in Nat
  BY InFrames, Zenon
<1>2. x \in Nat /\ x \div 2 \in 0 .. BufferSamples
  BY Read16Numbers, Zenon
<1>3. CASE Exact(D, S, L, 2, g * C, p, r)
  <2>1. ReadEnds(D, S, L, 2, g * C, x \div 2, p + x, r - x)
    BY <1>1, <1>3, Read16Ends, Zenon
  <2>2. x \div 2 \in Nat
    BY <1>2
  <2>. QED BY <2>1, <2>2, TakeEnds, Zenon
<1>4. CASE Over(D, S, L, 2, C, g, p, r)
  <2>1. x = 0
    BY <1>4, Read16Numbers, Zenon DEF Over
  <2>2. p + x = p /\ r - x = r /\ x \div 2 = 0
    BY <2>1
  <2>3. Taken(D, S, L, 2, C, g, "write", p, r, mm, 0)
    BY <1>4, TakeNothing, Zenon
  <2>. QED BY <2>2, <2>3, Zenon
<1>. QED BY <1>3, <1>4, Zenon DEF Taken

\* A read block by block begins,
LEMMA TakeBegin ==
  ASSUME NEW D \in Nat, NEW S \in Nat, NEW L \in Nat, NEW b \in Widths, NEW C \in Channels,
         NEW g \in Nat, NEW p \in Nat, NEW r \in Nat, NEW m, NEW c,
         Taken(D, S, L, b, C, g, "read", p, r, m, c),
         NEW w, w = Least(BufferSamples, r \div b)
  PROVE  Taken(D, S, L, b, C, g, "block", p, r, w, 0)
<1>1. g * C \in Nat
  BY InFrames, Zenon
<1>2. g * C + 0 = g * C
  BY <1>1
<1>3. "block" # "open" /\ "block" # "read" /\ "block" # "write"
  OBVIOUS
<1>4. CASE Exact(D, S, L, b, g * C, p, r)
  BY <1>2, <1>3, <1>4, Zenon DEF Taken, Exact
<1>5. CASE Over(D, S, L, b, C, g, p, r)
  <2>1. r < b => w = 0
    BY WantedNumbers, Zenon
  <2>. QED BY <1>3, <1>5, <2>1, Zenon DEF Taken, Over, Spent
<1>. QED BY <1>4, <1>5, Zenon DEF Taken

\* goes on, or is cut off by the end of the file,
LEMMA TakeBlock ==
  ASSUME NEW D \in Nat, NEW S \in Nat, NEW L \in Nat, NEW b \in Widths, NEW C \in Channels,
         NEW g \in Nat, NEW p \in Nat, NEW r \in Nat, NEW w \in Nat, NEW c \in Nat,
         NEW n \in Nat, InRead(b, n, r, w, c),
         Taken(D, S, L, b, C, g, "block", p, r, w, c),
         NEW y, y = Bytes(L, p, n * b)
  PROVE  /\ y < n * b =>
              Taken(D, S, L, b, C, g, "write", p + y, r - (c + y \div b) * b, w, c + y \div b)
         /\ ~(y < n * b) =>
              Taken(D, S, L, b, C, g, "block", p + y, r, w, c + y \div b)
<1>1. g * C \in Nat /\ n \in Nat
  BY InFrames, Zenon
<1>2. /\ y \in Nat /\ y <= Held(L, p) /\ y \div b \in Nat /\ c + y \div b <= w
      /\ y < n * b \/ (y = n * b /\ y \div b = n)
      /\ y < n * b => y = Held(L, p)
      /\ r - (c + y \div b) * b \in Nat
      /\ p >= L => y = 0 /\ y < n * b
  <2>1. BlockRead(b, n, r, w, c, L, p, y)
    BY BlockNumbers, Zenon
  <2>. QED BY <2>1, Zenon DEF BlockRead
<1>3. "block" # "open" /\ "block" # "read" /\ "block" # "write"
  OBVIOUS
<1>4. CASE /\ Exact(D, S, L, b, g * C + c, p, S - (g * C + c) * b)
           /\ r = S - (g * C) * b
  <2>1. ASSUME y < n * b
        PROVE  Taken(D, S, L, b, C, g, "write", p + y, r - (c + y \div b) * b, w, c + y \div b)
    <3>1. ReadEnds(D, S, L, b, g * C, c + y \div b, p + y, r - (c + y \div b) * b)
      BY <1>1, <1>2, <1>4, <2>1, BlockShort, Zenon
    <3>2. c + y \div b \in Nat
      <4>1. PICK z \in Nat : z = y \div b
        BY <1>2, Zenon
      <4>2. c + z \in Nat
        OBVIOUS
      <4>. QED BY <4>1, <4>2, Zenon
    <3>. QED BY <3>1, <3>2, TakeEnds, Zenon
  <2>2. ASSUME ~(y < n * b)
        PROVE  Taken(D, S, L, b, C, g, "block", p + y, r, w, c + y \div b)
    <3>1. y = n * b /\ y \div b = n
      BY <1>2, <2>2, Zenon
    <3>2. n * b <= Held(L, p)
      BY <1>2, <3>1, Zenon
    <3>3. PICK q \in Nat : q = g * C
      BY <1>1, Zenon
    <3>4. (q + c) + n = q + (c + n) /\ q + c \in Nat
      OBVIOUS
    <3>5. Exact(D, S, L, b, q + c, p, S - (q + c) * b)
      BY <1>4, <3>3, Zenon
    <3>6. Exact(D, S, L, b, (q + c) + n, p + n * b, S - ((q + c) + n) * b)
      BY <1>1, <3>2, <3>4, <3>5, BlockFull, Zenon
    <3>7. Exact(D, S, L, b, g * C + (c + n), p + n * b, S - (g * C + (c + n)) * b)
      BY <3>3, <3>4, <3>6, Zenon
    <3>8. Taken(D, S, L, b, C, g, "block", p + n * b, r, w, c + n)
      BY <1>3, <1>4, <3>7, Zenon DEF Taken
    <3>. QED BY <3>1, <3>8, Zenon
  <2>. QED BY <2>1, <2>2, Zenon
<1>5. CASE Over(D, S, L, b, C, g, p, r) /\ c = 0 /\ (w = 0 \/ p >= L)
  <2>1. p >= L
    <3>1. w # 0
      BY <1>5 DEF InRead
    <3>. QED BY <1>5, <3>1, Zenon
  <2>2. y = 0 /\ y < n * b
    BY <1>2, <2>1, Zenon
  <2>3. p + y = p /\ c + y \div b = 0 /\ r - (c + y \div b) * b = r
    BY <1>5, <2>2 DEF Widths
  <2>4. Taken(D, S, L, b, C, g, "write", p, r, w, 0)
    BY <1>5, TakeNothing, Zenon
  <2>. QED BY <2>2, <2>3, <2>4, Zenon
<1>. QED BY <1>4, <1>5, Zenon DEF Taken

\* and ends.
LEMMA TakeEnd ==
  ASSUME NEW D \in Nat, NEW S \in Nat, NEW L \in Nat, NEW b \in Widths, NEW C \in Channels,
         NEW g \in Nat, NEW p \in Nat, NEW r \in Nat, NEW w, w = Least(BufferSamples, r \div b),
         Taken(D, S, L, b, C, g, "block", p, r, w, w)
  PROVE  Taken(D, S, L, b, C, g, "write", p, r - w * b, w, w)
<1>1. g * C \in Nat
  BY InFrames, Zenon
<1>2. w \in Nat
  <2>1. w \in 0 .. BufferSamples
    BY WantedNumbers, Zenon
  <2>. QED BY <2>1
<1>3. CASE Exact(D, S, L, b, g * C + w, p, S - (g * C + w) * b) /\ r = S - (g * C) * b
  <2>1. ReadEnds(D, S, L, b, g * C, w, p, r - w * b)
    BY <1>1, <1>3, WantedRead, Zenon
  <2>. QED BY <1>2, <2>1, TakeEnds, Zenon
<1>4. CASE Over(D, S, L, b, C, g, p, r) /\ w = 0
  <2>1. r - w * b = r
    BY <1>4 DEF Widths
  <2>. QED BY <1>4, <2>1, TakeNothing, Zenon
<1>. QED BY <1>3, <1>4, Zenon DEF Taken

\* The player takes what was read.
LEMMA TakeGiven ==
  ASSUME NEW D \in Nat, NEW S \in Nat, NEW L \in Nat, NEW b \in Widths, NEW C \in Channels,
         NEW g \in Nat, NEW p \in Nat, NEW r \in Nat, NEW w, NEW c \in Nat,
         Taken(D, S, L, b, C, g, "write", p, r, w, c)
  PROVE  Taken(D, S, L, b, C, g + c \div C, "read", p, r, w, c)
<1>1. g * C + BufferSamples = (g + BufferSamples \div C) * C
  BY InFrames
<1>2. "read" # "open" /\ "read" # "block" /\ "read" # "write"
  OBVIOUS
<1>. QED BY <1>1, <1>2, Zenon DEF Taken

\* The first read begins where the samples begin.
LEMMA TakeFirst ==
  ASSUME NEW D \in Nat, NEW S \in Nat, NEW L \in Nat, D <= L, NEW b \in Widths,
         NEW C \in Channels, NEW g, NEW w, NEW c
  PROVE  /\ Taken(D, S, L, b, C, g, "open", D, S, w, c)
         /\ \A p, r : Taken(D, S, L, b, C, g, "open", p, r, w, c) =>
                        Taken(D, S, L, b, C, 0, "read", p, r, w, c)
<1>1. 0 * C = 0 /\ D + 0 * b = D /\ S - 0 * b = S
  BY InFrames DEF Widths
<1>2. "read" # "open" /\ "read" # "block" /\ "read" # "write" /\ "open" # "read"
      /\ "open" # "block" /\ "open" # "write"
  OBVIOUS
<1>. QED BY <1>1, <1>2, Zenon DEF Taken, Exact

\* A read that gives nothing finds all frames given.
LEMMA TakenAll ==
  ASSUME NEW D, NEW S, NEW L, NEW b, NEW C \in Channels, NEW g \in Nat, NEW p, NEW r, NEW w,
         Taken(D, S, L, b, C, g, "write", p, r, w, 0)
  PROVE  g = Total(D, S, L, b) \div C
<1>1. BufferSamples # 0 /\ g + 0 \div C = g
  BY BlockAssumption, InFrames
<1>. QED BY <1>1, Zenon DEF Taken, Over

-----------------------------------------------------------------------------
(***************************************************************************)
(* What the reads of wav_decoder_read do with those numbers.               *)
(***************************************************************************)

\* The reader's numbers, and what fread gives.
LEMMA ReaderNumbers ==
  ASSUME WavOpen, ReaderSizes
  PROVE  /\ place \in Nat /\ remaining \in Nat /\ wanted \in Nat /\ converted \in Nat
         /\ file.length \in Nat
         /\ wav \in {"open", "read", "block", "write"} =>
              SampleBytes \in Widths /\ format.channels \in Channels
              /\ (format.bits = 16 <=> SampleBytes = 2)
         /\ \A n \in Nat : Present(n) = Bytes(file.length, place, n)
<1>1. BufferSamples \in Nat
  BY BlockAssumption
<1>2. place \in Nat /\ remaining \in Nat /\ wanted \in Nat /\ converted \in Nat
  BY <1>1 DEF ReaderSizes, ReaderType
<1>3. file.length \in Nat
  <2>1. CASE wav = "closed"
    BY <2>1 DEF WavOpen, NoFile
  <2>2. CASE wav # "closed"
    <3>1. file \in WavFiles
      BY <2>2 DEF WavOpen
    <3>. QED BY <3>1, Layout, Zenon
  <2>. QED BY <2>1, <2>2
<1>4. ASSUME NEW n \in Nat PROVE Present(n) = Bytes(file.length, place, n)
  <2>1. \A l, q \in Nat : (IF q >= l THEN 0 ELSE Least(n, l - q)) = Bytes(l, q, n)
    BY DEF Bytes, Held, Least
  <2>. QED BY <1>2, <1>3, <2>1, Zenon DEF Present
<1>5. wav \in {"open", "read", "block", "write"} =>
        SampleBytes \in Widths /\ format.channels \in Channels
        /\ (format.bits = 16 <=> SampleBytes = 2)
  BY WidthOf, Zenon DEF ReaderSizes, SampleBytes
<1>. QED BY <1>2, <1>3, <1>4, <1>5

\* Blocks are not empty.
LEMMA BlockHolds == \A b \in Widths : BlockBytes \div b \in Nat /\ BlockBytes \div b # 0
<1>1. PICK B \in Nat : B = BlockBytes /\ B # 0 /\ B % 3 = 0 /\ B % 4 = 0
  BY BlockAssumption
<1>. QED BY <1>1 DEF Widths

\* Bytes there are of those a read of 16 bits asks for.
LEMMA Present16 ==
  ASSUME WavOpen, ReaderSizes
  PROVE  Present(Wanted16) = Bytes16(file.length, place, remaining)
<1>1. PICK r \in Nat : r = remaining
  BY ReaderNumbers, Zenon
<1>2. PICK n \in Nat : n = Least(2 * BufferSamples, r) - (Least(2 * BufferSamples, r) % 2)
  BY BlockAssumption DEF Least
<1>3. Wanted16 = n
  BY <1>1, <1>2, Zenon DEF Wanted16
<1>. QED BY <1>1, <1>2, <1>3, ReaderNumbers, Zenon DEF Bytes16

\* A read of 16 bits.
LEMMA Read16Does ==
  ASSUME WavOpen, ReaderSizes, Read16
  PROVE  /\ wav = "read" /\ SampleBytes = 2 /\ wav' = "write"
         /\ \E x : /\ x = Bytes16(file.length, place, remaining)
                   /\ place' = place + x /\ remaining' = remaining - x /\ converted' = x \div 2
         /\ UNCHANGED <<file, format, found, wanted>>
<1>. DEFINE x == Present(Wanted16)
<1>1. x = Bytes16(file.length, place, remaining)
  BY Present16, Zenon
<1>2. place' = place + x /\ remaining' = remaining - x /\ converted' = x \div 2
      /\ wav' = "write" /\ UNCHANGED <<file, format, found, wanted>>
  BY Zenon DEF Read16, Receive16
<1>3. wav = "read" /\ format.bits = 16
  BY Zenon DEF Read16, Receive16
<1>4. SampleBytes = 2
  BY <1>3, ReaderNumbers
<1>. HIDE DEF x
<1>. QED BY <1>1, <1>2, <1>3, <1>4, Zenon

\* y bytes of a block of another width.
LEMMA ReceiveBlockDoes ==
  ASSUME WavOpen, ReaderSizes, NEW y, ReceiveBlock(y)
  PROVE  /\ wav = "block"
         /\ \E n \in Nat :
              /\ InRead(SampleBytes, n, remaining, wanted, converted)
              /\ Present(WantedBlock) = Bytes(file.length, place, n * SampleBytes)
              /\ place' = place + y /\ converted' = converted + y \div SampleBytes
              /\ IF y < n * SampleBytes
                   THEN /\ wav' = "write"
                        /\ remaining' = remaining - converted' * SampleBytes
                   ELSE UNCHANGED <<wav, remaining>>
         /\ UNCHANGED <<file, format, found, wanted>>
<1>1. wav = "block" /\ converted < wanted
  BY Zenon DEF ReceiveBlock
<1>2. PICK b \in Widths : b = SampleBytes
  BY <1>1, ReaderNumbers
<1>3. PICK r \in Nat : r = remaining
  BY ReaderNumbers, Zenon
<1>4. wanted \in Nat /\ converted \in Nat
  BY ReaderNumbers, Zenon
<1>5. wanted = Least(BufferSamples, r \div b)
  BY <1>1, <1>2, <1>3, Zenon DEF ReaderSizes
<1>6. wanted * b <= r
  BY <1>5, WantedNumbers, Zenon
<1>7. PICK k \in Nat : k = BlockBytes \div b /\ k # 0
  BY BlockHolds
<1>8. PICK n \in Nat : n = Least(wanted - converted, k) /\ n # 0 /\ converted + n <= wanted
  BY <1>1, <1>4, <1>7 DEF Least
<1>9. n * b \in Nat
  BY DEF Widths
<1>10. InRead(b, n, r, wanted, converted)
  BY <1>6, <1>8, Zenon DEF InRead
<1>11. WantedBlock = n * b
  BY <1>2, <1>7, <1>8, Zenon DEF WantedBlock
<1>12. Present(WantedBlock) = Bytes(file.length, place, n * b)
  BY <1>9, <1>11, ReaderNumbers, Zenon
<1>13. /\ place' = place + y /\ converted' = converted + y \div b
       /\ IF y < n * b
            THEN /\ wav' = "write"
                 /\ remaining' = remaining - converted' * b
            ELSE UNCHANGED <<wav, remaining>>
       /\ UNCHANGED <<file, format, found, wanted>>
  BY <1>2, <1>11, Zenon DEF ReceiveBlock
<1>. QED BY <1>1, <1>2, <1>3, <1>10, <1>12, <1>13, Zenon

\* A block that is read as far as it is there.
LEMMA ReadBlockDoes ==
  ASSUME WavOpen, ReaderSizes, ReadBlock
  PROVE  /\ wav = "block"
         /\ \E n \in Nat : \E y :
              /\ InRead(SampleBytes, n, remaining, wanted, converted)
              /\ y = Bytes(file.length, place, n * SampleBytes)
              /\ place' = place + y /\ converted' = converted + y \div SampleBytes
              /\ IF y < n * SampleBytes
                   THEN /\ wav' = "write"
                        /\ remaining' = remaining - converted' * SampleBytes
                   ELSE UNCHANGED <<wav, remaining>>
         /\ UNCHANGED <<file, format, found, wanted>>
<1>1. ReceiveBlock(Present(WantedBlock))
  BY Zenon DEF ReadBlock
<1>. QED BY <1>1, ReceiveBlockDoes, Zenon

\* Whether a read has missed something is known.
LEMMA MissedStep == missed \in BOOLEAN /\ ReaderAction => missed' \in BOOLEAN
<1> SUFFICES ASSUME missed \in BOOLEAN, ReaderAction PROVE missed' \in BOOLEAN
  OBVIOUS
<1>1. ASSUME NEW f \in WavFiles, OpenWav(f) PROVE missed' = FALSE
  BY <1>1, Zenon DEF OpenWav
<1>2. ASSUME ReaderStep PROVE missed' = missed
  BY <1>2, Zenon DEF ReaderStep, ReadFormat, SkipChunk, EnterData, Refuse, Read16,
     BeginBlocks, ReadBlock, EndBlocks
<1>3. ASSUME ReadFails PROVE missed' = TRUE
  BY <1>3, Zenon DEF ReadFails, WalkFails, ShortRead16, ShortBlock
<1>4. ASSUME CloseWav \/ UNCHANGED reader PROVE missed' = missed
  BY <1>4, Zenon DEF CloseWav, reader
<1>5. missed' = FALSE \/ missed' = TRUE \/ missed' = missed
  BY <1>1, <1>2, <1>3, <1>4, Zenon DEF ReaderAction
<1>. QED BY <1>5

\* Sizes stay what they are.
LEMMA ReaderSizesStep == WavOpen /\ ReaderSizes /\ ReaderAction => ReaderSizes'
<1> SUFFICES ASSUME WavOpen, ReaderSizes, ReaderAction PROVE ReaderSizes'
  OBVIOUS
<1>. USE DEF ReaderSizes, ReaderType
<1>0. BufferSamples \in Nat /\ place \in Nat /\ remaining \in Nat /\ wanted \in Nat
      /\ converted \in 0 .. BufferSamples /\ found \in BOOLEAN /\ format \in Formats
  BY BlockAssumption
<1>00. missed' \in BOOLEAN
  BY MissedStep, Zenon
<1>1. ASSUME NEW f \in WavFiles, OpenWav(f) PROVE ReaderSizes'
  <2>1. /\ wav' \in {"refused", "walk"} /\ place' = 12 /\ remaining' = 0 /\ found' = FALSE
        /\ format' = NoFormat /\ wanted' = wanted /\ converted' = converted
    BY <1>1, Zenon DEF OpenWav, RiffBytes, locals
  <2>2. NoFormat \in Formats
    BY DEF NoFormat, Formats
  <2>3. wav' \notin {"open", "read", "block", "write"}
    BY <2>1
  <2>4. ReaderType'
    <3>1. place' \in Nat /\ remaining' \in Nat /\ wanted' \in Nat /\ converted' \in 0 .. BufferSamples
      BY <1>0, <2>1
    <3>2. found' \in BOOLEAN
      BY <2>1
    <3>3. wav' \in {"closed", "walk", "refused", "open", "read", "block", "write"}
      BY <2>1
    <3>. QED BY <1>00, <3>1, <3>2, <3>3, Zenon
  <2>. QED BY <2>1, <2>2, <2>3, <2>4, Zenon
<1>2. CASE ReadFormat \/ SkipChunk
  <2>1. PICK c \in Chunk :
          \/ /\ c.id = "fmt " /\ found' = TRUE
             /\ format' = [c.format EXCEPT !.tag = TagOf(c)]
             /\ place' = NextPlace(c) /\ NextPlace(c) # Nowhere
          \/ /\ c.id # "fmt " /\ UNCHANGED <<format, found>>
             /\ place' = NextPlace(c) /\ NextPlace(c) # Nowhere
    BY <1>2, Zenon DEF ReadFormat, SkipChunk
  <2>2. wav = "walk" /\ UNCHANGED <<wav, file, remaining, locals>>
    BY <1>2, <2>1, Zenon DEF Chunk, ReadFormat, SkipChunk
  <2>3. file \in WavFiles
    BY <2>2 DEF WavOpen
  <2>4. PICK k \in 1 .. Len(file.chunks) : c = file.chunks[k]
    BY <2>1, Zenon DEF Chunk
  <2>5. /\ c.size \in Nat
        /\ c.id = "fmt " => c.format \in Formats /\ c.sub \in Nat
    BY <2>3, <2>4, Layout, Zenon
  <2>6. NextPlace(c) \in Nat
    <3>1. NextPlace(c) \in Nat \/ NextPlace(c) = Nowhere
      BY <1>0, <2>5, AfterSomewhere, Zenon DEF NextPlace, Nowhere
    <3>. QED BY <2>1, <3>1, Zenon
  <2>7. format' \in Formats
    BY <1>0, <2>1, <2>5 DEF Formats, TagOf
  <2>. QED BY <1>0, <1>00, <2>1, <2>2, <2>6, <2>7 DEF locals
<1>3. CASE EnterData
  <2>1. PICK c \in Chunk : Supported(format) /\ remaining' = c.size
    BY <1>3, Zenon DEF EnterData
  <2>2. wav = "walk"
    BY <2>1, Zenon DEF Chunk
  <2>3. file \in WavFiles
    BY <2>2 DEF WavOpen
  <2>4. c.size \in Nat
    BY <2>1, <2>3, Layout, Zenon DEF Chunk
  <2>. QED BY <1>0, <1>00, <1>3, <2>1, <2>4 DEF EnterData, locals, HeaderBytes
<1>4. CASE Refuse \/ WalkFails
  <2>1. wav' = "refused" /\ format' = NoFormat
        /\ UNCHANGED <<place, found, remaining, wanted, converted>>
    BY <1>4, Zenon DEF Refuse, WalkFails, locals
  <2>2. NoFormat \in Formats
    BY DEF NoFormat, Formats
  <2>. QED BY <1>0, <1>00, <2>1, <2>2
<1>5. CASE Read16 \/ ShortRead16
  <2>1. PICK z : z = Bytes16(file.length, place, remaining)
    OBVIOUS
  <2>2. z \in Nat /\ z <= remaining /\ z \div 2 \in 0 .. BufferSamples
    BY <1>0, <2>1, ReaderNumbers, Read16Numbers, Zenon
  <2>3. PICK x : Receive16(x) /\ (x = z \/ x \in 0 .. z - 1)
    BY <1>5, <2>1, Present16, Zenon DEF Read16, ShortRead16
  <2>4. /\ wav = "read" /\ wav' = "write" /\ UNCHANGED <<file, format, found, wanted>>
        /\ place' = place + x /\ remaining' = remaining - x /\ converted' = x \div 2
    BY <2>3, Zenon DEF Receive16
  <2>5. x \in Nat /\ x <= remaining /\ x \div 2 \in 0 .. BufferSamples
    BY <1>0, <2>2, <2>3
  <2>. QED BY <1>0, <1>00, <2>4, <2>5
<1>6. CASE BeginBlocks
  <2>1. PICK b \in Widths : b = SampleBytes /\ SampleBytes' = b
    BY <1>6, ReaderNumbers DEF BeginBlocks, SampleBytes
  <2>2. PICK w : w = Least(BufferSamples, remaining \div b)
    OBVIOUS
  <2>3. w \in 0 .. BufferSamples
    BY <1>0, <2>2, WantedNumbers, Zenon
  <2>4. /\ wav = "read" /\ wav' = "block" /\ wanted' = w /\ converted' = 0
        /\ UNCHANGED <<file, place, format, found, remaining>>
    BY <1>6, <2>1, <2>2, Zenon DEF BeginBlocks
  <2>. QED BY <1>0, <1>00, <2>1, <2>2, <2>3, <2>4
<1>7. CASE ReadBlock \/ ShortBlock
  <2>0. PICK y : ReceiveBlock(y)
                 /\ (y = Present(WantedBlock) \/ y \in 0 .. Present(WantedBlock) - 1)
    BY <1>7, Zenon DEF ReadBlock, ShortBlock
  <2>1. wav = "block" /\ UNCHANGED <<file, format, found, wanted>>
    BY <2>0, ReceiveBlockDoes, Zenon
  <2>2. PICK b \in Widths : b = SampleBytes /\ SampleBytes' = b
    BY <2>1, ReaderNumbers DEF SampleBytes
  <2>3. PICK n \in Nat :
            /\ InRead(b, n, remaining, wanted, converted)
            /\ Present(WantedBlock) = Bytes(file.length, place, n * b)
            /\ place' = place + y /\ converted' = converted + y \div b
            /\ IF y < n * b
                 THEN /\ wav' = "write"
                      /\ remaining' = remaining - converted' * b
                 ELSE UNCHANGED <<wav, remaining>>
    BY <2>0, <2>2, ReceiveBlockDoes, Zenon
  <2>4. Present(WantedBlock) \in Nat /\ Present(WantedBlock) <= n * b
    <3>1. PICK h \in Nat : h = Held(file.length, place)
      BY ReaderNumbers, HeldNumber, Zenon
    <3>2. n * b \in Nat
      BY DEF Widths
    <3>. QED BY <2>3, <3>1, <3>2 DEF Bytes, Least
  <2>5. y \in Nat /\ y <= n * b
    <3>1. n * b \in Nat
      BY DEF Widths
    <3>. QED BY <2>0, <2>4, <3>1
  <2>6. y \div b \in Nat /\ converted + y \div b <= wanted
        /\ remaining - (converted + y \div b) * b \in Nat
    BY <2>3, <2>5, ReaderNumbers, PartNumbers, Zenon
  <2>7. place' \in Nat /\ converted' \in Nat /\ converted' <= wanted
    BY <1>0, <2>3, <2>5, <2>6
  <2>8. remaining' \in Nat
    BY <1>0, <2>3, <2>6, Zenon
  <2>9. wanted = Least(BufferSamples, remaining \div b)
    BY <2>1, <2>2, Zenon
  <2>10. wanted \in 0 .. BufferSamples
    BY <1>0, <2>9, WantedNumbers, Zenon
  <2>11. converted' \in 0 .. BufferSamples
    BY <1>0, <2>7, <2>10
  <2>12. wav' = "write" \/ (wav' = "block" /\ remaining' = remaining)
    BY <2>1, <2>3, Zenon
  <2>. QED BY <1>0, <1>00, <2>1, <2>2, <2>7, <2>8, <2>9, <2>11, <2>12
<1>8. CASE EndBlocks
  <2>1. /\ wav = "block" /\ wav' = "write" /\ converted = wanted
        /\ remaining' = remaining - converted * SampleBytes
        /\ UNCHANGED <<file, place, format, found, locals>>
    BY <1>8, Zenon DEF EndBlocks
  <2>2. PICK b \in Widths : b = SampleBytes
    BY <2>1, ReaderNumbers
  <2>3. wanted = Least(BufferSamples, remaining \div b)
    BY <2>1, <2>2, Zenon
  <2>4. remaining - wanted * b \in Nat
    BY <1>0, <2>3, WantedNumbers, Zenon
  <2>5. remaining' \in Nat
    BY <2>1, <2>2, <2>4, Zenon
  <2>. QED BY <1>0, <1>00, <2>1, <2>5 DEF locals
<1>9. CASE /\ wav \in {"open", "write"} /\ wav' = "read"
           /\ UNCHANGED <<file, place, format, found, remaining, locals, missed>>
  BY <1>9 DEF locals
<1>10. CASE CloseWav
  <2>1. NoFormat \in Formats
    BY DEF NoFormat, Formats
  <2>2. /\ wav' = "closed" /\ place' = 0 /\ remaining' = 0 /\ wanted' = 0 /\ converted' = 0
        /\ found' = FALSE /\ format' = NoFormat
    BY <1>10, Zenon DEF CloseWav
  <2>3. ReaderType'
    <3>1. place' \in Nat /\ remaining' \in Nat /\ wanted' \in Nat /\ converted' \in 0 .. BufferSamples
      BY <1>0, <2>2
    <3>2. found' \in BOOLEAN
      BY <2>2
    <3>3. wav' \in {"closed", "walk", "refused", "open", "read", "block", "write"}
      BY <2>2
    <3>. QED BY <1>00, <3>1, <3>2, <3>3, Zenon
  <2>4. wav' \notin {"open", "read", "block", "write"}
    BY <2>2
  <2>. QED BY <2>1, <2>2, <2>3, <2>4, Zenon
<1>11. CASE UNCHANGED reader
  <2>1. /\ file' = file /\ place' = place /\ format' = format /\ found' = found
        /\ remaining' = remaining /\ wanted' = wanted /\ converted' = converted /\ wav' = wav
        /\ missed' = missed
    BY <1>11, Zenon DEF reader
  <2>2. (remaining \div SampleBytes)' = remaining \div SampleBytes
    BY <2>1, Zenon DEF SampleBytes
  <2>3. ReaderType'
    BY <2>1, Zenon
  <2>4. format' \in Formats
    BY <2>1, Zenon
  <2>5. wav' \in {"open", "read", "block", "write"} => Supported(format')
    BY <2>1, Zenon
  <2>. QED BY <2>1, <2>2, <2>3, <2>4, <2>5, Zenon
<1>. QED
  BY <1>1, <1>2, <1>3, <1>4, <1>5, <1>6, <1>7, <1>8, <1>9, <1>10, <1>11, Zenon
     DEF ReaderAction, ReaderStep, ReadFails

\* The invariant of the reader is inductive.
LEMMA ReaderInvStep == ReaderInv /\ ReaderAction => ReaderInv'
BY WavOpenStep, ReaderSizesStep, OnWayStep, RefusedStep, Zenon DEF ReaderInv

-----------------------------------------------------------------------------
(***************************************************************************)
(* What the player has been given in a pass, and what is left of it in the *)
(* end.  Frames given are counted as they are converted, so the count of a *)
(* pass and what is still to be converted belong together.                 *)
(***************************************************************************)

\* A call of the player has frames to convert until it returns.
InCall ==
  /\ phase = "idle" => todo = 0
  /\ phase = "interval" => todo > 0
  /\ ~have /\ enabled /\ phase \in {"idle", "next"} => inIndex = 0

PlayerPace ==
  /\ PlayerType
  /\ InCall
  /\ begun \in Nat
  /\ result = "running" /\ ~enabled => begun = 0

\* Frames the player was given in this pass.
Given == IF enabled THEN inIndex + todo - begun ELSE 0

\* What is in the player's variables.
LEMMA RatesPlayed ==
  /\ \A r \in Mp3Rates \cup PlayedRates : r \in LowRate .. HighRate /\ r \in Nat \ {0}
  /\ OutputRate \in LowRate .. HighRate
BY MusicAssumption, RateAssumption, RatesPositive

\* The operations of the player keep its types.
LEMMA PlayerTypeStep ==
  ASSUME PlayerType, Fresh, phase = "interval" => todo > 0,
         \/ \E r \in Mp3Rates \cup PlayedRates : Configure(r)
         \/ \E n \in Nat : Write(n)
         \/ PlayerStep
         \/ Silence
         \/ UNCHANGED player
  PROVE  PlayerType'
<1>. USE DEF PlayerType
<1>0. ConversionFrames \in Nat \ {0}
  BY BufferAssumption
<1>1. ASSUME NEW r \in Mp3Rates \cup PlayedRates, Configure(r) PROVE PlayerType'
  <2>1. r \in LowRate .. HighRate
    BY RatesPlayed, Zenon
  <2>2. /\ have' = FALSE /\ inIndex' = 0 /\ outIndex' = 0 /\ heard' = 0 /\ rate' = r
        /\ buffered' = buffered /\ todo' = todo
        /\ \/ enabled' = TRUE /\ phase' = phase
           \/ phase' = "failed" /\ enabled' = enabled
    BY <1>1, Zenon DEF Configure
  <2>3. {inIndex', outIndex', todo', heard'} \subseteq Nat
    BY <2>2
  <2>4. enabled' \in BOOLEAN /\ have' \in BOOLEAN /\ (have' => enabled')
    BY <2>2
  <2>5. phase' \in {"idle", "next", "interval", "failed"}
    BY <2>2
  <2>. QED BY <2>1, <2>2, <2>3, <2>4, <2>5, Zenon
<1>2. ASSUME NEW n \in Nat, Write(n) PROVE PlayerType'
  BY <1>0, <1>2 DEF Write, counters
<1>3. AppendOutput => heard' \in Nat /\ buffered' \in 0 .. ConversionFrames - 1
  BY <1>0 DEF AppendOutput, Full
<1>4. CASE FirstFrame
  <2>1. enabled
    BY <1>4 DEF FirstFrame, Fresh
  <2>. QED BY <1>3, <1>4, <2>1 DEF FirstFrame
<1>5. CASE Interpolate
  BY <1>3, <1>5 DEF Interpolate
<1>6. CASE NextFrame \/ WriteFails
  BY <1>6 DEF NextFrame, WriteFails, counters
<1>7. CASE LeaveInterval
  <2>1. todo \in Nat /\ todo > 0 /\ todo' = todo - 1
    BY <1>7 DEF LeaveInterval
  <2>. QED BY <1>7, <2>1 DEF LeaveInterval
<1>8. CASE Return
  BY <1>0, <1>8 DEF Return, counters
<1>9. CASE Silence
  <2>1. /\ have' = FALSE /\ enabled' = FALSE /\ phase' = "idle" /\ buffered' = 0 /\ todo' = 0
        /\ inIndex' = inIndex /\ outIndex' = outIndex /\ heard' = heard /\ rate' = rate
    BY <1>9, Zenon DEF Silence
  <2>2. {inIndex', outIndex', todo', heard'} \subseteq Nat
    BY <2>1
  <2>3. buffered' \in 0 .. ConversionFrames - 1 /\ rate' \in LowRate .. HighRate
    BY <1>0, <2>1
  <2>4. enabled' \in BOOLEAN /\ have' \in BOOLEAN /\ (have' => enabled')
    BY <2>1
  <2>5. phase' \in {"idle", "next", "interval", "failed"}
    BY <2>1
  <2>. QED BY <2>2, <2>3, <2>4, <2>5, Zenon
<1>10. CASE UNCHANGED player
  BY <1>10 DEF player, counters
<1>. QED
  BY <1>1, <1>2, <1>4, <1>5, <1>6, <1>7, <1>8, <1>9, <1>10 DEF PlayerStep

\* The frames that are given are a number of frames.
LEMMA PlayerCalls ==
  OpenRate /\ ReaderSizes /\ [Next]_vars =>
    \/ \E r \in Mp3Rates \cup PlayedRates : Configure(r)
    \/ \E n \in Nat : Write(n)
    \/ PlayerStep
    \/ Silence
    \/ UNCHANGED player
<1> SUFFICES ASSUME OpenRate, ReaderSizes, [Next]_vars
             PROVE  \/ \E r \in Mp3Rates \cup PlayedRates : Configure(r)
                    \/ \E n \in Nat : Write(n)
                    \/ PlayerStep
                    \/ Silence
                    \/ UNCHANGED player
  OBVIOUS
<1>1. CASE GiveMp3
  <2>1. FrameSamples \in Nat
    BY MusicAssumption
  <2>. QED BY <1>1, <2>1, Zenon DEF GiveMp3
<1>2. CASE GiveWav
  <2>1. wav = "write" /\ Write(converted \div format.channels)
    BY <1>2, Zenon DEF GiveWav
  <2>2. format.channels \in Channels
    BY <2>1, WidthOf DEF ReaderSizes
  <2>3. converted \in Nat
    BY BlockAssumption DEF ReaderSizes, ReaderType
  <2>4. converted \div format.channels \in Nat
    BY <2>2, <2>3, InFrames, Zenon
  <2>. QED BY <2>1, <2>4, Zenon
<1>3. ASSUME ~GiveMp3, ~GiveWav PROVE ~(\E n : Write(n)) \/ PlayerStep \/ Silence
                                      \/ UNCHANGED player \/ SetRate
  BY <1>3, Zenon DEF Next, Begin, Pass, PassFails, Decode, StartReads, Convert, Mp3Ends,
     WavEnds, Fails, Stopped, EndPass, EndCommand, vars
<1>4. CASE SetRate
  <2>1. \/ \E r \in Mp3Rates : Configure(r)
        \/ wav = "open" /\ Configure(format.rate)
    BY <1>4, Zenon DEF SetRate
  <2>. QED BY <2>1, Zenon DEF OpenRate
<1>. QED BY <1>1, <1>2, <1>3, <1>4, PlayerOnly, Zenon DEF PlayerAction

\* Frames given: what a step of the player does to their number while a pass goes on.
LEMMA GivenStep ==
  ASSUME Counters, Fresh, PlayerPace, result = "running", begun' = begun, phase' # "failed"
  PROVE  /\ (\E r : Configure(r)) \/ PlayerStep \/ UNCHANGED player => Given' = Given
         /\ \A n \in Nat : Write(n) => Given' = Given + n /\ enabled
<1>. USE DEF PlayerPace, InCall, PlayerType, Given
<1>1. ASSUME NEW r, Configure(r) PROVE Given' = Given
  <2>1. /\ ~enabled /\ inIndex' = 0 /\ todo' = 0 /\ begun' = 0 /\ enabled' = TRUE
    BY <1>1 DEF Configure
  <2>. QED BY <2>1
<1>2. ASSUME PlayerStep PROVE Given' = Given
  <2>1. enabled
    BY <1>2 DEF PlayerStep, FirstFrame, NextFrame, Interpolate, LeaveInterval, Return,
       WriteFails, Fresh
  <2>2. CASE FirstFrame
    <3>1. inIndex = 0 /\ inIndex' = 1 /\ todo' = todo - 1 /\ enabled' = enabled
      BY <2>1, <2>2 DEF FirstFrame
    <3>. QED BY <2>1, <3>1
  <2>3. CASE LeaveInterval
    <3>1. inIndex' = inIndex + 1 /\ todo' = todo - 1 /\ enabled' = enabled
      BY <2>3 DEF LeaveInterval
    <3>. QED BY <2>1, <3>1
  <2>4. CASE NextFrame \/ Interpolate \/ Return
    <3>1. inIndex' = inIndex /\ todo' = todo /\ enabled' = enabled
      BY <2>4 DEF NextFrame, Interpolate, Return, counters
    <3>. QED BY <2>1, <3>1
  <2>5. ~WriteFails
    BY DEF WriteFails
  <2>. QED BY <1>2, <2>2, <2>3, <2>4, <2>5, Zenon DEF PlayerStep
<1>3. ASSUME UNCHANGED player PROVE Given' = Given
  <2>1. inIndex' = inIndex /\ todo' = todo /\ enabled' = enabled
    BY <1>3, Zenon DEF player, counters
  <2>. QED BY <2>1
<1>4. ASSUME NEW n \in Nat, Write(n) PROVE Given' = Given + n /\ enabled
  <2>1. enabled /\ todo = 0 /\ todo' = n /\ inIndex' = inIndex /\ enabled' = enabled
    BY <1>4 DEF Write, counters
  <2>. QED BY <2>1
<1>. QED BY <1>1, <1>2, <1>3, <1>4, Zenon

\* What a step does to the pass and to the player.
LEMMA PassSteps ==
  [Next]_vars =>
    \/ Pass
    \/ EndCommand
    \/ begun' = begun /\ UNCHANGED player /\ (result' = "running" => result = "running")
    \/ /\ begun' = begun /\ UNCHANGED <<result, passes, song>>
       /\ SetRate \/ GiveMp3 \/ GiveWav \/ Convert
<1> SUFFICES ASSUME [Next]_vars, ~Pass, ~EndCommand
             PROVE  \/ /\ begun' = begun /\ UNCHANGED player
                       /\ result' = "running" => result = "running"
                    \/ /\ begun' = begun /\ UNCHANGED <<result, passes, song>>
                       /\ SetRate \/ GiveMp3 \/ GiveWav \/ Convert
  BY Zenon
<1>1. ASSUME NEW r, EndPass(r)
      PROVE  begun' = begun /\ UNCHANGED player /\ result = "running"
  BY <1>1, Zenon DEF EndPass
<1>2. CASE Mp3Ends \/ WavEnds \/ Fails \/ Stopped
  BY <1>1, <1>2, Zenon DEF Mp3Ends, WavEnds, Fails, Stopped
<1>3. CASE Begin \/ PassFails
  <2>1. result' # "running" /\ begun' = begun /\ UNCHANGED player
    BY <1>3 DEF Begin, PassFails
  <2>. QED BY <2>1
<1>4. CASE Decode \/ StartReads \/ UNCHANGED vars
  BY <1>4, Zenon DEF Decode, StartReads, vars
<1>5. CASE SetRate \/ GiveMp3 \/ GiveWav \/ Convert
  BY <1>5, Zenon DEF SetRate, GiveMp3, GiveWav, Convert
<1>. QED BY <1>2, <1>3, <1>4, <1>5, Zenon DEF Next

\* So does every step, and the pass keeps its beginning.
LEMMA PlayerPaceStep ==
  IInv /\ Control /\ ReaderSizes /\ PlayerPace /\ [Next]_vars => PlayerPace'
<1> SUFFICES ASSUME IInv, Control, ReaderSizes, PlayerPace, [Next]_vars PROVE PlayerPace'
  OBVIOUS
<1>. USE DEF PlayerPace, InCall
<1>0. Counters /\ Switches /\ Fresh /\ OpenRate
  BY DEF IInv
<1>1. \/ \E r \in Mp3Rates \cup PlayedRates : Configure(r)
      \/ \E n \in Nat : Write(n)
      \/ PlayerStep
      \/ Silence
      \/ UNCHANGED player
  BY <1>0, PlayerCalls, Zenon
<1>2. PlayerType'
  BY <1>0, <1>1, PlayerTypeStep, Zenon
<1>3. InCall'
  <2>1. ASSUME NEW r, Configure(r) PROVE InCall'
    BY <2>1 DEF Configure
  <2>2. ASSUME NEW n, Write(n) PROVE InCall'
    BY <2>2 DEF Write, counters
  <2>3. CASE PlayerStep
    <3>1. CASE FirstFrame
      BY <3>1 DEF FirstFrame
    <3>2. CASE NextFrame
      BY <3>2 DEF NextFrame, counters
    <3>3. CASE Interpolate
      BY <3>3 DEF Interpolate
    <3>4. CASE LeaveInterval
      BY <1>0, <3>4 DEF LeaveInterval, Fresh
    <3>5. CASE Return
      BY <3>5 DEF Return, counters
    <3>6. CASE WriteFails
      BY <3>6 DEF WriteFails
    <3>. QED BY <2>3, <3>1, <3>2, <3>3, <3>4, <3>5, <3>6, Zenon DEF PlayerStep
  <2>4. CASE Silence
    BY <2>4 DEF Silence
  <2>5. CASE UNCHANGED player
    BY <2>5 DEF player, counters
  <2>. QED BY <1>1, <2>1, <2>2, <2>3, <2>4, <2>5, Zenon
<1>4. CASE Pass
  <2>1. inIndex \in Nat /\ 0 \in Nat /\ begun' = (IF enabled THEN inIndex ELSE 0)
        /\ enabled' = enabled
    BY <1>4 DEF PlayerType, Pass, player
  <2>. QED BY <1>2, <1>3, <2>1
<1>5. CASE EndCommand
  <2>1. begun' = 0 /\ result' = "none"
    BY <1>5 DEF EndCommand
  <2>. QED BY <1>2, <1>3, <2>1
<1>6. CASE begun' = begun /\ UNCHANGED player /\ (result' = "running" => result = "running")
  <2>1. enabled' = enabled
    BY <1>6, Zenon DEF player
  <2>. QED BY <1>2, <1>3, <1>6, <2>1
<1>7. CASE /\ begun' = begun /\ UNCHANGED <<result, passes, song>>
           /\ SetRate \/ GiveMp3 \/ GiveWav \/ Convert
  <2>1. enabled => enabled'
    BY <1>7 DEF SetRate, Configure, GiveMp3, GiveWav, Write, Convert, PlayerStep, FirstFrame,
       NextFrame, Interpolate, LeaveInterval, Return, WriteFails
  <2>. QED BY <1>2, <1>3, <1>7, <2>1
<1>. QED BY <1>4, <1>5, <1>6, <1>7, PassSteps, Zenon

\* The player has what the decoder gave it, and is to be given the frame that is
\* decoded.
Mp3Pace ==
  result = "running" /\ song.kind = "mp3" /\ phase # "failed" =>
    Given + (IF step = "write" THEN FrameSamples ELSE 0) = frames * FrameSamples

\* A pass begins with nothing given.
LEMMA PassGiven ==
  ASSUME IInv, Control, PlayerPace, Pass
  PROVE  Given' = 0 /\ phase = "idle" /\ UNCHANGED <<player, song>>
<1>1. result = "ended" /\ UNCHANGED player /\ song' = song
      /\ begun' = (IF enabled THEN inIndex ELSE 0)
  BY Zenon DEF Pass
<1>2. phase = "idle"
  BY <1>1 DEF Control, IInv, Switches
<1>3. todo = 0 /\ inIndex \in Nat /\ enabled' = enabled /\ inIndex' = inIndex /\ todo' = todo
  BY <1>1, <1>2 DEF PlayerPace, InCall, PlayerType, player, counters
<1>4. Given' = 0
  BY <1>1, <1>3 DEF Given
<1>. QED BY <1>1, <1>2, <1>4, Zenon

\* What happens within a pass.
LEMMA WithinPass ==
  ASSUME IInv, Control, PlayerPace, [Next]_vars, ~Pass, result' = "running", phase' # "failed"
  PROVE  /\ result = "running" /\ phase # "failed" /\ UNCHANGED <<song, begun>>
         /\ Given' = Given \/ GiveMp3 \/ GiveWav
         /\ \/ Decode
            \/ StartReads
            \/ GiveMp3
            \/ GiveWav
            \/ UNCHANGED <<decoder, reader>>
<1>0. Counters /\ Switches /\ Fresh /\ phase \in {"idle", "next", "interval", "failed"}
  BY DEF IInv, Switches
<1>1. ASSUME NEW r \in {"ended", "stopped", "failed"}, EndPass(r) PROVE FALSE
  BY <1>1 DEF EndPass
<1>2. ~Mp3Ends /\ ~WavEnds /\ ~Fails /\ ~Stopped
  BY <1>1, Zenon DEF Mp3Ends, WavEnds, Fails, Stopped
<1>3. ~Begin /\ ~PassFails /\ ~EndCommand
  BY DEF Begin, PassFails, EndCommand
<1>4. Decode \/ SetRate \/ StartReads \/ GiveMp3 \/ GiveWav \/ Convert \/ UNCHANGED vars
  BY <1>2, <1>3, Zenon DEF Next
<1>5. result = "running" /\ UNCHANGED <<song, begun>>
  BY <1>4, Zenon DEF Decode, SetRate, StartReads, GiveMp3, GiveWav, Convert, vars
<1>6. phase # "failed"
  <2>1. CASE Decode \/ StartReads \/ UNCHANGED vars
    BY <2>1, Zenon DEF Decode, StartReads, vars, player
  <2>2. CASE SetRate \/ GiveMp3 \/ GiveWav
    BY <2>2 DEF SetRate, Configure, GiveMp3, GiveWav, Write
  <2>3. CASE Convert
    BY <2>3 DEF Convert, PlayerStep, FirstFrame, NextFrame, Interpolate, LeaveInterval, Return,
       WriteFails
  <2>. QED BY <1>4, <2>1, <2>2, <2>3, Zenon
<1>7. Given' = Given \/ GiveMp3 \/ GiveWav
  <2>1. (\E r : Configure(r)) \/ PlayerStep \/ UNCHANGED player => Given' = Given
    BY <1>0, <1>5, GivenStep, Zenon
  <2>. QED BY <1>4, <2>1, Zenon DEF SetRate, Decode, StartReads, Convert, vars
<1>. QED BY <1>4, <1>5, <1>6, <1>7, Zenon DEF SetRate, Convert, vars

\* A frame is counted when it is decoded.
LEMMA FramesStep ==
  DecoderStep => IF step' = "write" THEN frames' = frames + 1 ELSE frames' = frames
BY DEF DecoderStep, Refill, EndOfInput, EnoughLeft, DropNoise, SkipByte, Underflow,
   DecodeFrame, MissMainData, SkipFrame, Unfit, Consume

\* Every step keeps the pace of an MP3 file.
LEMMA Mp3PaceStep ==
  IInv /\ Control /\ PlayerPace /\ Sizes /\ Mp3Pace /\ [Next]_vars => Mp3Pace'
<1> SUFFICES ASSUME IInv, Control, PlayerPace, Sizes, Mp3Pace, [Next]_vars,
                    result' = "running", song'.kind = "mp3", phase' # "failed"
             PROVE  Given' + (IF step' = "write" THEN FrameSamples ELSE 0)
                      = frames' * FrameSamples
  BY Zenon DEF Mp3Pace
<1>0. PICK F \in Nat : F = FrameSamples
  BY MusicAssumption
<1>1. CASE Pass
  <2>1. Given' = 0 /\ song.kind = "mp3"
    BY <1>1, PassGiven, Zenon
  <2>2. step' = "fill" /\ frames' = 0
    BY <1>1, <2>1 DEF Pass, OpenMp3
  <2>3. 0 + 0 = 0 * F
    OBVIOUS
  <2>. QED BY <1>0, <2>1, <2>2, <2>3
<1>2. CASE ~Pass
  <2>1. /\ result = "running" /\ phase # "failed" /\ UNCHANGED <<song, begun>>
        /\ Given' = Given \/ GiveMp3 \/ GiveWav
        /\ \/ Decode
           \/ StartReads
           \/ GiveMp3
           \/ GiveWav
           \/ UNCHANGED <<decoder, reader>>
    BY <1>2, WithinPass, Zenon
  <2>2. song.kind = "mp3" /\ wav = "closed"
    BY <2>1 DEF Control
  <2>3. Given + (IF step = "write" THEN F ELSE 0) = frames * F
    BY <1>0, <2>1, <2>2, Zenon DEF Mp3Pace
  <2>4. PICK n \in Nat : n = frames
    BY DEF Sizes, DecoderType
  <2>5. PICK g \in Int : g = Given
    BY DEF Given, PlayerPace, PlayerType
  <2>6. ~GiveWav /\ ~StartReads
    BY <2>2, Zenon DEF GiveWav, StartReads
  <2>7. (n + 1) * F = n * F + F /\ n * F \in Nat
    BY OneMore
  <2>8. CASE Decode
    <3>1. DecoderStep
      <4>1. ~ReaderStep /\ ~ReadFails
        BY <2>2, ReaderPlaces
      <4>. QED BY <2>8, <4>1, Zenon DEF Decode
    <3>2. step # "write"
      BY <3>1, DecoderPlaces
    <3>3. Given' = Given
      BY <2>1, <2>6, <3>2, Zenon DEF GiveMp3
    <3>4. g = n * F
      BY <2>3, <2>4, <2>5, <2>7, <3>2
    <3>5. IF step' = "write" THEN frames' = n + 1 ELSE frames' = n
      BY <2>4, <3>1, FramesStep, Zenon
    <3>6. g + F = (n + 1) * F /\ g + 0 = n * F
      BY <2>7, <3>4
    <3>. QED BY <1>0, <2>5, <3>3, <3>5, <3>6, Zenon
  <2>9. CASE GiveMp3
    <3>1. Given' = Given + F
      <4>1. Counters /\ Fresh /\ begun' = begun
        BY <2>1, Zenon DEF IInv
      <4>2. Write(F)
        BY <1>0, <2>9, Zenon DEF GiveMp3
      <4>. QED BY <2>1, <4>1, <4>2, GivenStep, Zenon
    <3>2. step = "write" /\ step' = "fill" /\ frames' = frames
      BY <2>9, Zenon DEF GiveMp3
    <3>3. g + F = n * F
      BY <2>3, <2>4, <2>5, <3>2, Zenon
    <3>4. (g + F) + 0 = n * F
      BY <2>7, <3>3
    <3>5. "fill" # "write"
      OBVIOUS
    <3>. QED BY <1>0, <2>4, <2>5, <3>1, <3>2, <3>4, <3>5, Zenon
  <2>10. CASE ~GiveMp3 /\ UNCHANGED <<decoder, reader>>
    <3>1. Given' = Given /\ step' = step /\ frames' = frames
      BY <2>1, <2>6, <2>10, Zenon DEF decoder
    <3>. QED BY <1>0, <2>3, <3>1, Zenon
  <2>. QED BY <2>1, <2>6, <2>8, <2>9, <2>10, Zenon
<1>. QED BY <1>1, <1>2

\* The samples that are read of file f, in format fmt, are those it offers, and g frames
\* of them are given when the reader is at w.
Reads(f, fmt, g, w, p, r, most, c) ==
  \E k \in DOMAIN f.chunks : \E m \in 1 .. k - 1 :
    /\ Offers(f, k, m) /\ fmt = Said(f, m)
    /\ Taken(f.at[k] + HeaderBytes, f.chunks[k].size, f.length, fmt.bits \div 8, fmt.channels,
             g, w, p, r, most, c)

\* The player has what was read, up to the read that goes on, if none has failed.
WavPace ==
  result = "running" /\ song.kind = "wav" /\ phase # "failed" /\ ~missed =>
    /\ Given \in Nat
    /\ wav \in {"walk", "refused", "open"} => Given = 0
    /\ wav \in {"open", "read", "block", "write"} =>
         Reads(file, format, Given, wav, place, remaining, wanted, converted)

\* Where the samples of a file are.
LEMMA DataNumbers ==
  ASSUME NEW f \in WavFiles, NEW k \in DOMAIN f.chunks
  PROVE  /\ f.at[k] + HeaderBytes \in Nat /\ f.chunks[k].size \in Nat /\ f.length \in Nat
         /\ k \in 1 .. Len(f.chunks)
<1>1. k \in 1 .. Len(f.chunks) /\ f.chunks[k].size \in Nat /\ f.length \in Nat
  BY Layout, Zenon
<1>2. PICK a \in Nat : a = f.at[k]
  BY <1>1, Layout, Zenon
<1>3. a + 8 \in Nat
  OBVIOUS
<1>. QED BY <1>1, <1>2, <1>3, Zenon DEF HeaderBytes

\* The samples the walk has come to are what the file offers.
LEMMA EnterDataReads ==
  ASSUME WavOpen, ReaderSizes, OnWay, EnterData, NEW g
  PROVE  Reads(file', format', g, "open", place', remaining', wanted', converted')
<1>1. PICK c \in Chunk : c.id = "data" /\ found /\ Supported(format) /\ remaining' = c.size
  BY Zenon DEF EnterData
<1>2. wav = "walk"
  BY <1>1, Zenon DEF Chunk
<1>3. file \in WavFiles
  BY <1>2 DEF WavOpen
<1>4. PICK k \in 1 .. Len(file.chunks) + 1 : OnChunk(file, k, place, found, format)
  BY <1>2 DEF OnWay
<1>5. place = file.at[k]
  BY <1>4, Zenon DEF OnChunk
<1>6. k \in 1 .. Len(file.chunks) /\ c = file.chunks[k] /\ place + 8 <= file.length
  BY <1>1, <1>2, <1>4, ChunkAt, Zenon DEF OnChunk
<1>7. k \in DOMAIN file.chunks
  BY <1>3, <1>6, Layout, Zenon
<1>15. WalkAt(file, k, place, found, format)
  <2>1. ~AllPassed(file)
    BY <1>1, <1>6, Zenon DEF AllPassed, Passed
  <2>. QED BY <1>4, <2>1, Zenon DEF OnChunk
<1>8. PICK m \in 1 .. k - 1 : LastFormat(file, m, k) /\ format = Said(file, m)
  BY <1>1, <1>15, Zenon DEF WalkAt
<1>9. Offers(file, k, m)
  BY <1>1, <1>5, <1>6, <1>8, <1>15, Zenon DEF Offers, WalkAt, Said, HeaderBytes
<1>. DEFINE D == file.at[k] + HeaderBytes
           S == file.chunks[k].size
           L == file.length
<1>10. D \in Nat /\ S \in Nat /\ L \in Nat
  BY <1>3, <1>7, DataNumbers, Zenon
<1>11. place' = D /\ remaining' = S /\ D <= L
  BY <1>1, <1>5, <1>6, Zenon DEF EnterData, HeaderBytes
<1>12. format.bits \div 8 \in Widths /\ format.channels \in Channels
  BY <1>1, WidthOf, Zenon DEF ReaderSizes
<1>. HIDE DEF D, S, L
<1>13. Taken(D, S, L, format.bits \div 8, format.channels, g, "open", D, S, wanted, converted)
  BY <1>10, <1>11, <1>12, TakeFirst, Zenon
<1>14. file' = file /\ format' = format /\ wanted' = wanted /\ converted' = converted
  BY Zenon DEF EnterData, locals
<1>. QED BY <1>7, <1>8, <1>9, <1>11, <1>13, <1>14, Zenon DEF Reads, D, S, L

\* Reads go on in the samples.
LEMMA ReadsStep ==
  ASSUME WavOpen, ReaderSizes, NEW g \in Nat,
         Reads(file, format, g, wav, place, remaining, wanted, converted),
         Read16 \/ BeginBlocks \/ ReadBlock \/ EndBlocks
  PROVE  Reads(file', format', g, wav', place', remaining', wanted', converted')
<1>1. wav \in {"read", "block"} /\ file' = file /\ format' = format
  BY DEF Read16, Receive16, BeginBlocks, ReadBlock, ReceiveBlock, EndBlocks
<1>2. file \in WavFiles
  BY <1>1 DEF WavOpen
<1>0. PICK k \in DOMAIN file.chunks : \E m \in 1 .. k - 1 :
        /\ Offers(file, k, m) /\ format = Said(file, m)
        /\ Taken(file.at[k] + HeaderBytes, file.chunks[k].size, file.length,
                 format.bits \div 8, format.channels, g, wav, place, remaining, wanted, converted)
  BY Zenon DEF Reads
<1>3. PICK m \in 1 .. k - 1 :
        /\ Offers(file, k, m) /\ format = Said(file, m)
        /\ Taken(file.at[k] + HeaderBytes, file.chunks[k].size, file.length,
                 format.bits \div 8, format.channels, g, wav, place, remaining, wanted, converted)
  BY <1>0
<1>4. PICK D \in Nat : D = file.at[k] + HeaderBytes
  BY <1>2, <1>3, DataNumbers, Zenon
<1>5. PICK S \in Nat : S = file.chunks[k].size
  BY <1>2, <1>3, DataNumbers, Zenon
<1>6. PICK L \in Nat : L = file.length
  BY <1>2, <1>3, DataNumbers, Zenon
<1>7. PICK b \in Widths : b = format.bits \div 8 /\ b = SampleBytes /\ (format.bits = 16 <=> b = 2)
  BY <1>1, ReaderNumbers DEF SampleBytes
<1>8. PICK C \in Channels : C = format.channels
  BY <1>1, ReaderNumbers
<1>9. PICK p \in Nat : p = place
  BY ReaderNumbers, Zenon
<1>10. PICK r \in Nat : r = remaining
  BY ReaderNumbers, Zenon
<1>11. PICK w \in Nat : w = wanted
  BY ReaderNumbers, Zenon
<1>12. PICK c \in Nat : c = converted
  BY ReaderNumbers, Zenon
<1>13. Taken(D, S, L, b, C, g, wav, p, r, w, c)
  BY <1>3, <1>4, <1>5, <1>6, <1>7, <1>8, <1>9, <1>10, <1>11, <1>12, Zenon
<1>14. CASE Read16
  <2>1. wav = "read" /\ wav' = "write" /\ b = 2
    BY <1>7, <1>14, Read16Does, Zenon
  <2>2. PICK x : /\ x = Bytes16(L, p, r)
                 /\ place' = p + x /\ remaining' = r - x /\ converted' = x \div 2
    BY <1>6, <1>9, <1>10, <1>14, Read16Does, Zenon
  <2>3. Taken(D, S, L, 2, C, g, "read", p, r, w, c)
    BY <1>13, <2>1, Zenon
  <2>4. Taken(D, S, L, 2, C, g, "write", p + x, r - x, w, x \div 2)
    BY <2>2, <2>3, TakeRead16, Zenon
  <2>5. wanted' = w
    BY <1>11, <1>14, Zenon DEF Read16, Receive16
  <2>6. Taken(D, S, L, b, C, g, wav', place', remaining', wanted', converted')
    BY <2>1, <2>2, <2>4, <2>5, Zenon
  <2>. QED BY <1>1, <1>3, <1>4, <1>5, <1>6, <1>7, <1>8, <2>6, Zenon DEF Reads
<1>15. CASE BeginBlocks
  <2>1. /\ wav = "read" /\ wav' = "block" /\ converted' = 0 /\ place' = p /\ remaining' = r
        /\ wanted' = Least(BufferSamples, r \div b)
    BY <1>7, <1>9, <1>10, <1>15, Zenon DEF BeginBlocks
  <2>2. Taken(D, S, L, b, C, g, "read", p, r, w, c)
    BY <1>13, <2>1, Zenon
  <2>3. Taken(D, S, L, b, C, g, "block", p, r, wanted', 0)
    BY <2>1, <2>2, TakeBegin, Zenon
  <2>4. Taken(D, S, L, b, C, g, wav', place', remaining', wanted', converted')
    BY <2>1, <2>3, Zenon
  <2>. QED BY <1>1, <1>3, <1>4, <1>5, <1>6, <1>7, <1>8, <2>4, Zenon DEF Reads
<1>16. CASE ReadBlock
  <2>1. wav = "block" /\ wanted' = w
    BY <1>11, <1>16, Zenon DEF ReadBlock, ReceiveBlock
  <2>7. PICK n \in Nat : \E y :
          /\ InRead(b, n, r, w, c)
          /\ y = Bytes(L, p, n * b)
          /\ place' = p + y /\ converted' = c + y \div b
          /\ IF y < n * b
               THEN wav' = "write" /\ remaining' = r - converted' * b
               ELSE UNCHANGED <<wav, remaining>>
    BY <1>6, <1>7, <1>9, <1>10, <1>11, <1>12, <1>16, ReadBlockDoes, Zenon
  <2>2. PICK y :
          /\ InRead(b, n, r, w, c)
          /\ y = Bytes(L, p, n * b)
          /\ place' = p + y /\ converted' = c + y \div b
          /\ IF y < n * b
               THEN wav' = "write" /\ remaining' = r - converted' * b
               ELSE UNCHANGED <<wav, remaining>>
    BY <2>7
  <2>3. Taken(D, S, L, b, C, g, "block", p, r, w, c)
    BY <1>13, <2>1, Zenon
  <2>4. /\ y < n * b =>
             Taken(D, S, L, b, C, g, "write", p + y, r - (c + y \div b) * b, w, c + y \div b)
        /\ ~(y < n * b) => Taken(D, S, L, b, C, g, "block", p + y, r, w, c + y \div b)
    BY <2>2, <2>3, TakeBlock, Zenon
  <2>5. Taken(D, S, L, b, C, g, wav', place', remaining', wanted', converted')
    BY <1>10, <2>1, <2>2, <2>4, Zenon
  <2>. QED BY <1>1, <1>3, <1>4, <1>5, <1>6, <1>7, <1>8, <2>5, Zenon DEF Reads
<1>17. CASE EndBlocks
  <2>1. /\ wav = "block" /\ wav' = "write" /\ c = w /\ place' = p /\ wanted' = w
        /\ converted' = w /\ remaining' = r - w * b
    BY <1>7, <1>9, <1>10, <1>11, <1>12, <1>17, Zenon DEF EndBlocks, locals
  <2>2. w = Least(BufferSamples, r \div b)
    BY <1>7, <1>10, <1>11, <2>1, Zenon DEF ReaderSizes
  <2>3. Taken(D, S, L, b, C, g, "block", p, r, w, w)
    BY <1>13, <2>1, Zenon
  <2>4. Taken(D, S, L, b, C, g, "write", p, r - w * b, w, w)
    BY <2>2, <2>3, TakeEnd, Zenon
  <2>5. Taken(D, S, L, b, C, g, wav', place', remaining', wanted', converted')
    BY <2>1, <2>4, Zenon
  <2>. QED BY <1>1, <1>3, <1>4, <1>5, <1>6, <1>7, <1>8, <2>5, Zenon DEF Reads
<1>. QED BY <1>14, <1>15, <1>16, <1>17, Zenon

\* What was read is given, or the first read begins.
LEMMA ReadsGiven ==
  ASSUME WavOpen, ReaderSizes, NEW g \in Nat,
         Reads(file, format, g, wav, place, remaining, wanted, converted)
  PROVE  /\ wav = "write" =>
              /\ converted \div format.channels \in Nat
              /\ Reads(file, format, g + converted \div format.channels, "read", place,
                       remaining, wanted, converted)
         /\ wav = "open" => Reads(file, format, 0, "read", place, remaining, wanted, converted)
         /\ wav = "write" /\ converted = 0 =>
              \E k \in DOMAIN file.chunks : \E m \in 1 .. k - 1 :
                Offers(file, k, m) /\ g = Frames(file, k, m)
<1>. SUFFICES ASSUME wav \in {"open", "write"}
              PROVE  /\ wav = "write" =>
                          /\ converted \div format.channels \in Nat
                          /\ Reads(file, format, g + converted \div format.channels, "read",
                                   place, remaining, wanted, converted)
                     /\ wav = "open" =>
                          Reads(file, format, 0, "read", place, remaining, wanted, converted)
                     /\ wav = "write" /\ converted = 0 =>
                          \E k \in DOMAIN file.chunks : \E m \in 1 .. k - 1 :
                            Offers(file, k, m) /\ g = Frames(file, k, m)
  OBVIOUS
<1>2. file \in WavFiles
  BY DEF WavOpen
<1>0. PICK k \in DOMAIN file.chunks : \E m \in 1 .. k - 1 :
        /\ Offers(file, k, m) /\ format = Said(file, m)
        /\ Taken(file.at[k] + HeaderBytes, file.chunks[k].size, file.length,
                 format.bits \div 8, format.channels, g, wav, place, remaining, wanted, converted)
  BY Zenon DEF Reads
<1>3. PICK m \in 1 .. k - 1 :
        /\ Offers(file, k, m) /\ format = Said(file, m)
        /\ Taken(file.at[k] + HeaderBytes, file.chunks[k].size, file.length,
                 format.bits \div 8, format.channels, g, wav, place, remaining, wanted, converted)
  BY <1>0
<1>4. PICK D \in Nat : D = file.at[k] + HeaderBytes
  BY <1>2, <1>3, DataNumbers, Zenon
<1>5. PICK S \in Nat : S = file.chunks[k].size
  BY <1>2, <1>3, DataNumbers, Zenon
<1>6. PICK L \in Nat : L = file.length
  BY <1>2, <1>3, DataNumbers, Zenon
<1>7. PICK b \in Widths : b = format.bits \div 8
  BY ReaderNumbers DEF SampleBytes
<1>8. PICK C \in Channels : C = format.channels
  BY ReaderNumbers
<1>9. place \in Nat /\ remaining \in Nat /\ converted \in Nat
  BY ReaderNumbers, Zenon
<1>10. Taken(D, S, L, b, C, g, wav, place, remaining, wanted, converted)
  BY <1>3, <1>4, <1>5, <1>6, <1>7, <1>8, Zenon
<1>11. ASSUME wav = "write"
       PROVE  /\ converted \div format.channels \in Nat
              /\ Reads(file, format, g + converted \div format.channels, "read", place,
                       remaining, wanted, converted)
  <2>1. converted \div C \in Nat
    BY <1>9, InFrames, Zenon
  <2>2. Taken(D, S, L, b, C, g + converted \div C, "read", place, remaining, wanted, converted)
    BY <1>9, <1>10, <1>11, TakeGiven, Zenon
  <2>. QED BY <1>3, <1>4, <1>5, <1>6, <1>7, <1>8, <2>1, <2>2, Zenon DEF Reads
<1>12. ASSUME wav = "open"
       PROVE  Reads(file, format, 0, "read", place, remaining, wanted, converted)
  <2>1. D <= L
    <3>1. file.at[k] + 8 <= file.length
      BY <1>3, Zenon DEF Offers, HeaderBytes
    <3>. QED BY <1>4, <1>6, <3>1, Zenon DEF HeaderBytes
  <2>2. Taken(D, S, L, b, C, 0, "read", place, remaining, wanted, converted)
    BY <1>10, <1>12, <2>1, TakeFirst, Zenon
  <2>. QED BY <1>3, <1>4, <1>5, <1>6, <1>7, <1>8, <2>2, Zenon DEF Reads
<1>13. ASSUME wav = "write", converted = 0
       PROVE  \E j \in DOMAIN file.chunks : \E l \in 1 .. j - 1 :
                Offers(file, j, l) /\ g = Frames(file, j, l)
  <2>1. g = Total(D, S, L, b) \div C
    BY <1>10, <1>13, TakenAll, Zenon
  <2>2. format.bits = file.chunks[m].format.bits
        /\ format.channels = file.chunks[m].format.channels
    <3>1. PICK f \in Formats : f = file.chunks[m].format
      <4>1. k \in 1 .. Len(file.chunks)
        BY <1>2, DataNumbers, Zenon
      <4>2. m \in 1 .. Len(file.chunks)
        <5>1. Len(file.chunks) \in Nat
          BY <1>2, Layout, Zenon
        <5>. QED BY <4>1, <5>1
      <4>3. file.chunks[m].id = "fmt "
        BY <1>3, Zenon DEF Offers, LastFormat
      <4>. QED BY <1>2, <4>2, <4>3, Layout, Zenon
    <3>2. format = [f EXCEPT !.tag = TagOf(file.chunks[m])]
      BY <1>3, <3>1, Zenon DEF Said
    <3>3. f.bits = format.bits /\ f.channels = format.channels
      BY <3>2 DEF Formats
    <3>. QED BY <3>1, <3>3, Zenon
  <2>3. PICK a \in Nat : a = file.at[k] /\ D = a + 8
    <3>1. k \in 1 .. Len(file.chunks)
      BY <1>2, DataNumbers, Zenon
    <3>2. file.at[k] \in Nat
      BY <1>2, <3>1, Layout, Zenon
    <3>. QED BY <1>4, <3>2, Zenon DEF HeaderBytes
  <2>4. L - D = L - a - 8
    BY <2>3
  <2>5. g = (Least(S, L - a - 8) \div b) \div C
    BY <2>1, <2>4, Zenon DEF Total
  <2>6. g = Frames(file, k, m)
    BY <1>5, <1>6, <1>7, <1>8, <2>2, <2>3, <2>5, Zenon DEF Frames, HeaderBytes
  <2>. QED BY <1>3, <2>6, Zenon
<1>. QED BY <1>11, <1>12, <1>13, Zenon

\* What a read has missed stays missed within a pass.
LEMMA MissedKept ==
  ASSUME ~missed',
         \/ Decode
         \/ StartReads
         \/ GiveMp3
         \/ GiveWav
         \/ UNCHANGED <<decoder, reader>>
  PROVE  ~missed
<1>1. ASSUME Decode PROVE ~missed
  <2>1. ReaderStep => missed' = missed
    BY Zenon DEF ReaderStep, ReadFormat, SkipChunk, EnterData, Refuse, Read16,
       BeginBlocks, ReadBlock, EndBlocks
  <2>2. ~ReadFails
    BY Zenon DEF ReadFails, WalkFails, ShortRead16, ShortBlock
  <2>3. UNCHANGED reader => missed' = missed
    BY Zenon DEF reader
  <2>. QED BY <1>1, <2>1, <2>2, <2>3, Zenon DEF Decode
<1>2. ASSUME StartReads \/ GiveMp3 \/ GiveWav \/ UNCHANGED <<decoder, reader>>
      PROVE  ~missed
  BY <1>2, Zenon DEF StartReads, GiveMp3, GiveWav, reader
<1>. QED BY <1>1, <1>2, Zenon

\* Every step keeps the pace of a WAV file.
LEMMA WavPaceStep ==
  IInv /\ Control /\ PlayerPace /\ ReaderInv /\ WavPace /\ [Next]_vars => WavPace'
<1> SUFFICES ASSUME IInv, Control, PlayerPace, ReaderInv, WavPace, [Next]_vars,
                    result' = "running", song'.kind = "wav", phase' # "failed", ~missed'
             PROVE  /\ Given' \in Nat
                    /\ wav' \in {"walk", "refused", "open"} => Given' = 0
                    /\ wav' \in {"open", "read", "block", "write"} =>
                         Reads(file', format', Given', wav', place', remaining', wanted',
                               converted')
  BY Zenon DEF WavPace
<1>0. WavOpen /\ ReaderSizes /\ OnWay
  BY Zenon DEF ReaderInv
<1>1. CASE Pass
  <2>1. Given' = 0 /\ song.kind = "wav"
    BY <1>1, PassGiven, Zenon
  <2>2. wav' \in {"walk", "refused"}
    BY <1>1, <2>1 DEF Pass, OpenWav
  <2>. QED BY <2>1, <2>2
<1>2. CASE ~Pass
  <2>1. /\ result = "running" /\ phase # "failed" /\ UNCHANGED <<song, begun>>
        /\ Given' = Given \/ GiveMp3 \/ GiveWav
        /\ \/ Decode
           \/ StartReads
           \/ GiveMp3
           \/ GiveWav
           \/ UNCHANGED <<decoder, reader>>
    BY <1>2, WithinPass, Zenon
  <2>2. song.kind = "wav" /\ step = "off"
    BY <2>1 DEF Control
  <2>3. /\ Given \in Nat
        /\ wav \in {"walk", "refused", "open"} => Given = 0
        /\ wav \in {"open", "read", "block", "write"} =>
             Reads(file, format, Given, wav, place, remaining, wanted, converted)
    <3>1. ~missed
      BY <1>2, <2>1, MissedKept, Zenon
    <3>. QED BY <2>1, <2>2, <3>1, Zenon DEF WavPace
  <2>4. ~GiveMp3
    BY <2>2 DEF GiveMp3
  <2>5. PICK g \in Nat : g = Given
    BY <2>3
  <2>6. CASE Decode
    <3>1. ReaderStep
      <4>1. ~DecoderStep
        BY <2>2, DecoderPlaces
      <4>2. ~ReadFails
        BY Zenon DEF ReadFails, WalkFails, ShortRead16, ShortBlock
      <4>. QED BY <2>6, <4>1, <4>2, Zenon DEF Decode
    <3>2. Given' = g
      <4>1. ~GiveWav
        BY <3>1, ReaderPlaces DEF GiveWav
      <4>. QED BY <2>1, <2>4, <2>5, <4>1, Zenon
    <3>3. CASE ReadFormat \/ SkipChunk \/ Refuse
      <4>1. wav = "walk" /\ wav' \in {"walk", "refused"}
        <5>1. CASE ReadFormat \/ SkipChunk
          <6>1. \E c : c \in Chunk
            BY <5>1, Zenon DEF ReadFormat, SkipChunk
          <6>2. wav = "walk"
            BY <6>1, Zenon DEF Chunk
          <6>. QED BY <5>1, <6>2 DEF ReadFormat, SkipChunk
        <5>2. CASE Refuse
          BY <5>2 DEF Refuse
        <5>. QED BY <3>3, <5>1, <5>2
      <4>2. g = 0
        BY <2>3, <2>5, <4>1
      <4>. QED BY <3>2, <4>1, <4>2
    <3>4. CASE EnterData
      <4>1. wav = "walk" /\ wav' = "open"
        <5>1. \E c : c \in Chunk
          BY <3>4, Zenon DEF EnterData
        <5>2. wav = "walk"
          BY <5>1, Zenon DEF Chunk
        <5>. QED BY <3>4, <5>2, Zenon DEF EnterData
      <4>2. g = 0
        BY <2>3, <2>5, <4>1
      <4>3. Reads(file', format', g, wav', place', remaining', wanted', converted')
        BY <1>0, <3>4, <4>1, EnterDataReads, Zenon
      <4>. QED BY <3>2, <4>1, <4>2, <4>3, Zenon
    <3>5. CASE Read16 \/ BeginBlocks \/ ReadBlock \/ EndBlocks
      <4>1. wav \in {"read", "block"} /\ wav' \notin {"walk", "refused", "open"}
        BY <3>5 DEF Read16, Receive16, BeginBlocks, ReadBlock, ReceiveBlock, EndBlocks
      <4>2. Reads(file, format, g, wav, place, remaining, wanted, converted)
        BY <2>3, <2>5, <4>1
      <4>3. Reads(file', format', g, wav', place', remaining', wanted', converted')
        BY <1>0, <3>5, <4>2, ReadsStep, Zenon
      <4>. QED BY <3>2, <4>1, <4>3, Zenon
    <3>. QED BY <3>1, <3>3, <3>4, <3>5, Zenon DEF ReaderStep
  <2>7. CASE StartReads
    <3>1. wav = "open" /\ wav' = "read"
          /\ UNCHANGED <<file, format, place, remaining, wanted, converted>>
      BY <2>7, Zenon DEF StartReads, locals
    <3>2. g = 0 /\ ~GiveWav
      BY <2>3, <2>5, <3>1 DEF GiveWav
    <3>3. Given' = g
      BY <2>1, <2>4, <2>5, <3>2, Zenon
    <3>4. Reads(file, format, g, wav, place, remaining, wanted, converted)
      BY <2>3, <2>5, <3>1
    <3>5. Reads(file, format, 0, "read", place, remaining, wanted, converted)
      BY <1>0, <3>1, <3>4, ReadsGiven, Zenon
    <3>6. Reads(file', format', g, wav', place', remaining', wanted', converted')
      BY <3>1, <3>2, <3>5, Zenon
    <3>. QED BY <3>1, <3>2, <3>3, <3>6, Zenon
  <2>8. CASE GiveWav
    <3>1. wav = "write" /\ wav' = "read" /\ Write(converted \div format.channels)
          /\ UNCHANGED <<file, format, place, remaining, wanted, converted>>
      BY <2>8, Zenon DEF GiveWav, locals
    <3>2. Reads(file, format, g, wav, place, remaining, wanted, converted)
      BY <2>3, <2>5, <3>1
    <3>3. /\ converted \div format.channels \in Nat
          /\ Reads(file, format, g + converted \div format.channels, "read", place,
                   remaining, wanted, converted)
      BY <1>0, <3>1, <3>2, ReadsGiven, Zenon
    <3>4. PICK n \in Nat : n = converted \div format.channels
      BY <3>3
    <3>5. Given' = g + n
      <4>1. Counters /\ Fresh /\ begun' = begun
        BY <2>1, Zenon DEF IInv
      <4>2. Write(n)
        BY <3>1, <3>4, Zenon
      <4>. QED BY <2>1, <2>5, <4>1, <4>2, GivenStep, Zenon
    <3>6. g + n \in Nat
      OBVIOUS
    <3>7. Reads(file', format', g + n, wav', place', remaining', wanted', converted')
      BY <3>1, <3>3, <3>4, Zenon
    <3>8. wav' \notin {"walk", "refused", "open"}
      BY <3>1
    <3>. QED BY <3>5, <3>6, <3>7, <3>8, Zenon
  <2>9. CASE ~GiveWav /\ UNCHANGED <<decoder, reader>>
    <3>1. Given' = g
      BY <2>1, <2>4, <2>5, <2>9, Zenon
    <3>2. UNCHANGED <<wav, file, format, place, remaining, wanted, converted>>
      BY <2>9, Zenon DEF reader
    <3>. QED BY <2>3, <2>5, <3>1, <3>2, Zenon
  <2>. QED BY <2>1, <2>4, <2>6, <2>7, <2>8, <2>9, Zenon
<1>. QED BY <1>1, <1>2

-----------------------------------------------------------------------------
(***************************************************************************)
(* When a pass ends, all that was to be played was given.                  *)
(***************************************************************************)

\* What PlayedWhole says of passes that are over.
Played ==
  /\ PassDone("wav") /\ ~missed =>
       \E k \in DOMAIN song.bytes.chunks : \E m \in 1 .. k - 1 :
         Offers(song.bytes, k, m) /\ inIndex - begun = Frames(song.bytes, k, m)
  /\ PassDone("mp3") => inIndex - begun = frames * FrameSamples
  /\ PassDone("mp3") /\ Clean(song.bytes) /\ MissesEarly(song.bytes) =>
       frames = Cardinality(Good(song.bytes))

\* A pass is over where it has ended, or was before.
LEMMA EndsOrStays ==
  ASSUME Control, Switches, [Next]_vars, result' = "ended", passes' > 0
  PROVE  \/ UNCHANGED vars
         \/ step = "done" /\ frames > 0 /\ EndPass("ended")
         \/ wav = "write" /\ converted = 0 /\ EndPass("ended")
<1>1. ~Begin /\ ~Pass /\ ~PassFails /\ ~EndCommand
  BY DEF Begin, Pass, PassFails, EndCommand
<1>2. ASSUME NEW r, EndPass(r) PROVE r = "ended"
  BY <1>2 DEF EndPass
<1>3. ~Fails /\ ~Stopped
  <2>1. ~EndPass("failed") /\ ~EndPass("stopped")
    BY <1>2
  <2>. QED BY <2>1, Zenon DEF Fails, Stopped
<1>4. ASSUME Mp3Ends PROVE step = "done" /\ frames > 0 /\ EndPass("ended")
  <2>1. frames > 0
    BY <1>2, <1>4 DEF Mp3Ends
  <2>. QED BY <1>4, <2>1 DEF Mp3Ends
<1>5. ASSUME WavEnds PROVE wav = "write" /\ converted = 0 /\ EndPass("ended")
  <2>1. ~EndPass("failed")
    BY <1>2
  <2>. QED BY <1>5, <2>1, Zenon DEF WavEnds
<1>6. ASSUME Decode \/ SetRate \/ StartReads \/ GiveMp3 \/ GiveWav \/ Convert PROVE FALSE
  <2>1. result = "ended"
    BY <1>6, Zenon DEF Decode, SetRate, StartReads, GiveMp3, GiveWav, Convert
  <2>2. step = "off" /\ wav = "closed" /\ phase = "idle"
    BY <2>1 DEF Control, Switches
  <2>3. ~DecoderStep /\ ~ReaderStep /\ ~ReadFails
    BY <2>2, DecoderPlaces, ReaderPlaces
  <2>4. ~PlayerStep
    BY <2>2 DEF PlayerStep, FirstFrame, NextFrame, Interpolate, LeaveInterval, Return, WriteFails
  <2>5. ~SetRate /\ ~StartReads /\ ~GiveMp3 /\ ~GiveWav
    BY <2>2 DEF SetRate, StartReads, GiveMp3, GiveWav
  <2>. QED BY <1>6, <2>3, <2>4, <2>5, Zenon DEF Decode, Convert
<1>. QED BY <1>1, <1>3, <1>4, <1>5, <1>6, Zenon DEF Next

\* Every step keeps what was found when a pass ended.
LEMMA PlayedStep ==
  ASSUME IInv, Control, DecoderInv, ReaderInv, PlayerPace, Mp3Pace, WavPace, Played, [Next]_vars
  PROVE  Played'
<1>0. CASE ~(result' = "ended" /\ passes' > 0)
  BY <1>0, Zenon DEF Played, PassDone
<1>1. CASE UNCHANGED vars
  <2>1. /\ song' = song /\ result' = result /\ passes' = passes /\ begun' = begun
        /\ inIndex' = inIndex /\ frames' = frames /\ missed' = missed
    BY <1>1, Zenon DEF vars, player, counters, decoder, reader
  <2>. QED BY <2>1, Zenon DEF Played, PassDone
<1>2. CASE step = "done" /\ frames > 0 /\ EndPass("ended")
  <2>1. result = "running" /\ UNCHANGED <<player, song, begun>>
    BY <1>2, Zenon DEF EndPass
  <2>2. song.kind = "mp3" /\ input = song.bytes /\ phase = "idle"
    BY <1>2, <2>1 DEF Control, IInv, Switches
  <2>3. frames' = frames
    BY <1>2, <2>2, Zenon DEF EndPass, CloseMp3
  <2>4. PICK n \in Nat : n = frames /\ n # 0
    BY <1>2 DEF DecoderInv, Sizes, DecoderType
  <2>5. PICK F \in Nat : F = FrameSamples /\ F # 0
    BY MusicAssumption
  <2>6. Given + 0 = n * F
    <3>1. "done" # "write" /\ "idle" # "failed"
      OBVIOUS
    <3>. QED BY <1>2, <2>1, <2>2, <2>4, <2>5, <3>1, Zenon DEF Mp3Pace
  <2>7. PICK a \in Nat : a = inIndex
    BY DEF PlayerPace, PlayerType
  <2>8. PICK b \in Nat : b = begun
    BY DEF PlayerPace
  <2>9. todo = 0
    BY <2>2 DEF PlayerPace, InCall
  <2>10. a - b = n * F
    <3>1. Given = IF enabled THEN a + 0 - b ELSE 0
      BY <2>7, <2>8, <2>9, Zenon DEF Given
    <3>2. n * F \in Nat /\ n * F # 0
      BY <2>4, <2>5
    <3>. QED BY <2>6, <3>1, <3>2
  <2>11. inIndex' = inIndex /\ begun' = begun
    BY <2>1, Zenon DEF player, counters
  <2>12. inIndex' - begun' = frames' * FrameSamples
    BY <2>3, <2>4, <2>5, <2>7, <2>8, <2>10, <2>11, Zenon
  <2>13. ASSUME Clean(song'.bytes), MissesEarly(song'.bytes)
         PROVE  frames' = Cardinality(Good(song'.bytes))
    <3>1. song' = song
      BY <2>1, Zenon
    <3>2. Clean(input) /\ MissesEarly(input)
      BY <2>2, <2>13, <3>1, Zenon
    <3>3. step # "off"
      BY <1>2
    <3>4. frames = Cardinality(GoodBefore(from)) /\ GoodBefore(from) = Good(input)
      BY <1>2, <3>2, <3>3, Zenon DEF DecoderInv, Counted, AllRead
    <3>. QED BY <2>2, <2>3, <3>1, <3>4, Zenon
  <2>14. ~PassDone("wav")'
    <3>1. song'.kind = "mp3" /\ "mp3" # "wav"
      BY <2>1, <2>2
    <3>. QED BY <3>1, Zenon DEF PassDone
  <2>. QED BY <2>12, <2>13, <2>14, Zenon DEF Played
<1>3. CASE wav = "write" /\ converted = 0 /\ EndPass("ended")
  <2>1. result = "running" /\ UNCHANGED <<player, song, begun>>
    BY <1>3, Zenon DEF EndPass
  <2>2. song.kind = "wav" /\ file = song.bytes /\ phase = "idle" /\ enabled
    BY <1>3, <2>1 DEF Control, IInv, Switches
  <2>12. CASE missed
    <3>1. missed' = missed
      BY <1>3, <2>2, Zenon DEF EndPass, CloseWav, reader
    <3>2. ~PassDone("mp3")'
      <4>1. song'.kind = "wav" /\ "mp3" # "wav"
        BY <2>1, <2>2
      <4>. QED BY <4>1, Zenon DEF PassDone
    <3>. QED BY <2>12, <3>1, <3>2, Zenon DEF Played
  <2>13. SUFFICES ASSUME ~missed PROVE Played'
    BY <2>12, Zenon
  <2>3. Given \in Nat /\ Reads(file, format, Given, wav, place, remaining, wanted, converted)
    BY <1>3, <2>1, <2>2, <2>13 DEF WavPace
  <2>4. PICK g \in Nat : g = Given
    BY <2>3, Zenon
  <2>5. Reads(file, format, g, wav, place, remaining, wanted, converted)
    BY <2>3, <2>4, Zenon
  <2>6. WavOpen /\ ReaderSizes
    BY Zenon DEF ReaderInv
  <2>7. \E k \in DOMAIN file.chunks : \E m \in 1 .. k - 1 :
          Offers(file, k, m) /\ g = Frames(file, k, m)
    BY <1>3, <2>5, <2>6, ReadsGiven, Zenon
  <2>8. g = inIndex - begun
    <3>1. todo = 0
      BY <2>2 DEF PlayerPace, InCall
    <3>2. PICK a \in Nat : a = inIndex
      BY DEF PlayerPace, PlayerType
    <3>3. PICK b \in Nat : b = begun
      BY DEF PlayerPace
    <3>4. Given = IF enabled THEN a + 0 - b ELSE 0
      BY <3>1, <3>2, <3>3, Zenon DEF Given
    <3>5. g = a - b
      BY <2>2, <2>4, <3>4
    <3>. QED BY <3>2, <3>3, <3>5, Zenon
  <2>9. inIndex' = inIndex /\ begun' = begun /\ song' = song
    BY <2>1, Zenon DEF player, counters
  <2>10. \E k \in DOMAIN song'.bytes.chunks : \E m \in 1 .. k - 1 :
           Offers(song'.bytes, k, m) /\ inIndex' - begun' = Frames(song'.bytes, k, m)
    BY <2>2, <2>7, <2>8, <2>9, Zenon
  <2>11. ~PassDone("mp3")'
    <3>1. song'.kind = "wav" /\ "mp3" # "wav"
      BY <2>2, <2>9
    <3>. QED BY <3>1, Zenon DEF PassDone
  <2>. QED BY <2>10, <2>11, Zenon DEF Played
<1>4. CASE result' = "ended" /\ passes' > 0
  <2>1. Switches
    BY Zenon DEF IInv
  <2>. QED BY <1>1, <1>2, <1>3, <1>4, <2>1, EndsOrStays, Zenon
<1>. QED BY <1>0, <1>4

\* What holds throughout, together.
PlayInv ==
  IInv /\ Control /\ DecoderInv /\ ReaderInv /\ PlayerPace /\ Mp3Pace /\ WavPace /\ Played

\* It holds in the beginning.
LEMMA PlayInit == Init => PlayInv
<1> SUFFICES ASSUME Init PROVE PlayInv
  OBVIOUS
<1>1. result = "none" /\ step = "off" /\ wav = "closed" /\ phase = "idle" /\ ~enabled
  BY DEF Init, InitPlayer, InitDecoder, InitReader
<1>2. Control
  BY <1>1, MusicAssumption DEF Init, Control
<1>3. DecoderInv
  <2>1. Known
    BY <1>1 DEF Init, InitDecoder, Known
  <2>2. Sizes
    <3>1. input.letters = <<>> /\ Len(input.letters) = 0
      BY DEF Init, InitDecoder, NoInput
    <3>2. got = 0 /\ from = 0 /\ offset = 0 /\ frames = 0 /\ ended = FALSE
      BY DEF Init, InitDecoder
    <3>3. DecoderType
      <4>1. 0 \in 0 .. 0 /\ 0 \in 0 .. 0 + 1 /\ 0 \in Nat /\ FALSE \in BOOLEAN
            /\ "off" \in {"off", "fill", "decode", "write", "unfit", "done"}
        OBVIOUS
      <4>. QED BY <1>1, <3>1, <3>2, <4>1, Zenon DEF DecoderType, BeyondBytes
    <3>4. Fits(0, 0, 0, 0, FALSE, "off")
      BY SizeAssumption DEF Fits
    <3>. QED BY <1>1, <3>1, <3>2, <3>3, <3>4, Zenon DEF Sizes
  <2>. QED BY <1>1, <2>1, <2>2 DEF DecoderInv, Aligned, Counted, AllRead, EndKnown
<1>4. ReaderInv
  <2>1. NoFormat \in Formats
    BY DEF NoFormat, Formats
  <2>2. /\ file = NoFile /\ place = 0 /\ format = NoFormat /\ found = FALSE /\ remaining = 0
        /\ wanted = 0 /\ converted = 0 /\ missed = FALSE
    BY Zenon DEF Init, InitReader
  <2>3. 0 \in Nat /\ 0 \in 0 .. BufferSamples /\ FALSE \in BOOLEAN
    BY BlockAssumption
  <2>4. ReaderType
    BY <1>1, <2>2, <2>3 DEF ReaderType
  <2>5. ReaderSizes
    BY <1>1, <2>1, <2>2, <2>4 DEF ReaderSizes
  <2>. QED BY <1>1, <2>2, <2>5 DEF ReaderInv, WavOpen, OnWay, Refused
<1>5. PlayerPace
  <2>1. /\ have = FALSE /\ buffered = 0 /\ inIndex = 0 /\ outIndex = 0 /\ todo = 0
        /\ heard = 0 /\ begun = 0 /\ rate = OutputRate
    BY Zenon DEF Init, InitPlayer
  <2>2. 0 \in Nat /\ 0 \in 0 .. ConversionFrames - 1
    BY BufferAssumption
  <2>3. PlayerType
    <3>1. {inIndex, outIndex, todo, heard} \subseteq Nat
      BY <2>1
    <3>2. enabled \in BOOLEAN /\ have \in BOOLEAN /\ (have => enabled)
      BY <2>1 DEF Init, InitPlayer
    <3>3. phase \in {"idle", "next", "interval", "failed"}
      BY <1>1
    <3>. QED BY <2>1, <2>2, <3>1, <3>2, <3>3, RatesPlayed, Zenon DEF PlayerType
  <2>. QED BY <1>1, <2>1, <2>2, <2>3 DEF PlayerPace, InCall
<1>6. Mp3Pace /\ WavPace /\ Played
  BY <1>1 DEF Mp3Pace, WavPace, Played, PassDone
<1>. QED BY <1>2, <1>3, <1>4, <1>5, <1>6, InitInv, Zenon DEF PlayInv

\* The whole invariant holds in every reachable state.
THEOREM PlayInvariance == Spec => []PlayInv
<1>1. ASSUME PlayInv, [Next]_vars PROVE PlayInv'
  <2>1. IInv /\ Control /\ DecoderInv /\ ReaderInv /\ PlayerPace /\ Mp3Pace /\ WavPace /\ Played
    BY <1>1, Zenon DEF PlayInv
  <2>2. Switches /\ WavOpen /\ ReaderSizes /\ Sizes
    BY <2>1, Zenon DEF IInv, ReaderInv, DecoderInv
  <2>3. DecoderAction /\ ReaderAction
    BY <1>1, <2>1, StepParts, Zenon
  <2>4. IInv'
    BY <1>1, <2>1, InvStep, Zenon
  <2>5. Control'
    BY <1>1, <2>1, <2>2, ControlStep, Zenon
  <2>6. DecoderInv' /\ ReaderInv'
    BY <2>1, <2>3, DecoderInvStep, ReaderInvStep, Zenon
  <2>7. PlayerPace'
    BY <1>1, <2>1, <2>2, PlayerPaceStep, Zenon
  <2>8. Mp3Pace' /\ WavPace'
    BY <1>1, <2>1, <2>2, Mp3PaceStep, WavPaceStep, Zenon
  <2>9. Played'
    BY <1>1, <2>1, PlayedStep, Zenon
  <2>. QED BY <2>4, <2>5, <2>6, <2>7, <2>8, <2>9, Zenon DEF PlayInv
<1>. QED BY PlayInit, <1>1, PTL DEF Spec

\* Every variable keeps its type (TypeOK): the counters of the player and the passes
\* of the command are numbers in their ranges, the parts of the decoder and of the
\* reader at places of their loops.  It says of "from" only that it is at most one
\* letter beyond what was read, and of positions in WAV files only that they are
\* numbers; what is read and moved where is InBuffer.
THEOREM TypeCorrect == Spec => []TypeOK
<1>1. PlayInv => TypeOK
  BY Zenon DEF PlayInv, Control, PlayerPace, DecoderInv, Sizes, ReaderInv, ReaderSizes, TypeOK
<1>. QED BY PlayInvariance, <1>1, PTL

\* What mp3_decode_stream moves and reads into its buffer fits into it, whatever is
\* in the file, and bytes_left is negative by the rest of a header at most.  Nothing
\* is read from before the buffer if the file is Clean and CleanEnd; of other files
\* the theorem says no such thing, and mp3_decode_stream does read there
\* (mp3_decoder.c:50-51), see BufferFits.
THEOREM InBuffer == Spec => []BufferFits
<1>1. PlayInv => BufferFits
  BY DecoderFits, Zenon DEF PlayInv
<1>. QED BY PlayInvariance, <1>1, PTL

\* Each pass over a WAV file none of whose reads fails gives the player every frame
\* of it once, and each pass over an MP3 file every frame that was decoded, for every
\* file and every size of the buffers and blocks it is read through; those are all
\* frames of the MP3 file if it is Clean and MissesEarly (PlayedWhole).
THEOREM WholePasses == Spec => []PlayedWhole
<1>1. PlayInv => PlayedWhole
  BY Zenon DEF PlayInv, ReaderInv, Refused, Played, PlayedWhole
<1>. QED BY PlayInvariance, <1>1, PTL
=============================================================================
