-------------------------- MODULE MCLocalPlayback --------------------------
(***************************************************************************)
(* MP3 files of up to four pieces: frames of each kind, cut off frames and *)
(* noise.  WAV files of every width, with chunks around the samples, whole *)
(* and cut off in each of their chunks, and with sizes that lead back.     *)
(***************************************************************************)
EXTENDS LocalPlayback

Pieces == {<<"F", "E", "h", "x">>, <<"F", "E", "h", "m">>, <<"F", "E", "h">>, <<"F", "E">>,
           <<"F">>}

Joined(pieces) ==
  LET joined[i \in 0 .. Len(pieces)] ==
        IF i = 0 THEN <<>> ELSE joined[i - 1] \o pieces[i]
  IN joined[Len(pieces)]

\* A file of letters, with the positions of its frames.
Mp3File(letters) ==
  LET heads[i \in 0 .. Len(letters) + FrameBytes] ==
        IF i >= Len(letters) THEN {}
        ELSE IF Begins(letters, i) THEN {i} \cup heads[i + FrameBytes]
        ELSE heads[i + 1]
  IN [letters |-> letters, heads |-> heads[0]]

\* Noise that is longer than the threshold, like the tags before and behind the
\* music; behind it with what looks like a frame across the end of the buffer.
NoisyMp3Files ==
  {Joined([k \in 1 .. noise |-> <<"x">>] \o [k \in 1 .. 2 |-> <<"F", "E", "h", "x">>]) :
     noise \in 0 .. 15}
  \cup {Joined(<< <<"F", "E", "h", "x">> >> \o [k \in 1 .. noise |-> <<"x">>]
                \o << <<"F", "E">> >> \o [k \in 1 .. 3 |-> <<"x">>]) :
           noise \in 10 .. 18}

\* A frame of another layer, alone and behind others.
UnfitMp3Files ==
  {Joined(<<p, q, <<"F", "E", "h", "l">> >>) : p, q \in Pieces}
  \cup {<<"F", "E", "h", "l", "F", "E", "h", "x">>}

SomeMp3Files ==
  {Mp3File(letters) :
     letters \in {Joined(p) : p \in UNION {[1 .. n -> Pieces] : n \in 0 .. 4}}
                 \cup NoisyMp3Files \cup UnfitMp3Files}

Fmt(size, tag, channels, hertz, bits) ==
  [id |-> "fmt ", size |-> size, sub |-> 1,
   format |-> [tag |-> tag, channels |-> channels, rate |-> hertz, bits |-> bits]]
Other(size) == [id |-> "LIST", size |-> size]
Data(size) == [id |-> "data", size |-> size]

Layouts ==
  {<<Fmt(16, 1, 1, 4, bits), Data(size)>> : bits \in {8, 16, 24, 32}, size \in {0, 1, 13, 19}}
  \cup {<<Fmt(16, 1, 2, 9, bits), Data(size)>> : bits \in {8, 16, 24}, size \in {5, 20}}
  \cup {<<Fmt(18, 3, 1, 6, 32), Data(8)>>, <<Fmt(40, Extensible, 2, 6, 16), Data(8)>>,
        <<Fmt(41, Extensible, 2, 6, 16), Data(9)>>,
        <<Other(3), Fmt(16, 1, 1, 6, 16), Other(5), Data(7), Other(2)>>,
        <<Other(2), Fmt(16, 1, 1, 6, 8), Fmt(17, 1, 1, 4, 16), Data(6)>>,
        <<Data(4), Fmt(16, 1, 1, 6, 16)>>, <<Fmt(14, 1, 1, 6, 16), Data(4)>>,
        <<Fmt(16, 2, 1, 6, 16), Data(4)>>, <<Fmt(16, 1, 3, 6, 16), Data(4)>>,
        <<Fmt(16, 1, 1, 60, 16), Data(4)>>, <<Fmt(18, Extensible, 1, 6, 16), Data(4)>>,
        <<Fmt(16, 1, 1, 6, 16), Other(1)>>}

\* Where the chunks of a file begin, and where the last one ends.
Places(chunks) ==
  LET at[k \in 1 .. Len(chunks) + 1] ==
        IF k = 1 THEN RiffBytes
        ELSE IF 2 * chunks[k - 1].size < SizeLimit
          THEN at[k - 1] + HeaderBytes + Padded(chunks[k - 1].size)
        ELSE After(at[k - 1], chunks[k - 1])
  IN at

\* Sizes that lead back: to the same header, to an earlier one, to before the file, to
\* samples within another chunk, by an odd number, and from a format.
LeadingBack ==
  {<<Other(120)>>, <<Fmt(16, 1, 1, 6, 16), Other(96)>>,
   <<Other(98)>>, <<Fmt(40, Extensible, 1, 6, 16), Other(106), Data(6)>>,
   <<Other(121), Other(53)>>, <<Fmt(120, 1, 1, 6, 16)>>}

SomeWavFiles ==
  {[chunks |-> c, at |-> Places(c), length |-> Places(c)[Len(c) + 1] - cut] :
     c \in Layouts, cut \in {0, 1, 3, 11, 24}}
  \cup {[chunks |-> c, at |-> Places(c), length |-> n] : c \in LeadingBack, n \in {19, 40, 70}}
=============================================================================
