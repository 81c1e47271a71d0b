----------------------- MODULE SerialTransportProofs -----------------------
(***************************************************************************)
(* Proofs about SerialTransport, for all lines the hosts may send and all  *)
(* sizes of the buffers.                                                   *)
(*                                                                         *)
(* DamageConfined is not inductive: it speaks of a line once it has left   *)
(* the buffers, and says nothing of the bytes that are still in them.  The *)
(* invariant says, of every clean line, that its bytes follow each other   *)
(* without a gap from the host to the line buffer (Chained), that a line   *)
(* buffer with a part of it holds its beginning and nothing else (Joined), *)
(* and that from its newline on it is a request, a text in the queue, or a *)
(* newline on its way (UsbGood, UartGood).  A byte that is lost makes a gap *)
(* in lines that are not clean, and in no other.                           *)
(***************************************************************************)
EXTENDS SerialTransport, SequenceTheorems, TLAPS

\* The bytes of the lines a host may send.
Bytes(t) == {b \in Nat \X Nat : b[1] \in Lines(t) /\ b[2] <= size[t][b[1]]}

\* The first m bytes of line k, and the byte behind them.
BeginOf(k, m) == [i \in 1 .. m |-> <<k, i>>]

\* (z gives the sizes of the lines of the host.)
Then(z, k, m) == IF m = z[k] THEN <<k, 0>> ELSE <<k, m + 1>>

\* The byte a host sends behind b.
After(z, b) == IF IsNewline(b) THEN <<b[1] + 1, 1>> ELSE Then(z, b[1], b[2])

\* What the USB host has sent and no line buffer has taken yet.
pipe == input \o stream

\* The byte behind place i of the bytes S, where n is the next to be sent.
Following(S, n, i) == IF i < Len(S) THEN S[i + 1] ELSE n

\* A part of line k is in the text.
Has(text, k) == \E i \in DOMAIN text : text[i][1] = k

\* Line k runs through S without a gap, from the byte in front of it to its
\* newline.
Chained(z, k, S, n) ==
  \A i \in DOMAIN S :
    (S[i][1] = k /\ S[i][2] # 0) \/ Following(S, n, i)[1] = k
      => Following(S, n, i) = After(z, S[i])

\* A line buffer that has a part of line k has its beginning and nothing else,
\* and b goes on with it.
Joined(z, k, text, b) ==
  Has(text, k) \/ b[1] = k =>
    \E m \in 0 .. z[k] : text = BeginOf(k, m) /\ b = Then(z, k, m)

\* Line k on its way over USB: in order, and once its newline has been sent, a
\* request or with the newline still to be consumed.
UsbGood(k) ==
  /\ Chained(size["usb"], k, pipe, next["usb"])
  /\ Joined(size["usb"], k, line["usb"], Following(pipe, next["usb"], 0))
  /\ next["usb"][1] > k =>
       k \in whole["usb"] \/ \E i \in DOMAIN pipe : pipe[i] = <<k, 0>>
  /\ k \notin odd["usb"]

\* Line k on its way over the UART: whole in every text of the queue and in the
\* one that is offered to it.
UartGood(k) ==
  /\ rx = "Read" => Joined(size["uart"], k, line["uart"], next["uart"])
  /\ rx = "Offer" =>
       /\ Has(line["uart"], k) => line["uart"] = AsSent("uart", k)
       /\ next["uart"][1] = k => next["uart"] = <<k, 1>>
  /\ \A i \in DOMAIN queue : Has(queue[i], k) => queue[i] = AsSent("uart", k)
  /\ next["uart"][1] > k =>
       \/ k \in whole["uart"]
       \/ \E i \in DOMAIN queue : queue[i] = AsSent("uart", k)
       \/ rx = "Offer" /\ line["uart"] = AsSent("uart", k)
  /\ k \notin odd["uart"]

\* What each host is at: a byte of its lines, or their end.
HostType ==
  /\ size \in Sendings
  /\ next \in [Transports -> Nat \X Nat]
  /\ \A t \in Transports : next[t] \in Bytes(t) \cup {<<Len(size[t]) + 1, 1>>}

\* The buffers hold bytes that were sent, and no more than they can take.
LineType ==
  /\ line \in [Transports -> Text]
  /\ \A t \in Transports : line[t] \in Seq(Bytes(t)) /\ Len(line[t]) <= LineMax

PipeType ==
  /\ stream \in Seq(Bytes("usb")) /\ Len(stream) <= StreamSize
  /\ input \in Seq(Bytes("usb")) /\ Len(input) <= BatchSize
  /\ pc \in {"Receive", "Drain"} => input = <<>>

\* The queue holds texts of bytes, no more than its length.
QueueType == queue \in Seq(Seq(Bytes("uart"))) /\ Len(queue) <= QueueLength

\* The points of the two tasks, and what is left to be written.
TaskType ==
  /\ pc \in {"Receive", "Consume", "Write", "Flush", "Newline", "Drain"}
  /\ rx \in {"Read", "Offer"}
  /\ left \in 0 .. AnswerSize
  /\ left > 0 => pc \in {"Write", "Flush"}
  /\ fifo \in 0 .. FifoSize
  /\ reading \in BOOLEAN

\* Requests and damage are of lines of the hosts.
HistoryType ==
  /\ whole \in [Transports -> SUBSET Nat]
  /\ odd \in [Transports -> SUBSET Nat]
  /\ hurt \in [Transports -> SUBSET Nat]
  /\ \A t \in Transports :
       whole[t] \cup odd[t] \subseteq Lines(t) /\ hurt[t] \subseteq 1 .. Len(size[t]) + 1

Typed == HostType /\ LineType /\ PipeType /\ QueueType /\ TaskType /\ HistoryType

\* Every clean line is on its way as it was sent, or has arrived.
Good ==
  /\ \A k \in Lines("usb") : Clean("usb", k) => UsbGood(k)
  /\ \A k \in Lines("uart") : Clean("uart", k) => UartGood(k)

IInv == Typed /\ Good

-----------------------------------------------------------------------------
\* The lines of a host and their sizes.
LEMMA LineSizes ==
  ASSUME size \in Sendings, NEW t \in Transports
  PROVE  /\ size[t] \in Seq(Nat \ {0}) /\ Len(size[t]) \in Nat
         /\ Lines(t) = 1 .. Len(size[t])
         /\ \A k \in Lines(t) : size[t][k] \in Nat /\ size[t][k] # 0
<1>1. size[t] \in Seq(Nat \ {0})
  BY SizeAssumption
<1>. QED BY <1>1, LenProperties, ElementOfSeq DEF Lines

\* A byte is the pair of its line and its place in it.
LEMMA ByteShape ==
  ASSUME NEW t, NEW b \in Bytes(t)
  PROVE  b \in Nat \X Nat /\ b[1] \in Nat /\ b[2] \in Nat /\ b = <<b[1], b[2]>>
         /\ b[1] \in Lines(t) /\ b[2] <= size[t][b[1]]
BY DEF Bytes

\* The host goes on with a byte of its lines, or has sent them all.
LEMMA AfterType ==
  ASSUME size \in Sendings, NEW t \in Transports, NEW b \in Bytes(t)
  PROVE  After(size[t], b) \in Bytes(t) \cup {<<Len(size[t]) + 1, 1>>}
<1>1. /\ b[1] \in 1 .. Len(size[t]) /\ b[2] \in 0 .. size[t][b[1]]
      /\ Len(size[t]) \in Nat /\ Lines(t) = 1 .. Len(size[t])
      /\ \A k \in Lines(t) : size[t][k] \in Nat /\ size[t][k] # 0
  BY LineSizes, ByteShape
<1>2. CASE b[2] = 0 /\ b[1] < Len(size[t])
  <2>1. After(size[t], b) = <<b[1] + 1, 1>>
    BY <1>2 DEF After, IsNewline
  <2>2. b[1] + 1 \in Lines(t) /\ size[t][b[1] + 1] \in Nat \ {0}
    BY <1>1, <1>2
  <2>. QED BY <2>1, <2>2 DEF Bytes
<1>3. CASE b[2] = 0 /\ b[1] = Len(size[t])
  BY <1>1, <1>3 DEF After, IsNewline
<1>4. CASE b[2] # 0
  <2>1. After(size[t], b) \in {<<b[1], 0>>, <<b[1], b[2] + 1>>}
        /\ (b[2] = size[t][b[1]] => After(size[t], b) = <<b[1], 0>>)
    BY <1>4 DEF After, IsNewline, Then
  <2>2. size[t][b[1]] \in Nat
    BY <1>1
  <2>. QED BY <1>1, <2>1, <2>2 DEF Bytes
<1>. QED BY <1>1, <1>2, <1>3, <1>4

\* The beginning of a line as a sequence.
LEMMA BeginType ==
  ASSUME NEW k \in Nat, NEW m \in Nat
  PROVE  /\ BeginOf(k, m) \in Seq(Nat \X Nat) /\ Len(BeginOf(k, m)) = m
         /\ DOMAIN BeginOf(k, m) = 1 .. m
         /\ \A i \in 1 .. m : BeginOf(k, m)[i] = <<k, i>>
<1>1. BeginOf(k, m) \in [1 .. m -> Nat \X Nat]
  BY DEF BeginOf
<1>2. BeginOf(k, m) \in Seq(Nat \X Nat)
  BY <1>1, SeqDef
<1>3. DOMAIN BeginOf(k, m) = 1 .. m /\ \A i \in 1 .. m : BeginOf(k, m)[i] = <<k, i>>
  BY DEF BeginOf
<1>4. Len(BeginOf(k, m)) = m
  BY <1>2, <1>3, LenProperties
<1>. QED BY <1>2, <1>3, <1>4

\* The beginning of a line grows by its next byte, and is not empty but at 0.
LEMMA Begins ==
  ASSUME NEW k \in Nat, NEW m \in Nat
  PROVE  /\ BeginOf(k, 0) = <<>>
         /\ Append(BeginOf(k, m), <<k, m + 1>>) = BeginOf(k, m + 1)
         /\ (m # 0 => BeginOf(k, m) # <<>> /\ BeginOf(k, m)[1][1] = k)
<1>1. BeginOf(k, 0) = <<>>
  BY BeginType, EmptySeq, SeqEqual
<1>2. Append(BeginOf(k, m), <<k, m + 1>>) = BeginOf(k, m + 1)
  <2> DEFINE b == BeginOf(k, m)
             s == Append(b, <<k, m + 1>>)
             u == BeginOf(k, m + 1)
  <2>1. b \in Seq(Nat \X Nat) /\ Len(b) = m /\ \A i \in 1 .. m : b[i] = <<k, i>>
    BY BeginType
  <2>2. u \in Seq(Nat \X Nat) /\ Len(u) = m + 1 /\ \A i \in 1 .. m + 1 : u[i] = <<k, i>>
    <3>1. m + 1 \in Nat
      OBVIOUS
    <3>. QED BY <3>1, BeginType, Zenon
  <2> HIDE DEF b, u
  <2>3. <<k, m + 1>> \in Nat \X Nat
    OBVIOUS
  <2>4. /\ s \in Seq(Nat \X Nat) /\ Len(s) = m + 1
        /\ s[m + 1] = <<k, m + 1>> /\ \A i \in 1 .. m : s[i] = b[i]
    BY <2>1, <2>3, AppendProperties
  <2> HIDE DEF s
  <2>5. \A i \in 1 .. m + 1 : s[i] = u[i]
    <3>1. ASSUME NEW i \in 1 .. m + 1 PROVE s[i] = u[i]
      <4>1. i = m + 1 \/ i \in 1 .. m
        OBVIOUS
      <4>2. m + 1 \in 1 .. m + 1
        OBVIOUS
      <4>. QED BY <2>1, <2>2, <2>4, <4>1, <4>2, Zenon
    <3>. QED BY <3>1
  <2>6. s = u
    BY <2>2, <2>4, <2>5, SeqEqual
  <2>. QED BY <2>6 DEF s, u, b
<1>3. ASSUME m # 0 PROVE BeginOf(k, m) # <<>> /\ BeginOf(k, m)[1][1] = k
  <2>1. 1 \in 1 .. m
    BY <1>3
  <2>2. BeginOf(k, m)[1] = <<k, 1>> /\ 1 \in DOMAIN BeginOf(k, m)
    BY <2>1, BeginType, Zenon
  <2>. QED BY <2>2
<1>. QED BY <1>1, <1>2, <1>3

-----------------------------------------------------------------------------
\* What goes on with the beginning of a line belongs to the line.
LEMMA ThenShape ==
  ASSUME NEW z, NEW k \in Nat, NEW m \in Nat, z[k] \in Nat
  PROVE  /\ Then(z, k, m) \in Nat \X Nat /\ Then(z, k, m)[1] = k
         /\ (Then(z, k, m)[2] = 0 <=> m = z[k])
         /\ (m # z[k] => Then(z, k, m) = <<k, m + 1>>)
         /\ (m # 0 => After(z, <<k, m>>) = Then(z, k, m))
BY DEF Then, After, IsNewline

\* Behind a newline another line begins; behind another byte its line goes on.
LEMMA AfterLine ==
  ASSUME NEW z, NEW a \in Nat \X Nat, z[a[1]] \in Nat
  PROVE  /\ a[2] = 0 => After(z, a) = <<a[1] + 1, 1>> /\ After(z, a)[1] = a[1] + 1
         /\ a[2] # 0 => After(z, a)[1] = a[1]
BY DEF Then, After, IsNewline

\* A line buffer takes byte a and f is the next: a clean line goes on.
LEMMA JoinStep ==
  ASSUME NEW z, NEW k \in Nat, z[k] \in Nat, z[k] <= LineMax, z[k] # 0,
         NEW text \in Text, NEW a \in Nat \X Nat, NEW f \in Nat \X Nat, a[2] # 0,
         z[a[1]] \in Nat,
         Joined(z, k, text, a), a[1] = k \/ f[1] = k => f = After(z, a)
  PROVE  Joined(z, k, IF Len(text) < LineMax THEN Append(text, a) ELSE <<>>, f)
<1> DEFINE next_text == IF Len(text) < LineMax THEN Append(text, a) ELSE <<>>
<1>0. LineMax \in Nat
  BY SizeAssumption
<1>1. CASE a[1] = k
  <2>1. PICK m \in 0 .. z[k] : text = BeginOf(k, m) /\ a = Then(z, k, m)
    BY <1>1 DEF Joined
  <2>a. m \in Nat
    OBVIOUS
  <2>2. m # z[k] /\ a = <<k, m + 1>>
    <3>1. m # z[k]
      BY <2>1 DEF Then
    <3>. QED BY <2>1, <3>1 DEF Then
  <2>3. Len(text) = m /\ Append(text, a) = BeginOf(k, m + 1)
    <3>1. Len(BeginOf(k, m)) = m
      BY <2>a, BeginType, Zenon
    <3>2. Append(BeginOf(k, m), <<k, m + 1>>) = BeginOf(k, m + 1)
      BY <2>a, Begins, Zenon
    <3>. QED BY <2>1, <2>2, <3>1, <3>2, Zenon
  <2>b. m < LineMax
    BY <1>0, <2>a, <2>2
  <2>4. next_text = BeginOf(k, m + 1)
    BY <2>b, <2>3
  <2>5. m + 1 \in Nat /\ m + 1 # 0 /\ m + 1 \in 0 .. z[k]
    BY <2>2, <2>a
  <2>6. f = Then(z, k, m + 1)
    <3>1. f = After(z, <<k, m + 1>>)
      BY <1>1, <2>2
    <3>. QED BY <3>1, <2>5, ThenShape
  <2> HIDE DEF next_text
  <2>7. Joined(z, k, next_text, f)
    BY <2>4, <2>5, <2>6 DEF Joined
  <2>. QED BY <2>7 DEF next_text
<1>2. CASE a[1] # k
  <2>1. ~Has(text, k)
    <3>1. ASSUME NEW m \in 0 .. z[k] PROVE Then(z, k, m)[1] = k
      BY DEF Then
    <3>. QED BY <1>2, <3>1, Zenon DEF Joined
  <2>2. f[1] # k
    BY <1>2, AfterLine
  <2>3. ~Has(next_text, k)
    <3>1. CASE Len(text) < LineMax
      <4>1. /\ DOMAIN Append(text, a) = 1 .. Len(text) + 1 /\ Len(text) \in Nat
            /\ DOMAIN text = 1 .. Len(text)
            /\ \A i \in 1 .. Len(text) : Append(text, a)[i] = text[i]
            /\ Append(text, a)[Len(text) + 1] = a
        BY AppendProperties, LenProperties DEF Text
      <4>2. ASSUME NEW i \in DOMAIN Append(text, a) PROVE Append(text, a)[i][1] # k
        <5>1. i \in 1 .. Len(text) \/ i = Len(text) + 1
          BY <4>1
        <5>. QED BY <1>2, <2>1, <4>1, <5>1, Zenon DEF Has
      <4>. QED BY <3>1, <4>2 DEF Has
    <3>2. CASE ~(Len(text) < LineMax)
      BY <3>2 DEF Has
    <3>. QED BY <3>1, <3>2
  <2> HIDE DEF next_text
  <2>4. Joined(z, k, next_text, f)
    BY <2>2, <2>3 DEF Joined
  <2>. QED BY <2>4 DEF next_text
<1>. QED BY <1>1, <1>2

\* The buffer is empty behind a newline.
LEMMA JoinFresh ==
  ASSUME NEW z, NEW k \in Nat, z[k] \in Nat, z[k] # 0, NEW f,
         f[1] = k => f = <<k, 1>>
  PROVE  Joined(z, k, <<>>, f)
<1>1. ~Has(<<>>, k)
  BY DEF Has
<1>2. ASSUME f[1] = k PROVE <<>> = BeginOf(k, 0) /\ f = Then(z, k, 0)
  <2>1. <<k, 1>> = Then(z, k, 0)
    BY DEF Then
  <2>. QED BY <1>2, <2>1, Begins
<1>3. 0 \in 0 .. z[k]
  OBVIOUS
<1>. QED BY <1>1, <1>2, <1>3 DEF Joined

-----------------------------------------------------------------------------
\* The byte that was next joins the others, and the host goes on.
LEMMA FlowAppend ==
  ASSUME NEW z, NEW k \in Nat, NEW S \in Seq(Nat \X Nat), NEW n \in Nat \X Nat, NEW g,
         g = After(z, n), Chained(z, k, S, n)
  PROVE  Chained(z, k, Append(S, n), g) /\ Following(Append(S, n), g, 0) = Following(S, n, 0)
<1> DEFINE T == Append(S, n)
<1>1. PICK l \in Nat : l = Len(S) /\ DOMAIN S = 1 .. l
  BY LenProperties
<1>2. Len(T) = l + 1 /\ T[l + 1] = n /\ DOMAIN T = 1 .. l + 1
      /\ \A i \in 1 .. l : T[i] = S[i]
  BY <1>1, AppendProperties, LenProperties
<1> HIDE DEF T
<1>3. \A i \in 0 .. l : Following(T, g, i) = Following(S, n, i)
  <2> SUFFICES ASSUME NEW i \in 0 .. l PROVE Following(T, g, i) = Following(S, n, i)
    OBVIOUS
  <2>1. i < Len(T) /\ Following(T, g, i) = T[i + 1]
    BY <1>1, <1>2 DEF Following
  <2>2. CASE i = l
    BY <1>1, <1>2, <2>1, <2>2 DEF Following
  <2>3. CASE i < l
    <3>1. i + 1 \in 1 .. l
      BY <1>1, <2>3
    <3>2. Following(S, n, i) = S[i + 1]
      BY <1>1, <2>3 DEF Following
    <3>. QED BY <1>2, <2>1, <3>1, <3>2
  <2>. QED BY <1>1, <2>2, <2>3
<1>4. Following(T, g, l + 1) = After(z, T[l + 1])
  BY <1>1, <1>2 DEF Following
<1>5. ASSUME NEW i \in DOMAIN T,
             (T[i][1] = k /\ T[i][2] # 0) \/ Following(T, g, i)[1] = k
      PROVE  Following(T, g, i) = After(z, T[i])
  <2>1. CASE i \in 1 .. l
    <3>1. i \in 0 .. l
      BY <2>1
    <3>. QED BY <1>1, <1>2, <1>3, <1>5, <2>1, <3>1, Zenon DEF Chained
  <2>2. CASE i = l + 1
    BY <1>4, <2>2
  <2>. QED BY <1>1, <1>2, <2>1, <2>2
<1>6. 0 \in 0 .. l
  BY <1>1
<1>. QED BY <1>3, <1>5, <1>6, Zenon DEF Chained, T

\* Bytes of other lines are lost between the bytes and what the host sends.
LEMMA FlowLost ==
  ASSUME NEW z, NEW k \in Nat, z[k] \in Nat, NEW S \in Seq(Nat \X Nat),
         NEW n, NEW g, NEW text, n[1] # k, g[1] # k,
         Chained(z, k, S, n), Joined(z, k, text, Following(S, n, 0))
  PROVE  Chained(z, k, S, g) /\ Joined(z, k, text, Following(S, g, 0))
<1>1. PICK l \in Nat : l = Len(S) /\ DOMAIN S = 1 .. l
  BY LenProperties
<1>2. \A i \in 0 .. l : /\ i # l => Following(S, g, i) = Following(S, n, i)
                        /\ i = l => Following(S, g, i) = g /\ Following(S, n, i) = n
  BY <1>1 DEF Following
<1>3. ASSUME NEW i \in DOMAIN S,
             (S[i][1] = k /\ S[i][2] # 0) \/ Following(S, g, i)[1] = k
      PROVE  Following(S, g, i) = After(z, S[i])
  <2>1. i \in 0 .. l /\ S[i] \in Nat \X Nat
    BY <1>1, ElementOfSeq
  <2>2. CASE i # l
    BY <1>2, <1>3, <2>1, <2>2, Zenon DEF Chained
  <2>3. CASE i = l
    <3>1. S[i][1] = k /\ S[i][2] # 0 /\ n = After(z, S[i])
      BY <1>2, <1>3, <2>1, <2>3, Zenon DEF Chained
    <3>2. n[1] = k
      BY <2>1, <3>1, AfterLine
    <3>. QED BY <3>2
  <2>. QED BY <2>2, <2>3
<1>4. CASE l # 0
  <2>0. 0 \in 0 .. l
    OBVIOUS
  <2>1. Following(S, g, 0) = Following(S, n, 0)
    BY <1>2, <1>4, <2>0
  <2>. QED BY <1>3, <2>1, Zenon DEF Chained
<1>5. CASE l = 0
  <2>0. 0 \in 0 .. l
    OBVIOUS
  <2>1. Following(S, g, 0) = g /\ Following(S, n, 0) = n
    BY <1>2, <1>5, <2>0
  <2>2. ASSUME NEW m \in 0 .. z[k] PROVE Then(z, k, m)[1] = k
    BY DEF Then
  <2>3. ~Has(text, k)
    BY <2>1, <2>2, Zenon DEF Joined
  <2>4. Joined(z, k, text, g)
    BY <2>3, Zenon DEF Joined
  <2>. QED BY <1>3, <2>1, <2>4, Zenon DEF Chained
<1>. QED BY <1>4, <1>5

\* The first of the bytes is taken.
LEMMA FlowTake ==
  ASSUME NEW z, NEW k \in Nat, NEW S \in Seq(Nat \X Nat), NEW n, S # <<>>,
         Chained(z, k, S, n)
  PROVE  /\ Chained(z, k, Tail(S), n)
         /\ Following(S, n, 0) = S[1]
         /\ (S[1][1] = k /\ S[1][2] # 0) \/ Following(Tail(S), n, 0)[1] = k
              => Following(Tail(S), n, 0) = After(z, S[1])
<1> DEFINE T == Tail(S)
<1>1. PICK l \in Nat : Len(S) = l + 1 /\ DOMAIN S = 1 .. l + 1
  <2>1. Len(S) \in Nat /\ Len(S) # 0 /\ DOMAIN S = 1 .. Len(S)
    BY LenProperties, EmptySeq
  <2>2. Len(S) - 1 \in Nat /\ Len(S) = (Len(S) - 1) + 1
    BY <2>1
  <2>. QED BY <2>1, <2>2
<1>2. T \in Seq(Nat \X Nat) /\ Len(T) = l /\ \A i \in 1 .. l : T[i] = S[i + 1]
  BY <1>1, HeadTailProperties
<1>3. DOMAIN T = 1 .. l
  BY <1>2, LenProperties
<1> HIDE DEF T
<1>4. ASSUME NEW i \in 0 .. l PROVE Following(T, n, i) = Following(S, n, i + 1)
  <2>1. CASE i < l
    <3>1. i + 1 \in 1 .. l /\ i < l /\ i + 1 < l + 1
      BY <1>1, <1>2, <2>1
    <3>2. Following(T, n, i) = T[i + 1] /\ Following(S, n, i + 1) = S[(i + 1) + 1]
      BY <1>1, <1>2, <3>1 DEF Following
    <3>. QED BY <1>2, <3>1, <3>2
  <2>2. CASE i = l
    BY <1>1, <1>2, <2>2 DEF Following
  <2>. QED BY <1>1, <2>1, <2>2
<1>5. ASSUME NEW i \in DOMAIN T PROVE T[i] = S[i + 1] /\ i + 1 \in DOMAIN S /\ i \in 0 .. l
  <2>1. i \in 1 .. l
    BY <1>3, <1>5
  <2>2. i + 1 \in 1 .. l + 1 /\ i \in 0 .. l
    BY <2>1
  <2>. QED BY <1>1, <1>2, <2>1, <2>2, Zenon
<1>6. Chained(z, k, T, n)
  BY <1>4, <1>5, Zenon DEF Chained
<1>7. Following(T, n, 0) = Following(S, n, 1)
  BY <1>1, <1>4
<1>8. 1 \in DOMAIN S
  BY <1>1
<1>9. Following(S, n, 0) = S[1]
  BY <1>1 DEF Following
<1>. QED BY <1>6, <1>7, <1>8, <1>9, Zenon DEF Chained, T

-----------------------------------------------------------------------------
\* What the three steps of the USB way do to the bytes in it.
LEMMA PipeAppend ==
  ASSUME NEW B, NEW s \in Seq(B), NEW u \in Seq(B), NEW b \in B
  PROVE  s \o Append(u, b) = Append(s \o u, b)
<1>1. Append(u, b) = u \o <<b>> /\ <<b>> \in Seq(B)
  BY AppendIsConcat
<1>2. s \o u \in Seq(B)
  BY ConcatProperties
<1>3. Append(s \o u, b) = (s \o u) \o <<b>>
  BY <1>2, AppendIsConcat
<1>. QED BY <1>1, <1>3, ConcatAssociative

\* Taking the first byte of what config_task holds takes it from the whole way.
LEMMA PipeTake ==
  ASSUME NEW B, NEW s \in Seq(B), NEW u \in Seq(B), s # <<>>
  PROVE  /\ s \o u # <<>> /\ (s \o u)[1] = Head(s)
         /\ Tail(s) \o u = Tail(s \o u)
<1> DEFINE p == s \o u
           v == Tail(s)
<1>1. /\ Len(s) \in Nat /\ Len(s) # 0 /\ Len(u) \in Nat
      /\ p \in Seq(B) /\ Len(p) = Len(s) + Len(u)
      /\ \A i \in 1 .. Len(s) + Len(u) : p[i] = IF i <= Len(s) THEN s[i] ELSE u[i - Len(s)]
  BY LenProperties, EmptySeq, ConcatProperties
<1>2. v \in Seq(B) /\ Len(v) = Len(s) - 1 /\ \A i \in 1 .. Len(v) : v[i] = s[i + 1]
  BY HeadTailProperties
<1> DEFINE x == v \o u
           y == Tail(p)
<1>3. p # <<>>
  BY <1>1, EmptySeq
<1>4. /\ x \in Seq(B) /\ Len(x) = Len(v) + Len(u)
      /\ \A i \in 1 .. Len(v) + Len(u) : x[i] = IF i <= Len(v) THEN v[i] ELSE u[i - Len(v)]
  BY <1>2, ConcatProperties
<1>5. y \in Seq(B) /\ Len(y) = Len(p) - 1 /\ \A i \in 1 .. Len(y) : y[i] = p[i + 1]
  BY <1>1, <1>3, HeadTailProperties
<1>6. p[1] = Head(s)
  BY <1>1
<1> HIDE DEF p, v, x, y
<1>7. Len(x) = Len(y) /\ Len(x) = Len(s) - 1 + Len(u)
  BY <1>1, <1>2, <1>4, <1>5
<1>8. ASSUME NEW i \in 1 .. Len(x) PROVE x[i] = y[i]
  <2>1. i + 1 \in 1 .. Len(s) + Len(u) /\ i \in 1 .. Len(v) + Len(u) /\ i \in 1 .. Len(y)
    BY <1>1, <1>2, <1>4, <1>7
  <2>2. CASE i <= Len(v)
    BY <1>1, <1>2, <1>4, <1>5, <2>1, <2>2
  <2>3. CASE ~(i <= Len(v))
    <3>1. i - Len(v) = (i + 1) - Len(s)
      BY <1>1, <1>2
    <3>2. x[i] = u[i - Len(v)] /\ y[i] = u[(i + 1) - Len(s)]
      BY <1>1, <1>2, <1>4, <1>5, <2>1, <2>3
    <3>. QED BY <3>1, <3>2
  <2>. QED BY <2>2, <2>3
<1>9. x = y
  BY <1>4, <1>5, <1>7, <1>8, SeqEqual
<1>. QED BY <1>3, <1>6, <1>9 DEF p, v, x, y

\* What config_task takes from the stream stays on the way.
LEMMA PipeReceive ==
  ASSUME NEW B, NEW s \in Seq(B), NEW n \in 1 .. Len(s)
  PROVE  SubSeq(s, 1, n) \o SubSeq(s, n + 1, Len(s)) = s
<1>1. Len(s) \in Nat
  BY LenProperties
<1>2. 1 \in 1 .. Len(s) + 1 /\ n \in 1 - 1 .. Len(s) /\ Len(s) \in n .. Len(s)
  BY <1>1
<1>3. SubSeq(s, 1, n) \o SubSeq(s, n + 1, Len(s)) = SubSeq(s, 1, Len(s))
  BY <1>2, ConcatAdjacentSubSeq, Zenon
<1>. QED BY <1>3, SubSeqFull

-----------------------------------------------------------------------------
\* Nothing of a behaviour changes what the hosts may send.
LEMMA SameSize == [Next]_vars => size' = size
BY DEF Next, vars, ConfigTask, UartRxTask, Receive, Consume, Consumed, Write, WriteNewline,
   Flush, TakeUartLine, Drained, Offer, DropUartLine, ReadUart, ReceiveCallback, HostReads,
   HostTurns, BusReset, HostBreaksOff, host, receiver, writer, history

\* Where the sizes are the same, so are the bytes and the lines.
LEMMA SameBytes ==
  ASSUME size' = size
  PROVE  /\ \A t : Bytes(t)' = Bytes(t)
         /\ \A t : Lines(t)' = Lines(t)
BY DEF Bytes, Lines

\* A host that sends is at a byte of its lines.
LEMMA NextIsByte ==
  ASSUME HostType, NEW t \in Transports, Sending(t)
  PROVE  next[t] \in Bytes(t)
<1>1. next[t] \in Bytes(t) \cup {<<Len(size[t]) + 1, 1>>} /\ size \in Sendings
  BY DEF HostType
<1>2. Lines(t) = 1 .. Len(size[t]) /\ Len(size[t]) \in Nat
  BY <1>1, LineSizes
<1>. QED BY <1>1, <1>2 DEF Sending

\* What Advance does to a byte is After.
LEMMA AdvanceIsAfter ==
  ASSUME HostType, NEW t \in Transports, Sending(t), Advance(t)
  PROVE  next' = [next EXCEPT ![t] = After(size[t], next[t])]
<1> DEFINE b == next[t]
<1>0. size[t][b[1]] # 0
  BY LineSizes DEF HostType, Sending
<1>1. CASE b[2] = 0
  BY <1>0, <1>1 DEF Advance, After, IsNewline
<1>2. CASE b[2] # 0 /\ b[2] = size[t][b[1]]
  BY <1>2 DEF Advance, After, Then, IsNewline
<1>3. CASE b[2] # 0 /\ b[2] # size[t][b[1]]
  <2>1. After(size[t], b) = <<b[1], b[2] + 1>>
    BY <1>3, Zenon DEF After, Then, IsNewline
  <2>2. ~IsNewline(b)
    BY <1>3 DEF IsNewline
  <2>3. next' = [next EXCEPT ![t] = <<b[1], b[2] + 1>>]
    BY <1>3, <2>2, Zenon DEF Advance
  <2>. QED BY <2>1, <2>3
<1>. QED BY <1>1, <1>2, <1>3

\* Every step leaves the hosts at a byte of their lines or at their end.
LEMMA HostStep == Typed /\ [Next]_vars => HostType'
<1> SUFFICES ASSUME Typed, [Next]_vars PROVE HostType'
  OBVIOUS
<1>1. HostType /\ size' = size /\ \A t : Bytes(t)' = Bytes(t)
  BY SameSize, SameBytes DEF Typed
<1>2. ASSUME NEW t \in Transports, NEW b \in Bytes(t) \cup {<<Len(size[t]) + 1, 1>>},
             next' = [next EXCEPT ![t] = b]
      PROVE  HostType'
  <2>1. b \in Nat \X Nat
    <3>1. Len(size[t]) \in Nat
      BY <1>1, LineSizes DEF HostType
    <3>. QED BY <3>1, ByteShape
  <2>2. next' \in [Transports -> Nat \X Nat]
    BY <1>1, <1>2, <2>1 DEF HostType
  <2>3. \A u \in Transports : next'[u] = IF u = t THEN b ELSE next[u]
    BY <1>1, <1>2 DEF HostType
  <2>. QED BY <1>1, <2>2, <2>3, Zenon DEF HostType
<1>3. ASSUME NEW t \in Transports, Sending(t), Advance(t)
      PROVE  HostType'
  BY <1>1, <1>2, <1>3, NextIsByte, AdvanceIsAfter, AfterType DEF HostType
<1>4. CASE ReceiveCallback
  BY <1>3, <1>4 DEF ReceiveCallback, Transports
<1>5. CASE ReadUart
  BY <1>3, <1>5 DEF ReadUart, Transports
<1>6. ASSUME NEW t \in Transports, HostBreaksOff(t)
      PROVE  HostType'
  <2> DEFINE b == <<next[t][1] + 1, 1>>
  <2>1. Sending(t) /\ next' = [next EXCEPT ![t] = b]
    BY <1>6 DEF HostBreaksOff
  <2>2. b \in Bytes(t) \cup {<<Len(size[t]) + 1, 1>>}
    <3>1. next[t] \in Nat \X Nat /\ next[t][1] \in Lines(t)
      BY <1>1, <2>1 DEF HostType, Sending
    <3>2. /\ Lines(t) = 1 .. Len(size[t]) /\ Len(size[t]) \in Nat
          /\ \A k \in Lines(t) : size[t][k] \in Nat /\ size[t][k] # 0
      BY <1>1, LineSizes DEF HostType
    <3>3. CASE next[t][1] = Len(size[t])
      BY <3>3
    <3>4. CASE next[t][1] # Len(size[t])
      <4>1. next[t][1] + 1 \in Lines(t)
        BY <3>1, <3>2, <3>4
      <4>2. size[t][next[t][1] + 1] \in Nat /\ size[t][next[t][1] + 1] # 0
        BY <3>2, <4>1
      <4>. QED BY <3>1, <4>1, <4>2 DEF Bytes
    <3>. QED BY <3>3, <3>4
  <2>. QED BY <1>2, <2>1, <2>2
<1>7. CASE UNCHANGED next
  BY <1>1, <1>7, Zenon DEF HostType
<1>. QED
  BY <1>4, <1>5, <1>6, <1>7 DEF Next, vars, ConfigTask, UartRxTask, Receive, Consume,
     Consumed, Write, WriteNewline, Flush, TakeUartLine, Drained, Offer, DropUartLine,
     HostReads, HostTurns, BusReset, host

\* Collect keeps a line buffer within its size; the other steps empty it.
LEMMA LineStep == Typed /\ [Next]_vars => LineType'
<1> SUFFICES ASSUME Typed, [Next]_vars PROVE LineType'
  OBVIOUS
<1>1. LineType /\ size' = size /\ \A t : Bytes(t)' = Bytes(t)
  BY SameSize, SameBytes DEF Typed
<1>2. ASSUME NEW t \in Transports, NEW text \in Seq(Bytes(t)), Len(text) <= LineMax,
             line' = [line EXCEPT ![t] = text]
      PROVE  LineType'
  <2>1. text \in Text
    BY SeqMonotonic DEF Text, Bytes
  <2>2. line' \in [Transports -> Text]
    BY <1>1, <1>2, <2>1 DEF LineType
  <2>3. \A u \in Transports : line'[u] = IF u = t THEN text ELSE line[u]
    BY <1>1, <1>2 DEF LineType
  <2>. QED BY <1>1, <1>2, <2>2, <2>3, Zenon DEF LineType
<1>3. ASSUME NEW t \in Transports
      PROVE  <<>> \in Seq(Bytes(t)) /\ Len(<<>>) <= LineMax
  <2>1. LineMax \in Nat
    BY SizeAssumption
  <2>. QED BY <2>1, EmptySeq
<1>4. ASSUME NEW t \in Transports, NEW b \in Bytes(t)
      PROVE  Collect(t, b) \in Seq(Bytes(t)) /\ Len(Collect(t, b)) <= LineMax
  <2>1. LineMax \in Nat /\ line[t] \in Seq(Bytes(t)) /\ Len(line[t]) \in Nat
    BY <1>1, SizeAssumption, LenProperties DEF LineType
  <2>2. Append(line[t], b) \in Seq(Bytes(t)) /\ Len(Append(line[t], b)) = Len(line[t]) + 1
    BY <2>1, AppendProperties
  <2>. QED BY <1>3, <2>1, <2>2 DEF Collect
<1>5. CASE ReadUart
  <2>1. CASE UNCHANGED line
    BY <1>1, <2>1, Zenon DEF LineType
  <2>2. CASE line' = [line EXCEPT !["uart"] = Collect("uart", next["uart"])]
    <3>1. "uart" \in Transports /\ next["uart"] \in Bytes("uart")
      BY <1>5, NextIsByte DEF ReadUart, Transports, Typed
    <3>. QED BY <1>2, <1>4, <2>2, <3>1
  <2>. QED BY <1>5, <2>1, <2>2 DEF ReadUart
<1>6. CASE Offer \/ DropUartLine
  BY <1>2, <1>3, <1>6 DEF Offer, DropUartLine, Transports
<1>7. CASE Consume
  <2>1. CASE UNCHANGED line
    BY <1>1, <2>1, Zenon DEF LineType
  <2>2. CASE line' = [line EXCEPT !["usb"] = <<>>]
    BY <1>2, <1>3, <2>2 DEF Transports
  <2>3. CASE line' = [line EXCEPT !["usb"] = Collect("usb", Head(input))]
    <3>1. Head(input) \in Bytes("usb") /\ "usb" \in Transports
      BY <1>7, HeadTailProperties DEF Consume, Typed, PipeType, Transports
    <3>. QED BY <1>2, <1>4, <2>3, <3>1
  <2>. QED BY <1>7, <2>1, <2>2, <2>3 DEF Consume
<1>8. CASE UNCHANGED line
  BY <1>1, <1>8, Zenon DEF LineType
<1>. QED
  BY <1>5, <1>6, <1>7, <1>8 DEF Next, vars, ConfigTask, UartRxTask, Receive,
     Consumed, Write, WriteNewline, Flush, TakeUartLine, Drained, ReceiveCallback,
     HostReads, HostTurns, BusReset, HostBreaksOff, receiver

\* The stream takes a byte only where there is room, config_task no more than
\* a batch, and it leaves Consume only with all of it consumed.
LEMMA PipeStep == Typed /\ [Next]_vars => PipeType'
<1> SUFFICES ASSUME Typed, [Next]_vars PROVE PipeType'
  OBVIOUS
<1>1. PipeType /\ size' = size /\ \A t : Bytes(t)' = Bytes(t)
  BY SameSize, SameBytes DEF Typed
<1> DEFINE B == Bytes("usb")
<1>2. Bytes("usb")' = B
  BY <1>1
<1> HIDE DEF B
<1>3. stream \in Seq(B) /\ input \in Seq(B) /\ Len(stream) <= StreamSize /\ Len(input) <= BatchSize
  BY <1>1 DEF PipeType, B
<1>4. BatchSize \in Nat \ {0} /\ StreamSize \in Nat
  BY SizeAssumption
<1>5. SUFFICES /\ stream' \in Seq(B) /\ Len(stream') <= StreamSize
               /\ input' \in Seq(B) /\ Len(input') <= BatchSize
               /\ pc' \in {"Receive", "Drain"} => input' = <<>>
  BY <1>2 DEF PipeType
<1>6. CASE ReceiveCallback
  <2>1. next["usb"] \in B
    BY <1>6, NextIsByte DEF ReceiveCallback, Transports, Typed, B
  <2>2. CASE Len(stream) < StreamSize
    <3>1. stream' = Append(stream, next["usb"])
      BY <1>6, <2>2 DEF ReceiveCallback
    <3>2. stream' \in Seq(B) /\ Len(stream') = Len(stream) + 1 /\ Len(stream) \in Nat
      BY <1>3, <2>1, <3>1, AppendProperties, LenProperties
    <3>3. Len(stream') <= StreamSize
      BY <1>4, <2>2, <3>2
    <3>. QED BY <1>1, <1>3, <1>6, <3>2, <3>3 DEF ReceiveCallback, PipeType
  <2>3. CASE ~(Len(stream) < StreamSize)
    BY <1>1, <1>3, <1>6, <2>3 DEF ReceiveCallback, PipeType
  <2>. QED BY <2>2, <2>3
<1>7. CASE Receive
  <2>1. input = <<>>
    BY <1>1, <1>7 DEF PipeType, Receive
  <2>2. CASE stream = <<>>
    BY <1>3, <1>7, <2>1, <2>2 DEF Receive
  <2>3. CASE stream # <<>>
    <3> DEFINE n == IF Len(stream) < BatchSize THEN Len(stream) ELSE BatchSize
    <3>1. PICK l \in Nat : l = Len(stream) /\ l # 0 /\ \A i \in 1 .. l : stream[i] \in B
      BY <1>3, <2>3, LenProperties, EmptySeq, ElementOfSeq
    <3>2. n \in 1 .. l /\ n <= BatchSize
      BY <1>4, <3>1
    <3>3. input' = SubSeq(stream, 1, n) /\ stream' = SubSeq(stream, n + 1, l) /\ pc' = "Consume"
      BY <1>7, <2>3, <3>1 DEF Receive
    <3> HIDE DEF n
    <3>4. 1 \in Int /\ n \in Int /\ n + 1 \in Int /\ l \in Int
          /\ (\A i \in 1 .. n : stream[i] \in B) /\ (\A i \in n + 1 .. l : stream[i] \in B)
      BY <3>1, <3>2
    <3> DEFINE u == SubSeq(stream, 1, n)
               v == SubSeq(stream, n + 1, l)
    <3>5. u \in Seq(B) /\ Len(u) = IF 1 <= n THEN n - 1 + 1 ELSE 0
      BY <3>4, SubSeqProperties
    <3>6. v \in Seq(B) /\ Len(v) = IF n + 1 <= l THEN l - (n + 1) + 1 ELSE 0
      BY <3>4, SubSeqProperties
    <3>a. input' = u /\ stream' = v
      BY <3>3
    <3> HIDE DEF u, v
    <3>7. Len(input') <= BatchSize
      BY <1>4, <3>2, <3>5, <3>a
    <3>8. Len(stream') <= StreamSize
      BY <1>3, <1>4, <3>1, <3>2, <3>6, <3>a
    <3>. QED BY <3>3, <3>5, <3>6, <3>7, <3>8, <3>a
  <2>. QED BY <2>2, <2>3
<1>8. CASE Consume
  <2>1. input' = Tail(input) /\ input # <<>> /\ stream' = stream
    BY <1>8 DEF Consume
  <2>2. input' \in Seq(B) /\ Len(input') = Len(input) - 1 /\ Len(input) \in Nat
    BY <1>3, <2>1, HeadTailProperties, LenProperties
  <2>3. pc' \in {"Consume", "Write"}
    BY <1>8 DEF Consume
  <2>4. Len(input') <= BatchSize
    BY <1>3, <1>4, <2>2
  <2>. QED BY <1>3, <2>1, <2>2, <2>3, <2>4
<1>9. CASE UNCHANGED <<stream, input>> /\ (pc' \in {"Receive", "Drain"} => input = <<>>)
  BY <1>3, <1>9
<1>10. CASE Consumed \/ Write \/ WriteNewline \/ Flush \/ TakeUartLine \/ Drained
  <2>1. UNCHANGED <<stream, input>>
    BY <1>10 DEF Consumed, Write, WriteNewline, Flush, TakeUartLine, Drained, receiver
  <2>2. pc' \in {"Receive", "Drain"} => input = <<>>
    BY <1>1, <1>10 DEF Consumed, Write, WriteNewline, Flush, TakeUartLine, Drained, PipeType
  <2>. QED BY <1>9, <2>1, <2>2
<1>11. CASE UNCHANGED <<stream, input, pc>>
  BY <1>1, <1>9, <1>11 DEF PipeType
<1>. QED
  BY <1>6, <1>7, <1>8, <1>10, <1>11 DEF Next, vars, ConfigTask, UartRxTask,
     Offer, DropUartLine, ReadUart, HostReads, HostTurns, BusReset, HostBreaksOff, receiver

\* The queue takes a line only where there is room.
LEMMA QueueStep == Typed /\ [Next]_vars => QueueType'
<1> SUFFICES ASSUME Typed, [Next]_vars PROVE QueueType'
  OBVIOUS
<1>1. QueueType /\ size' = size /\ \A t : Bytes(t)' = Bytes(t)
  BY SameSize, SameBytes DEF Typed
<1> DEFINE B == Seq(Bytes("uart"))
<1>2. Seq(Bytes("uart")') = B
  BY <1>1
<1>3. line["uart"] \in B
  BY DEF Typed, LineType, Transports
<1> HIDE DEF B
<1>4. queue \in Seq(B) /\ Len(queue) \in Nat /\ Len(queue) <= QueueLength
  BY <1>1, LenProperties DEF QueueType, B
<1>5. SUFFICES queue' \in Seq(B) /\ Len(queue') <= QueueLength
  BY <1>2 DEF QueueType
<1>6. CASE Offer
  <2>1. queue' = Append(queue, line["uart"]) /\ Len(queue) < QueueLength
    BY <1>6 DEF Offer
  <2>2. queue' \in Seq(B) /\ Len(queue') = Len(queue) + 1
    BY <1>3, <1>4, <2>1, AppendProperties
  <2>3. QueueLength \in Nat
    BY SizeAssumption
  <2>. QED BY <1>4, <2>1, <2>2, <2>3
<1>7. CASE TakeUartLine
  <2>1. queue' = Tail(queue) /\ queue # <<>>
    BY <1>7 DEF TakeUartLine
  <2>2. queue' \in Seq(B) /\ Len(queue') = Len(queue) - 1
    BY <1>4, <2>1, HeadTailProperties
  <2>3. QueueLength \in Nat
    BY SizeAssumption
  <2>. QED BY <1>4, <2>2, <2>3
<1>8. CASE UNCHANGED queue
  BY <1>4, <1>8
<1>. QED
  BY <1>6, <1>7, <1>8 DEF Next, vars, ConfigTask, UartRxTask, Receive, Consume,
     Consumed, Write, WriteNewline, Flush, Drained, DropUartLine, ReadUart, ReceiveCallback,
     HostReads, HostTurns, BusReset, HostBreaksOff, receiver

\* The two tasks, the answer and the FIFO keep their types.
LEMMA TaskStep == Typed /\ [Next]_vars => TaskType'
<1> SUFFICES ASSUME Typed, [Next]_vars PROVE TaskType'
  OBVIOUS
<1>1. TaskType
  BY DEF Typed
<1>2. AnswerSize \in Nat \ {0} /\ FifoSize \in Nat \ {0}
  BY SizeAssumption
<1> USE <1>1, <1>2 DEF TaskType
<1>3. CASE Receive
  BY <1>3 DEF Receive, writer
<1>4. CASE Consume
  BY <1>4 DEF Consume
<1>5. CASE Consumed \/ Drained
  BY <1>5 DEF Consumed, Drained, writer, receiver
<1>6. CASE Write
  <2> DEFINE room == FifoSize - fifo
             queued == IF left < room THEN left ELSE room
  <2>1. /\ fifo' = fifo + queued /\ left' = left - queued
        /\ pc' = "Flush" /\ UNCHANGED <<rx, reading>>
    BY <1>6 DEF Write, receiver
  <2>a. /\ fifo \in Nat /\ left \in Nat /\ FifoSize \in Nat /\ AnswerSize \in Nat
        /\ fifo <= FifoSize /\ left <= AnswerSize
    OBVIOUS
  <2>b. room \in Nat
    BY <2>a
  <2>2. queued \in Nat /\ queued <= left /\ queued <= room
    BY <2>a, <2>b
  <2> HIDE DEF queued
  <2>3. fifo + queued \in 0 .. FifoSize /\ left - queued \in 0 .. AnswerSize
    BY <2>a, <2>2
  <2> HIDE DEF queued
  <2>. QED BY <2>1, <2>3
<1>7. CASE WriteNewline
  BY <1>7 DEF WriteNewline, receiver
<1>8. CASE Flush
  BY <1>8 DEF Flush, writer, receiver
<1>9. CASE HostReads
  BY <1>9 DEF HostReads, receiver
<1>10. CASE HostTurns \/ BusReset
  <2>1. reading' \in BOOLEAN /\ fifo' \in {fifo, 0} /\ UNCHANGED <<pc, rx, left>>
    BY <1>10, Zenon DEF HostTurns, BusReset, receiver
  <2>. QED BY <2>1
<1>11. CASE ReadUart
  BY <1>11 DEF ReadUart, writer
<1>12. CASE Offer \/ DropUartLine
  BY <1>12 DEF Offer, DropUartLine, writer
<1>13. CASE UNCHANGED <<pc, rx, writer>>
  BY <1>13 DEF writer
<1>. QED
  BY <1>3, <1>4, <1>5, <1>6, <1>7, <1>8, <1>9, <1>10, <1>11, <1>12, <1>13, Zenon
  DEF Next, vars, ConfigTask, UartRxTask, TakeUartLine, ReceiveCallback, HostBreaksOff, receiver

\* A line as it was sent is the beginning of itself.
LEMMA SentIsBegin == \A t, k : AsSent(t, k) = BeginOf(k, size[t][k])
BY DEF AsSent, BeginOf

\* Requests and damage are of lines that are sent, damage also of the one that
\* would follow the last.
LEMMA HistoryStep == Typed /\ [Next]_vars => HistoryType'
<1> SUFFICES ASSUME Typed, [Next]_vars PROVE HistoryType'
  OBVIOUS
<1>1. HistoryType /\ HostType /\ size' = size /\ \A t : Lines(t)' = Lines(t)
  BY SameSize, SameBytes DEF Typed
<1>2. ASSUME NEW t \in Transports
      PROVE  Lines(t) = 1 .. Len(size[t]) /\ Len(size[t]) \in Nat
  BY <1>1, LineSizes DEF HostType
<1>3. ASSUME NEW t \in Transports, NEW h \in SUBSET (1 .. Len(size[t]) + 1),
             hurt' = [hurt EXCEPT ![t] = @ \cup h], UNCHANGED <<whole, odd>>
      PROVE  HistoryType'
  <2>1. h \in SUBSET Nat
    BY <1>2
  <2>2. hurt' \in [Transports -> SUBSET Nat]
        /\ \A u \in Transports : hurt'[u] \subseteq hurt[u] \cup IF u = t THEN h ELSE {}
    BY <1>1, <1>3, <2>1 DEF HistoryType
  <2>3. ASSUME NEW u \in Transports PROVE hurt'[u] \subseteq 1 .. Len(size[u]) + 1
    <3>1. hurt[u] \subseteq 1 .. Len(size[u]) + 1
      BY <1>1, Zenon DEF HistoryType
    <3>. QED BY <2>2, <3>1
  <2>4. \A u \in Transports : whole'[u] \cup odd'[u] \subseteq Lines(u)'
    BY <1>1, <1>3, Zenon DEF HistoryType
  <2>5. whole' \in [Transports -> SUBSET Nat] /\ odd' \in [Transports -> SUBSET Nat]
    BY <1>1, <1>3, Zenon DEF HistoryType
  <2>. QED BY <1>1, <2>2, <2>3, <2>4, <2>5, Zenon DEF HistoryType
<1>4. ASSUME NEW t \in Transports, NEW text \in Seq(Bytes(t)), Accept(t, text), hurt' = hurt
      PROVE  HistoryType'
  <2>1. \/ /\ whole' = whole
           /\ odd' = [odd EXCEPT ![t] = @ \cup {text[i][1] : i \in DOMAIN text}]
        \/ /\ odd' = odd
           /\ whole' = [whole EXCEPT ![t] = @ \cup {text[1][1]}]
           /\ \E k \in Lines(t) : text = AsSent(t, k)
    BY <1>4 DEF Accept
  <2>2. ASSUME NEW h \in SUBSET Lines(t),
               \/ whole' = whole /\ odd' = [odd EXCEPT ![t] = @ \cup h]
               \/ odd' = odd /\ whole' = [whole EXCEPT ![t] = @ \cup h]
        PROVE  HistoryType'
    <3>1. h \in SUBSET Nat
      BY <1>2
    <3>2. whole' \in [Transports -> SUBSET Nat] /\ odd' \in [Transports -> SUBSET Nat]
          /\ \A u \in Transports : /\ whole'[u] \subseteq whole[u] \cup IF u = t THEN h ELSE {}
                                   /\ odd'[u] \subseteq odd[u] \cup IF u = t THEN h ELSE {}
      BY <1>1, <2>2, <3>1 DEF HistoryType
    <3>3. ASSUME NEW u \in Transports PROVE whole'[u] \cup odd'[u] \subseteq Lines(u)
      <4>1. whole[u] \cup odd[u] \subseteq Lines(u)
        BY <1>1, Zenon DEF HistoryType
      <4>. QED BY <3>2, <4>1
    <3>4. hurt' \in [Transports -> SUBSET Nat]
          /\ \A u \in Transports : hurt'[u] \subseteq 1 .. Len(size'[u]) + 1
      BY <1>1, <1>4, Zenon DEF HistoryType
    <3>. QED BY <1>1, <3>2, <3>3, <3>4, Zenon DEF HistoryType
  <2>3. CASE whole' = whole
             /\ odd' = [odd EXCEPT ![t] = @ \cup {text[i][1] : i \in DOMAIN text}]
    <3>1. \A i \in DOMAIN text : text[i] \in Bytes(t)
      BY LenProperties, ElementOfSeq
    <3>2. {text[i][1] : i \in DOMAIN text} \in SUBSET Lines(t)
      BY <3>1, ByteShape
    <3>3. PICK h \in SUBSET Lines(t) : h = {text[i][1] : i \in DOMAIN text}
      BY <3>2, Zenon
    <3>4. odd' = [odd EXCEPT ![t] = @ \cup h] /\ whole' = whole
      BY <2>3, <3>3
    <3>. QED BY <2>2, <3>4
  <2>4. CASE /\ odd' = odd
             /\ whole' = [whole EXCEPT ![t] = @ \cup {text[1][1]}]
             /\ \E k \in Lines(t) : text = AsSent(t, k)
    <3>1. PICK k \in Lines(t) : text = AsSent(t, k)
      BY <2>4
    <3>2. k \in Nat /\ size[t][k] \in Nat /\ size[t][k] # 0
      BY <1>1, <1>2, LineSizes DEF HostType
    <3>3. text[1][1] = k
      BY <3>1, <3>2, SentIsBegin, Begins
    <3>4. {text[1][1]} \in SUBSET Lines(t)
      BY <3>3
    <3>. QED BY <2>2, <2>4, <3>4
  <2>. QED BY <2>1, <2>3, <2>4
<1>5. ASSUME NEW t \in Transports, NEW b \in Bytes(t)
      PROVE  {b[1], b[1] + 1} \subseteq 1 .. Len(size[t]) + 1 /\ Hurts(b) \subseteq {b[1], b[1] + 1}
  <2>1. b[1] \in 1 .. Len(size[t])
    BY <1>2, ByteShape
  <2>. QED BY <1>2, <2>1 DEF Hurts
<1>6. CASE ReceiveCallback
  <2>1. next["usb"] \in Bytes("usb") /\ "usb" \in Transports
    BY <1>6, NextIsByte DEF ReceiveCallback, Transports, Typed
  <2>2. CASE UNCHANGED hurt
    BY <1>1, <1>6, <2>2, Zenon DEF HistoryType, ReceiveCallback
  <2>3. CASE hurt' = [hurt EXCEPT !["usb"] = @ \cup Hurts(next["usb"])]
    <3>1. Hurts(next["usb"]) \in SUBSET (1 .. Len(size["usb"]) + 1)
      BY <1>5, <2>1
    <3>2. UNCHANGED <<whole, odd>>
      BY <1>6 DEF ReceiveCallback
    <3>. QED BY <1>3, <2>1, <2>3, <3>1, <3>2
  <2>. QED BY <1>6, <2>2, <2>3 DEF ReceiveCallback
<1>7. ASSUME NEW t \in Transports, HostBreaksOff(t) PROVE HistoryType'
  <2>1. next[t] \in Bytes(t)
    BY <1>1, <1>7, NextIsByte DEF HostBreaksOff
  <2>2. {next[t][1], next[t][1] + 1} \in SUBSET (1 .. Len(size[t]) + 1)
    BY <1>5, <2>1
  <2>3. hurt' = [hurt EXCEPT ![t] = @ \cup {next[t][1], next[t][1] + 1}] /\ UNCHANGED <<whole, odd>>
    BY <1>7 DEF HostBreaksOff
  <2>. QED BY <1>3, <2>2, <2>3
<1>8. CASE DropUartLine
  <2> DEFINE h == {line["uart"][i][1] : i \in DOMAIN line["uart"]}
  <2>1. line["uart"] \in Seq(Bytes("uart")) /\ "uart" \in Transports
    BY DEF Typed, LineType, Transports
  <2>2. \A i \in DOMAIN line["uart"] : line["uart"][i] \in Bytes("uart")
    BY <2>1, LenProperties, ElementOfSeq
  <2>3. h \subseteq Lines("uart")
    BY <2>2, ByteShape
  <2>4. h \in SUBSET (1 .. Len(size["uart"]) + 1)
    <3>1. 1 .. Len(size["uart"]) \subseteq 1 .. Len(size["uart"]) + 1
      BY <1>2, <2>1
    <3>. QED BY <1>2, <2>1, <2>3, <3>1, Zenon
  <2>5. hurt' = [hurt EXCEPT !["uart"] = @ \cup h] /\ UNCHANGED <<whole, odd>>
    BY <1>8 DEF DropUartLine
  <2> HIDE DEF h
  <2>. QED BY <1>3, <2>1, <2>4, <2>5
<1>9. CASE Consume
  <2>1. hurt' = hurt /\ "usb" \in Transports /\ line["usb"] \in Seq(Bytes("usb"))
    BY <1>9 DEF Consume, Typed, LineType, Transports
  <2>2. CASE UNCHANGED <<whole, odd>>
    BY <1>1, <2>1, <2>2, Zenon DEF HistoryType
  <2>3. CASE Accept("usb", line["usb"])
    BY <1>4, <2>1, <2>3
  <2>. QED BY <1>9, <2>2, <2>3 DEF Consume
<1>10. CASE TakeUartLine
  <2>1. hurt' = hurt /\ "uart" \in Transports /\ Accept("uart", Head(queue)) /\ queue # <<>>
    BY <1>10 DEF TakeUartLine, Transports
  <2>2. Head(queue) \in Seq(Bytes("uart"))
    BY <2>1, HeadTailProperties DEF Typed, QueueType
  <2>. QED BY <1>4, <2>1, <2>2
<1>11. CASE UNCHANGED history
  BY <1>1, <1>11, Zenon DEF HistoryType, history
<1>. QED
  BY <1>6, <1>7, <1>8, <1>9, <1>10, <1>11 DEF Next, vars, ConfigTask, UartRxTask, Receive,
     Consumed, Write, WriteNewline, Flush, Drained, Offer, ReadUart,
     HostReads, HostTurns, BusReset, history

\* So the types are inductive.
LEMMA TypedStep == Typed /\ [Next]_vars => Typed'
BY HostStep, LineStep, PipeStep, QueueStep, TaskStep, HistoryStep DEF Typed

-----------------------------------------------------------------------------
\* What was hurt stays hurt.
LEMMA HurtGrows ==
  ASSUME Typed, [Next]_vars, NEW t \in Transports
  PROVE  hurt[t] \subseteq hurt'[t]
<1>1. hurt \in [Transports -> SUBSET Nat]
  BY DEF Typed, HistoryType
<1>2. ASSUME NEW u, NEW h, hurt' = [hurt EXCEPT ![u] = @ \cup h]
      PROVE  hurt[t] \subseteq hurt'[t]
  BY <1>1, <1>2
<1>3. CASE ReceiveCallback
  BY <1>2, <1>3 DEF ReceiveCallback
<1>4. ASSUME NEW u \in Transports, HostBreaksOff(u) PROVE hurt[t] \subseteq hurt'[t]
  BY <1>2, <1>4 DEF HostBreaksOff
<1>5. CASE DropUartLine
  BY <1>1, <1>5 DEF DropUartLine
<1>6. CASE hurt' = hurt
  BY <1>6
<1>. QED
  BY <1>3, <1>4, <1>5, <1>6 DEF Next, vars, ConfigTask, UartRxTask, Receive, Consume,
     Consumed, Write, WriteNewline, Flush, TakeUartLine, Drained, Offer, ReadUart,
     HostReads, HostTurns, BusReset, history

\* So a line that is clean now was clean before.
LEMMA CleanBefore ==
  ASSUME Typed, [Next]_vars, NEW t \in Transports, NEW k, Clean(t, k)'
  PROVE  Clean(t, k) /\ k \notin hurt'[t]
BY HurtGrows, SameSize DEF Clean

\* A clean line of a host.
LEMMA CleanLine ==
  ASSUME Typed, NEW t \in Transports, NEW k \in Lines(t), Clean(t, k)
  PROVE  k \in Nat /\ size[t][k] \in Nat /\ size[t][k] # 0 /\ size[t][k] <= LineMax
BY LineSizes DEF Typed, HostType, Clean

\* The bytes of a host that sends.
LEMMA ByteFacts ==
  ASSUME Typed, NEW t \in Transports, NEW b \in Bytes(t)
  PROVE  b \in Nat \X Nat /\ size[t][b[1]] \in Nat
BY ByteShape, LineSizes DEF Typed, HostType

\* A text that has a part of line k is line k: the request is line k, or has
\* nothing of it.
LEMMA AcceptGood ==
  ASSUME NEW t \in Transports, NEW k \in Lines(t), k \in Nat, size[t][k] \in Nat, size[t][k] # 0,
         NEW text, whole \in [Transports -> SUBSET Nat], odd \in [Transports -> SUBSET Nat],
         Accept(t, text), k \notin odd[t], Has(text, k) => text = AsSent(t, k)
  PROVE  /\ k \notin odd'[t] /\ whole[t] \subseteq whole'[t]
         /\ text = AsSent(t, k) => k \in whole'[t]
<1>1. CASE \E j \in Lines(t) : text = AsSent(t, j)
  <2>1. odd' = odd /\ whole' = [whole EXCEPT ![t] = @ \cup {text[1][1]}]
    BY <1>1 DEF Accept
  <2>2. text = AsSent(t, k) => text[1][1] = k
    BY SentIsBegin, Begins
  <2>. QED BY <2>1, <2>2
<1>2. CASE ~\E j \in Lines(t) : text = AsSent(t, j)
  <2>1. /\ whole' = whole
        /\ odd' = [odd EXCEPT ![t] = @ \cup {text[i][1] : i \in DOMAIN text}]
    BY <1>2 DEF Accept
  <2>2. ~Has(text, k) /\ text # AsSent(t, k)
    BY <1>2
  <2>3. k \notin {text[i][1] : i \in DOMAIN text}
    BY <2>2 DEF Has
  <2>. QED BY <2>1, <2>2, <2>3
<1>. QED BY <1>1, <1>2

\* A line buffer with a part of line k, behind which b, a newline, is next.
LEMMA JoinEnds ==
  ASSUME NEW t, NEW k \in Nat, size[t][k] \in Nat, NEW text, NEW b, b[2] = 0,
         Joined(size[t], k, text, b), Has(text, k) \/ b[1] = k
  PROVE  text = AsSent(t, k)
<1>1. PICK m \in 0 .. size[t][k] : text = BeginOf(k, m) /\ b = Then(size[t], k, m)
  BY DEF Joined
<1>2. m = size[t][k]
  BY <1>1 DEF Then
<1>. QED BY <1>1, <1>2, SentIsBegin

\* A line is not empty, and it has a part of itself.
LEMMA SentHas ==
  ASSUME NEW t, NEW k \in Nat, size[t][k] \in Nat, size[t][k] # 0
  PROVE  AsSent(t, k) # <<>> /\ Has(AsSent(t, k), k)
<1>1. AsSent(t, k) = BeginOf(k, size[t][k])
  BY SentIsBegin
<1>2. DOMAIN BeginOf(k, size[t][k]) = 1 .. size[t][k] /\ BeginOf(k, size[t][k]) # <<>>
      /\ BeginOf(k, size[t][k])[1][1] = k
  BY BeginType, Begins
<1>3. 1 \in 1 .. size[t][k]
  OBVIOUS
<1>. QED BY <1>1, <1>2, <1>3, Zenon DEF Has
-----------------------------------------------------------------------------
\* The USB way stays good where nothing of it changes,
LEMMA UsbSame ==
  ASSUME NEW k, UsbGood(k), size' = size, pipe' = pipe, next'["usb"] = next["usb"],
         line'["usb"] = line["usb"], whole'["usb"] = whole["usb"], odd'["usb"] = odd["usb"]
  PROVE  UsbGood(k)'
BY Zenon DEF UsbGood

\* and where the host or the stream loses bytes of other lines.
LEMMA UsbLost ==
  ASSUME Typed, NEW k \in Nat, size["usb"][k] \in Nat, UsbGood(k), size' = size, pipe' = pipe,
         line' = line, whole' = whole, odd' = odd, pipe \in Seq(Nat \X Nat),
         next["usb"][1] \in Nat, next'["usb"][1] \in Nat,
         next["usb"][1] # k, next'["usb"][1] # k, next'["usb"][1] <= next["usb"][1] + 1
  PROVE  UsbGood(k)'
<1>1. /\ Chained(size["usb"], k, pipe, next["usb"])
      /\ Joined(size["usb"], k, line["usb"], Following(pipe, next["usb"], 0))
  BY DEF UsbGood
<1>2. /\ Chained(size["usb"], k, pipe, next'["usb"])
      /\ Joined(size["usb"], k, line["usb"], Following(pipe, next'["usb"], 0))
  BY <1>1, FlowLost
<1>3. next'["usb"][1] > k => next["usb"][1] > k
  OBVIOUS
<1>. QED BY <1>2, <1>3, Zenon DEF UsbGood

\* What is on the USB way is a sequence of bytes of the lines.
LEMMA PipeIsSeq ==
  ASSUME Typed
  PROVE  pipe \in Seq(Bytes("usb")) /\ pipe \in Seq(Nat \X Nat)
<1>1. pipe \in Seq(Bytes("usb"))
  BY ConcatProperties DEF Typed, PipeType, pipe
<1>. QED BY <1>1, SeqMonotonic DEF Bytes

\* Where the host is behind a byte of its lines.
LEMMA AfterFacts ==
  ASSUME Typed, NEW t \in Transports, NEW n \in Bytes(t)
  PROVE  /\ After(size[t], n) \in Nat \X Nat
         /\ n[2] = 0 => After(size[t], n) = <<n[1] + 1, 1>> /\ After(size[t], n)[1] = n[1] + 1
         /\ n[2] # 0 => After(size[t], n)[1] = n[1]
<1>1. n \in Nat \X Nat /\ size[t][n[1]] \in Nat
  BY ByteFacts
<1>2. After(size[t], n) \in Nat \X Nat
  BY <1>1 DEF After, Then, IsNewline
<1>. QED BY <1>1, <1>2, AfterLine

\* A byte reaches the stream, or is lost in front of it.
LEMMA UsbSend ==
  ASSUME Typed, NEW k \in Lines("usb"), Clean("usb", k), k \notin hurt'["usb"], UsbGood(k),
         ReceiveCallback
  PROVE  UsbGood(k)'
<1> DEFINE n == next["usb"]
           g == next'["usb"]
<1>1. k \in Nat /\ size["usb"][k] \in Nat /\ size["usb"][k] # 0 /\ "usb" \in Transports
  BY CleanLine DEF Transports
<1>2. n \in Bytes("usb") /\ n \in Nat \X Nat /\ n[1] \in Nat /\ n[2] \in Nat
      /\ n = <<n[1], n[2]>>
  BY <1>1, NextIsByte, ByteShape DEF ReceiveCallback, Typed
<1>3. g = After(size["usb"], n)
  <2>1. next' = [next EXCEPT !["usb"] = After(size["usb"], n)]
    BY <1>1, AdvanceIsAfter DEF ReceiveCallback, Typed
  <2>2. next \in [Transports -> Nat \X Nat]
    BY DEF Typed, HostType
  <2>. QED BY <1>1, <2>1, <2>2
<1>4. /\ g \in Nat \X Nat /\ g[1] \in Nat
      /\ n[2] = 0 => g[1] = n[1] + 1
      /\ n[2] # 0 => g[1] = n[1]
  BY <1>1, <1>2, <1>3, AfterFacts
<1>5. /\ size' = size /\ line' = line /\ whole' = whole /\ odd' = odd /\ input' = input
  BY DEF ReceiveCallback
<1>6. pipe \in Seq(Bytes("usb")) /\ pipe \in Seq(Nat \X Nat)
  BY PipeIsSeq
<1>7. CASE Len(stream) < StreamSize
  <2>1. pipe' = Append(pipe, n)
    <3>1. stream' = Append(stream, n)
      BY <1>7 DEF ReceiveCallback
    <3>. QED BY <1>2, <1>5, <3>1, PipeAppend DEF pipe, Typed, PipeType
  <2>2. /\ Chained(size["usb"], k, pipe, n)
        /\ Joined(size["usb"], k, line["usb"], Following(pipe, n, 0))
        /\ k \notin odd["usb"]
        /\ n[1] > k => k \in whole["usb"] \/ \E i \in DOMAIN pipe : pipe[i] = <<k, 0>>
    BY DEF UsbGood
  <2>3. Chained(size["usb"], k, pipe', g) /\ Following(pipe', g, 0) = Following(pipe, n, 0)
    <3> HIDE DEF n, g
    <3>1. /\ Chained(size["usb"], k, Append(pipe, n), g)
          /\ Following(Append(pipe, n), g, 0) = Following(pipe, n, 0)
      BY <1>1, <1>2, <1>3, <1>6, <2>2, FlowAppend
    <3>. QED BY <2>1, <3>1, Zenon
  <2>4. ASSUME g[1] > k
        PROVE  k \in whole["usb"] \/ \E i \in DOMAIN pipe' : pipe'[i] = <<k, 0>>
    <3>1. PICK l \in Nat : /\ DOMAIN pipe = 1 .. l /\ DOMAIN pipe' = 1 .. l + 1
                           /\ pipe'[l + 1] = n /\ \A i \in 1 .. l : pipe'[i] = pipe[i]
      BY <1>2, <1>6, <2>1, AppendProperties, LenProperties
    <3>2. CASE n[1] > k
      <4>1. CASE \E i \in 1 .. l : pipe[i] = <<k, 0>>
        <5>1. PICK i \in 1 .. l : pipe[i] = <<k, 0>>
          BY <4>1
        <5>2. i \in 1 .. l + 1
          OBVIOUS
        <5>. QED BY <3>1, <5>1, <5>2
      <4>. QED BY <2>2, <3>1, <3>2, <4>1
    <3>3. CASE ~(n[1] > k)
      <4>1. n[2] = 0 /\ n[1] = k
        BY <1>1, <1>2, <1>4, <2>4, <3>3
      <4>2. n = <<k, 0>> /\ l + 1 \in 1 .. l + 1
        BY <1>2, <4>1
      <4>. QED BY <3>1, <4>2
    <3>. QED BY <3>2, <3>3
  <2>. QED BY <1>5, <2>2, <2>3, <2>4, Zenon DEF UsbGood
<1>8. CASE ~(Len(stream) < StreamSize)
  <2>1. pipe' = pipe /\ hurt' = [hurt EXCEPT !["usb"] = @ \cup Hurts(n)]
    BY <1>8 DEF ReceiveCallback, pipe
  <2>2. Hurts(n) \subseteq hurt'["usb"]
    BY <1>1, <2>1 DEF Typed, HistoryType
  <2>3. n[1] # k /\ g[1] # k
    BY <1>4, <2>2 DEF Hurts, IsNewline
  <2>4. g[1] <= n[1] + 1
    BY <1>2, <1>4
  <2>. QED BY <1>1, <1>2, <1>4, <1>5, <1>6, <2>1, <2>3, <2>4, UsbLost
<1>. QED BY <1>7, <1>8

\* The host breaks off: the line it was at and the next one are hurt.
LEMMA UsbBreak ==
  ASSUME Typed, NEW k \in Lines("usb"), Clean("usb", k), k \notin hurt'["usb"], UsbGood(k),
         HostBreaksOff("usb")
  PROVE  UsbGood(k)'
<1> DEFINE n == next["usb"]
           g == next'["usb"]
<1>1. k \in Nat /\ size["usb"][k] \in Nat /\ "usb" \in Transports
  BY CleanLine DEF Transports
<1>2. n \in Nat \X Nat /\ next \in [Transports -> Nat \X Nat]
      /\ hurt \in [Transports -> SUBSET Nat]
  BY <1>1 DEF Typed, HostType, HistoryType
<1>3. g = <<n[1] + 1, 1>> /\ hurt' = [hurt EXCEPT !["usb"] = @ \cup {n[1], n[1] + 1}]
  BY <1>1, <1>2 DEF HostBreaksOff
<1>4. n[1] # k /\ g[1] # k /\ n[1] \in Nat /\ g[1] \in Nat /\ g[1] <= n[1] + 1
  BY <1>1, <1>2, <1>3
<1>5. size' = size /\ line' = line /\ whole' = whole /\ odd' = odd /\ pipe' = pipe
  BY DEF HostBreaksOff, receiver, pipe
<1>. QED BY <1>1, <1>4, <1>5, PipeIsSeq, UsbLost

\* config_task takes what is there: no byte is lost.
LEMMA UsbReceive ==
  ASSUME Typed, NEW k, UsbGood(k), Receive
  PROVE  UsbGood(k)'
<1>1. pipe' = pipe
  <2>1. input = <<>> /\ stream \in Seq(Bytes("usb")) /\ pipe = stream
    BY ConcatEmptySeq DEF Receive, Typed, PipeType, pipe
  <2>2. CASE stream = <<>>
    BY <2>1, <2>2 DEF Receive, pipe
  <2>3. CASE stream # <<>>
    <3> DEFINE n == IF Len(stream) < BatchSize THEN Len(stream) ELSE BatchSize
    <3>1. Len(stream) \in Nat /\ Len(stream) # 0 /\ BatchSize \in Nat \ {0}
      BY <2>1, <2>3, SizeAssumption, LenProperties, EmptySeq
    <3>2. n \in 1 .. Len(stream)
      BY <3>1
    <3>3. input' = SubSeq(stream, 1, n) /\ stream' = SubSeq(stream, n + 1, Len(stream))
      BY <2>3 DEF Receive
    <3> HIDE DEF n
    <3>. QED BY <2>1, <3>2, <3>3, PipeReceive DEF pipe
  <2>. QED BY <2>2, <2>3
<1>2. UNCHANGED <<size, next, line, whole, odd>>
  BY DEF Receive, host, history
<1>. QED BY <1>1, <1>2, UsbSame

\* One byte goes from the front of the bytes to the line buffer.
LEMMA UsbConsume ==
  ASSUME Typed, NEW k \in Lines("usb"), Clean("usb", k), UsbGood(k), Consume
  PROVE  UsbGood(k)'
<1> DEFINE n == next["usb"]
           a == Head(input)
           f == Following(pipe', n, 0)
           z == size["usb"]
<1>1. k \in Nat /\ z[k] \in Nat /\ z[k] # 0 /\ z[k] <= LineMax /\ "usb" \in Transports
  BY CleanLine DEF Transports
<1>2. /\ size' = size /\ next' = next /\ input # <<>> /\ input' = Tail(input) /\ stream' = stream
  BY DEF Consume, host
<1>3. pipe # <<>> /\ pipe[1] = a /\ pipe' = Tail(pipe) /\ pipe \in Seq(Nat \X Nat)
  <2>1. pipe # <<>> /\ pipe[1] = a /\ pipe' = Tail(pipe)
    BY <1>2, PipeTake DEF Typed, PipeType, pipe
  <2>. QED BY <2>1, PipeIsSeq
<1>4. a \in Bytes("usb") /\ a \in Nat \X Nat /\ z[a[1]] \in Nat /\ a = <<a[1], a[2]>>
  <2>1. a \in Bytes("usb")
    BY <1>2, HeadTailProperties DEF Typed, PipeType
  <2>. QED BY <1>1, <2>1, ByteFacts
<1>5. /\ Chained(z, k, pipe, n) /\ Joined(z, k, line["usb"], Following(pipe, n, 0))
      /\ n[1] > k => k \in whole["usb"] \/ \E i \in DOMAIN pipe : pipe[i] = <<k, 0>>
      /\ k \notin odd["usb"]
  BY DEF UsbGood
<1>6. /\ Chained(z, k, pipe', n) /\ Following(pipe, n, 0) = a
      /\ (a[1] = k /\ a[2] # 0) \/ f[1] = k => f = After(z, a)
  BY <1>1, <1>3, <1>5, FlowTake, SMTT(30)
<1>7. Joined(z, k, line["usb"], a)
  BY <1>5, <1>6
<1>8. ASSUME NEW i \in DOMAIN pipe, i # 1 PROVE \E j \in DOMAIN pipe' : pipe'[j] = pipe[i]
  <2>1. PICK l \in Nat : DOMAIN pipe = 1 .. l /\ Len(pipe) = l
    BY <1>3, LenProperties
  <2>2. pipe' \in Seq(Nat \X Nat) /\ Len(pipe') = l - 1
        /\ \A j \in 1 .. Len(pipe') : pipe'[j] = pipe[j + 1]
    BY <1>3, <2>1, HeadTailProperties
  <2>3. DOMAIN pipe' = 1 .. l - 1
    BY <2>2, LenProperties
  <2>4. i - 1 \in 1 .. l - 1 /\ (i - 1) + 1 = i
    BY <1>8, <2>1
  <2>. QED BY <2>2, <2>3, <2>4
<1>9. f \in Nat \X Nat
  <2>1. pipe' \in Seq(Nat \X Nat)
    BY <1>3, HeadTailProperties
  <2>2. n \in Nat \X Nat
    BY <1>1 DEF Typed, HostType
  <2>3. Len(pipe') \in Nat /\ \A i \in 1 .. Len(pipe') : pipe'[i] \in Nat \X Nat
    BY <2>1, LenProperties, ElementOfSeq
  <2>. QED BY <2>2, <2>3 DEF Following
<1> HIDE DEF f
<1>10. CASE a[2] = 0
  <2>1. line["usb"] = <<>> => UNCHANGED <<line, whole, odd>>
    BY <1>10 DEF Consume, IsNewline
  <2>2. line["usb"] # <<>> => Accept("usb", line["usb"])
                              /\ line' = [line EXCEPT !["usb"] = <<>>]
    BY <1>10 DEF Consume, IsNewline
  <2>3. line'["usb"] = <<>>
    BY <1>1, <2>1, <2>2 DEF Typed, LineType
  <2>4. Joined(z, k, <<>>, f)
    <3>1. f[1] = k => f = <<k, 1>>
      BY <1>4, <1>6, <1>10, <1>1, AfterFacts
    <3>. QED BY <1>1, <3>1, JoinFresh
  <2>5. Has(line["usb"], k) \/ a[1] = k => line["usb"] = AsSent("usb", k)
    BY <1>1, <1>7, <1>10, JoinEnds
  <2>6. /\ k \notin odd'["usb"] /\ whole["usb"] \subseteq whole'["usb"]
        /\ line["usb"] = AsSent("usb", k) => k \in whole'["usb"]
    <3>1. CASE line["usb"] = <<>>
      BY <1>1, <1>5, <2>1, <3>1, SentHas
    <3>2. CASE line["usb"] # <<>>
      <4>1. whole \in [Transports -> SUBSET Nat] /\ odd \in [Transports -> SUBSET Nat]
        BY DEF Typed, HistoryType
      <4>. QED BY <1>1, <1>5, <2>2, <2>5, <3>2, <4>1, AcceptGood
    <3>. QED BY <3>1, <3>2
  <2>7. ASSUME n[1] > k
        PROVE  k \in whole'["usb"] \/ \E i \in DOMAIN pipe' : pipe'[i] = <<k, 0>>
    <3>1. CASE k \in whole["usb"]
      BY <2>6, <3>1
    <3>2. ASSUME NEW i \in DOMAIN pipe, pipe[i] = <<k, 0>>
          PROVE  k \in whole'["usb"] \/ \E j \in DOMAIN pipe' : pipe'[j] = <<k, 0>>
      <4>1. CASE i = 1
        <5>1. a = <<k, 0>>
          BY <1>3, <3>2, <4>1
        <5>. QED BY <2>5, <2>6, <5>1
      <4>2. CASE i # 1
        BY <1>8, <3>2, <4>2
      <4>. QED BY <4>1, <4>2
    <3>. QED BY <1>5, <2>7, <3>1, <3>2
  <2>. QED BY <1>2, <1>6, <2>3, <2>4, <2>6, <2>7, Zenon DEF UsbGood, f
<1>11. CASE a[2] # 0
  <2>1. line' = [line EXCEPT !["usb"] = Collect("usb", a)] /\ UNCHANGED <<whole, odd>>
    BY <1>11 DEF Consume, IsNewline
  <2>2. line'["usb"] = Collect("usb", a) /\ line["usb"] \in Text
    BY <1>1, <2>1 DEF Typed, LineType
  <2>3. Joined(z, k, Collect("usb", a), f)
    BY <1>1, <1>4, <1>6, <1>7, <1>9, <1>11, <2>2, JoinStep DEF Collect
  <2>4. ASSUME n[1] > k
        PROVE  k \in whole["usb"] \/ \E i \in DOMAIN pipe' : pipe'[i] = <<k, 0>>
    <3>1. ASSUME NEW i \in DOMAIN pipe, pipe[i] = <<k, 0>>
          PROVE  \E j \in DOMAIN pipe' : pipe'[j] = <<k, 0>>
      <4>1. i # 1
        BY <1>3, <1>11, <3>1
      <4>. QED BY <1>8, <3>1, <4>1
    <3>. QED BY <1>5, <2>4, <3>1
  <2>. QED BY <1>2, <1>5, <1>6, <2>1, <2>2, <2>3, <2>4, Zenon DEF UsbGood, f
<1>. QED BY <1>10, <1>11

\* A clean line that has gone, or is still on its way, over USB.
LEMMA UsbStep ==
  ASSUME Typed, [Next]_vars, NEW k \in Lines("usb"), Clean("usb", k), k \notin hurt'["usb"],
         UsbGood(k)
  PROVE  UsbGood(k)'
<1>0. /\ "usb" # "uart" /\ "usb" \in Transports
      /\ next \in [Transports -> Nat \X Nat] /\ line \in [Transports -> Text]
      /\ whole \in [Transports -> SUBSET Nat] /\ odd \in [Transports -> SUBSET Nat]
  BY DEF Typed, HostType, LineType, HistoryType, Transports
<1>1. CASE ReceiveCallback
  BY <1>1, UsbSend
<1>2. CASE Receive
  BY <1>2, UsbReceive
<1>3. CASE Consume
  BY <1>3, UsbConsume
<1>4. ASSUME NEW t \in Transports, HostBreaksOff(t) PROVE UsbGood(k)'
  <2>1. CASE t = "usb"
    BY <1>4, <2>1, UsbBreak
  <2>2. CASE t = "uart"
    <3>1. UNCHANGED <<size, input, stream, line, whole, odd>> /\ next'["usb"] = next["usb"]
      BY <1>0, <1>4, <2>2 DEF HostBreaksOff, receiver
    <3>. QED BY <3>1, UsbSame DEF pipe
  <2>. QED BY <2>1, <2>2 DEF Transports
<1>5. CASE ReadUart
  <2>1. UNCHANGED <<size, input, stream, whole, odd>>
    BY <1>5 DEF ReadUart, history
  <2>2. next'["usb"] = next["usb"]
    BY <1>0, <1>5 DEF ReadUart, Advance
  <2>3. line'["usb"] = line["usb"]
    BY <1>0, <1>5 DEF ReadUart
  <2>. QED BY <2>1, <2>2, <2>3, UsbSame DEF pipe
<1>6. CASE Offer \/ DropUartLine
  <2>1. UNCHANGED <<size, next, input, stream, whole, odd>> /\ line'["usb"] = line["usb"]
    BY <1>0, <1>6 DEF Offer, DropUartLine, host, history
  <2>. QED BY <2>1, UsbSame DEF pipe
<1>7. CASE TakeUartLine
  <2>1. UNCHANGED <<size, next, input, stream, line>>
    BY <1>7 DEF TakeUartLine, host
  <2>2. whole'["usb"] = whole["usb"] /\ odd'["usb"] = odd["usb"]
    BY <1>0, <1>7 DEF TakeUartLine, Accept
  <2>. QED BY <2>1, <2>2, UsbSame DEF pipe
<1>8. CASE UNCHANGED <<size, next, input, stream, line, whole, odd>>
  BY <1>8, UsbSame DEF pipe
<1>. QED
  BY <1>1, <1>2, <1>3, <1>4, <1>5, <1>6, <1>7, <1>8, Zenon DEF Next, vars, ConfigTask, UartRxTask,
     Consumed, Write, WriteNewline, Flush, Drained, HostReads, HostTurns, BusReset, host,
     receiver, history

-----------------------------------------------------------------------------
\* The UART way stays good where nothing of it changes.
LEMMA UartSame ==
  ASSUME NEW k, UartGood(k), size' = size, rx' = rx, queue' = queue,
         next'["uart"] = next["uart"], line'["uart"] = line["uart"],
         whole'["uart"] = whole["uart"], odd'["uart"] = odd["uart"]
  PROVE  UartGood(k)'
BY Zenon DEF UartGood, AsSent

\* uart_rx_task reads a byte.
LEMMA UartRead ==
  ASSUME Typed, NEW k \in Lines("uart"), Clean("uart", k), UartGood(k), ReadUart
  PROVE  UartGood(k)'
<1> DEFINE n == next["uart"]
           g == next'["uart"]
           text == line["uart"]
           z == size["uart"]
<1>1. k \in Nat /\ z[k] \in Nat /\ z[k] # 0 /\ z[k] <= LineMax /\ "uart" \in Transports
  BY CleanLine DEF Transports
<1>2. n \in Bytes("uart") /\ n \in Nat \X Nat /\ n[1] \in Nat /\ n[2] \in Nat
      /\ z[n[1]] \in Nat
  <2>1. n \in Bytes("uart")
    BY <1>1, NextIsByte DEF ReadUart, Typed
  <2>. QED BY <1>1, <2>1, ByteShape, ByteFacts
<1>3. g = After(z, n)
  <2>1. next' = [next EXCEPT !["uart"] = After(z, n)]
    BY <1>1, AdvanceIsAfter DEF ReadUart, Typed
  <2>2. next \in [Transports -> Nat \X Nat]
    BY DEF Typed, HostType
  <2>. QED BY <1>1, <2>1, <2>2
<1>4. /\ g \in Nat \X Nat /\ g[1] \in Nat
      /\ n[2] = 0 => g = <<n[1] + 1, 1>> /\ g[1] = n[1] + 1
      /\ n[2] # 0 => g[1] = n[1]
  BY <1>1, <1>2, <1>3, AfterFacts
<1>5. /\ size' = size /\ queue' = queue /\ whole' = whole /\ odd' = odd /\ rx = "Read"
  BY DEF ReadUart, history
<1>6. Joined(z, k, text, n) /\ text \in Text /\ line \in [Transports -> Text]
  BY <1>1, <1>5 DEF UartGood, Typed, LineType
<1>7. /\ \A i \in DOMAIN queue : Has(queue[i], k) => queue[i] = AsSent("uart", k)
      /\ n[1] > k => k \in whole["uart"] \/ \E i \in DOMAIN queue : queue[i] = AsSent("uart", k)
      /\ k \notin odd["uart"]
  BY <1>5 DEF UartGood
<1>8. CASE n[2] # 0
  <2>1. rx' = "Read" /\ line'["uart"] = Collect("uart", n)
    BY <1>1, <1>5, <1>6, <1>8 DEF ReadUart, IsNewline
  <2>2. Joined(z, k, Collect("uart", n), g)
    BY <1>1, <1>2, <1>3, <1>4, <1>6, <1>8, JoinStep DEF Collect
  <2>3. g[1] > k => n[1] > k
    BY <1>4, <1>8
  <2>4. "Read" # "Offer"
    OBVIOUS
  <2>. QED BY <1>5, <1>7, <2>1, <2>2, <2>3, <2>4, Zenon DEF UartGood, AsSent
<1>9. CASE n[2] = 0
  <2>1. line' = line /\ (text = <<>> => rx' = "Read") /\ (text # <<>> => rx' = "Offer")
    BY <1>9 DEF ReadUart, IsNewline
  <2>2. Has(text, k) \/ n[1] = k => text = AsSent("uart", k)
    BY <1>1, <1>6, <1>9, JoinEnds
  <2>3. g[1] = k => g = <<k, 1>>
    BY <1>4, <1>9
  <2>4. g[1] > k => n[1] > k \/ n[1] = k
    BY <1>1, <1>2, <1>4, <1>9
  <2>5. "Read" # "Offer"
    OBVIOUS
  <2>6. CASE text = <<>>
    <3>1. Joined(z, k, <<>>, g)
      BY <1>1, <2>3, JoinFresh
    <3>2. n[1] # k
      BY <1>1, <2>2, <2>6, SentHas
    <3>. QED BY <1>5, <1>7, <2>1, <2>4, <2>5, <2>6, <3>1, <3>2, Zenon DEF UartGood, AsSent
  <2>7. CASE text # <<>>
    BY <1>5, <1>7, <2>1, <2>2, <2>3, <2>4, <2>5, <2>7, Zenon DEF UartGood, AsSent
  <2>. QED BY <2>6, <2>7
<1>. QED BY <1>8, <1>9

\* The host breaks off: neither the line it was at nor the next one stays clean.
LEMMA UartBreak ==
  ASSUME Typed, NEW k \in Lines("uart"), Clean("uart", k), k \notin hurt'["uart"], UartGood(k),
         HostBreaksOff("uart")
  PROVE  UartGood(k)'
<1> DEFINE n == next["uart"]
           g == next'["uart"]
           text == line["uart"]
           z == size["uart"]
<1>1. k \in Nat /\ z[k] \in Nat /\ "uart" \in Transports
  BY CleanLine DEF Transports
<1>2. n \in Nat \X Nat /\ next \in [Transports -> Nat \X Nat]
      /\ hurt \in [Transports -> SUBSET Nat]
  BY <1>1 DEF Typed, HostType, HistoryType
<1>3. g = <<n[1] + 1, 1>> /\ hurt' = [hurt EXCEPT !["uart"] = @ \cup {n[1], n[1] + 1}]
  BY <1>1, <1>2 DEF HostBreaksOff
<1>4. n[1] # k /\ g[1] # k /\ (g[1] > k => n[1] > k)
  BY <1>1, <1>2, <1>3
<1>5. UNCHANGED <<size, line, rx, queue, whole, odd>>
  BY DEF HostBreaksOff, receiver
<1>6. Joined(z, k, text, n) => Joined(z, k, text, g)
  <2>1. \A m \in 0 .. z[k] : Then(z, k, m)[1] = k
    BY DEF Then
  <2>. QED BY <1>4, <2>1, Zenon DEF Joined
<1>. QED BY <1>4, <1>5, <1>6, Zenon DEF UartGood, AsSent

\* uart_rx_task hands a line over,
LEMMA UartOffer ==
  ASSUME Typed, NEW k \in Lines("uart"), Clean("uart", k), UartGood(k), Offer
  PROVE  UartGood(k)'
<1> DEFINE n == next["uart"]
           text == line["uart"]
           sent == AsSent("uart", k)
<1>1. k \in Nat /\ size["uart"][k] \in Nat /\ size["uart"][k] # 0 /\ "uart" \in Transports
  BY CleanLine DEF Transports
<1>2. UNCHANGED <<size, next, whole, odd>> /\ rx = "Offer" /\ rx' = "Read"
  BY DEF Offer, host, history
<1>3. line'["uart"] = <<>>
  BY <1>1 DEF Offer, Typed, LineType
<1>4. PICK l \in Nat : /\ DOMAIN queue = 1 .. l /\ DOMAIN queue' = 1 .. l + 1
                       /\ queue'[l + 1] = text /\ \A i \in 1 .. l : queue'[i] = queue[i]
  <2>1. queue \in Seq(Seq(Bytes("uart"))) /\ text \in Seq(Bytes("uart"))
    BY <1>1 DEF Typed, QueueType, LineType
  <2>2. queue' = Append(queue, text)
    BY DEF Offer
  <2>. QED BY <2>1, <2>2, AppendProperties, LenProperties
<1>5. /\ Has(text, k) => text = sent
      /\ n[1] = k => n = <<k, 1>>
      /\ \A i \in DOMAIN queue : Has(queue[i], k) => queue[i] = sent
      /\ n[1] > k => k \in whole["uart"] \/ text = sent \/ \E i \in DOMAIN queue : queue[i] = sent
      /\ k \notin odd["uart"]
  BY <1>2 DEF UartGood
<1>6. Joined(size["uart"], k, <<>>, n)
  BY <1>1, <1>5, JoinFresh
<1>7. ASSUME NEW i \in DOMAIN queue', Has(queue'[i], k) PROVE queue'[i] = sent
  <2>1. i = l + 1 \/ i \in 1 .. l
    BY <1>4
  <2>2. CASE i = l + 1
    <3>1. queue'[i] = text
      BY <1>4, <2>2
    <3>. QED BY <1>5, <1>7, <3>1
  <2>3. CASE i \in 1 .. l
    <3>1. queue'[i] = queue[i] /\ i \in DOMAIN queue
      BY <1>4, <2>3
    <3>. QED BY <1>5, <1>7, <3>1
  <2>. QED BY <2>1, <2>2, <2>3
<1>8. ASSUME n[1] > k PROVE k \in whole["uart"] \/ \E i \in DOMAIN queue' : queue'[i] = sent
  <2>1. l + 1 \in 1 .. l + 1 /\ \A i \in 1 .. l : i \in 1 .. l + 1
    OBVIOUS
  <2>. QED BY <1>4, <1>5, <1>8, <2>1, Zenon
<1>9. "Read" # "Offer" /\ sent' = sent
  BY <1>2 DEF AsSent
<1> HIDE DEF sent
<1>10. /\ \A i \in DOMAIN queue' : Has(queue'[i], k) => queue'[i] = AsSent("uart", k)'
       /\ n[1] > k => k \in whole["uart"] \/ \E i \in DOMAIN queue' : queue'[i] = AsSent("uart", k)'
  BY <1>7, <1>8, <1>9, Zenon DEF sent
<1>. QED BY <1>2, <1>3, <1>5, <1>6, <1>9, <1>10, Zenon DEF UartGood, Has

\* or drops it.
LEMMA UartDrop ==
  ASSUME Typed, NEW k \in Lines("uart"), Clean("uart", k), k \notin hurt'["uart"], UartGood(k),
         DropUartLine
  PROVE  UartGood(k)'
<1> DEFINE n == next["uart"]
           text == line["uart"]
<1>1. k \in Nat /\ size["uart"][k] \in Nat /\ size["uart"][k] # 0 /\ "uart" \in Transports
  BY CleanLine DEF Transports
<1>2. UNCHANGED <<size, next, queue, whole, odd>> /\ rx = "Offer" /\ rx' = "Read"
  BY DEF DropUartLine, host
<1>3. line'["uart"] = <<>>
  BY <1>1 DEF DropUartLine, Typed, LineType
<1>4. ~Has(text, k)
  <2>1. {text[i][1] : i \in DOMAIN text} \subseteq hurt'["uart"]
    BY <1>1 DEF DropUartLine, Typed, HistoryType
  <2>. QED BY <2>1 DEF Has
<1>5. text # AsSent("uart", k)
  BY <1>1, <1>4, SentHas
<1>6. Joined(size["uart"], k, <<>>, n)
  <2>1. n[1] = k => n = <<k, 1>>
    BY <1>2 DEF UartGood
  <2>. QED BY <1>1, <2>1, JoinFresh
<1>7. "Read" # "Offer"
  OBVIOUS
<1>. QED BY <1>2, <1>3, <1>5, <1>6, <1>7, Zenon DEF UartGood, AsSent

\* config_task takes the next line.
LEMMA UartTake ==
  ASSUME Typed, NEW k \in Lines("uart"), Clean("uart", k), UartGood(k), TakeUartLine
  PROVE  UartGood(k)'
<1> DEFINE n == next["uart"]
           text == line["uart"]
           sent == AsSent("uart", k)
<1>1. k \in Nat /\ size["uart"][k] \in Nat /\ size["uart"][k] # 0 /\ "uart" \in Transports
  BY CleanLine DEF Transports
<1>2. UNCHANGED <<size, next, line, rx>>
  BY DEF TakeUartLine, host
<1>3. PICK l \in Nat : /\ DOMAIN queue = 1 .. l + 1 /\ DOMAIN queue' = 1 .. l
                       /\ Head(queue) = queue[1] /\ \A i \in 1 .. l : queue'[i] = queue[i + 1]
  <2>1. queue \in Seq(Seq(Bytes("uart"))) /\ queue # <<>> /\ queue' = Tail(queue)
    BY DEF TakeUartLine, Typed, QueueType
  <2>2. Len(queue) \in Nat /\ Len(queue) # 0 /\ DOMAIN queue = 1 .. Len(queue)
    BY <2>1, LenProperties, EmptySeq
  <2>3. PICK l \in Nat : Len(queue) = l + 1
    <3>1. Len(queue) - 1 \in Nat /\ Len(queue) = (Len(queue) - 1) + 1
      BY <2>2
    <3>. QED BY <3>1
  <2>4. queue' \in Seq(Seq(Bytes("uart"))) /\ Len(queue') = l
        /\ \A i \in 1 .. l : queue'[i] = queue[i + 1]
    BY <2>1, <2>3, HeadTailProperties
  <2>5. DOMAIN queue' = 1 .. l
    BY <2>4, LenProperties
  <2>6. Head(queue) = queue[1]
    BY <2>1, <2>3
  <2>. QED BY <2>2, <2>3, <2>4, <2>5, <2>6
<1>4. /\ \A i \in DOMAIN queue : Has(queue[i], k) => queue[i] = sent
      /\ n[1] > k => \/ k \in whole["uart"]
                     \/ \E i \in DOMAIN queue : queue[i] = sent
                     \/ rx = "Offer" /\ text = sent
      /\ k \notin odd["uart"]
  BY DEF UartGood
<1>5. 1 \in 1 .. l + 1 /\ \A i \in 1 .. l : i + 1 \in 1 .. l + 1
  OBVIOUS
<1>6. /\ k \notin odd'["uart"] /\ whole["uart"] \subseteq whole'["uart"]
      /\ Head(queue) = sent => k \in whole'["uart"]
  <2>1. Has(Head(queue), k) => Head(queue) = sent
    BY <1>3, <1>4, <1>5, Zenon
  <2>2. Accept("uart", Head(queue))
    BY DEF TakeUartLine
  <2>3. whole \in [Transports -> SUBSET Nat] /\ odd \in [Transports -> SUBSET Nat]
    BY DEF Typed, HistoryType
  <2>. QED BY <1>1, <1>4, <2>1, <2>2, <2>3, AcceptGood
<1>7. \A i \in DOMAIN queue' : Has(queue'[i], k) => queue'[i] = sent
  BY <1>3, <1>4, <1>5, Zenon
<1>8. ASSUME NEW i \in DOMAIN queue, queue[i] = sent
      PROVE  k \in whole'["uart"] \/ \E j \in DOMAIN queue' : queue'[j] = sent
  <2>1. CASE i = 1
    BY <1>3, <1>6, <1>8, <2>1
  <2>2. CASE i # 1
    <3>1. i - 1 \in 1 .. l /\ (i - 1) + 1 = i
      BY <1>3, <2>2
    <3>2. queue'[i - 1] = queue[i]
      BY <1>3, <3>1
    <3>. QED BY <1>3, <1>8, <3>1, <3>2, Zenon
  <2>. QED BY <2>1, <2>2
<1>9. AsSent("uart", k)' = sent
  BY <1>2 DEF AsSent
<1> HIDE DEF sent
<1>10. n[1] > k => \/ k \in whole'["uart"]
                   \/ \E i \in DOMAIN queue' : queue'[i] = sent
                   \/ rx = "Offer" /\ text = sent
  BY <1>4, <1>6, <1>8
<1>11. /\ rx = "Read" => Joined(size["uart"], k, text, n)
       /\ rx = "Offer" => (Has(text, k) => text = sent) /\ (n[1] = k => n = <<k, 1>>)
  BY Zenon DEF UartGood, sent
<1>. QED BY <1>2, <1>6, <1>7, <1>9, <1>10, <1>11, Zenon DEF UartGood

\* A clean line that has gone, or is still on its way, over the UART.
LEMMA UartStep ==
  ASSUME Typed, [Next]_vars, NEW k \in Lines("uart"), Clean("uart", k), k \notin hurt'["uart"],
         UartGood(k)
  PROVE  UartGood(k)'
<1>0. /\ "usb" # "uart" /\ "uart" \in Transports
      /\ next \in [Transports -> Nat \X Nat] /\ line \in [Transports -> Text]
      /\ whole \in [Transports -> SUBSET Nat] /\ odd \in [Transports -> SUBSET Nat]
  BY DEF Typed, HostType, LineType, HistoryType, Transports
<1>1. CASE ReadUart
  BY <1>1, UartRead
<1>2. CASE Offer
  BY <1>2, UartOffer
<1>3. CASE DropUartLine
  BY <1>3, UartDrop
<1>4. CASE TakeUartLine
  BY <1>4, UartTake
<1>5. ASSUME NEW t \in Transports, HostBreaksOff(t) PROVE UartGood(k)'
  <2>1. CASE t = "uart"
    BY <1>5, <2>1, UartBreak
  <2>2. CASE t = "usb"
    <3>1. UNCHANGED <<size, rx, queue, line, whole, odd>> /\ next'["uart"] = next["uart"]
      BY <1>0, <1>5, <2>2 DEF HostBreaksOff, receiver
    <3>. QED BY <3>1, UartSame
  <2>. QED BY <2>1, <2>2 DEF Transports
<1>6. CASE ReceiveCallback
  <2>1. UNCHANGED <<size, rx, queue, line, whole, odd>>
    BY <1>6 DEF ReceiveCallback
  <2>2. next'["uart"] = next["uart"]
    BY <1>0, <1>6 DEF ReceiveCallback, Advance
  <2>. QED BY <2>1, <2>2, UartSame
<1>7. CASE Consume
  <2>1. UNCHANGED <<size, rx, queue, next>>
    BY <1>7 DEF Consume, host
  <2>2. line' = line \/ line' = [line EXCEPT !["usb"] = <<>>]
        \/ line' = [line EXCEPT !["usb"] = Collect("usb", Head(input))]
    BY <1>7, Zenon DEF Consume
  <2>3. whole'["uart"] = whole["uart"] /\ odd'["uart"] = odd["uart"]
    <3>1. UNCHANGED <<whole, odd>> \/ Accept("usb", line["usb"])
      BY <1>7, Zenon DEF Consume
    <3>. QED BY <1>0, <3>1 DEF Accept
  <2>4. line'["uart"] = line["uart"]
    BY <1>0, <2>2
  <2>. QED BY <2>1, <2>3, <2>4, UartSame
<1>8. CASE UNCHANGED <<size, next, rx, queue, line, whole, odd>>
  BY <1>8, UartSame
<1>. QED
  BY <1>1, <1>2, <1>3, <1>4, <1>5, <1>6, <1>7, <1>8, Zenon DEF Next, vars, ConfigTask, UartRxTask,
     Receive, Consumed, Write, WriteNewline, Flush, Drained, HostReads, HostTurns, BusReset, host,
     receiver, history

-----------------------------------------------------------------------------
\* A line that is clean after a step was clean and good before it, and its own
\* way keeps it so.
LEMMA GoodStep == Typed /\ Good /\ [Next]_vars => Good'
<1> SUFFICES ASSUME Typed, Good, [Next]_vars PROVE Good'
  OBVIOUS
<1>1. \A t : Lines(t)' = Lines(t)
  BY SameSize, SameBytes
<1>2. "usb" \in Transports /\ "uart" \in Transports
  BY DEF Transports
<1>3. ASSUME NEW k \in Lines("usb"), Clean("usb", k)' PROVE UsbGood(k)'
  BY <1>2, <1>3, CleanBefore, UsbStep DEF Good
<1>4. ASSUME NEW k \in Lines("uart"), Clean("uart", k)' PROVE UartGood(k)'
  BY <1>2, <1>4, CleanBefore, UartStep DEF Good
<1>. QED BY <1>1, <1>3, <1>4, Zenon DEF Good

-----------------------------------------------------------------------------
\* At the beginning the buffers are empty and both hosts at their first byte.
LEMMA InitTyped == Init => Typed
<1> SUFFICES ASSUME Init PROVE Typed
  OBVIOUS
<1>1. size \in Sendings
  BY DEF Init
<1>2. LineMax \in Nat /\ StreamSize \in Nat /\ BatchSize \in Nat /\ QueueLength \in Nat
      /\ FifoSize \in Nat /\ AnswerSize \in Nat
  BY SizeAssumption
<1>3. HostType
  <2>1. next = [t \in Transports |-> <<1, 1>>]
    BY DEF Init
  <2>2. ASSUME NEW t \in Transports
        PROVE  <<1, 1>> \in Bytes(t) \cup {<<Len(size[t]) + 1, 1>>}
    <3>1. /\ Len(size[t]) \in Nat /\ Lines(t) = 1 .. Len(size[t])
          /\ \A k \in Lines(t) : size[t][k] \in Nat /\ size[t][k] # 0
      BY <1>1, LineSizes
    <3>2. CASE Len(size[t]) = 0
      BY <3>2
    <3>3. CASE Len(size[t]) # 0
      <4>1. 1 \in Lines(t)
        BY <3>1, <3>3
      <4>2. size[t][1] \in Nat /\ size[t][1] # 0
        BY <3>1, <4>1
      <4>. QED BY <4>1, <4>2 DEF Bytes
    <3>. QED BY <3>2, <3>3
  <2>. QED BY <1>1, <2>1, <2>2 DEF HostType
<1>4. LineType
  <2>1. \A t \in Transports : <<>> \in Seq(Bytes(t)) /\ Len(<<>>) <= LineMax
    BY <1>2, EmptySeq
  <2>2. <<>> \in Text
    BY EmptySeq DEF Text
  <2>. QED BY <2>1, <2>2 DEF Init, LineType
<1>5. PipeType
  BY <1>2, EmptySeq DEF Init, PipeType
<1>6. QueueType
  BY <1>2, EmptySeq DEF Init, QueueType
<1>7. TaskType
  BY <1>2 DEF Init, TaskType
<1>8. HistoryType
  BY DEF Init, HistoryType
<1>. QED BY <1>3, <1>4, <1>5, <1>6, <1>7, <1>8 DEF Typed

\* Nothing has been sent: the first line is next, and nothing is odd.
LEMMA InitGood == Init => Good
<1> SUFFICES ASSUME Init PROVE Good
  OBVIOUS
<1>1. Typed /\ "usb" \in Transports /\ "uart" \in Transports
  BY InitTyped DEF Transports
<1>2. ASSUME NEW t \in Transports, NEW k \in Lines(t)
      PROVE  k \in Nat /\ k # 0 /\ size[t][k] \in Nat /\ size[t][k] # 0
  <2>1. size \in Sendings
    BY DEF Init
  <2>. QED BY <2>1, LineSizes
<1>3. ASSUME NEW t \in Transports
      PROVE  next[t] = <<1, 1>> /\ line[t] = <<>> /\ odd[t] = {}
  BY DEF Init
<1>4. ASSUME NEW t \in Transports, NEW k \in Lines(t)
      PROVE  Joined(size[t], k, <<>>, <<1, 1>>) /\ ~(<<1, 1>>[1] > k)
  BY <1>2, JoinFresh
<1>5. ASSUME NEW k \in Lines("usb") PROVE UsbGood(k)
  <2>1. pipe = <<>>
    BY DEF Init, pipe
  <2>2. Following(pipe, next["usb"], 0) = <<1, 1>> /\ Chained(size["usb"], k, pipe, next["usb"])
    BY <1>1, <1>3, <2>1 DEF Following, Chained
  <2>. QED BY <1>1, <1>3, <1>4, <2>2 DEF UsbGood
<1>6. ASSUME NEW k \in Lines("uart") PROVE UartGood(k)
  <2>1. queue = <<>> /\ rx = "Read"
    BY DEF Init
  <2>. QED BY <1>1, <1>3, <1>4, <2>1 DEF UartGood
<1>. QED BY <1>5, <1>6 DEF Good

\* The types of the invariant are those of the module.
LEMMA TypedIsType == Typed => TypeOK
<1> SUFFICES ASSUME Typed PROVE TypeOK
  OBVIOUS
<1>1. \A t : Bytes(t) \subseteq Nat \X Nat
  BY DEF Bytes
<1>2. stream \in Text /\ input \in Text
  BY <1>1, SeqMonotonic DEF Typed, PipeType, Text
<1>3. queue \in Seq(Text)
  <2>1. Seq(Bytes("uart")) \subseteq Text
    BY <1>1, SeqMonotonic DEF Text
  <2>. QED BY <2>1, SeqMonotonic DEF Typed, QueueType
<1>4. ASSUME NEW t \in Transports
      PROVE  /\ next[t] \in Nat \X Nat
             /\ line[t] \in Text /\ Len(line[t]) <= LineMax
             /\ whole[t] \cup odd[t] \subseteq Lines(t)
             /\ hurt[t] \subseteq 1 .. Len(size[t]) + 1
  BY DEF Typed, HostType, LineType, HistoryType
<1>. QED BY <1>2, <1>3, <1>4 DEF TypeOK, Typed, HostType, PipeType, QueueType, TaskType

\* What is in sequence p is in sequence x.
Within(p, x) == \A i \in DOMAIN p : \E j \in DOMAIN x : x[j] = p[i]

\* What is on the USB way is among what a line that has gone has left behind.
LEMMA PipeIsUnder ==
  ASSUME NEW B, NEW s \in Seq(B), NEW u \in Seq(B), NEW w \in Seq(B)
  PROVE  Within(u \o s, s \o u \o w)
<1> SUFFICES ASSUME NEW i \in DOMAIN (u \o s)
             PROVE  \E j \in DOMAIN (s \o u \o w) : (s \o u \o w)[j] = (u \o s)[i]
  BY DEF Within
<1> DEFINE p == u \o s
           v == s \o u
           x == v \o w
<1>1. PICK a \in Nat, b \in Nat, c \in Nat : Len(s) = a /\ Len(u) = b /\ Len(w) = c
  BY LenProperties
<1>2. /\ p \in Seq(B) /\ Len(p) = b + a
      /\ \A j \in 1 .. b + a : p[j] = IF j <= b THEN u[j] ELSE s[j - b]
  BY <1>1, ConcatProperties
<1>3. /\ v \in Seq(B) /\ Len(v) = a + b
      /\ \A j \in 1 .. a + b : v[j] = IF j <= a THEN s[j] ELSE u[j - a]
  BY <1>1, ConcatProperties
<1> HIDE DEF v
<1>4. /\ x \in Seq(B) /\ Len(x) = a + b + c
      /\ \A j \in 1 .. a + b + c : x[j] = IF j <= a + b THEN v[j] ELSE w[j - (a + b)]
  <2>1. /\ x \in Seq(B) /\ Len(x) = Len(v) + Len(w)
        /\ \A j \in 1 .. Len(v) + Len(w) : x[j] = IF j <= Len(v) THEN v[j] ELSE w[j - Len(v)]
    BY <1>3, ConcatProperties
  <2> HIDE DEF x
  <2>2. Len(v) = a + b /\ Len(w) = c
    BY <1>1, <1>3
  <2>. QED BY <2>1, <2>2
<1> HIDE DEF x
<1>5. DOMAIN x = 1 .. a + b + c
  BY <1>4, LenProperties
<1>6. i \in 1 .. b + a
  BY <1>2, LenProperties
<1> HIDE DEF p
<1>7. CASE i <= b
  <2>1. a + i \in 1 .. a + b /\ a + i \in 1 .. a + b + c /\ ~(a + i <= a) /\ (a + i) - a = i
    BY <1>6, <1>7
  <2>2. x[a + i] = v[a + i]
    BY <1>4, <2>1
  <2>3. v[a + i] = u[i]
    BY <1>3, <2>1
  <2>4. p[i] = u[i]
    BY <1>2, <1>6, <1>7
  <2>. QED BY <1>5, <2>1, <2>2, <2>3, <2>4 DEF p, x, v
<1>8. CASE ~(i <= b)
  <2>1. i - b \in 1 .. a + b /\ i - b \in 1 .. a + b + c /\ i - b <= a
    BY <1>6, <1>8
  <2>2. x[i - b] = v[i - b]
    BY <1>4, <2>1
  <2>3. v[i - b] = s[i - b]
    BY <1>3, <2>1
  <2>4. p[i] = s[i - b]
    BY <1>2, <1>6, <1>8
  <2>. QED BY <1>5, <2>1, <2>2, <2>3, <2>4 DEF p, x, v
<1>. QED BY <1>7, <1>8

\* A clean line that has left the buffers has become a request.
LEMMA UsbConfined ==
  ASSUME Typed, NEW k \in Lines("usb"), UsbGood(k), Gone("usb", k)
  PROVE  k \in whole["usb"]
<1>1. SUFFICES ASSUME NEW i \in DOMAIN pipe, pipe[i] = <<k, 0>> PROVE FALSE
  BY DEF UsbGood, Gone
<1>2. /\ stream \in Seq(Bytes("usb")) /\ input \in Seq(Bytes("usb"))
      /\ line["usb"] \in Seq(Bytes("usb"))
  BY DEF Typed, PipeType, LineType, Transports
<1> DEFINE under == stream \o input \o line["usb"]
<1>3. Within(pipe, under)
  BY <1>2, PipeIsUnder, Zenon DEF pipe
<1>4. \A j \in DOMAIN under : under[j][1] > k
  BY DEF Gone
<1> HIDE DEF under
<1>5. k > k
  <2>1. PICK j \in DOMAIN under : under[j] = pipe[i]
    BY <1>3, Zenon DEF Within
  <2>2. under[j][1] > k /\ under[j] = <<k, 0>>
    BY <1>1, <1>4, <2>1
  <2>. QED BY <2>2
<1>6. k \in Nat
  BY LineSizes DEF Typed, HostType, Transports
<1>. QED BY <1>5, <1>6

\* A clean line that has left the buffer and the queue has become a request.
LEMMA UartConfined ==
  ASSUME Typed, NEW k \in Lines("uart"), Clean("uart", k), UartGood(k), Gone("uart", k)
  PROVE  k \in whole["uart"]
<1>1. k \in Nat /\ size["uart"][k] \in Nat /\ size["uart"][k] # 0
  BY CleanLine DEF Transports
<1>2. Has(AsSent("uart", k), k) /\ ~(k > k)
  BY <1>1, SentHas
<1>3. /\ next["uart"][1] > k
      /\ \A i \in DOMAIN line["uart"] : line["uart"][i][1] > k
      /\ \A i \in DOMAIN queue : \A j \in DOMAIN queue[i] : queue[i][j][1] > k
  BY Zenon DEF Gone
<1>4. line["uart"] # AsSent("uart", k)
  BY <1>2, <1>3, Zenon DEF Has
<1>5. \A i \in DOMAIN queue : queue[i] # AsSent("uart", k)
  BY <1>2, <1>3, Zenon DEF Has
<1>. QED BY <1>3, <1>4, <1>5 DEF UartGood

\* The invariant says what DamageConfined asks for, line by line.
LEMMA InvIsConfined == IInv => DamageConfined
<1> SUFFICES ASSUME IInv, NEW t \in Transports, NEW k \in Lines(t), Clean(t, k)
             PROVE  k \notin odd[t] /\ (Gone(t, k) => k \in whole[t])
  BY DEF DamageConfined
<1>1. CASE t = "usb"
  <2>1. UsbGood(k)
    BY <1>1 DEF IInv, Good
  <2>. QED BY <1>1, <2>1, UsbConfined DEF IInv, UsbGood
<1>2. CASE t = "uart"
  <2>1. UartGood(k)
    BY <1>2 DEF IInv, Good
  <2>. QED BY <1>2, <2>1, UartConfined DEF IInv, UartGood
<1>. QED BY <1>1, <1>2 DEF Transports

-----------------------------------------------------------------------------
\* The inductive invariant holds in every reachable state.
THEOREM Invariance == Spec => []IInv
<1>1. Init => IInv
  BY InitTyped, InitGood DEF IInv
<1>2. IInv /\ [Next]_vars => IInv'
  BY TypedStep, GoodStep DEF IInv
<1>. QED BY <1>1, <1>2, PTL DEF Spec

\* For all lines the hosts may send and all sizes of the buffers: no buffer
\* takes more than its size, and an answer is left only where the code writes.
THEOREM TypeCorrect == Spec => []TypeOK
<1>1. IInv => TypeOK
  BY TypedIsType DEF IInv
<1>. QED BY Invariance, <1>1, PTL

\* For all lines the hosts may send and all sizes of the buffers: a dropped
\* byte, a dropped line, an overlong line or a client that breaks off hurts the
\* lines it belongs to and the next one, and no other.
THEOREM Confined == Spec => []DamageConfined
<1>. QED BY Invariance, InvIsConfined, PTL
=============================================================================
