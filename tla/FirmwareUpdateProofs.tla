------------------------ MODULE FirmwareUpdateProofs ------------------------
(***************************************************************************)
(* Proofs about FirmwareUpdate, for all images, hosts, files, windows and  *)
(* bounds, in three parts.                                                 *)
(*                                                                         *)
(* The device can always boot: until a verified session sets restarting,   *)
(* the next boot is from the partition that runs, and every write goes to  *)
(* the other one; after that nothing is carried out before the restart.    *)
(*                                                                         *)
(* Answers are taken for the requests they belong to: a client has         *)
(* numbered all it has sent, so what is on the way carries other numbers   *)
(* than what it awaits, unless it is what it awaits.                       *)
(*                                                                         *)
(* An update in which nothing goes wrong ends well: what it awaits is on   *)
(* the way, behind what earlier updates left; once its first answer has    *)
(* been read there is nothing else on the way, and from then on the device *)
(* and the host count the same chunks.                                     *)
(***************************************************************************)
EXTENDS FirmwareUpdate, SequenceTheorems, TLAPS

\* The partition to boot differs from the running one only between a verified
\* update and the restart, and it holds the verified image.
DeviceInv ==
  /\ DOMAIN slots = {0, 1}
  /\ running \in {0, 1}
  /\ boot \in {0, 1}
  /\ ~restarting => boot = running
  /\ AlwaysBootable

\* One command of a host, carried out or failing while no restart is due,
\* leaves the partitions that run and boot alone.
LEMMA CommandKeepsDevice ==
  ASSUME DeviceInv, ~restarting, NEW size, NEW piece,
         \/ Begin(size) \/ BeginFails(size)
         \/ Chunk(piece) \/ ChunkFails
         \/ End \/ EndFails \/ Abort
  PROVE  DeviceInv'
<1>1. CASE Begin(size) \/ BeginFails(size)
  BY <1>1 DEF DeviceInv, AlwaysBootable, Begin, BeginFails, Target
<1>2. CASE Chunk(piece) \/ ChunkFails
  BY <1>2 DEF DeviceInv, AlwaysBootable, Chunk, ChunkFails, Target
<1>3. CASE End
  BY <1>3 DEF DeviceInv, AlwaysBootable, End, Target
<1>4. CASE EndFails \/ Abort
  BY <1>4 DEF DeviceInv, AlwaysBootable, EndFails, Abort
<1> QED BY <1>1, <1>2, <1>3, <1>4

\* The restart after an update, and any loss of power.
LEMMA RebootKeepsDevice == DeviceInv /\ Reboot => DeviceInv'
  BY DEF DeviceInv, AlwaysBootable, Reboot

LEMMA StutterKeepsDevice == DeviceInv /\ UNCHANGED device => DeviceInv'
  BY DEF DeviceInv, AlwaysBootable, device

\* A line the device takes is one command, or changes nothing.
LEMMA HandlingKeepsDevice ==
  ASSUME DeviceInv, NEW h \in Hosts,
         Handle(h) \/ HandleRefused(h) \/ HandleFails(h)
  PROVE  DeviceInv'
<1>1. ~restarting
  BY DEF Handle, HandleRefused, HandleFails
<1> DEFINE r == Head(lines[h])
<1>2. CASE UNCHANGED device
  BY <1>2, StutterKeepsDevice
<1>3. CASE Handle(h)
  <2>1. \/ UNCHANGED device
        \/ Begin(Size[h]) \/ Chunk(Piece(h, r.attempt, r.nr)) \/ End \/ Abort
    BY <1>3 DEF Handle
  <2> QED BY <2>1, <1>1, <1>2, CommandKeepsDevice
<1>4. CASE HandleRefused(h)
  <2>1. EndFails \/ UNCHANGED device
    BY <1>4 DEF HandleRefused
  <2> QED BY <2>1, <1>1, <1>2, CommandKeepsDevice
<1>5. CASE HandleFails(h)
  <2>1. BeginFails(Size[h]) \/ ChunkFails \/ EndFails
    BY <1>5 DEF HandleFails
  <2> QED BY <2>1, <1>1, CommandKeepsDevice
<1> QED BY <1>3, <1>4, <1>5

\* The device is always bootable: through every order of commands of both
\* hosts, dropped lines, failed calls, restarts and losses of power.
THEOREM Bootable == Spec => []AlwaysBootable
<1>1. Init => DeviceInv
  BY ImageAssumption DEF Init, InitDevice, DeviceInv, AlwaysBootable
<1>2. DeviceInv /\ [Next]_vars => DeviceInv'
  <2> SUFFICES ASSUME DeviceInv, [Next]_vars PROVE DeviceInv'
    OBVIOUS
  <2>1. ASSUME NEW h \in Hosts, Handle(h) \/ HandleRefused(h) \/ HandleFails(h)
        PROVE  DeviceInv'
    BY <2>1, HandlingKeepsDevice
  <2>2. CASE Restart \/ PowerLoss
    BY <2>2, RebootKeepsDevice DEF Restart, PowerLoss
  <2>3. ASSUME NEW h \in Hosts,
               HostStep(h) \/ Start(h) \/ Disconnect(h) \/ DropLine(h)
        PROVE  DeviceInv'
    <3>1. UNCHANGED device
      BY <2>3 DEF HostStep, Start, Disconnect, DropLine, Connect, SendAbort,
                  SendBegin, SendChunks, SendEnd, SendCleanup, ReadGood, ReadBad,
                  ReadOther, Timeout
    <3> QED BY <3>1, StutterKeepsDevice
  <2>4. CASE Terminated \/ UNCHANGED vars
    BY <2>4, StutterKeepsDevice DEF Terminated, vars
  <2> QED BY <2>1, <2>2, <2>3, <2>4 DEF Next, DeviceStep
<1>3. DeviceInv => AlwaysBootable
  BY DEF DeviceInv
<1> QED BY <1>1, <1>2, <1>3, PTL DEF Spec

-----------------------------------------------------------------------------
(***************************************************************************)
(* Types.                                                                  *)
(***************************************************************************)

\* What a host sends is typed.
LEMMA RequestType ==
  ASSUME TypeOK, NEW h \in Hosts, NEW id \in Nat, NEW cmd \in Commands, NEW nr \in Nat
  PROVE  Request(id, h, cmd, nr) \in Requests
BY DEF TypeOK, Request, Requests

\* Sending appends the requests to the line and awaits them.
LEMMA SendType ==
  ASSUME TypeOK, NEW h \in Hosts, NEW requests \in Seq(Requests), Send(h, requests)
  PROVE  /\ lines' \in [Hosts -> Seq(Requests)]
         /\ awaited' \in [Hosts -> Seq(Requests)]
         /\ lastId' \in [Hosts -> Nat]
         /\ awaited'[h] = requests
         /\ \A g \in Hosts \ {h} : awaited'[g] = awaited[g]
<1>1. lines[h] \o requests \in Seq(Requests) /\ Len(requests) \in Nat
  BY ConcatProperties, LenProperties DEF TypeOK
<1> QED BY <1>1 DEF TypeOK, Send

LEMMA SendOneType ==
  ASSUME TypeOK, NEW h \in Hosts, NEW cmd \in Commands, SendOne(h, cmd)
  PROVE  /\ lines' \in [Hosts -> Seq(Requests)]
         /\ awaited' \in [Hosts -> Seq(Requests)]
         /\ lastId' \in [Hosts -> Nat]
         /\ awaited'[h] # <<>>
         /\ \A g \in Hosts \ {h} : awaited'[g] = awaited[g]
<1> DEFINE r == Request(lastId[h] + 1, h, cmd, 0)
<1>1. r \in Requests
  BY RequestType DEF TypeOK
<1>2. <<r>> \in Seq(Requests) /\ <<r>> # <<>>
  BY <1>1
<1>3. Send(h, <<r>>)
  BY DEF SendOne
<1> HIDE DEF r
<1> QED BY <1>2, <1>3, SendType

\* What is left of the answers is typed.
LEMMA TakeAnswerType ==
  ASSUME TypeOK, NEW h \in Hosts, answers[h] # <<>>, TakeAnswer(h)
  PROVE  /\ answers' \in [Hosts -> Seq(Answers)]
         /\ disturbed' \subseteq Hosts
<1>1. Tail(answers[h]) \in Seq(Answers)
  BY HeadTailProperties DEF TypeOK
<1>2. ASSUME NEW rest \in Unread(h) PROVE rest \in Seq(Answers)
  <2>1. CASE rest = Tail(answers[h])
    BY <2>1, <1>1
  <2>2. ASSUME NEW i \in 1 .. Len(Tail(answers[h])) + 1,
               rest = SubSeq(Tail(answers[h]), i, Len(Tail(answers[h])))
        PROVE  rest \in Seq(Answers)
    <3>1. Len(Tail(answers[h])) \in Nat
      BY <1>1, LenProperties
    <3>2. \A k \in i .. Len(Tail(answers[h])) : Tail(answers[h])[k] \in Answers
      BY <1>1, <3>1, ElementOfSeq
    <3>3. i \in Int /\ Len(Tail(answers[h])) \in Int
      BY <3>1
    <3> QED BY <2>2, <3>2, <3>3, SubSeqProperties
  <2> QED BY <2>1, <2>2 DEF Unread
<1> QED BY <1>2 DEF TakeAnswer, TypeOK

\* Proceeding leaves the types of what it changes.
LEMMA ProceedType ==
  ASSUME TypeOK, NEW h \in Hosts, NEW p \in Phases \ Sending, Proceed(h, p)
  PROVE  /\ phase' \in [Hosts -> Phases]
         /\ phase'[h] \notin Sending
         /\ \A g \in Hosts \ {h} : phase'[g] = phase[g]
         /\ told' \in [Hosts -> {"nothing", "updated", "failed"}]
         /\ connected' \in [Hosts -> BOOLEAN]
<1>1. connected' \in [Hosts -> BOOLEAN]
  BY Zenon DEF TypeOK, Proceed
<1> QED BY <1>1 DEF TypeOK, Proceed

LEMMA AfterType ==
  ASSUME NEW p \in Sending
  PROVE  After(p) \in Phases \ Sending /\ AfterFailure(p) \in Phases \ Sending
BY DEF After, AfterFailure, Phases, Sending

DeviceType ==
  /\ ota \in [active : BOOLEAN, expected : Nat, written : Nat]
  /\ DOMAIN slots = {0, 1}
  /\ running \in {0, 1} /\ boot \in {0, 1} /\ restarting \in BOOLEAN

\* A host that sends: it awaits what it has sent.
LEMMA SendingKeepsType ==
  ASSUME TypeOK, NEW h \in Hosts,
         SendAbort(h) \/ SendBegin(h) \/ SendEnd(h) \/ SendCleanup(h)
  PROVE  TypeOK'
<1> DEFINE Sends(cmd, p) ==
             /\ phase' = [phase EXCEPT ![h] = p]
             /\ SendOne(h, cmd)
             /\ UNCHANGED <<device, answers, connected, sent, attempt, told,
                            mishaps, history>>
<1>1. ASSUME NEW cmd \in Commands, NEW p \in Sending, Sends(cmd, p)
      PROVE  TypeOK'
  <2>1. /\ lines' \in [Hosts -> Seq(Requests)]
        /\ awaited' \in [Hosts -> Seq(Requests)]
        /\ lastId' \in [Hosts -> Nat]
        /\ awaited'[h] # <<>>
        /\ \A g \in Hosts \ {h} : awaited'[g] = awaited[g]
    BY <1>1, SendOneType
  <2>2. phase' \in [Hosts -> Phases] /\ phase'[h] = p
        /\ \A g \in Hosts \ {h} : phase'[g] = phase[g]
    BY <1>1 DEF TypeOK, Phases, Sending
  <2> QED BY <1>1, <2>1, <2>2 DEF TypeOK, device, history
<1>2. "abort" \in Commands /\ "begin" \in Commands /\ "end" \in Commands
      /\ {"abort", "begin", "end", "cleanup"} \subseteq Sending
  BY DEF Commands, Sending
<1>3. \/ Sends("abort", "abort") \/ Sends("begin", "begin")
      \/ Sends("end", "end") \/ Sends("abort", "cleanup")
  BY DEF SendAbort, SendBegin, SendEnd, SendCleanup
<1> HIDE DEF Sends
<1> QED BY <1>1, <1>2, <1>3

\* The chunks a host sends next are at least one and at most what is left.
LEMMA ChunksSent ==
  ASSUME TypeOK, NEW h \in Hosts, SendChunks(h)
  PROVE  \E count \in 1 .. Size[h] - sent[h] :
           /\ [i \in 1 .. count |-> Request(lastId[h] + i, h, "chunk", sent[h] + i)]
                \in Seq(Requests)
           /\ Send(h, [i \in 1 .. count |->
                         Request(lastId[h] + i, h, "chunk", sent[h] + i)])
           /\ sent' = [sent EXCEPT ![h] = @ + count]
<1> DEFINE left == Size[h] - sent[h]
           most == IF h = Pc THEN Window ELSE 1
           count == IF left < most THEN left ELSE most
           chunks(n) == [i \in 1 .. n |-> Request(lastId[h] + i, h, "chunk", sent[h] + i)]
<1>1. left \in Nat \ {0} /\ most \in Nat \ {0}
  <2>1. Size[h] \in Nat /\ sent[h] \in Nat /\ sent[h] < Size[h]
    BY SizeAssumption DEF TypeOK, SendChunks
  <2>2. most \in Nat \ {0}
    BY BoundAssumption
  <2> QED BY <2>1, <2>2
<1>2. count \in 1 .. Size[h] - sent[h]
  BY <1>1
<1>3. chunks(count) \in Seq(Requests)
  <2>1. \A i \in 1 .. count : lastId[h] + i \in Nat /\ sent[h] + i \in Nat
    BY <1>2 DEF TypeOK
  <2>2. "chunk" \in Commands
    BY DEF Commands
  <2>3. \A i \in 1 .. count : Request(lastId[h] + i, h, "chunk", sent[h] + i) \in Requests
    BY <2>1, <2>2, RequestType
  <2>4. count \in Nat
    BY <1>2
  <2> HIDE DEF count
  <2> QED BY <2>3, <2>4, IsASeq
<1>4. Send(h, chunks(count)) /\ sent' = [sent EXCEPT ![h] = @ + count]
  BY DEF SendChunks
<1> QED BY <1>2, <1>3, <1>4

LEMMA SendChunksKeepsType ==
  ASSUME TypeOK, NEW h \in Hosts, SendChunks(h)
  PROVE  TypeOK'
<1> DEFINE chunks(n) == [i \in 1 .. n |-> Request(lastId[h] + i, h, "chunk", sent[h] + i)]
<1>1. PICK count \in 1 .. Size[h] - sent[h] :
        /\ chunks(count) \in Seq(Requests)
        /\ Send(h, chunks(count))
        /\ sent' = [sent EXCEPT ![h] = @ + count]
  BY ChunksSent
<1>2. chunks(count) # <<>>
  <2>1. 1 \in DOMAIN chunks(count)
    BY <1>1
  <2>2. DOMAIN <<>> = {}
    OBVIOUS
  <2> QED BY <2>1, <2>2
<1>3. /\ lines' \in [Hosts -> Seq(Requests)]
      /\ awaited' \in [Hosts -> Seq(Requests)]
      /\ lastId' \in [Hosts -> Nat]
      /\ awaited'[h] = chunks(count)
      /\ \A g \in Hosts \ {h} : awaited'[g] = awaited[g]
  <2> HIDE DEF chunks
  <2> QED BY <1>1, SendType
<1>4. phase' \in [Hosts -> Phases] /\ phase'[h] \in Sending
      /\ \A g \in Hosts \ {h} : phase'[g] = phase[g]
  BY DEF SendChunks, TypeOK, Phases, Sending
<1>5. sent' \in [Hosts -> Nat] /\ \A g \in Hosts : sent'[g] <= Size[g]
  <2>1. Size[h] \in Nat /\ sent[h] \in Nat /\ sent[h] + count \in Nat
        /\ sent[h] + count <= Size[h]
    BY SizeAssumption DEF TypeOK
  <2>2. sent' = [sent EXCEPT ![h] = sent[h] + count]
    BY <1>1
  <2> QED BY <2>1, <2>2 DEF TypeOK
<1> HIDE DEF chunks
<1> QED BY <1>2, <1>3, <1>4, <1>5 DEF SendChunks, TypeOK, device, history

LEMMA ConnectKeepsType ==
  ASSUME TypeOK, NEW h \in Hosts, Connect(h)
  PROVE  TypeOK'
<1> DEFINE ping == Request(1, h, "ping", 0)
<1>1. ping \in Requests
  BY RequestType DEF Commands
<1>2. <<ping>> \in Seq(Requests) /\ <<ping>> # <<>> /\ Append(lines[h], ping) \in Seq(Requests)
  BY <1>1, AppendProperties DEF TypeOK
<1>3. /\ lines' = [lines EXCEPT ![h] = Append(@, ping)]
      /\ awaited' = [awaited EXCEPT ![h] = <<ping>>]
  BY DEF Connect
<1> HIDE DEF ping
<1>4. lines' \in [Hosts -> Seq(Requests)] /\ awaited' \in [Hosts -> Seq(Requests)]
  BY <1>2, <1>3 DEF TypeOK
<1>5. answers' \in [Hosts -> Seq(Answers)]
  BY DEF TypeOK, Connect
<1>6. \A g \in Hosts : awaited'[g] # <<>> <=> phase'[g] \in Sending
  BY <1>2, <1>3, SMTT(20) DEF TypeOK, Connect, Sending
<1>7. lastId' \in [Hosts -> Nat] /\ phase' \in [Hosts -> Phases] /\ late' \subseteq Hosts
  BY DEF TypeOK, Connect, Phases
<1>8. UNCHANGED <<device, connected, sent, attempt, told, mishaps, disturbed>>
  BY DEF Connect
<1> QED BY <1>4, <1>5, <1>6, <1>7, <1>8 DEF TypeOK, device

LEMMA ReadKeepsType ==
  ASSUME TypeOK, NEW h \in Hosts, ReadGood(h) \/ ReadBad(h) \/ ReadOther(h)
  PROVE  TypeOK'
<1>1. Reading(h) /\ TakeAnswer(h)
  BY DEF ReadGood, ReadBad, ReadOther
<1>2. answers' \in [Hosts -> Seq(Answers)] /\ disturbed' \subseteq Hosts
  BY <1>1, TakeAnswerType DEF Reading
<1>3. phase[h] \in Sending /\ Tail(awaited[h]) \in Seq(Requests)
      /\ Len(Tail(awaited[h])) = Len(awaited[h]) - 1
      /\ Len(awaited[h]) \in Nat \ {0}
  BY <1>1, HeadTailProperties, EmptySeq DEF Reading, TypeOK
<1>4. CASE ReadOther(h)
  BY <1>2, <1>4 DEF ReadOther, TypeOK, device, host
<1>5. CASE ReadBad(h)
  <2>1. AfterFailure(phase[h]) \in Phases \ Sending
    BY <1>3, AfterType
  <2>2. /\ phase' \in [Hosts -> Phases]
        /\ phase'[h] \notin Sending
        /\ \A g \in Hosts \ {h} : phase'[g] = phase[g]
        /\ told' \in [Hosts -> {"nothing", "updated", "failed"}]
        /\ connected' \in [Hosts -> BOOLEAN]
    BY <2>1, <1>5, ProceedType DEF ReadBad
  <2>3. awaited' \in [Hosts -> Seq(Requests)]
        /\ \A g \in Hosts : awaited'[g] # <<>> <=> phase'[g] \in Sending
    BY <1>5, <2>2 DEF ReadBad, TypeOK
  <2> QED BY <1>2, <1>5, <2>2, <2>3 DEF ReadBad, TypeOK, device
<1>6. CASE ReadGood(h)
  <2>1. awaited' \in [Hosts -> Seq(Requests)] /\ awaited'[h] = Tail(awaited[h])
        /\ \A g \in Hosts \ {h} : awaited'[g] = awaited[g]
    BY <1>3, <1>6 DEF ReadGood, TypeOK
  <2>2. late' \subseteq Hosts
    BY <1>6 DEF ReadGood, TypeOK
  <2>3. CASE Len(awaited[h]) > 1
    <3>1. awaited'[h] # <<>>
      <4>1. PICK n \in Nat : n = Len(awaited[h]) /\ n - 1 # 0
        BY <1>3, <2>3
      <4>2. Len(<<>>) = 0
        OBVIOUS
      <4>. QED BY <1>3, <2>1, <4>1, <4>2, Zenon
    <3>2. UNCHANGED <<phase, told, connected>>
      BY <1>6, <2>3 DEF ReadGood
    <3>3. \A g \in Hosts : awaited'[g] # <<>> <=> phase'[g] \in Sending
      BY <1>3, <2>1, <3>1, <3>2 DEF TypeOK
    <3> QED BY <1>2, <1>6, <2>1, <2>2, <3>2, <3>3 DEF ReadGood, TypeOK, device
  <2>4. CASE ~(Len(awaited[h]) > 1)
    <3>1. After(phase[h]) \in Phases \ Sending
      BY <1>3, AfterType
    <3>2. /\ phase' \in [Hosts -> Phases]
          /\ phase'[h] \notin Sending
          /\ \A g \in Hosts \ {h} : phase'[g] = phase[g]
          /\ told' \in [Hosts -> {"nothing", "updated", "failed"}]
          /\ connected' \in [Hosts -> BOOLEAN]
      BY <3>1, <1>6, <2>4, ProceedType DEF ReadGood
    <3>3. awaited'[h] = <<>>
      BY <2>1, <2>4, <1>3, EmptySeq
    <3>4. \A g \in Hosts : awaited'[g] # <<>> <=> phase'[g] \in Sending
      BY <2>1, <3>2, <3>3 DEF TypeOK
    <3> QED BY <1>2, <1>6, <2>1, <2>2, <3>2, <3>4 DEF ReadGood, TypeOK, device
  <2> QED BY <2>3, <2>4
<1> QED BY <1>4, <1>5, <1>6

LEMMA TimeoutKeepsType ==
  ASSUME TypeOK, NEW h \in Hosts, Timeout(h)
  PROVE  TypeOK'
<1>1. phase[h] \in Sending
  BY DEF Timeout, TypeOK
<1>2. AfterFailure(phase[h]) \in Phases \ Sending
  BY <1>1, AfterType
<1>3. /\ phase' \in [Hosts -> Phases]
      /\ phase'[h] \notin Sending
      /\ \A g \in Hosts \ {h} : phase'[g] = phase[g]
      /\ told' \in [Hosts -> {"nothing", "updated", "failed"}]
      /\ connected' \in [Hosts -> BOOLEAN]
  BY <1>2, ProceedType DEF Timeout
<1>4. mishaps' \in 0 .. MaxMishaps /\ disturbed' \subseteq Hosts
  <2>1. mishaps \in 0 .. MaxMishaps /\ disturbed \subseteq Hosts
    BY DEF TypeOK
  <2>2. CASE UNCHANGED <<mishaps, disturbed>>
    BY <2>1, <2>2
  <2>3. CASE Mishap({h})
    BY <2>1, <2>3, BoundAssumption DEF Mishap
  <2> QED BY <2>2, <2>3 DEF Timeout
<1>5. awaited' \in [Hosts -> Seq(Requests)]
      /\ \A g \in Hosts : awaited'[g] # <<>> <=> phase'[g] \in Sending
  BY <1>3 DEF Timeout, TypeOK
<1>6. UNCHANGED <<device, link, lastId, sent, attempt, late>>
  BY DEF Timeout
<1> QED BY <1>3, <1>4, <1>5, <1>6 DEF TypeOK, device, link

LEMMA UserKeepsType ==
  ASSUME TypeOK, NEW h \in Hosts, Start(h) \/ Disconnect(h)
  PROVE  TypeOK'
<1>1. CASE Start(h)
  <2>1. UNCHANGED <<device, link, connected, awaited, lastId, mishaps, late>>
    BY <1>1 DEF Start
  <2>2. attempt' \in [Hosts -> Nat] /\ \A g \in Hosts : attempt'[g] <= MaxAttempts[g]
    <3>1. MaxAttempts \in [Hosts -> Nat] /\ attempt \in [Hosts -> Nat]
          /\ \A g \in Hosts : attempt[g] <= MaxAttempts[g]
      BY BoundAssumption DEF TypeOK
    <3>2. attempt[h] < MaxAttempts[h] /\ attempt' = [attempt EXCEPT ![h] = @ + 1]
      BY <1>1 DEF Start
    <3> QED BY <3>1, <3>2
  <2>3. sent' \in [Hosts -> Nat] /\ \A g \in Hosts : sent'[g] <= Size[g]
    <3>1. Size \in [Hosts -> Nat] /\ sent \in [Hosts -> Nat]
          /\ \A g \in Hosts : sent[g] <= Size[g]
      BY SizeAssumption DEF TypeOK
    <3>2. sent' = [sent EXCEPT ![h] = 0]
      BY <1>1 DEF Start
    <3> QED BY <3>1, <3>2
  <2>4. phase' \in [Hosts -> Phases]
        /\ \A g \in Hosts : awaited'[g] # <<>> <=> phase'[g] \in Sending
    BY <1>1, <2>1 DEF Start, TypeOK, Phases, Sending
  <2>5. told' \in [Hosts -> {"nothing", "updated", "failed"}] /\ disturbed' \subseteq Hosts
    BY <1>1 DEF Start, TypeOK
  <2> QED BY <2>1, <2>2, <2>3, <2>4, <2>5 DEF TypeOK, device, link
<1>2. CASE Disconnect(h)
  <2>1. connected' \in [Hosts -> BOOLEAN]
    BY <1>2 DEF Disconnect, TypeOK
  <2> QED BY <1>2, <2>1 DEF Disconnect, TypeOK, device, link, history
<1> QED BY <1>1, <1>2

LEMMA DeviceKeepsType ==
  ASSUME DeviceType, NEW size \in Nat, NEW piece,
         \/ Begin(size) \/ BeginFails(size)
         \/ Chunk(piece) \/ ChunkFails
         \/ End \/ EndFails \/ Abort \/ Reboot \/ UNCHANGED device
  PROVE  DeviceType'
<1>1. CASE Begin(size) \/ BeginFails(size)
  <2>1. \E b \in BOOLEAN : ota' = [active |-> b, expected |-> size, written |-> 0]
    BY <1>1 DEF Begin, BeginFails
  <2>2. (DOMAIN slots)' = {0, 1}
    BY <1>1 DEF DeviceType, Begin, BeginFails
  <2>3. UNCHANGED <<running, boot, restarting>>
    BY <1>1 DEF Begin, BeginFails
  <2> QED BY <2>1, <2>2, <2>3 DEF DeviceType
<1>2. CASE Chunk(piece) \/ ChunkFails
  <2>1. ota' \in [active : BOOLEAN, expected : Nat, written : Nat]
    BY <1>2 DEF DeviceType, Chunk, ChunkFails
  <2>2. (DOMAIN slots)' = {0, 1}
    BY <1>2 DEF DeviceType, Chunk, ChunkFails
  <2>3. UNCHANGED <<running, boot, restarting>>
    BY <1>2 DEF Chunk, ChunkFails
  <2> QED BY <2>1, <2>2, <2>3 DEF DeviceType
<1>3. CASE End \/ EndFails \/ Abort
  <2>1. NoUpdate \in [active : BOOLEAN, expected : Nat, written : Nat]
    BY DEF NoUpdate
  <2>2. 1 - running \in {0, 1}
    BY DEF DeviceType
  <2> QED BY <1>3, <2>1, <2>2 DEF DeviceType, End, EndFails, Abort, Target
<1>4. CASE Reboot
  <2>1. NoUpdate \in [active : BOOLEAN, expected : Nat, written : Nat]
    BY DEF NoUpdate
  <2> QED BY <1>4, <2>1 DEF DeviceType, Reboot
<1>5. CASE UNCHANGED device
  BY <1>5 DEF DeviceType, device
<1> QED BY <1>1, <1>2, <1>3, <1>4, <1>5

LEMMA HandlingKeepsType ==
  ASSUME TypeOK, NEW h \in Hosts,
         Handle(h) \/ HandleRefused(h) \/ HandleFails(h)
  PROVE  TypeOK'
<1> DEFINE r == Head(lines[h])
<1>1. DeviceType' /\ UNCHANGED <<host, late>>
  <2>1. DeviceType /\ Size[h] \in Nat
    BY SizeAssumption DEF TypeOK, DeviceType
  <2>2. CASE Handle(h)
    <3>1. \/ UNCHANGED device
          \/ Begin(Size[h]) \/ Chunk(Piece(h, r.attempt, r.nr)) \/ End \/ Abort
      BY <2>2 DEF Handle
    <3>2. UNCHANGED <<host, late>>
      BY <2>2 DEF Handle
    <3> QED BY <2>1, <3>1, <3>2, DeviceKeepsType
  <2>3. CASE HandleRefused(h)
    BY <2>1, <2>3, DeviceKeepsType DEF HandleRefused
  <2>4. CASE HandleFails(h)
    BY <2>1, <2>4, DeviceKeepsType DEF HandleFails
  <2> QED BY <2>2, <2>3, <2>4
<1>2. PICK ok \in BOOLEAN : Answer(h, ok)
  BY DEF Handle, HandleRefused, HandleFails
<1>3. lines[h] # <<>>
  BY DEF Handle, HandleRefused, HandleFails
<1>4. r \in Requests /\ Tail(lines[h]) \in Seq(Requests)
  BY <1>3, HeadTailProperties DEF TypeOK
<1>5. [id |-> r.id, ok |-> ok, to |-> r] \in Answers
  BY <1>4 DEF Answers, Requests
<1>6. Append(answers[h], [id |-> r.id, ok |-> ok, to |-> r]) \in Seq(Answers)
  BY <1>5, AppendProperties DEF TypeOK
<1>7. lines' \in [Hosts -> Seq(Requests)] /\ answers' \in [Hosts -> Seq(Answers)]
  BY <1>2, <1>4, <1>6 DEF Answer, TypeOK
<1>8. mishaps' \in 0 .. MaxMishaps /\ disturbed' \subseteq Hosts
  <2>1. mishaps' = mishaps \/ (mishaps < MaxMishaps /\ mishaps' = mishaps + 1)
    BY DEF Handle, HandleRefused, HandleFails, Mishap
  <2>2. disturbed' \subseteq disturbed \cup {h} \cup Others(h)
    BY DEF Handle, HandleRefused, HandleFails, Mishap
  <2> QED BY <2>1, <2>2, BoundAssumption DEF TypeOK, Others
<1> QED BY <1>1, <1>7, <1>8 DEF TypeOK, DeviceType, host

LEMMA LossKeepsType ==
  ASSUME TypeOK,
         (\E h \in Hosts : DropLine(h)) \/ Restart \/ PowerLoss
  PROVE  TypeOK'
<1>1. CASE \E h \in Hosts : DropLine(h)
  <2>1. PICK h \in Hosts : DropLine(h)
    BY <1>1
  <2>2. PICK i \in DOMAIN lines[h] :
          lines' = [lines EXCEPT ![h] = SubSeq(@, 1, i - 1) \o SubSeq(@, i + 1, Len(@))]
    BY <2>1 DEF DropLine
  <2>3. lines[h] \in Seq(Requests) /\ i \in 1 .. Len(lines[h]) /\ Len(lines[h]) \in Nat
    <3>1. lines[h] \in Seq(Requests)
      BY DEF TypeOK
    <3> QED BY <2>2, <3>1, LenProperties
  <2>4. SubSeq(lines[h], 1, i - 1) \in Seq(Requests)
        /\ SubSeq(lines[h], i + 1, Len(lines[h])) \in Seq(Requests)
    <3>1. \A k \in 1 .. i - 1 : lines[h][k] \in Requests
      BY <2>3, ElementOfSeq
    <3>2. \A k \in i + 1 .. Len(lines[h]) : lines[h][k] \in Requests
      BY <2>3, ElementOfSeq
    <3> QED BY <2>3, <3>1, <3>2, SubSeqProperties
  <2>5. lines' \in [Hosts -> Seq(Requests)]
    BY <2>2, <2>4, ConcatProperties DEF TypeOK
  <2>6. mishaps' \in 0 .. MaxMishaps /\ disturbed' \subseteq Hosts
    BY <2>1, BoundAssumption DEF DropLine, Mishap, TypeOK
  <2>7. UNCHANGED <<device, answers, host, late>>
    BY <2>1 DEF DropLine
  <2> QED BY <2>5, <2>6, <2>7 DEF TypeOK, device, host
<1>2. CASE Restart
  <2>1. DeviceType'
    BY <1>2 DEF Restart, Reboot, DeviceType, TypeOK, NoUpdate
  <2>2. lines' \in [Hosts -> Seq(Requests)] /\ disturbed' \subseteq Hosts
    BY <1>2 DEF Restart, TypeOK
  <2>3. UNCHANGED <<answers, host, mishaps, late>>
    BY <1>2 DEF Restart
  <2> QED BY <2>1, <2>2, <2>3 DEF TypeOK, DeviceType, host
<1>3. CASE PowerLoss
  <2>1. DeviceType'
    BY <1>3 DEF PowerLoss, Reboot, DeviceType, TypeOK, NoUpdate
  <2>2. lines' \in [Hosts -> Seq(Requests)] /\ disturbed' \subseteq Hosts
        /\ mishaps' \in 0 .. MaxMishaps
    BY <1>3, BoundAssumption DEF PowerLoss, Mishap, TypeOK
  <2>3. answers' \in [Hosts -> Seq(Answers)]
    <3>1. CASE UNCHANGED answers
      BY <3>1 DEF TypeOK
    <3>2. ASSUME NEW h \in Hosts, answers[h] # <<>>,
                 answers' = [answers EXCEPT ![h] = SubSeq(@, 1, Len(@) - 1)]
          PROVE  answers' \in [Hosts -> Seq(Answers)]
      <4>1. answers[h] \in Seq(Answers) /\ Len(answers[h]) \in Nat
        BY LenProperties DEF TypeOK
      <4>2. \A k \in 1 .. Len(answers[h]) - 1 : answers[h][k] \in Answers
        BY <4>1, ElementOfSeq
      <4>3. SubSeq(answers[h], 1, Len(answers[h]) - 1) \in Seq(Answers)
        BY <4>1, <4>2, SubSeqProperties
      <4> QED BY <3>2, <4>3 DEF TypeOK
    <3> QED BY <1>3, <3>1, <3>2 DEF PowerLoss
  <2>4. UNCHANGED <<host, late>>
    BY <1>3 DEF PowerLoss
  <2> QED BY <2>1, <2>2, <2>3, <2>4 DEF TypeOK, DeviceType, host
<1> QED BY <1>1, <1>2, <1>3

LEMMA StepKeepsType == TypeOK /\ [Next]_vars => TypeOK'
<1> SUFFICES ASSUME TypeOK, [Next]_vars PROVE TypeOK'
  OBVIOUS
<1>1. ASSUME NEW h \in Hosts, HostStep(h) PROVE TypeOK'
  BY <1>1, SendingKeepsType, SendChunksKeepsType, ConnectKeepsType, ReadKeepsType,
     TimeoutKeepsType DEF HostStep
<1>2. ASSUME NEW h \in Hosts, Start(h) \/ Disconnect(h) PROVE TypeOK'
  BY <1>2, UserKeepsType
<1>3. ASSUME NEW h \in Hosts, Handle(h) \/ HandleRefused(h) \/ HandleFails(h)
      PROVE  TypeOK'
  BY <1>3, HandlingKeepsType
<1>4. CASE (\E h \in Hosts : DropLine(h)) \/ Restart \/ PowerLoss
  BY <1>4, LossKeepsType
<1>5. CASE Terminated \/ UNCHANGED vars
  BY <1>5 DEF Terminated, vars, device, link, host, history, TypeOK
<1> QED BY <1>1, <1>2, <1>3, <1>4, <1>5 DEF Next, DeviceStep

LEMMA InitIsTyped == Init => TypeOK
<1> SUFFICES ASSUME Init PROVE TypeOK
  OBVIOUS
<1>1. /\ ota \in [active : BOOLEAN, expected : Nat, written : Nat]
      /\ DOMAIN slots = {0, 1}
      /\ running \in {0, 1} /\ boot \in {0, 1} /\ restarting \in BOOLEAN
  BY DEF Init, InitDevice, NoUpdate
<1>2. /\ lines \in [Hosts -> Seq(Requests)]
      /\ answers \in [Hosts -> Seq(Answers)]
      /\ awaited \in [Hosts -> Seq(Requests)]
  BY EmptySeq DEF Init
<1>3. /\ connected \in [Hosts -> BOOLEAN]
      /\ phase \in [Hosts -> Phases]
      /\ \A h \in Hosts : awaited[h] # <<>> <=> phase[h] \in Sending
      /\ lastId \in [Hosts -> Nat]
      /\ sent \in [Hosts -> Nat]
      /\ attempt \in [Hosts -> Nat]
      /\ told \in [Hosts -> {"nothing", "updated", "failed"}]
  BY DEF Init, Phases, Sending
<1>4. \A h \in Hosts : sent[h] <= Size[h] /\ attempt[h] <= MaxAttempts[h]
  <2>1. \A h \in Hosts : Size[h] \in Nat /\ MaxAttempts[h] \in Nat
    BY SizeAssumption, BoundAssumption
  <2> QED BY <2>1 DEF Init
<1>5. mishaps \in 0 .. MaxMishaps /\ disturbed \subseteq Hosts /\ late \subseteq Hosts
  BY BoundAssumption DEF Init
<1> QED BY <1>1, <1>2, <1>3, <1>4, <1>5 DEF TypeOK

\* The variables keep their types, and a host waits for answers exactly in the
\* phases that have sent requests, for all hosts, files, windows and bounds.
THEOREM TypeCorrect == Spec => []TypeOK
<1> QED BY InitIsTyped, StepKeepsType, PTL DEF Spec

-----------------------------------------------------------------------------
(***************************************************************************)
(* Whose answer is read.  The requests of a host that are on the way, to   *)
(* the device or back as part of an answer, are of this update or an       *)
(* earlier one.  A ping has the number 1 and nothing else has, so a new    *)
(* client can only mistake pongs.  When it takes its own, nothing is left  *)
(* on the way, and from then on the numbers it gives are new.              *)
(***************************************************************************)
OnWay(h) == {answers[h][i].to : i \in DOMAIN answers[h]}
            \cup {lines[h][i] : i \in DOMAIN lines[h]}

\* The number 1 is the number of pings; pings and aborts are answered well.
NumbersInv(h) ==
  /\ \A r \in OnWay(h) : r.id = 1 <=> r.cmd = "ping"
  /\ \A i \in DOMAIN answers[h] :
       LET a == answers[h][i] IN
         a.id = a.to.id /\ (a.to.cmd \in {"ping", "abort"} => a.ok)

\* What is on the way is of this update or an earlier one, and of an earlier
\* one as long as this one has not connected.
AttemptsInv(h) ==
  /\ \A r \in OnWay(h) :
       r.attempt <= attempt[h] /\ (phase[h] = "closed" => r.attempt < attempt[h])
  /\ phase[h] # "idle" => attempt[h] > 0

\* Which phases have a client, and what it has asked for.
ClientInv(h) ==
  /\ phase[h] \in {"closed", "ping"} => ~connected[h]
  /\ phase[h] \notin {"idle", "closed", "ping"} => connected[h]
  /\ connected[h] => lastId[h] > 0
  /\ phase[h] = "ping" => h \notin late /\ lastId[h] = 1
  /\ phase[h] \in {"closed", "ping", "connected", "abort", "aborted", "begin"} =>
       sent[h] = 0
  /\ phase[h] = "end" => sent[h] = Size[h]
  /\ phase[h] \in {"ping", "abort", "begin", "end"} =>
       Len(awaited[h]) = 1 /\ awaited[h][1].cmd = phase[h]
  /\ phase[h] = "ping" => awaited[h][1] = Request(1, h, "ping", 0)
  /\ phase[h] = "chunk" =>
       \A i \in DOMAIN awaited[h] :
         /\ awaited[h][i].cmd = "chunk"
         /\ awaited[h][i].attempt = attempt[h]
         /\ awaited[h][i].nr = sent[h] - Len(awaited[h]) + i

\* Nothing on the way has the number of an awaited request, except itself.
FitInv(h) ==
  connected[h] /\ h \notin late =>
    \A r \in OnWay(h) :
      /\ r.id <= lastId[h]
      /\ \A i \in DOMAIN awaited[h] : r.id = awaited[h][i].id => r = awaited[h][i]

\* A request awaited alone has nothing behind it.
LastInv(h) ==
  phase[h] \in {"ping", "abort", "begin"} /\ h \notin late =>
    /\ \A i \in DOMAIN lines[h] :
         lines[h][i] = awaited[h][1] => i = Len(lines[h])
    /\ \A i \in DOMAIN answers[h] :
         answers[h][i].to = awaited[h][1] => i = Len(answers[h]) /\ lines[h] = <<>>

WayInv(h) ==
  NumbersInv(h) /\ AttemptsInv(h) /\ ClientInv(h) /\ FitInv(h) /\ LastInv(h)

\* What a step leaves of the way of a host was there before, and in its order.
Shrinks(h) ==
  /\ \A i \in DOMAIN lines'[h] : \E j \in DOMAIN lines[h] :
       /\ lines'[h][i] = lines[h][j]
       /\ j = Len(lines[h]) => i = Len(lines'[h])
  /\ \A i \in DOMAIN answers'[h] : \E j \in DOMAIN answers[h] :
       /\ answers'[h][i] = answers[h][j]
       /\ j = Len(answers[h]) => i = Len(answers'[h])
  /\ lines[h] = <<>> => lines'[h] = <<>>

SameHost(h) ==
  /\ connected'[h] = connected[h]
  /\ phase'[h] = phase[h]
  /\ awaited'[h] = awaited[h]
  /\ lastId'[h] = lastId[h]
  /\ sent'[h] = sent[h]
  /\ attempt'[h] = attempt[h]
  /\ h \in late' <=> h \in late

LEMMA ShrinksOnWay ==
  ASSUME NEW h \in Hosts, Shrinks(h)
  PROVE  OnWay(h)' \subseteq OnWay(h) /\ (NumbersInv(h) => NumbersInv(h)')
<1>1. OnWay(h)' \subseteq OnWay(h)
  BY DEF Shrinks, OnWay
<1>2. ASSUME NumbersInv(h) PROVE NumbersInv(h)'
  <2>1. ASSUME NEW i \in DOMAIN answers'[h]
        PROVE  /\ answers'[h][i].id = answers'[h][i].to.id
               /\ answers'[h][i].to.cmd \in {"ping", "abort"} => answers'[h][i].ok
    <3>1. PICK j \in DOMAIN answers[h] : answers'[h][i] = answers[h][j]
      BY <2>1 DEF Shrinks
    <3> QED BY <1>2, <3>1 DEF NumbersInv
  <2> QED BY <1>1, <1>2, <2>1 DEF NumbersInv
<1> QED BY <1>1, <1>2

\* Losing requests and answers, or nothing at all, disturbs nothing.
LEMMA ShrinkingKeepsWay ==
  ASSUME NEW h \in Hosts, WayInv(h), Shrinks(h), SameHost(h)
  PROVE  WayInv(h)'
<1>1. OnWay(h)' \subseteq OnWay(h) /\ NumbersInv(h)'
  BY ShrinksOnWay DEF WayInv
<1>2. AttemptsInv(h)'
  BY <1>1 DEF WayInv, AttemptsInv, SameHost
<1>3. ClientInv(h)'
  BY DEF WayInv, ClientInv, SameHost, Request
<1>4. FitInv(h)'
  BY <1>1 DEF WayInv, FitInv, SameHost
<1>5. LastInv(h)'
  BY DEF WayInv, LastInv, SameHost, Shrinks
<1> QED BY <1>1, <1>2, <1>3, <1>4, <1>5 DEF WayInv

\* Elements of a concatenation, of a sequence with an element more, of a tail.
LEMMA ConcatElements ==
  ASSUME NEW S, NEW s \in Seq(S), NEW t \in Seq(S)
  PROVE  /\ s \o t \in Seq(S) /\ Len(s \o t) = Len(s) + Len(t)
         /\ Len(s) \in Nat /\ Len(t) \in Nat
         /\ DOMAIN s = 1 .. Len(s) /\ DOMAIN t = 1 .. Len(t)
         /\ DOMAIN (s \o t) = 1 .. Len(s) + Len(t)
         /\ \A i \in DOMAIN (s \o t) :
              \/ i \in DOMAIN s /\ (s \o t)[i] = s[i]
              \/ i - Len(s) \in DOMAIN t /\ (s \o t)[i] = t[i - Len(s)]
<1>1. Len(s) \in Nat /\ Len(t) \in Nat
      /\ DOMAIN s = 1 .. Len(s) /\ DOMAIN t = 1 .. Len(t)
  BY LenProperties
<1>2. s \o t \in Seq(S) /\ Len(s \o t) = Len(s) + Len(t)
      /\ \A i \in 1 .. Len(s) + Len(t) :
           (s \o t)[i] = IF i <= Len(s) THEN s[i] ELSE t[i - Len(s)]
  BY ConcatProperties
<1>3. DOMAIN (s \o t) = 1 .. Len(s) + Len(t)
  BY <1>2, LenProperties
<1>4. ASSUME NEW i \in 1 .. Len(s) + Len(t)
      PROVE  \/ i \in DOMAIN s /\ (s \o t)[i] = s[i]
             \/ i - Len(s) \in DOMAIN t /\ (s \o t)[i] = t[i - Len(s)]
  <2>1. CASE i <= Len(s)
    BY <1>1, <1>2, <2>1
  <2>2. CASE ~(i <= Len(s))
    <3>1. i - Len(s) \in 1 .. Len(t)
      BY <1>1, <2>2
    <3> QED BY <1>1, <1>2, <2>2, <3>1
  <2> QED BY <2>1, <2>2
<1> QED BY <1>1, <1>2, <1>3, <1>4

LEMMA AppendElements ==
  ASSUME NEW S, NEW s \in Seq(S), NEW e \in S
  PROVE  /\ Append(s, e) \in Seq(S) /\ Len(Append(s, e)) = Len(s) + 1
         /\ Len(s) \in Nat /\ DOMAIN s = 1 .. Len(s)
         /\ DOMAIN Append(s, e) = 1 .. Len(s) + 1
         /\ \A i \in DOMAIN s : Append(s, e)[i] = s[i]
         /\ Append(s, e)[Len(s) + 1] = e
         /\ \A i \in DOMAIN Append(s, e) : i \in DOMAIN s \/ i = Len(s) + 1
BY AppendProperties, LenProperties

LEMMA TailElements ==
  ASSUME NEW S, NEW s \in Seq(S), s # <<>>
  PROVE  /\ Len(s) \in Nat \ {0} /\ DOMAIN s = 1 .. Len(s) /\ Head(s) = s[1]
         /\ Head(s) \in S
         /\ Tail(s) \in Seq(S) /\ Len(Tail(s)) = Len(s) - 1
         /\ DOMAIN Tail(s) = 1 .. Len(s) - 1
         /\ \A i \in DOMAIN Tail(s) : i + 1 \in DOMAIN s /\ Tail(s)[i] = s[i + 1]
         /\ Tail(s) = <<>> <=> Len(s) = 1
<1>1. Len(s) \in Nat \ {0} /\ DOMAIN s = 1 .. Len(s)
  BY EmptySeq, LenProperties
<1>2. Head(s) \in S /\ Tail(s) \in Seq(S) /\ Len(Tail(s)) = Len(s) - 1
      /\ \A i \in 1 .. Len(Tail(s)) : Tail(s)[i] = s[i + 1]
  BY HeadTailProperties
<1>3. DOMAIN Tail(s) = 1 .. Len(s) - 1
  BY <1>2, LenProperties
<1>4. Tail(s) = <<>> <=> Len(s) = 1
  BY <1>1, <1>2, EmptySeq
<1>5. Head(s) = s[1]
  OBVIOUS
<1> QED BY <1>1, <1>2, <1>3, <1>4, <1>5

\* The types of what belongs to one host.
LEMMA HostTypes ==
  ASSUME TypeOK, NEW h \in Hosts
  PROVE  /\ lines[h] \in Seq(Requests) /\ answers[h] \in Seq(Answers)
         /\ awaited[h] \in Seq(Requests)
         /\ DOMAIN lines[h] = 1 .. Len(lines[h]) /\ Len(lines[h]) \in Nat
         /\ DOMAIN answers[h] = 1 .. Len(answers[h]) /\ Len(answers[h]) \in Nat
         /\ DOMAIN awaited[h] = 1 .. Len(awaited[h]) /\ Len(awaited[h]) \in Nat
         /\ lastId[h] \in Nat /\ attempt[h] \in Nat /\ sent[h] \in Nat
         /\ Size[h] \in Nat \ {0} /\ sent[h] <= Size[h]
         /\ phase[h] \in Phases
         /\ awaited[h] # <<>> <=> phase[h] \in Sending
<1>1. /\ lines[h] \in Seq(Requests) /\ answers[h] \in Seq(Answers)
      /\ awaited[h] \in Seq(Requests)
  BY DEF TypeOK
<1>2. /\ lastId[h] \in Nat /\ attempt[h] \in Nat /\ sent[h] \in Nat
      /\ Size[h] \in Nat \ {0} /\ sent[h] <= Size[h]
      /\ phase[h] \in Phases
      /\ awaited[h] # <<>> <=> phase[h] \in Sending
  BY SizeAssumption DEF TypeOK
<1> QED BY <1>1, <1>2, LenProperties

LEMMA OnWayType ==
  ASSUME TypeOK, NEW h \in Hosts
  PROVE  OnWay(h) \subseteq Requests
<1>1. \A i \in DOMAIN lines[h] : lines[h][i] \in Requests
  BY HostTypes, ElementOfSeq
<1>2. \A i \in DOMAIN answers[h] : answers[h][i].to \in Requests
  <2>1. \A i \in DOMAIN answers[h] : answers[h][i] \in Answers
    BY HostTypes, ElementOfSeq
  <2> QED BY <2>1 DEF Answers
<1> QED BY <1>1, <1>2 DEF OnWay

\* Requests appended to the way and awaited: with numbers after all others.
LEMMA SendingKeepsWay ==
  ASSUME TypeOK, NEW h \in Hosts, WayInv(h), connected[h],
         NEW requests \in Seq(Requests), Send(h, requests),
         \A i \in DOMAIN requests :
           /\ requests[i].id = lastId[h] + i
           /\ requests[i].cmd # "ping"
           /\ requests[i].attempt = attempt[h],
         UNCHANGED <<answers, connected, attempt, late>>,
         phase'[h] \notin {"idle", "closed", "ping"},
         phase'[h] \in {"abort", "begin"} => Len(requests) = 1,
         attempt[h] > 0,
         ClientInv(h)'
  PROVE  WayInv(h)'
<1>1. /\ lines' = [lines EXCEPT ![h] = lines[h] \o requests]
      /\ awaited' = [awaited EXCEPT ![h] = requests]
      /\ lastId' = [lastId EXCEPT ![h] = lastId[h] + Len(requests)]
  BY DEF Send
<1>2. /\ lines[h] \in Seq(Requests) /\ answers[h] \in Seq(Answers)
      /\ lastId[h] \in Nat /\ attempt[h] \in Nat
      /\ lines'[h] = lines[h] \o requests /\ awaited'[h] = requests
      /\ lastId'[h] = lastId[h] + Len(requests)
  BY <1>1 DEF TypeOK
<1>3. /\ Len(requests) \in Nat /\ DOMAIN requests = 1 .. Len(requests)
      /\ Len(lines[h]) \in Nat /\ DOMAIN lines[h] = 1 .. Len(lines[h])
      /\ Len(lines'[h]) = Len(lines[h]) + Len(requests)
      /\ \A i \in DOMAIN lines'[h] :
           \/ i \in DOMAIN lines[h] /\ lines'[h][i] = lines[h][i]
           \/ i - Len(lines[h]) \in DOMAIN requests
              /\ lines'[h][i] = requests[i - Len(lines[h])]
  BY <1>2, ConcatElements
<1>4. \A r \in OnWay(h)' : r \in OnWay(h) \/ \E i \in DOMAIN requests : r = requests[i]
  BY <1>3 DEF OnWay
<1>5. lastId[h] > 0
  BY DEF WayInv, ClientInv
<1>6. NumbersInv(h)'
  <2>1. ASSUME NEW i \in DOMAIN requests
        PROVE  requests[i].id # 1 /\ requests[i].cmd # "ping"
    BY <1>2, <1>3, <1>5
  <2> QED BY <1>4, <2>1 DEF WayInv, NumbersInv
<1>7. AttemptsInv(h)'
  BY <1>2, <1>4 DEF WayInv, AttemptsInv
<1>8. FitInv(h)'
  <2> SUFFICES ASSUME h \notin late, NEW r \in OnWay(h)'
               PROVE  /\ r.id <= lastId'[h]
                      /\ \A i \in DOMAIN requests : r.id = requests[i].id => r = requests[i]
    BY <1>2 DEF FitInv
  <2>1. CASE r \in OnWay(h)
    <3>1. r.id <= lastId[h]
      BY <2>1 DEF WayInv, FitInv
    <3>2. r \in Requests
      BY <2>1, OnWayType
    <3>3. r.id \in Nat
      BY <3>2 DEF Requests
    <3>4. \A i \in DOMAIN requests : r.id # requests[i].id
      BY <1>2, <1>3, <3>1, <3>3
    <3> QED BY <1>2, <1>3, <3>1, <3>3, <3>4
  <2>2. ASSUME NEW k \in DOMAIN requests, r = requests[k]
        PROVE  /\ r.id <= lastId'[h]
               /\ \A i \in DOMAIN requests : r.id = requests[i].id => r = requests[i]
    BY <1>2, <1>3, <2>2
  <2> QED BY <1>4, <2>1, <2>2
<1>9. LastInv(h)'
  <2> SUFFICES ASSUME h \notin late, Len(requests) = 1
               PROVE  /\ \A i \in DOMAIN lines'[h] :
                           lines'[h][i] = requests[1] => i = Len(lines'[h])
                      /\ \A i \in DOMAIN answers[h] : answers[h][i].to # requests[1]
    BY <1>2 DEF LastInv
  <2>1. \A r \in OnWay(h) : r # requests[1]
    <3> SUFFICES ASSUME NEW r \in OnWay(h) PROVE r # requests[1]
      OBVIOUS
    <3>1. r.id <= lastId[h]
      BY DEF WayInv, FitInv
    <3>2. r \in Requests
      BY OnWayType
    <3>3. requests[1].id = lastId[h] + 1
      BY <1>3
    <3> QED BY <1>2, <3>1, <3>2, <3>3 DEF Requests
  <2>2. \A i \in DOMAIN lines[h] : lines[h][i] \in OnWay(h)
    BY DEF OnWay
  <2>3. \A i \in DOMAIN answers[h] : answers[h][i].to \in OnWay(h)
    BY DEF OnWay
  <2> QED BY <1>2, <1>3, <2>1, <2>2, <2>3
<1> QED BY <1>6, <1>7, <1>8, <1>9 DEF WayInv

LEMMA SendOneKeepsWay ==
  ASSUME TypeOK, NEW h \in Hosts, WayInv(h),
         SendAbort(h) \/ SendBegin(h) \/ SendEnd(h) \/ SendCleanup(h)
  PROVE  WayInv(h)'
<1> DEFINE Sends(cmd, p) ==
             /\ phase' = [phase EXCEPT ![h] = p]
             /\ SendOne(h, cmd)
             /\ UNCHANGED <<device, answers, connected, sent, attempt, told,
                            mishaps, history>>
<1>1. /\ phase[h] \notin {"idle", "closed", "ping"} /\ connected[h] /\ lastId[h] > 0
      /\ attempt[h] > 0
  <2>1. phase[h] \notin {"idle", "closed", "ping"}
    BY DEF SendAbort, SendBegin, SendEnd, SendCleanup
  <2> QED BY <2>1 DEF WayInv, ClientInv, AttemptsInv
<1>2. ASSUME NEW cmd \in {"abort", "begin", "end"},
             NEW p \in {"abort", "begin", "end", "cleanup"},
             p # "cleanup" => cmd = p,
             p \in {"abort", "begin"} => sent[h] = 0,
             p = "end" => sent[h] = Size[h],
             Sends(cmd, p)
      PROVE  WayInv(h)'
  <2> DEFINE r == Request(lastId[h] + 1, h, cmd, 0)
  <2>1. r.id = lastId[h] + 1 /\ r.cmd = cmd /\ r.attempt = attempt[h]
    BY DEF Request
  <2>2. r \in Requests
    BY RequestType, HostTypes DEF Commands
  <2>3. Send(h, <<r>>)
    BY <1>2 DEF SendOne
  <2>4. UNCHANGED <<answers, connected, attempt, late, sent>>
    BY <1>2 DEF history
  <2>5. phase'[h] = p
    BY <1>2 DEF TypeOK
  <2> HIDE DEF r
  <2>6. /\ <<r>> \in Seq(Requests) /\ Len(<<r>>) = 1 /\ <<r>>[1] = r /\ DOMAIN <<r>> = {1}
    BY <2>2
  <2>7. awaited'[h] = <<r>> /\ lastId'[h] = lastId[h] + 1
    BY <2>3, <2>6 DEF Send, TypeOK
  <2>8. ClientInv(h)'
    BY <1>1, <1>2, <2>1, <2>4, <2>5, <2>6, <2>7, HostTypes DEF ClientInv
  <2> QED BY <1>1, <1>2, <2>1, <2>3, <2>4, <2>5, <2>6, <2>8, SendingKeepsWay
<1>3. CASE SendAbort(h)
  <2>1. Sends("abort", "abort") /\ sent[h] = 0
    BY <1>3 DEF SendAbort, WayInv, ClientInv
  <2> HIDE DEF Sends
  <2> QED BY <1>2, <2>1
<1>4. CASE SendBegin(h)
  <2>1. Sends("begin", "begin") /\ sent[h] = 0
    BY <1>4 DEF SendBegin, WayInv, ClientInv
  <2> HIDE DEF Sends
  <2> QED BY <1>2, <2>1
<1>5. CASE SendEnd(h)
  <2>1. Sends("end", "end") /\ sent[h] = Size[h]
    BY <1>5 DEF SendEnd
  <2> HIDE DEF Sends
  <2> QED BY <1>2, <2>1
<1>6. CASE SendCleanup(h)
  <2>1. Sends("abort", "cleanup")
    BY <1>6 DEF SendCleanup
  <2> HIDE DEF Sends
  <2> QED BY <1>2, <2>1
<1> QED BY <1>3, <1>4, <1>5, <1>6

LEMMA SendChunksKeepsWay ==
  ASSUME TypeOK, NEW h \in Hosts, WayInv(h), SendChunks(h)
  PROVE  WayInv(h)'
<1> DEFINE chunks(n) == [i \in 1 .. n |-> Request(lastId[h] + i, h, "chunk", sent[h] + i)]
<1>1. PICK count \in 1 .. Size[h] - sent[h] :
        /\ chunks(count) \in Seq(Requests)
        /\ Send(h, chunks(count))
        /\ sent' = [sent EXCEPT ![h] = @ + count]
  BY ChunksSent
<1>2. count \in Nat
  BY <1>1
<1>3. /\ Len(chunks(count)) = count
      /\ DOMAIN chunks(count) = 1 .. count
      /\ \A i \in 1 .. count :
           /\ chunks(count)[i].id = lastId[h] + i
           /\ chunks(count)[i].cmd = "chunk"
           /\ chunks(count)[i].attempt = attempt[h]
           /\ chunks(count)[i].nr = sent[h] + i
  BY <1>2 DEF Request
<1>4. /\ phase[h] = "begun" /\ phase'[h] = "chunk"
      /\ UNCHANGED <<answers, connected, attempt, late>>
  BY DEF SendChunks, TypeOK, history
<1>5. connected[h] /\ lastId[h] > 0 /\ attempt[h] > 0
  BY <1>4 DEF WayInv, ClientInv, AttemptsInv
<1> HIDE DEF chunks
<1>6. awaited'[h] = chunks(count) /\ lastId'[h] = lastId[h] + count
      /\ sent'[h] = sent[h] + count
  BY <1>1, <1>3 DEF Send, TypeOK
<1>7. ClientInv(h)'
  <2>1. ASSUME NEW i \in 1 .. count
        PROVE  sent[h] + i = sent'[h] - count + i
    BY <1>2, <1>6, HostTypes
  <2>2. lastId'[h] > 0
    BY <1>2, <1>5, <1>6, HostTypes
  <2> QED BY <1>3, <1>4, <1>5, <1>6, <2>1, <2>2 DEF ClientInv
<1> QED BY <1>1, <1>3, <1>4, <1>5, <1>7, SendingKeepsWay

LEMMA ConnectKeepsWay ==
  ASSUME TypeOK, NEW h \in Hosts, WayInv(h), Connect(h)
  PROVE  WayInv(h)'
<1> DEFINE ping == Request(1, h, "ping", 0)
<1>1. ping.id = 1 /\ ping.cmd = "ping" /\ ping.attempt = attempt[h] /\ ping.nr = 0
  BY DEF Request
<1>2. ping \in Requests
  BY RequestType DEF Commands
<1>3. /\ lines'[h] = Append(lines[h], ping) /\ answers'[h] = <<>>
      /\ awaited'[h] = <<ping>> /\ lastId'[h] = 1
      /\ phase[h] = "closed" /\ phase'[h] = "ping" /\ h \notin late'
      /\ UNCHANGED <<connected, sent, attempt>>
  BY DEF Connect, TypeOK
<1>4. Request(1, h, "ping", 0)' = ping
  BY <1>3 DEF Request
<1> HIDE DEF ping
<1>5. /\ Len(lines[h]) \in Nat /\ DOMAIN lines[h] = 1 .. Len(lines[h])
      /\ Len(lines'[h]) = Len(lines[h]) + 1
      /\ \A i \in DOMAIN lines'[h] :
           \/ i \in DOMAIN lines[h] /\ lines'[h][i] = lines[h][i]
           \/ i = Len(lines'[h]) /\ lines'[h][i] = ping
  BY <1>2, <1>3, HostTypes, AppendElements
<1>6. DOMAIN answers'[h] = {}
  BY <1>3
<1>7. \A r \in OnWay(h)' : r \in OnWay(h) \/ r = ping
  BY <1>5, <1>6 DEF OnWay
<1>8. \A i \in DOMAIN lines[h] : lines[h][i].attempt < attempt[h]
  BY <1>3 DEF WayInv, AttemptsInv, OnWay
<1>9. NumbersInv(h)'
  BY <1>1, <1>6, <1>7 DEF WayInv, NumbersInv
<1>10. AttemptsInv(h)'
  BY <1>1, <1>3, <1>7, HostTypes DEF WayInv, AttemptsInv
<1>11. ClientInv(h)'
  BY <1>1, <1>3, <1>4 DEF WayInv, ClientInv
<1>12. FitInv(h)'
  BY <1>3 DEF WayInv, ClientInv, FitInv
<1>13. LastInv(h)'
  <2>1. \A i \in DOMAIN lines[h] : lines[h][i] # ping
    BY <1>1, <1>8, HostTypes
  <2> QED BY <1>3, <1>5, <1>6, <2>1 DEF LastInv
<1> QED BY <1>9, <1>10, <1>11, <1>12, <1>13 DEF WayInv

LEMMA UserKeepsWay ==
  ASSUME TypeOK, NEW h \in Hosts, WayInv(h), Start(h) \/ Disconnect(h)
  PROVE  WayInv(h)'
<1>1. OnWay(h)' = OnWay(h) /\ awaited'[h] = awaited[h] /\ late' = late
      /\ lastId'[h] = lastId[h]
  BY DEF Start, Disconnect, link, history, OnWay
<1>2. NumbersInv(h)'
  BY <1>1 DEF Start, Disconnect, link, WayInv, NumbersInv
<1>3. \A r \in OnWay(h) : r.attempt \in Nat
  BY OnWayType DEF Requests
<1>4. awaited[h] = <<>> /\ DOMAIN awaited[h] = {}
  <2>1. phase[h] \notin Sending
    BY DEF Start, Disconnect, Sending
  <2>2. awaited[h] = <<>>
    BY <2>1, HostTypes
  <2> QED BY <2>2
<1>5. CASE Start(h)
  <2>1. /\ attempt'[h] = attempt[h] + 1 /\ sent'[h] = 0 /\ connected'[h] = connected[h]
        /\ phase'[h] = IF connected[h] THEN "connected" ELSE "closed"
    BY <1>5 DEF Start, TypeOK
  <2>2. AttemptsInv(h)'
    BY <1>1, <1>3, <2>1, HostTypes DEF WayInv, AttemptsInv
  <2>3. ClientInv(h)'
    BY <1>1, <2>1 DEF WayInv, ClientInv
  <2>4. FitInv(h)'
    BY <1>1, <2>1 DEF WayInv, FitInv
  <2>5. LastInv(h)'
    BY <2>1 DEF LastInv
  <2> QED BY <1>2, <2>2, <2>3, <2>4, <2>5 DEF WayInv
<1>6. CASE Disconnect(h)
  <2>1. /\ connected'[h] = FALSE /\ phase[h] = "idle"
        /\ UNCHANGED <<phase, attempt, sent>>
    BY <1>6 DEF Disconnect, TypeOK
  <2>2. AttemptsInv(h)'
    BY <1>1, <2>1 DEF WayInv, AttemptsInv
  <2>3. ClientInv(h)'
    BY <1>1, <2>1 DEF WayInv, ClientInv
  <2>4. FitInv(h)' /\ LastInv(h)'
    BY <2>1 DEF FitInv, LastInv
  <2> QED BY <1>2, <2>2, <2>3, <2>4 DEF WayInv
<1> QED BY <1>5, <1>6

\* Some of the answers at the front are taken, and only the first when the host
\* stays undisturbed.
LEMMA TakenAnswers ==
  ASSUME TypeOK, NEW h \in Hosts, answers[h] # <<>>, TakeAnswer(h)
  PROVE  /\ \E d \in 1 .. Len(answers[h]) :
              /\ Len(answers'[h]) = Len(answers[h]) - d
              /\ DOMAIN answers'[h] = 1 .. Len(answers[h]) - d
              /\ \A i \in DOMAIN answers'[h] : answers'[h][i] = answers[h][i + d]
              /\ h \notin disturbed' => d = 1
         /\ \A g \in Hosts \ {h} : answers'[g] = answers[g]
         /\ disturbed \subseteq disturbed' /\ disturbed' \subseteq disturbed \cup {h}
<1> DEFINE s == answers[h]
           t == Tail(answers[h])
<1>1. /\ s \in Seq(Answers) /\ Len(s) \in Nat \ {0} /\ DOMAIN s = 1 .. Len(s)
      /\ t \in Seq(Answers) /\ Len(t) = Len(s) - 1 /\ DOMAIN t = 1 .. Len(s) - 1
      /\ \A i \in DOMAIN t : t[i] = s[i + 1]
  BY HostTypes, TailElements
<1>2. PICK rest \in Unread(h) :
        /\ answers' = [answers EXCEPT ![h] = rest]
        /\ disturbed' = IF rest = t THEN disturbed ELSE disturbed \cup {h}
  BY DEF TakeAnswer
<1>3. answers'[h] = rest /\ \A g \in Hosts \ {h} : answers'[g] = answers[g]
  BY <1>2 DEF TypeOK
<1>4. CASE rest = t
  <2>1. answers'[h] = t
    BY <1>3, <1>4
  <2>2. 1 \in 1 .. Len(s)
    BY <1>1
  <2>3. disturbed' = disturbed
    BY <1>2, <1>4
  <2> HIDE DEF s, t
  <2> QED BY <1>1, <1>3, <2>1, <2>2, <2>3 DEF s
<1>5. CASE rest # t
  <2>1. PICK i \in 1 .. Len(t) + 1 : rest = SubSeq(t, i, Len(t))
    BY <1>5 DEF Unread
  <2> HIDE DEF s, t
  <2>2. /\ i \in Nat /\ i <= Len(s) /\ i > 0 /\ Len(t) \in Int /\ i \in Int
        /\ Len(s) \in Nat /\ Len(t) = Len(s) - 1
    BY <1>1, <2>1
  <2>3. \A k \in i .. Len(t) : t[k] \in Answers
    BY <1>1, <2>2, ElementOfSeq
  <2>4. /\ rest \in Seq(Answers)
        /\ Len(rest) = IF i <= Len(t) THEN Len(t) - i + 1 ELSE 0
        /\ \A k \in 1 .. Len(t) - i + 1 : rest[k] = t[i + k - 1]
    BY <2>1, <2>2, <2>3, SubSeqProperties
  <2>5. Len(rest) = Len(s) - i /\ DOMAIN rest = 1 .. Len(s) - i
    <3>1. Len(rest) = Len(s) - i
      <4>1. CASE i <= Len(t)
        BY <2>2, <2>4, <4>1
      <4>2. CASE ~(i <= Len(t))
        BY <2>2, <2>4, <4>2
      <4> QED BY <4>1, <4>2
    <3> QED BY <2>4, <3>1, LenProperties
  <2>6. \A k \in DOMAIN rest : rest[k] = s[k + i]
    <3> SUFFICES ASSUME NEW k \in 1 .. Len(s) - i PROVE rest[k] = s[k + i]
      BY <2>5
    <3>1. k \in 1 .. Len(t) - i + 1
      BY <2>2
    <3>2. i + k - 1 \in DOMAIN t /\ (i + k - 1) + 1 = k + i
      BY <1>1, <2>2
    <3> QED BY <1>1, <2>4, <3>1, <3>2
  <2>7. h \in disturbed'
    BY <1>2, <1>5 DEF t
  <2>8. i \in 1 .. Len(s)
    BY <1>1, <2>2
  <2> QED BY <1>2, <1>3, <2>5, <2>6, <2>7, <2>8 DEF s
<1> QED BY <1>2, <1>3, <1>4, <1>5

LEMMA TakingShrinks ==
  ASSUME TypeOK, NEW h \in Hosts, answers[h] # <<>>, TakeAnswer(h), UNCHANGED lines
  PROVE  Shrinks(h)
<1>1. PICK d \in 1 .. Len(answers[h]) :
        /\ Len(answers'[h]) = Len(answers[h]) - d
        /\ DOMAIN answers'[h] = 1 .. Len(answers[h]) - d
        /\ \A i \in DOMAIN answers'[h] : answers'[h][i] = answers[h][i + d]
  BY TakenAnswers
<1>2. ASSUME NEW i \in DOMAIN answers'[h]
      PROVE  \E j \in DOMAIN answers[h] :
               /\ answers'[h][i] = answers[h][j]
               /\ j = Len(answers[h]) => i = Len(answers'[h])
  <2>1. i + d \in DOMAIN answers[h]
    BY <1>1, HostTypes
  <2>2. i + d = Len(answers[h]) => i = Len(answers'[h])
    BY <1>1, HostTypes
  <2> QED BY <1>1, <2>1, <2>2
<1> QED BY <1>2 DEF Shrinks

\* Where a host goes: it keeps its client, or gets one with its pong, or loses it.
LEMMA Proceeding ==
  ASSUME TypeOK, NEW h \in Hosts, NEW p, Proceed(h, p)
  PROVE  /\ phase'[h] = p
         /\ connected'[h] = IF phase[h] = "ping" THEN p = "connected"
                            ELSE connected[h] /\ ~(phase[h] = "end" /\ p = "idle")
         /\ \A g \in Hosts \ {h} :
              phase'[g] = phase[g] /\ connected'[g] = connected[g]
<1>1. /\ DOMAIN phase = Hosts /\ DOMAIN connected = Hosts
  BY DEF TypeOK
<1>2. phase'[h] = p /\ \A g \in Hosts \ {h} : phase'[g] = phase[g]
  BY <1>1 DEF Proceed
<1>3. connected'[h] = IF phase[h] = "ping" THEN p = "connected"
                      ELSE connected[h] /\ ~(phase[h] = "end" /\ p = "idle")
  BY <1>1, Zenon DEF Proceed
<1>4. \A g \in Hosts \ {h} : connected'[g] = connected[g]
  BY <1>1, Zenon DEF Proceed
<1> QED BY <1>2, <1>3, <1>4

\* An answer is good or bad news for the request awaited next, or an old one.
LEMMA AnswerAtHand ==
  ASSUME TypeOK, NEW h \in Hosts, NumbersInv(h), Reading(h)
  PROVE  /\ Head(answers[h]) = answers[h][1] /\ 1 \in DOMAIN answers[h]
         /\ Head(awaited[h]) = awaited[h][1] /\ 1 \in DOMAIN awaited[h]
         /\ Head(answers[h]).to \in OnWay(h)
         /\ Head(answers[h]).id = Head(answers[h]).to.id
         /\ phase[h] \in Sending
<1>1. answers[h] # <<>> /\ awaited[h] # <<>>
  BY DEF Reading
<1>2. Head(answers[h]) = answers[h][1] /\ 1 \in DOMAIN answers[h]
  BY <1>1, HostTypes, TailElements
<1>3. Head(awaited[h]) = awaited[h][1] /\ 1 \in DOMAIN awaited[h]
  BY <1>1, HostTypes, TailElements
<1> QED BY <1>1, <1>2, <1>3, HostTypes DEF NumbersInv, OnWay

\* A host that gives up what it awaits, or reads that it has failed.
LEMMA FailingKeepsWay ==
  ASSUME TypeOK, NEW h \in Hosts, WayInv(h), Shrinks(h), phase[h] \in Sending,
         awaited' = [awaited EXCEPT ![h] = <<>>],
         Proceed(h, AfterFailure(phase[h])),
         UNCHANGED <<lastId, sent, attempt, late>>
  PROVE  WayInv(h)'
<1>1. OnWay(h)' \subseteq OnWay(h) /\ NumbersInv(h)'
  BY ShrinksOnWay DEF WayInv
<1>2. /\ phase'[h] = AfterFailure(phase[h]) /\ awaited'[h] = <<>>
      /\ connected'[h] = IF phase[h] = "ping" THEN AfterFailure(phase[h]) = "connected"
                         ELSE connected[h] /\ ~(phase[h] = "end" /\ AfterFailure(phase[h]) = "idle")
  BY Proceeding DEF TypeOK
<1>3. /\ phase'[h] \in {"idle", "aborted", "failed"}
      /\ phase'[h] = "aborted" => phase[h] = "abort"
      /\ phase'[h] = "failed" => phase[h] \in {"chunk", "end"}
      /\ connected'[h] => connected[h]
      /\ phase'[h] # "idle" => (connected[h] => connected'[h])
  <2>1. /\ phase'[h] \in {"idle", "aborted", "failed"}
        /\ phase'[h] = "aborted" => phase[h] = "abort"
        /\ phase'[h] = "failed" => phase[h] \in {"chunk", "end"}
        /\ phase[h] = "ping" => phase'[h] = "idle"
    BY <1>2 DEF AfterFailure, Sending
  <2>2. connected'[h] = IF phase[h] = "ping" THEN phase'[h] = "connected"
                        ELSE connected[h] /\ ~(phase[h] = "end" /\ phase'[h] = "idle")
    BY <1>2
  <2>3. phase[h] = "end" => phase'[h] # "idle"
    BY <1>2 DEF AfterFailure
  <2>4. CASE phase[h] = "ping"
    <3>1. phase'[h] = "idle" /\ "idle" # "connected"
      BY <2>1, <2>4
    <3>2. ~connected'[h]
      BY <2>2, <2>4, <3>1, Zenon
    <3> QED BY <2>1, <3>1, <3>2
  <2>5. CASE phase[h] # "ping"
    <3>1. connected'[h] <=> connected[h]
      BY <2>2, <2>3, <2>5, Zenon
    <3> QED BY <2>1, <3>1
  <2> QED BY <2>4, <2>5
<1>4. AttemptsInv(h)'
  <2>1. phase[h] # "idle"
    BY DEF Sending
  <2> QED BY <1>1, <1>3, <2>1 DEF WayInv, AttemptsInv
<1>5. ClientInv(h)'
  <2>1. phase'[h] # "idle" => connected'[h]
    <3>1. phase'[h] # "idle" => phase[h] \notin {"idle", "closed", "ping"}
      BY <1>3
    <3> QED BY <1>3, <3>1 DEF WayInv, ClientInv
  <2>2. connected'[h] => lastId'[h] > 0
    BY <1>3 DEF WayInv, ClientInv
  <2>3. phase'[h] = "aborted" => sent'[h] = 0
    BY <1>3 DEF WayInv, ClientInv
  <2> QED BY <1>3, <2>1, <2>2, <2>3 DEF ClientInv
<1>6. FitInv(h)'
  BY <1>1, <1>2, <1>3 DEF WayInv, FitInv
<1>7. LastInv(h)'
  BY <1>3 DEF LastInv
<1> QED BY <1>1, <1>4, <1>5, <1>6, <1>7 DEF WayInv

\* A good answer: the pong that ends the wait of a new client is its own, with
\* nothing left behind it, or the client counts as late.
LEMMA ReadGoodKeepsWay ==
  ASSUME TypeOK, NEW h \in Hosts, WayInv(h), ReadGood(h)
  PROVE  WayInv(h)'
<1>1. /\ Reading(h) /\ Matches(h) /\ TakeAnswer(h) /\ awaited[h] # <<>> /\ answers[h] # <<>>
      /\ UNCHANGED <<lines, lastId, sent, attempt>>
  BY DEF ReadGood, Reading
<1>2. Shrinks(h)
  BY <1>1, TakingShrinks
<1>3. OnWay(h)' \subseteq OnWay(h) /\ NumbersInv(h)'
  BY <1>2, ShrinksOnWay DEF WayInv
<1>4. /\ Head(answers[h]) = answers[h][1] /\ 1 \in DOMAIN answers[h]
      /\ Head(awaited[h]) = awaited[h][1] /\ 1 \in DOMAIN awaited[h]
      /\ phase[h] \in Sending
  BY <1>1, AnswerAtHand DEF WayInv
<1>5. /\ awaited'[h] = Tail(awaited[h]) /\ Len(awaited'[h]) = Len(awaited[h]) - 1
      /\ DOMAIN awaited'[h] = 1 .. Len(awaited[h]) - 1
      /\ \A i \in DOMAIN awaited'[h] :
           i + 1 \in DOMAIN awaited[h] /\ awaited'[h][i] = awaited[h][i + 1]
  <2>1. awaited'[h] = Tail(awaited[h])
    BY DEF ReadGood, TypeOK
  <2> QED BY <2>1, <1>1, HostTypes, TailElements
<1>6. /\ h \in late => h \in late'
      /\ phase[h] # "ping" => late' = late
      /\ phase[h] = "ping" /\ h \notin late' => answers[h][1].to = awaited[h][1]
  BY <1>4 DEF ReadGood
<1>7. AttemptsInv(h)'
  <2>1. phase'[h] # "closed" /\ phase[h] # "idle"
    <3>1. CASE Len(awaited[h]) > 1
      BY <1>4, <3>1 DEF ReadGood, Sending
    <3>2. CASE ~(Len(awaited[h]) > 1)
      <4>1. phase'[h] = After(phase[h])
        BY <3>2, Proceeding DEF ReadGood
      <4> QED BY <1>4, <4>1 DEF After, Sending
    <3> QED BY <3>1, <3>2
  <2> QED BY <1>1, <1>3, <2>1 DEF WayInv, AttemptsInv
<1>8. CASE Len(awaited[h]) > 1
  <2>1. UNCHANGED <<phase, connected>>
    BY <1>8 DEF ReadGood
  <2>2. phase[h] \notin {"ping", "abort", "begin", "end"}
    <3>1. phase[h] \in {"ping", "abort", "begin", "end"} => Len(awaited[h]) = 1
      BY DEF WayInv, ClientInv
    <3>2. Len(awaited[h]) \in Nat
      BY HostTypes
    <3>3. \A n \in Nat : n > 1 => n # 1
      OBVIOUS
    <3> QED BY <1>8, <3>1, <3>2, <3>3
  <2>3. phase[h] \in {"chunk", "cleanup"}
    BY <1>4, <2>2 DEF Sending
  <2>4. ClientInv(h)'
    <3>1. ASSUME phase[h] = "chunk", NEW i \in DOMAIN awaited'[h]
          PROVE  /\ awaited'[h][i].cmd = "chunk"
                 /\ awaited'[h][i].attempt = attempt[h]
                 /\ awaited'[h][i].nr = sent[h] - Len(awaited'[h]) + i
      <4>1. awaited[h][i + 1].nr = sent[h] - Len(awaited[h]) + (i + 1)
        BY <1>5, <3>1 DEF WayInv, ClientInv
      <4>2. sent[h] - Len(awaited[h]) + (i + 1) = sent[h] - Len(awaited'[h]) + i
        BY <1>5, <3>1, HostTypes
      <4> QED BY <1>5, <3>1, <4>1, <4>2 DEF WayInv, ClientInv
    <3> QED BY <1>1, <1>6, <2>1, <2>2, <2>3, <3>1 DEF WayInv, ClientInv
  <2>5. FitInv(h)'
    BY <1>1, <1>3, <1>5, <1>6, <2>1, <2>2 DEF WayInv, FitInv
  <2>6. LastInv(h)'
    BY <2>1, <2>2 DEF LastInv
  <2> QED BY <1>3, <1>7, <2>4, <2>5, <2>6 DEF WayInv
<1>9. CASE ~(Len(awaited[h]) > 1)
  <2>1. /\ phase'[h] = After(phase[h])
        /\ connected'[h] = IF phase[h] = "ping" THEN After(phase[h]) = "connected"
                           ELSE connected[h] /\ ~(phase[h] = "end" /\ After(phase[h]) = "idle")
    BY <1>9, Proceeding DEF ReadGood
  <2>2. DOMAIN awaited'[h] = {}
    BY <1>5, <1>9, HostTypes
  <2>3. /\ phase'[h] \in {"connected", "aborted", "begun", "idle"}
        /\ phase'[h] = "connected" <=> phase[h] = "ping"
        /\ phase'[h] = "aborted" => phase[h] = "abort"
    BY <1>4, <2>1 DEF After, Sending
  <2>4. LastInv(h)'
    BY <2>3 DEF LastInv
  <2>5. CASE phase[h] = "ping"
    <3>1. connected'[h] /\ phase'[h] = "connected" /\ lastId'[h] > 0
          /\ sent'[h] = 0
      <4>1. phase'[h] = "connected" /\ After(phase[h]) = "connected"
        BY <2>1, <2>5 DEF After
      <4>2. connected'[h]
        BY <2>1, <2>5, <4>1, Zenon
      <4>3. lastId[h] = 1 /\ sent[h] = 0
        BY <2>5 DEF WayInv, ClientInv
      <4> QED BY <1>1, <4>1, <4>2, <4>3
    <3>2. ClientInv(h)'
      BY <3>1 DEF ClientInv
    <3>3. ASSUME h \notin late' PROVE OnWay(h)' = {}
      <4>1. answers[h][1].to = awaited[h][1] /\ h \notin late
        BY <1>6, <2>5, <3>3
      <4>2. Len(answers[h]) = 1 /\ lines[h] = <<>>
        BY <1>4, <2>5, <4>1 DEF WayInv, LastInv
      <4>3. DOMAIN answers'[h] = {}
        <5>1. PICK d \in 1 .. Len(answers[h]) :
                DOMAIN answers'[h] = 1 .. Len(answers[h]) - d
          BY <1>1, TakenAnswers
        <5> QED BY <4>2, <5>1
      <4>4. DOMAIN lines'[h] = {}
        BY <1>1, <4>2
      <4> QED BY <4>3, <4>4 DEF OnWay
    <3>4. FitInv(h)'
      BY <3>3 DEF FitInv
    <3> QED BY <1>3, <1>7, <2>4, <3>2, <3>4 DEF WayInv
  <2>6. CASE phase[h] # "ping"
    <3>1. connected[h]
      BY <1>4, <2>6 DEF Sending, WayInv, ClientInv
    <3>2. phase'[h] # "idle" => connected'[h]
      <4>1. phase'[h] # "idle" => connected'[h] = (connected[h] /\ ~(phase[h] = "end" /\ FALSE))
        BY <2>1, <2>6
      <4> QED BY <3>1, <4>1, Zenon
    <3>3. ClientInv(h)'
      <4>1. lastId'[h] > 0 /\ (phase'[h] = "aborted" => sent'[h] = 0)
        BY <1>1, <2>3, <3>1 DEF WayInv, ClientInv
      <4> QED BY <2>3, <2>6, <3>2, <4>1 DEF ClientInv
    <3>4. FitInv(h)'
      BY <1>1, <1>3, <1>6, <2>2, <2>6, <3>1 DEF WayInv, FitInv
    <3> QED BY <1>3, <1>7, <2>4, <3>3, <3>4 DEF WayInv
  <2> QED BY <2>5, <2>6
<1> QED BY <1>8, <1>9

LEMMA ReadKeepsWay ==
  ASSUME TypeOK, NEW h \in Hosts, WayInv(h),
         ReadGood(h) \/ ReadBad(h) \/ ReadOther(h) \/ Timeout(h)
  PROVE  WayInv(h)'
<1>1. CASE ReadGood(h)
  BY <1>1, ReadGoodKeepsWay
<1>2. CASE ReadBad(h)
  <2>1. Reading(h) /\ answers[h] # <<>> /\ TakeAnswer(h) /\ UNCHANGED lines
    BY <1>2 DEF ReadBad, Reading
  <2>2. Shrinks(h)
    BY <2>1, TakingShrinks
  <2>3. phase[h] \in Sending
    BY <2>1, AnswerAtHand DEF WayInv
  <2> QED BY <1>2, <2>2, <2>3, FailingKeepsWay DEF ReadBad
<1>3. CASE ReadOther(h)
  <2>1. answers[h] # <<>> /\ TakeAnswer(h) /\ UNCHANGED <<lines, host, late>>
    BY <1>3 DEF ReadOther, Reading
  <2>2. Shrinks(h) /\ SameHost(h)
    BY <2>1, TakingShrinks DEF SameHost, host
  <2> QED BY <2>2, ShrinkingKeepsWay
<1>4. CASE Timeout(h)
  <2>1. Shrinks(h)
    BY <1>4 DEF Timeout, link, Shrinks
  <2>2. phase[h] \in Sending
    BY <1>4, HostTypes DEF Timeout
  <2> QED BY <1>4, <2>1, <2>2, FailingKeepsWay DEF Timeout
<1> QED BY <1>1, <1>2, <1>3, <1>4

\* The first line leaves the lines and its answer comes behind the answers.
LEMMA AnsweredLine ==
  ASSUME TypeOK, NEW h \in Hosts, lines[h] # <<>>, NEW ok \in BOOLEAN, Answer(h, ok)
  PROVE  /\ Head(lines[h]) = lines[h][1] /\ 1 \in DOMAIN lines[h]
         /\ Head(lines[h]) \in Requests
         /\ Len(lines'[h]) = Len(lines[h]) - 1
         /\ DOMAIN lines'[h] = 1 .. Len(lines[h]) - 1
         /\ \A i \in DOMAIN lines'[h] :
              i + 1 \in DOMAIN lines[h] /\ lines'[h][i] = lines[h][i + 1]
         /\ lines'[h] = <<>> <=> Len(lines[h]) = 1
         /\ Len(answers'[h]) = Len(answers[h]) + 1
         /\ DOMAIN answers'[h] = 1 .. Len(answers[h]) + 1
         /\ \A i \in DOMAIN answers[h] : answers'[h][i] = answers[h][i]
         /\ \A i \in DOMAIN answers'[h] : i \in DOMAIN answers[h] \/ i = Len(answers[h]) + 1
         /\ LET a == answers'[h][Len(answers[h]) + 1] IN
              a.id = Head(lines[h]).id /\ a.to = Head(lines[h]) /\ a.ok = ok
<1> DEFINE r == Head(lines[h])
           a == [id |-> r.id, ok |-> ok, to |-> r]
<1>1. /\ r = lines[h][1] /\ 1 \in DOMAIN lines[h] /\ r \in Requests
      /\ Len(Tail(lines[h])) = Len(lines[h]) - 1
      /\ DOMAIN Tail(lines[h]) = 1 .. Len(lines[h]) - 1
      /\ \A i \in DOMAIN Tail(lines[h]) :
           i + 1 \in DOMAIN lines[h] /\ Tail(lines[h])[i] = lines[h][i + 1]
      /\ Tail(lines[h]) = <<>> <=> Len(lines[h]) = 1
  BY HostTypes, TailElements
<1>2. lines'[h] = Tail(lines[h]) /\ answers'[h] = Append(answers[h], a)
  BY DEF Answer, TypeOK
<1>3. a \in Answers /\ a.id = r.id /\ a.to = r /\ a.ok = ok
  BY <1>1 DEF Answers, Requests
<1> HIDE DEF a
<1>4. /\ Len(answers'[h]) = Len(answers[h]) + 1
      /\ DOMAIN answers'[h] = 1 .. Len(answers[h]) + 1
      /\ \A i \in DOMAIN answers[h] : answers'[h][i] = answers[h][i]
      /\ answers'[h][Len(answers[h]) + 1] = a
      /\ \A i \in DOMAIN answers'[h] : i \in DOMAIN answers[h] \/ i = Len(answers[h]) + 1
  BY <1>2, <1>3, HostTypes, AppendElements
<1> QED BY <1>1, <1>2, <1>3, <1>4

\* The device answers the first line: what was on the way to it is on the way
\* back.
LEMMA HandlingKeepsWay ==
  ASSUME TypeOK, NEW h \in Hosts, WayInv(h),
         Handle(h) \/ HandleRefused(h) \/ HandleFails(h)
  PROVE  WayInv(h)'
<1> DEFINE r == Head(lines[h])
<1>1. PICK ok \in BOOLEAN : /\ Answer(h, ok)
                            /\ r.cmd \in {"ping", "abort"} => ok
  <2>1. CASE Handle(h)
    BY <2>1 DEF Handle
  <2>2. CASE HandleRefused(h)
    BY <2>2 DEF HandleRefused, Refuses
  <2>3. CASE HandleFails(h)
    BY <2>3 DEF HandleFails
  <2> QED BY <2>1, <2>2, <2>3
<1>2. SameHost(h) /\ lines[h] # <<>>
  BY DEF Handle, HandleRefused, HandleFails, SameHost, host
<1> DEFINE a == answers'[h][Len(answers[h]) + 1]
<1>3. /\ r = lines[h][1] /\ 1 \in DOMAIN lines[h]
      /\ Len(lines'[h]) = Len(lines[h]) - 1
      /\ DOMAIN lines'[h] = 1 .. Len(lines[h]) - 1
      /\ \A i \in DOMAIN lines'[h] :
           i + 1 \in DOMAIN lines[h] /\ lines'[h][i] = lines[h][i + 1]
      /\ lines'[h] = <<>> <=> Len(lines[h]) = 1
  BY <1>1, <1>2, AnsweredLine
<1>4. /\ Len(answers'[h]) = Len(answers[h]) + 1
      /\ \A i \in DOMAIN answers[h] : answers'[h][i] = answers[h][i]
      /\ \A i \in DOMAIN answers'[h] : i \in DOMAIN answers[h] \/ i = Len(answers[h]) + 1
  BY <1>1, <1>2, AnsweredLine
<1>5. a.id = r.id /\ a.to = r /\ a.ok = ok
  BY <1>1, <1>2, AnsweredLine
<1>6. answers'[h][Len(answers[h]) + 1] = a
  OBVIOUS
<1> HIDE DEF a
<1>7. OnWay(h)' \subseteq OnWay(h)
  <2>1. \A i \in DOMAIN lines'[h] : \E j \in DOMAIN lines[h] : lines'[h][i] = lines[h][j]
    BY <1>3
  <2>2. \A i \in DOMAIN answers'[h] :
          \/ \E j \in DOMAIN answers[h] : answers'[h][i].to = answers[h][j].to
          \/ answers'[h][i].to = lines[h][1]
    BY <1>3, <1>4, <1>5, <1>6
  <2> QED BY <1>3, <2>1, <2>2 DEF OnWay
<1>8. NumbersInv(h)'
  BY <1>1, <1>4, <1>5, <1>6, <1>7 DEF WayInv, NumbersInv
<1>9. AttemptsInv(h)'
  BY <1>2, <1>7 DEF WayInv, AttemptsInv, SameHost
<1>10. ClientInv(h)'
  BY <1>2 DEF WayInv, ClientInv, SameHost, Request
<1>11. FitInv(h)'
  BY <1>2, <1>7 DEF WayInv, FitInv, SameHost
<1>12. LastInv(h)'
  <2> SUFFICES ASSUME phase[h] \in {"ping", "abort", "begin"}, h \notin late
               PROVE  /\ \A i \in DOMAIN lines'[h] :
                           lines'[h][i] = awaited[h][1] => i = Len(lines'[h])
                      /\ \A i \in DOMAIN answers'[h] :
                           answers'[h][i].to = awaited[h][1] =>
                             i = Len(answers'[h]) /\ lines'[h] = <<>>
    BY <1>2 DEF LastInv, SameHost
  <2>1. \A i \in DOMAIN lines[h] :
          lines[h][i] = awaited[h][1] => i = Len(lines[h])
    BY DEF WayInv, LastInv
  <2>2. \A i \in DOMAIN answers[h] : answers[h][i].to # awaited[h][1]
    BY <1>2 DEF WayInv, LastInv
  <2>3. r = awaited[h][1] => lines'[h] = <<>>
    BY <1>3, <2>1
  <2>4. ASSUME NEW i \in DOMAIN lines'[h], lines'[h][i] = awaited[h][1]
        PROVE  i = Len(lines'[h])
    <3>1. PICK n \in Nat : n = Len(lines[h])
      BY HostTypes, Zenon
    <3>2. i \in 1 .. n - 1 /\ Len(lines'[h]) = n - 1
      BY <1>3, <2>4, <3>1, Zenon
    <3>3. i + 1 = n
      BY <1>3, <2>1, <2>4, <3>1, Zenon
    <3>4. i = n - 1
      BY <3>2, <3>3
    <3>. QED BY <3>2, <3>4, Zenon
  <2> QED BY <1>4, <1>5, <1>6, <2>2, <2>3, <2>4
<1> QED BY <1>8, <1>9, <1>10, <1>11, <1>12 DEF WayInv

\* A step of a host, or of the device for it, does not touch the others.
Untouched(g) == lines'[g] = lines[g] /\ answers'[g] = answers[g] /\ SameHost(g)

LEMMA StepElsewhere ==
  ASSUME TypeOK, NEW h \in Hosts, NEW g \in Hosts \ {h},
         \/ HostStep(h) \/ Start(h) \/ Disconnect(h)
         \/ Handle(h) \/ HandleRefused(h) \/ HandleFails(h) \/ DropLine(h)
  PROVE  Untouched(g)
<1>1. /\ DOMAIN lines = Hosts /\ DOMAIN answers = Hosts /\ DOMAIN awaited = Hosts
      /\ DOMAIN lastId = Hosts /\ DOMAIN sent = Hosts /\ DOMAIN attempt = Hosts
      /\ DOMAIN phase = Hosts
  BY DEF TypeOK
<1>2. CASE SendAbort(h) \/ SendBegin(h) \/ SendEnd(h) \/ SendCleanup(h) \/ SendChunks(h)
  <2>1. PICK requests : Send(h, requests)
    BY <1>2 DEF SendAbort, SendBegin, SendEnd, SendCleanup, SendChunks, SendOne
  <2>2. lines'[g] = lines[g] /\ awaited'[g] = awaited[g] /\ lastId'[g] = lastId[g]
    BY <1>1, <2>1 DEF Send
  <2>3. /\ UNCHANGED <<answers, connected, attempt, late>>
        /\ phase'[g] = phase[g] /\ sent'[g] = sent[g]
    BY <1>1, <1>2 DEF SendAbort, SendBegin, SendEnd, SendCleanup, SendChunks, history
  <2> QED BY <2>2, <2>3 DEF Untouched, SameHost
<1>3. CASE Connect(h)
  BY <1>1, <1>3 DEF Connect, Untouched, SameHost
<1>4. CASE ReadGood(h) \/ ReadBad(h) \/ ReadOther(h)
  <2>1. answers[h] # <<>> /\ TakeAnswer(h)
    BY <1>4 DEF ReadGood, ReadBad, ReadOther, Reading
  <2>2. answers'[g] = answers[g]
    BY <2>1, TakenAnswers
  <2>3. UNCHANGED lines /\ awaited'[g] = awaited[g] /\ UNCHANGED <<lastId, sent, attempt>>
        /\ (g \in late' <=> g \in late)
    BY <1>1, <1>4 DEF ReadGood, ReadBad, ReadOther, host
  <2>4. phase'[g] = phase[g] /\ connected'[g] = connected[g]
    <3>1. UNCHANGED <<phase, connected>> \/ \E p : Proceed(h, p)
      BY <1>4 DEF ReadGood, ReadBad, ReadOther, host
    <3> QED BY <3>1, Proceeding
  <2> QED BY <2>2, <2>3, <2>4 DEF Untouched, SameHost
<1>5. CASE Timeout(h)
  <2>1. phase'[g] = phase[g] /\ connected'[g] = connected[g]
    BY <1>5, Proceeding DEF Timeout
  <2> QED BY <1>1, <1>5, <2>1 DEF Timeout, link, Untouched, SameHost
<1>6. CASE Start(h)
  BY <1>1, <1>6 DEF Start, link, Untouched, SameHost
<1>7. CASE Disconnect(h)
  <2>1. connected'[g] = connected[g]
    BY <1>7, Zenon DEF Disconnect, TypeOK
  <2> QED BY <1>7, <2>1 DEF Disconnect, link, history, Untouched, SameHost
<1>8. CASE Handle(h) \/ HandleRefused(h) \/ HandleFails(h)
  <2>1. UNCHANGED <<host, late>> /\ \E ok \in BOOLEAN : Answer(h, ok)
    BY <1>8 DEF Handle, HandleRefused, HandleFails
  <2> QED BY <1>1, <2>1 DEF Answer, host, Untouched, SameHost
<1>9. CASE DropLine(h)
  BY <1>1, <1>9 DEF DropLine, host, Untouched, SameHost
<1> QED BY <1>2, <1>3, <1>4, <1>5, <1>6, <1>7, <1>8, <1>9 DEF HostStep

LEMMA UntouchedKeepsWay ==
  ASSUME TypeOK, NEW g \in Hosts, WayInv(g), Untouched(g)
  PROVE  WayInv(g)'
<1>1. Shrinks(g) /\ SameHost(g)
  BY DEF Untouched, Shrinks
<1> QED BY <1>1, ShrinkingKeepsWay

\* A sequence without one of its elements, and without its last one.
Without(s, i) == SubSeq(s, 1, i - 1) \o SubSeq(s, i + 1, Len(s))
AllButLast(s) == SubSeq(s, 1, Len(s) - 1)

LEMMA WithoutOne ==
  ASSUME NEW S, NEW s \in Seq(S), NEW i \in 1 .. Len(s)
  PROVE  /\ Len(Without(s, i)) = Len(s) - 1
         /\ DOMAIN Without(s, i) = 1 .. Len(s) - 1
         /\ \A k \in 1 .. Len(s) - 1 :
              Without(s, i)[k] = IF k < i THEN s[k] ELSE s[k + 1]
<1> DEFINE t == Without(s, i)
<1> DEFINE n == Len(s)
<1>1. n \in Nat /\ DOMAIN s = 1 .. n /\ i \in 1 .. n /\ i \in Int /\ n \in Int
  BY LenProperties
<1> DEFINE front == SubSeq(s, 1, i - 1)
           back == SubSeq(s, i + 1, n)
<1> HIDE DEF n
<1>2. \A k \in 1 .. n : s[k] \in S
  BY <1>1, ElementOfSeq DEF n
<1>3. /\ front \in Seq(S) /\ Len(front) = i - 1
      /\ \A k \in 1 .. i - 1 : front[k] = s[k]
  <2>1. \A k \in 1 .. i - 1 : s[k] \in S
    BY <1>1, <1>2
  <2>2. i - 1 \in Int /\ 1 \in Int
    BY <1>1
  <2>3. /\ front \in Seq(S)
        /\ Len(front) = IF 1 <= i - 1 THEN (i - 1) - 1 + 1 ELSE 0
        /\ \A k \in 1 .. (i - 1) - 1 + 1 : front[k] = s[1 + k - 1]
    BY <2>1, <2>2, SubSeqProperties
  <2>4. (i - 1) - 1 + 1 = i - 1 /\ (~(1 <= i - 1) => i - 1 = 0)
    BY <1>1
  <2>5. \A k \in 1 .. i - 1 : 1 + k - 1 = k
    BY <1>1
  <2> HIDE DEF front
  <2> QED BY <2>3, <2>4, <2>5
<1>4. /\ back \in Seq(S) /\ Len(back) = n - i
      /\ \A k \in 1 .. n - i : back[k] = s[k + i]
  <2>1. \A k \in i + 1 .. n : s[k] \in S
    BY <1>1, <1>2
  <2>2. i + 1 \in Int /\ n \in Int
    BY <1>1
  <2>3. /\ back \in Seq(S)
        /\ Len(back) = IF i + 1 <= n THEN n - (i + 1) + 1 ELSE 0
        /\ \A k \in 1 .. n - (i + 1) + 1 : back[k] = s[(i + 1) + k - 1]
    BY <2>1, <2>2, SubSeqProperties
  <2>4. n - (i + 1) + 1 = n - i /\ (~(i + 1 <= n) => n - i = 0)
    BY <1>1
  <2>5. \A k \in 1 .. n - i : (i + 1) + k - 1 = k + i
    BY <1>1
  <2> HIDE DEF back
  <2> QED BY <2>3, <2>4, <2>5
<1>5. t = front \o back
  BY DEF n, Without
<1> HIDE DEF front, back, t
<1>6. /\ t \in Seq(S) /\ Len(t) = (i - 1) + (n - i)
      /\ \A k \in 1 .. (i - 1) + (n - i) :
           t[k] = IF k <= i - 1 THEN front[k] ELSE back[k - (i - 1)]
  <2>1. /\ t \in Seq(S) /\ Len(t) = Len(front) + Len(back)
        /\ \A k \in 1 .. Len(front) + Len(back) :
             t[k] = IF k <= Len(front) THEN front[k] ELSE back[k - Len(front)]
    <3>1. front \in Seq(S) /\ back \in Seq(S)
      BY <1>3, <1>4
    <3> QED BY <3>1, <1>5, ConcatProperties
  <2>2. Len(front) = i - 1 /\ Len(back) = n - i
    BY <1>3, <1>4
  <2> QED BY <2>1, <2>2, Zenon
<1>7. (i - 1) + (n - i) = n - 1
  BY <1>1
<1>8. ASSUME NEW k \in 1 .. n - 1 PROVE t[k] = IF k < i THEN s[k] ELSE s[k + 1]
  <2>1. t[k] = IF k <= i - 1 THEN front[k] ELSE back[k - (i - 1)]
    BY <1>6, <1>7
  <2>2. CASE k < i
    <3>1. k <= i - 1 /\ k \in 1 .. i - 1
      BY <1>1, <2>2
    <3> QED BY <1>3, <2>1, <2>2, <3>1
  <2>3. CASE ~(k < i)
    <3>1. ~(k <= i - 1) /\ k - (i - 1) \in 1 .. n - i /\ k - (i - 1) + i = k + 1
      BY <1>1, <2>3
    <3> QED BY <1>4, <2>1, <2>3, <3>1
  <2> QED BY <2>2, <2>3
<1>9. Len(t) = n - 1
  BY <1>6, <1>7
<1>10. DOMAIN t = 1 .. n - 1
  BY <1>6, <1>9, LenProperties
<1> QED BY <1>8, <1>9, <1>10 DEF n, t

LEMMA WithoutLast ==
  ASSUME NEW S, NEW s \in Seq(S), s # <<>>
  PROVE  /\ Len(AllButLast(s)) = Len(s) - 1
         /\ DOMAIN AllButLast(s) = 1 .. Len(s) - 1
         /\ \A k \in 1 .. Len(s) - 1 : AllButLast(s)[k] = s[k]
<1> DEFINE t == AllButLast(s)
           n == Len(s)
<1>1. n \in Nat \ {0} /\ DOMAIN s = 1 .. n
  BY EmptySeq, LenProperties
<1>2. t = SubSeq(s, 1, n - 1)
  BY DEF AllButLast
<1> HIDE DEF n, t
<1>3. \A k \in 1 .. n - 1 : s[k] \in S
  BY <1>1, ElementOfSeq DEF n
<1>4. 1 \in Int /\ n - 1 \in Int
  BY <1>1
<1>5. /\ t \in Seq(S)
      /\ Len(t) = IF 1 <= n - 1 THEN (n - 1) - 1 + 1 ELSE 0
      /\ \A k \in 1 .. (n - 1) - 1 + 1 : t[k] = s[1 + k - 1]
  BY <1>2, <1>3, <1>4, SubSeqProperties
<1>6. (n - 1) - 1 + 1 = n - 1 /\ (~(1 <= n - 1) => n - 1 = 0)
  BY <1>1
<1>7. \A k \in 1 .. n - 1 : 1 + k - 1 = k
  BY <1>1
<1>8. Len(t) = n - 1
  BY <1>5, <1>6
<1>9. DOMAIN t = 1 .. n - 1
  BY <1>5, <1>8, LenProperties
<1> QED BY <1>5, <1>6, <1>7, <1>8, <1>9 DEF n, t

\* Lines and answers get lost in places that leave the last one the last.
LEMMA LossShrinks ==
  ASSUME TypeOK, NEW h \in Hosts, DropLine(h) \/ Restart \/ PowerLoss
  PROVE  Shrinks(h) /\ SameHost(h)
<1>1. SameHost(h)
  BY DEF DropLine, Restart, PowerLoss, host, SameHost
<1>2. CASE DropLine(h)
  <2> DEFINE n == Len(lines[h])
  <2>1. PICK i \in DOMAIN lines[h] :
          lines' = [lines EXCEPT ![h] = SubSeq(@, 1, i - 1) \o SubSeq(@, i + 1, Len(@))]
    BY <1>2 DEF DropLine
  <2>2. lines'[h] = Without(lines[h], i)
    BY <2>1 DEF TypeOK, Without
  <2>3. n \in Nat /\ DOMAIN lines[h] = 1 .. n /\ i \in 1 .. n
        /\ lines[h] \in Seq(Requests)
    BY <2>1, HostTypes
  <2>4. /\ Len(lines'[h]) = n - 1 /\ DOMAIN lines'[h] = 1 .. n - 1
        /\ \A k \in 1 .. n - 1 :
             lines'[h][k] = IF k < i THEN lines[h][k] ELSE lines[h][k + 1]
    BY <2>2, <2>3, WithoutOne
  <2>5. n = Len(lines[h])
    OBVIOUS
  <2> HIDE DEF n
  <2>6. ASSUME NEW k \in 1 .. n - 1
        PROVE  \E j \in 1 .. n : lines'[h][k] = lines[h][j] /\ (j = n => k = n - 1)
    <3>1. CASE k < i
      <4>1. k \in 1 .. n /\ k # n
        BY <2>3
      <4> QED BY <2>4, <3>1, <4>1
    <3>2. CASE ~(k < i)
      <4>1. k + 1 \in 1 .. n /\ (k + 1 = n => k = n - 1)
        BY <2>3
      <4> QED BY <2>4, <3>2, <4>1
    <3> QED BY <3>1, <3>2
  <2>7. ASSUME NEW k \in DOMAIN lines'[h]
        PROVE  \E j \in DOMAIN lines[h] :
                 /\ lines'[h][k] = lines[h][j]
                 /\ j = Len(lines[h]) => k = Len(lines'[h])
    <3>1. PICK j \in 1 .. n : lines'[h][k] = lines[h][j] /\ (j = n => k = n - 1)
      BY <2>4, <2>6
    <3> QED BY <2>3, <2>4, <2>5, <3>1
  <2>8. lines[h] # <<>> /\ answers' = answers
    BY <1>2, <2>1 DEF DropLine
  <2> QED BY <1>1, <2>7, <2>8 DEF Shrinks
<1>3. CASE Restart
  <2>1. lines'[h] = <<>> /\ answers' = answers
    BY <1>3 DEF Restart
  <2> QED BY <1>1, <2>1 DEF Shrinks
<1>4. CASE PowerLoss
  <2>1. lines'[h] = <<>>
    BY <1>4 DEF PowerLoss
  <2>2. CASE answers'[h] = answers[h]
    BY <1>1, <2>1, <2>2 DEF Shrinks
  <2>3. CASE answers[h] # <<>> /\ answers'[h] = SubSeq(answers[h], 1, Len(answers[h]) - 1)
    <3> DEFINE n == Len(answers[h])
    <3>1. /\ n \in Nat /\ DOMAIN answers[h] = 1 .. n /\ DOMAIN answers'[h] = 1 .. n - 1
          /\ \A k \in DOMAIN answers'[h] : answers'[h][k] = answers[h][k]
      <4>1. answers'[h] = AllButLast(answers[h])
        BY <2>3 DEF AllButLast
      <4> QED BY <2>3, <4>1, HostTypes, WithoutLast
    <3>2. n = Len(answers[h])
      OBVIOUS
    <3> HIDE DEF n
    <3>3. \A k \in 1 .. n - 1 : k \in 1 .. n /\ k # n
      BY <3>1
    <3> QED BY <1>1, <2>1, <3>1, <3>2, <3>3 DEF Shrinks
  <2>4. answers'[h] = answers[h]
        \/ (answers[h] # <<>> /\ answers'[h] = SubSeq(answers[h], 1, Len(answers[h]) - 1))
    BY <1>4, SMTT(20) DEF PowerLoss, TypeOK
  <2> QED BY <2>2, <2>3, <2>4
<1> QED BY <1>2, <1>3, <1>4

LEMMA StepKeepsWay ==
  ASSUME TypeOK, NEW g \in Hosts, WayInv(g), [Next]_vars
  PROVE  WayInv(g)'
<1>1. ASSUME NEW h \in Hosts \ {g},
             \/ HostStep(h) \/ Start(h) \/ Disconnect(h)
             \/ Handle(h) \/ HandleRefused(h) \/ HandleFails(h) \/ DropLine(h)
      PROVE  WayInv(g)'
  BY <1>1, StepElsewhere, UntouchedKeepsWay
<1>2. CASE HostStep(g)
  BY <1>2, SendOneKeepsWay, SendChunksKeepsWay, ConnectKeepsWay, ReadKeepsWay
     DEF HostStep
<1>3. CASE Start(g) \/ Disconnect(g)
  BY <1>3, UserKeepsWay
<1>4. CASE Handle(g) \/ HandleRefused(g) \/ HandleFails(g)
  BY <1>4, HandlingKeepsWay
<1>5. CASE DropLine(g) \/ Restart \/ PowerLoss
  BY <1>5, LossShrinks, ShrinkingKeepsWay
<1>6. CASE Terminated \/ UNCHANGED vars
  <2>1. Untouched(g)
    BY <1>6 DEF Terminated, vars, link, host, history, Untouched, SameHost
  <2> QED BY <2>1, UntouchedKeepsWay
<1> QED BY <1>1, <1>2, <1>3, <1>4, <1>5, <1>6 DEF Next, DeviceStep

LEMMA InitHasWay ==
  ASSUME Init, NEW h \in Hosts
  PROVE  WayInv(h)
<1>1. /\ lines[h] = <<>> /\ answers[h] = <<>> /\ awaited[h] = <<>>
      /\ connected[h] = FALSE /\ phase[h] = "idle" /\ lastId[h] = 0
  BY DEF Init
<1>2. OnWay(h) = {} /\ DOMAIN answers[h] = {}
  BY <1>1 DEF OnWay
<1> QED BY <1>1, <1>2
        DEF WayInv, NumbersInv, AttemptsInv, ClientInv, FitInv, LastInv

\* An answer that can be taken for the awaited one is the awaited one, unless
\* both are pongs or the client already counts as late.
LEMMA WayFits ==
  ASSUME TypeOK, NEW h \in Hosts, WayInv(h), Reading(h), Matches(h), h \notin late
  PROVE  \/ Head(answers[h]).to = Head(awaited[h])
         \/ Head(answers[h]).to.cmd = "ping" /\ Head(awaited[h]).cmd = "ping"
<1>1. /\ Head(awaited[h]) = awaited[h][1] /\ 1 \in DOMAIN awaited[h]
      /\ Head(answers[h]).to \in OnWay(h)
      /\ Head(answers[h]).to.id = awaited[h][1].id
      /\ phase[h] \in Sending
  BY AnswerAtHand DEF WayInv, Matches
<1>2. CASE connected[h]
  BY <1>1, <1>2 DEF WayInv, FitInv
<1>3. CASE ~connected[h]
  <2>1. phase[h] = "ping"
    BY <1>1, <1>3 DEF Sending, WayInv, ClientInv
  <2>2. awaited[h][1].id = 1 /\ awaited[h][1].cmd = "ping"
    BY <2>1 DEF WayInv, ClientInv, Request
  <2> QED BY <1>1, <2>2 DEF WayInv, NumbersInv
<1> QED BY <1>2, <1>3

\* The types and the numbers on the way.
NumbersAndTypes == TypeOK /\ \A h \in Hosts : WayInv(h)

LEMMA NumbersInductive ==
  /\ Init => NumbersAndTypes
  /\ NumbersAndTypes /\ [Next]_vars => NumbersAndTypes'
<1>1. Init => NumbersAndTypes
  BY InitIsTyped, InitHasWay DEF NumbersAndTypes
<1>2. ASSUME NumbersAndTypes, [Next]_vars PROVE NumbersAndTypes'
  BY <1>2, StepKeepsType, StepKeepsWay DEF NumbersAndTypes
<1> QED BY <1>1, <1>2

\* No client but one that has already taken another client's pong for its own
\* takes the answer of one request for the answer of another, for all hosts,
\* files, windows and bounds, however many requests were given up before.
THEOREM AnswersFit == Spec => []AnswersFitRequest
<1>1. NumbersAndTypes => AnswersFitRequest
  BY WayFits DEF NumbersAndTypes, AnswersFitRequest
<1> QED BY <1>1, NumbersInductive, PTL DEF Spec

-----------------------------------------------------------------------------
(***************************************************************************)
(* An update in which nothing goes wrong.  What it awaits is on the way,   *)
(* behind whatever earlier updates have left there; once the answer of its *)
(* first command is read, there is nothing else on the way, and the device *)
(* has exactly what it has been sent.                                      *)
(***************************************************************************)

\* A request awaited alone is on the way, behind everything else.
Coming(h) ==
  IF lines[h] # <<>>
    THEN lines[h][Len(lines[h])] = awaited[h][1]
    ELSE answers[h] # <<>> /\ answers[h][Len(answers[h])].to = awaited[h][1]

\* The requests awaited, and they alone, are on the way, the first ones answered.
Aligned(h) ==
  /\ Len(awaited[h]) = Len(answers[h]) + Len(lines[h])
  /\ \A i \in DOMAIN answers[h] : answers[h][i].to = awaited[h][i]
  /\ \A i \in DOMAIN lines[h] : lines[h][i] = awaited[h][Len(answers[h]) + i]

\* The session of h is open and has n chunks of its file.
Open(h, n) ==
  /\ ota.active
  /\ ota.expected = Size[h]
  /\ ota.written = n
  /\ slots[Target] = [nr \in 1 .. n |-> Piece(h, attempt[h], nr)]

\* What is on the way in an undisturbed update.
CalmWay(h) ==
  /\ phase[h] \notin {"failed", "cleanup"}
  /\ phase[h] \in {"ping", "abort", "begin"} => Coming(h)
  /\ phase[h] \in {"aborted", "begun", "chunk", "end"} => Aligned(h)
  /\ phase[h] = "begin" /\ h = Pc => Aligned(h)

\* What the device has made of it.
CalmDevice(h) ==
  /\ phase[h] = "abort" /\ lines[h] = <<>> => ~ota.active
  /\ phase[h] = "aborted" => ~ota.active
  /\ phase[h] = "begin" /\ lines[h] # <<>> /\ h = Pc => ~ota.active
  /\ phase[h] = "begin" /\ lines[h] = <<>> =>
       IF answers[h][Len(answers[h])].ok THEN Open(h, 0) ELSE h = Phone /\ ota.active
  /\ phase[h] = "begun" => Open(h, sent[h])
  /\ phase[h] = "chunk" =>
       /\ Open(h, sent[h] - Len(lines[h]))
       /\ \A i \in DOMAIN answers[h] : answers[h][i].ok
  /\ phase[h] = "end" /\ lines[h] # <<>> => Open(h, Size[h])
  /\ phase[h] = "end" /\ lines[h] = <<>> =>
       answers[h][1].ok /\ slots[boot] = File(h, attempt[h])

CalmInv(h) == Calm(h) => CalmWay(h) /\ CalmDevice(h)

\* Between a verified update and the restart no session is open.
RestartInv == restarting => ~ota.active

LEMMA StepKeepsRestart ==
  ASSUME RestartInv, [Next]_vars
  PROVE  RestartInv'
<1>1. ASSUME NEW size, NEW piece, ~restarting,
             \/ Begin(size) \/ BeginFails(size)
             \/ Chunk(piece) \/ ChunkFails
             \/ End \/ EndFails \/ Abort
      PROVE  RestartInv'
  <2>1. CASE End
    BY <2>1 DEF End, NoUpdate, RestartInv
  <2>2. CASE ~End
    BY <1>1, <2>2 DEF Begin, BeginFails, Chunk, ChunkFails, EndFails, Abort, RestartInv
  <2> QED BY <2>1, <2>2
<1>2. CASE UNCHANGED device
  BY <1>2 DEF device, RestartInv
<1>3. ASSUME NEW h \in Hosts, Handle(h) \/ HandleRefused(h) \/ HandleFails(h)
      PROVE  RestartInv'
  <2>1. ~restarting
    BY <1>3 DEF Handle, HandleRefused, HandleFails
  <2>2. CASE Handle(h)
    <3>1. \/ UNCHANGED device
          \/ Begin(Size[h]) \/ End \/ Abort
          \/ Chunk(Piece(h, Head(lines[h]).attempt, Head(lines[h]).nr))
      BY <2>2 DEF Handle
    <3> QED BY <1>1, <1>2, <2>1, <3>1
  <2>3. CASE HandleRefused(h)
    BY <1>1, <1>2, <2>1, <2>3 DEF HandleRefused
  <2>4. CASE HandleFails(h)
    BY <1>1, <2>1, <2>4 DEF HandleFails
  <2> QED BY <1>3, <2>2, <2>3, <2>4
<1>4. CASE Restart \/ PowerLoss
  BY <1>4 DEF Restart, PowerLoss, Reboot, RestartInv
<1>5. ASSUME NEW h \in Hosts,
             HostStep(h) \/ Start(h) \/ Disconnect(h) \/ DropLine(h)
      PROVE  RestartInv'
  <2>1. UNCHANGED device
    BY <1>5 DEF HostStep, Start, Disconnect, DropLine, Connect, SendAbort,
                SendBegin, SendChunks, SendEnd, SendCleanup, ReadGood, ReadBad,
                ReadOther, Timeout
  <2> QED BY <2>1, <1>2
<1>6. CASE Terminated \/ UNCHANGED vars
  BY <1>6, <1>2 DEF Terminated, vars
<1> QED BY <1>3, <1>4, <1>5, <1>6 DEF Next, DeviceStep

\* Before its first command an update needs nothing.
LEMMA QuietIsCalm ==
  ASSUME NEW h \in Hosts, phase'[h] \in {"idle", "closed", "connected"}
  PROVE  CalmInv(h)'
BY DEF CalmInv, CalmWay, CalmDevice

LEMMA UntouchedKeepsCalm ==
  ASSUME NEW g \in Hosts, CalmInv(g), Untouched(g), UNCHANGED device,
         Calm(g)' => Calm(g)
  PROVE  CalmInv(g)'
<1>1. Target' = Target
  BY DEF device, Target
<1>2. \A n : Open(g, n)' <=> Open(g, n)
  BY <1>1 DEF Open, Piece, device, Untouched, SameHost
<1>3. (Coming(g)' <=> Coming(g)) /\ (Aligned(g)' <=> Aligned(g))
  BY DEF Coming, Aligned, Untouched, SameHost
<1>4. File(g, attempt[g])' = File(g, attempt[g])
  BY DEF File, Piece, Untouched, SameHost
<1>5. CalmWay(g) => CalmWay(g)'
  BY <1>3 DEF CalmWay, Untouched, SameHost
<1>6. CalmDevice(g) => CalmDevice(g)'
  BY <1>2, <1>4 DEF CalmDevice, Untouched, SameHost, device
<1> QED BY <1>5, <1>6 DEF CalmInv

\* A step elsewhere leaves the device alone or disturbs an update.
LEMMA OthersKeepCalm ==
  ASSUME TypeOK, NEW g \in Hosts, NEW h \in Hosts \ {g}, CalmInv(g),
         \/ HostStep(h) \/ Start(h) \/ Disconnect(h)
         \/ Handle(h) \/ HandleRefused(h) \/ HandleFails(h) \/ DropLine(h)
  PROVE  CalmInv(g)'
<1>1. Untouched(g)
  BY StepElsewhere
<1>2. CASE HostStep(h) \/ Start(h) \/ Disconnect(h) \/ DropLine(h)
  <2>1. UNCHANGED device
    BY <1>2 DEF HostStep, Start, Disconnect, DropLine, Connect, SendAbort,
                SendBegin, SendChunks, SendEnd, SendCleanup, ReadGood, ReadBad,
                ReadOther, Timeout
  <2>2. g \in disturbed => g \in disturbed'
    BY <1>2 DEF HostStep, Start, Disconnect, DropLine, Connect, SendAbort,
                SendBegin, SendChunks, SendEnd, SendCleanup, ReadGood, ReadBad,
                ReadOther, Timeout, Mishap, history, TakeAnswer
  <2> QED BY <1>1, <2>1, <2>2, UntouchedKeepsCalm DEF Calm, Untouched, SameHost
<1>3. CASE Handle(h) \/ HandleRefused(h) \/ HandleFails(h)
  <2>1. g \in disturbed => g \in disturbed'
    BY <1>3 DEF Handle, HandleRefused, HandleFails, Mishap
  <2>2. CASE UNCHANGED device
    BY <1>1, <2>1, <2>2, UntouchedKeepsCalm DEF Calm, Untouched, SameHost
  <2>3. CASE phase[g] = "idle"
    BY <1>1, <2>3, QuietIsCalm DEF Untouched, SameHost
  <2>4. CASE ~(UNCHANGED device) /\ phase[g] # "idle"
    <3>1. g \in Others(h)
      BY <2>4 DEF Others
    <3>2. g \in disturbed'
      <4>1. CASE Handle(h)
        BY <2>4, <3>1, <4>1 DEF Handle
      <4>2. CASE HandleRefused(h) \/ HandleFails(h)
        BY <3>1, <4>2 DEF HandleRefused, HandleFails, Mishap
      <4> QED BY <1>3, <4>1, <4>2
    <3> QED BY <3>2 DEF CalmInv, Calm
  <2> QED BY <2>2, <2>3, <2>4
<1> QED BY <1>2, <1>3

\* The restart of the device finds no open session, and a loss of power
\* disturbs every update.
LEMMA RebootKeepsCalm ==
  ASSUME TypeOK, NEW g \in Hosts, CalmInv(g), RestartInv, Restart \/ PowerLoss
  PROVE  CalmInv(g)'
<1>1. CASE PowerLoss
  <2>1. phase'[g] = phase[g] /\ (phase[g] # "idle" => g \in disturbed')
    BY <1>1 DEF PowerLoss, Mishap, host
  <2>2. CASE phase[g] = "idle"
    BY <2>1, <2>2, QuietIsCalm
  <2>3. CASE phase[g] # "idle"
    BY <2>1, <2>3 DEF CalmInv, Calm
  <2> QED BY <2>2, <2>3
<1>2. CASE Restart
  <2> SUFFICES ASSUME Calm(g)' PROVE CalmWay(g)' /\ CalmDevice(g)'
    BY DEF CalmInv
  <2>1. /\ lines[g] = <<>> /\ lines'[g] = <<>> /\ UNCHANGED <<answers, host, slots, boot>>
        /\ Calm(g) /\ ~ota'.active /\ ~ota.active
    <3>1. g \notin disturbed' /\ g \notin late'
      BY DEF Calm
    <3>2. lines[g] = <<>> /\ Calm(g) /\ lines'[g] = <<>>
      BY <1>2, <3>1 DEF Restart, Calm
    <3>3. ~ota'.active /\ ~ota.active
      BY <1>2 DEF Restart, Reboot, NoUpdate, RestartInv
    <3> QED BY <1>2, <3>2, <3>3 DEF Restart, Reboot
  <2>2. CalmWay(g) /\ CalmDevice(g)
    BY <2>1 DEF CalmInv
  <2>3. CalmWay(g)'
    BY <2>1, <2>2 DEF CalmWay, Coming, Aligned, host
  <2>4. phase[g] \notin {"begin", "begun", "chunk"}
    BY <2>1, <2>2 DEF CalmDevice, Open
  <2>5. File(g, attempt[g])' = File(g, attempt[g])
    BY <2>1 DEF File, Piece, host
  <2>6. CalmDevice(g)'
    BY <2>1, <2>2, <2>4, <2>5 DEF CalmDevice, host
  <2> QED BY <2>3, <2>6
<1> QED BY <1>1, <1>2

\* Nothing awaited and nothing else on the way: nothing on the way.
LEMMA AlignedEmpty ==
  ASSUME TypeOK, NEW h \in Hosts, Aligned(h), phase[h] \notin Sending
  PROVE  lines[h] = <<>> /\ answers[h] = <<>>
<1>1. Len(awaited[h]) = 0
  BY HostTypes
<1>2. Len(lines[h]) = 0 /\ Len(answers[h]) = 0
  <2>1. \A a, l \in Nat : a + l = 0 => l = 0 /\ a = 0
    OBVIOUS
  <2>2. Len(answers[h]) + Len(lines[h]) = 0
    BY <1>1 DEF Aligned
  <2> QED BY <2>1, <2>2, HostTypes
<1> QED BY <1>2, HostTypes, EmptySeq

\* A request sent on an empty way is alone on it.
LEMMA SendOneAligned ==
  ASSUME TypeOK, NEW h \in Hosts, NEW requests \in Seq(Requests),
         Send(h, requests), UNCHANGED answers
  PROVE  /\ lines'[h] = lines[h] \o requests /\ awaited'[h] = requests
         /\ lines[h] = <<>> => lines'[h] = requests
         /\ lines[h] = <<>> /\ answers[h] = <<>> => Aligned(h)'
<1>1. lines'[h] = lines[h] \o requests /\ awaited'[h] = requests
  BY DEF Send, TypeOK
<1>2. lines[h] = <<>> => lines'[h] = requests
  BY <1>1, ConcatEmptySeq
<1>3. ASSUME lines[h] = <<>>, answers[h] = <<>> PROVE Aligned(h)'
  <2>1. Len(requests) \in Nat /\ DOMAIN requests = 1 .. Len(requests)
    BY LenProperties
  <2>2. Len(answers'[h]) = 0 /\ DOMAIN answers'[h] = {}
    BY <1>3
  <2>3. \A i \in DOMAIN requests : 0 + i = i
    BY <2>1
  <2> QED BY <1>1, <1>2, <1>3, <2>1, <2>2, <2>3 DEF Aligned
<1> QED BY <1>1, <1>2, <1>3

LEMMA SendsKeepCalm ==
  ASSUME TypeOK, NEW h \in Hosts, WayInv(h), CalmInv(h),
         SendAbort(h) \/ SendBegin(h) \/ SendEnd(h) \/ SendCleanup(h)
  PROVE  CalmInv(h)'
<1> DEFINE Sends(cmd, p) ==
             /\ phase' = [phase EXCEPT ![h] = p]
             /\ SendOne(h, cmd)
             /\ UNCHANGED <<device, answers, connected, sent, attempt, told,
                            mishaps, history>>
<1> SUFFICES ASSUME Calm(h)' PROVE CalmWay(h)' /\ CalmDevice(h)'
  BY DEF CalmInv
<1>1. UNCHANGED <<device, answers, attempt, sent, history>>
  BY DEF SendAbort, SendBegin, SendEnd, SendCleanup
<1>2. CalmWay(h) /\ CalmDevice(h)
  BY <1>1 DEF CalmInv, Calm, history
<1>3. ASSUME NEW cmd \in Commands, NEW p \in Phases, Sends(cmd, p)
      PROVE  /\ phase'[h] = p /\ lines'[h] # <<>>
             /\ Coming(h)'
             /\ lines[h] = <<>> /\ answers[h] = <<>> => Aligned(h)'
  <2> DEFINE r == Request(lastId[h] + 1, h, cmd, 0)
  <2>1. r \in Requests
    BY RequestType, HostTypes
  <2>2. Send(h, <<r>>) /\ UNCHANGED answers
    BY <1>3 DEF SendOne
  <2> HIDE DEF r
  <2>3. /\ <<r>> \in Seq(Requests) /\ Len(<<r>>) = 1 /\ <<r>>[1] = r
        /\ <<r>> # <<>> /\ DOMAIN <<r>> = 1 .. 1
    BY <2>1
  <2>4. /\ lines'[h] = lines[h] \o <<r>> /\ awaited'[h] = <<r>>
        /\ lines[h] = <<>> /\ answers[h] = <<>> => Aligned(h)'
    BY <2>2, <2>3, SendOneAligned
  <2>5. lines'[h] = Append(lines[h], r)
    BY <2>1, <2>4, HostTypes, AppendIsConcat
  <2>6. lines'[h] # <<>> /\ lines'[h][Len(lines'[h])] = r
    BY <2>1, <2>5, HostTypes, AppendProperties
  <2>7. phase'[h] = p
    BY <1>3 DEF TypeOK
  <2> QED BY <2>3, <2>4, <2>6, <2>7 DEF Coming
<1>4. CASE SendAbort(h)
  <2>1. Sends("abort", "abort")
    BY <1>4 DEF SendAbort
  <2>2. phase'[h] = "abort" /\ lines'[h] # <<>> /\ Coming(h)'
    <3> HIDE DEF Sends
    <3> QED BY <2>1, <1>3 DEF Commands, Phases
  <2> QED BY <2>2 DEF CalmWay, CalmDevice
<1>5. CASE SendBegin(h)
  <2>1. Sends("begin", "begin")
    BY <1>5 DEF SendBegin
  <2>2. /\ phase'[h] = "begin" /\ lines'[h] # <<>> /\ Coming(h)'
        /\ lines[h] = <<>> /\ answers[h] = <<>> => Aligned(h)'
    <3> HIDE DEF Sends
    <3> QED BY <2>1, <1>3 DEF Commands, Phases
  <2>3. CASE h = Pc
    <3>1. phase[h] = "aborted"
      BY <1>5, <2>3 DEF SendBegin
    <3>2. lines[h] = <<>> /\ answers[h] = <<>> /\ ~ota.active
      BY <1>2, <3>1, AlignedEmpty DEF CalmWay, CalmDevice, Sending
    <3> QED BY <1>1, <2>2, <3>2 DEF CalmWay, CalmDevice, device
  <2>4. CASE h # Pc
    BY <2>2, <2>4 DEF CalmWay, CalmDevice
  <2> QED BY <2>3, <2>4
<1>6. CASE SendEnd(h)
  <2>1. Sends("end", "end")
    BY <1>6 DEF SendEnd
  <2>2. /\ phase'[h] = "end" /\ lines'[h] # <<>>
        /\ lines[h] = <<>> /\ answers[h] = <<>> => Aligned(h)'
    <3> HIDE DEF Sends
    <3> QED BY <2>1, <1>3 DEF Commands, Phases
  <2>3. phase[h] = "begun" /\ sent[h] = Size[h]
    BY <1>6 DEF SendEnd
  <2>4. lines[h] = <<>> /\ answers[h] = <<>> /\ Open(h, Size[h])
    BY <1>2, <2>3, AlignedEmpty DEF CalmWay, CalmDevice, Sending
  <2>5. Open(h, Size[h])'
    BY <1>1, <2>4 DEF Open, device, Target, Piece
  <2> QED BY <2>2, <2>4, <2>5 DEF CalmWay, CalmDevice
<1>7. CASE SendCleanup(h)
  BY <1>2, <1>7 DEF SendCleanup, CalmWay
<1> QED BY <1>4, <1>5, <1>6, <1>7

LEMMA SendChunksKeepsCalm ==
  ASSUME TypeOK, NEW h \in Hosts, CalmInv(h), SendChunks(h)
  PROVE  CalmInv(h)'
<1> SUFFICES ASSUME Calm(h)' PROVE CalmWay(h)' /\ CalmDevice(h)'
  BY DEF CalmInv
<1>1. /\ phase[h] = "begun" /\ phase'[h] = "chunk"
      /\ UNCHANGED <<device, answers, attempt, history>>
  BY DEF SendChunks, TypeOK
<1>2. CalmWay(h) /\ CalmDevice(h)
  BY <1>1 DEF CalmInv, Calm, history
<1>3. lines[h] = <<>> /\ answers[h] = <<>> /\ Open(h, sent[h])
  BY <1>1, <1>2, AlignedEmpty DEF CalmWay, CalmDevice, Sending
<1> DEFINE chunks(n) == [i \in 1 .. n |-> Request(lastId[h] + i, h, "chunk", sent[h] + i)]
<1>4. PICK count \in 1 .. Size[h] - sent[h] :
        /\ chunks(count) \in Seq(Requests)
        /\ Send(h, chunks(count))
        /\ sent' = [sent EXCEPT ![h] = @ + count]
  BY ChunksSent
<1>5. Len(chunks(count)) = count /\ count \in Nat
  BY <1>4
<1> HIDE DEF chunks
<1>6. lines'[h] = chunks(count) /\ Aligned(h)'
  BY <1>1, <1>3, <1>4, SendOneAligned
<1>7. sent'[h] - Len(lines'[h]) = sent[h]
  <2>1. sent'[h] = sent[h] + count
    BY <1>4 DEF TypeOK
  <2>2. Len(lines'[h]) = count
    BY <1>5, <1>6
  <2>3. \A a, b, x, y \in Nat : x = a + b /\ y = b => x - y = a
    OBVIOUS
  <2>4. sent'[h] \in Nat /\ Len(lines'[h]) \in Nat /\ sent[h] \in Nat
    BY <1>5, <2>1, <2>2, HostTypes
  <2> QED BY <1>5, <2>1, <2>2, <2>3, <2>4
<1>8. /\ ota'.active /\ ota'.expected = Size[h] /\ ota'.written = sent[h]
      /\ slots'[Target'] = [nr \in 1 .. sent[h] |-> Piece(h, attempt[h], nr)']
  BY <1>1, <1>3 DEF Open, device, Target, Piece
<1>9. DOMAIN answers'[h] = {}
  BY <1>1, <1>3
<1>10. CalmDevice(h)'
  BY <1>1, <1>7, <1>8, <1>9 DEF CalmDevice, Open, Piece
<1> QED BY <1>1, <1>6, <1>10 DEF CalmWay

LEMMA ConnectKeepsCalm ==
  ASSUME TypeOK, NEW h \in Hosts, Connect(h)
  PROVE  CalmInv(h)'
<1> DEFINE ping == Request(1, h, "ping", 0)
<1>1. ping \in Requests
  BY RequestType DEF Commands
<1>2. lines'[h] = Append(lines[h], ping) /\ awaited'[h] = <<ping>> /\ phase'[h] = "ping"
  BY DEF Connect, TypeOK
<1> HIDE DEF ping
<1>3. lines'[h] # <<>> /\ lines'[h][Len(lines'[h])] = ping /\ awaited'[h][1] = ping
  <2>1. <<ping>>[1] = ping
    OBVIOUS
  <2>2. lines[h] \in Seq(Requests)
    BY HostTypes
  <2>3. Append(lines[h], ping) # <<>> /\ Len(Append(lines[h], ping)) = Len(lines[h]) + 1
        /\ Append(lines[h], ping)[Len(lines[h]) + 1] = ping
    BY <1>1, <2>2, AppendProperties
  <2> QED BY <1>2, <2>1, <2>3
<1> QED BY <1>2, <1>3 DEF CalmInv, CalmWay, CalmDevice, Coming

\* The answer of an undisturbed update that is at hand and matches: in the
\* phases of one request it is the only one left.
LEMMA CalmAnswer ==
  ASSUME TypeOK, NEW h \in Hosts, WayInv(h), Reading(h), Matches(h), h \notin late,
         phase[h] \in {"abort", "begin"}
  PROVE  /\ answers[h][1].to = awaited[h][1] /\ Head(answers[h]) = answers[h][1]
         /\ Len(answers[h]) = 1 /\ lines[h] = <<>> /\ Len(awaited[h]) = 1
<1>1. /\ Head(awaited[h]) = awaited[h][1] /\ Head(answers[h]) = answers[h][1]
      /\ 1 \in DOMAIN answers[h]
  BY AnswerAtHand DEF WayInv
<1>2. awaited[h][1].cmd = phase[h] /\ Len(awaited[h]) = 1
  BY DEF WayInv, ClientInv
<1>3. answers[h][1].to = awaited[h][1]
  BY <1>1, <1>2, WayFits
<1>4. 1 = Len(answers[h]) /\ lines[h] = <<>>
  BY <1>1, <1>3 DEF WayInv, LastInv
<1> QED BY <1>1, <1>2, <1>3, <1>4

\* Where everything on the way is awaited, the answer at hand matches.
LEMMA AlignedMatches ==
  ASSUME TypeOK, NEW h \in Hosts, NumbersInv(h), Reading(h), Aligned(h)
  PROVE  Matches(h) /\ Head(answers[h]) = answers[h][1] /\ 1 \in DOMAIN answers[h]
BY AnswerAtHand DEF Aligned, Matches

\* Taking the one answer that was on the way leaves nothing there.
LEMMA AlignedAfterLast ==
  ASSUME TypeOK, NEW h \in Hosts, lines[h] = <<>>, Len(answers[h]) = 1,
         answers[h] # <<>>, TakeAnswer(h), UNCHANGED lines, Len(awaited'[h]) = 0
  PROVE  Aligned(h)' /\ lines'[h] = <<>>
<1>1. PICK d \in 1 .. Len(answers[h]) :
        /\ Len(answers'[h]) = Len(answers[h]) - d
        /\ DOMAIN answers'[h] = 1 .. Len(answers[h]) - d
  BY TakenAnswers
<1>2. Len(answers'[h]) = 0 /\ DOMAIN answers'[h] = {}
  BY <1>1
<1>3. lines'[h] = <<>> /\ Len(lines'[h]) = 0 /\ DOMAIN lines'[h] = {}
  OBVIOUS
<1> QED BY <1>2, <1>3 DEF Aligned

\* Taking the first of several aligned answers keeps the rest aligned.
LEMMA AlignedAfterOne ==
  ASSUME TypeOK, NEW h \in Hosts, Aligned(h), awaited[h] # <<>>,
         answers[h] # <<>>, TakeAnswer(h), h \notin disturbed', UNCHANGED lines,
         awaited'[h] = Tail(awaited[h])
  PROVE  /\ Aligned(h)'
         /\ \A i \in DOMAIN answers'[h] :
              i + 1 \in DOMAIN answers[h] /\ answers'[h][i] = answers[h][i + 1]
<1> DEFINE a == Len(answers[h])
           l == Len(lines[h])
           w == Len(awaited[h])
<1>1. /\ Len(answers'[h]) = a - 1 /\ DOMAIN answers'[h] = 1 .. a - 1
      /\ \A i \in DOMAIN answers'[h] : answers'[h][i] = answers[h][i + 1]
  BY TakenAnswers
<1>2. /\ Len(awaited'[h]) = w - 1 /\ DOMAIN awaited'[h] = 1 .. w - 1
      /\ \A i \in DOMAIN awaited'[h] : awaited'[h][i] = awaited[h][i + 1]
  BY HostTypes, TailElements
<1>3. /\ a \in Nat \ {0} /\ l \in Nat /\ w \in Nat \ {0} /\ w = a + l
      /\ DOMAIN answers[h] = 1 .. a /\ DOMAIN lines[h] = 1 .. l
  BY HostTypes, EmptySeq DEF Aligned
<1>4. /\ \A i \in 1 .. a : answers[h][i].to = awaited[h][i]
      /\ \A i \in 1 .. l : lines[h][i] = awaited[h][a + i]
  BY <1>3 DEF Aligned
<1>5. lines'[h] = lines[h] /\ Len(lines'[h]) = l
  OBVIOUS
<1> HIDE DEF a, l, w
<1>6. Len(awaited'[h]) = Len(answers'[h]) + Len(lines'[h])
  <2>1. w - 1 = (a - 1) + l
    BY <1>3
  <2> QED BY <1>1, <1>2, <1>5, <2>1, Zenon
<1>7. ASSUME NEW i \in 1 .. a - 1
      PROVE  answers'[h][i].to = awaited'[h][i] /\ i + 1 \in 1 .. a
  <2>1. i \in 1 .. w - 1 /\ i + 1 \in 1 .. a
    BY <1>3
  <2> QED BY <1>1, <1>2, <1>4, <2>1
<1>8. ASSUME NEW i \in 1 .. l
      PROVE  lines'[h][i] = awaited'[h][Len(answers'[h]) + i]
  <2>1. (a - 1) + i \in 1 .. w - 1 /\ ((a - 1) + i) + 1 = a + i
    BY <1>3
  <2>2. awaited'[h][(a - 1) + i] = awaited[h][a + i]
    BY <1>2, <2>1
  <2> QED BY <1>1, <1>4, <1>5, <2>2
<1> QED BY <1>1, <1>3, <1>5, <1>6, <1>7, <1>8 DEF Aligned

LEMMA ReadGoodKeepsCalm ==
  ASSUME TypeOK, NEW h \in Hosts, WayInv(h), CalmInv(h), ReadGood(h)
  PROVE  CalmInv(h)'
<1> SUFFICES ASSUME Calm(h)' PROVE CalmWay(h)' /\ CalmDevice(h)'
  BY DEF CalmInv
<1>1. /\ Reading(h) /\ Matches(h) /\ TakeAnswer(h) /\ Head(answers[h]).ok
      /\ awaited[h] # <<>> /\ answers[h] # <<>>
      /\ UNCHANGED <<device, lines, sent, attempt>>
      /\ awaited'[h] = Tail(awaited[h])
  BY DEF ReadGood, Reading, TypeOK
<1>2. h \notin disturbed' /\ h \notin disturbed /\ h \notin late
  BY <1>1, TakenAnswers DEF Calm, ReadGood
<1>3. CalmWay(h) /\ CalmDevice(h)
  BY <1>2 DEF CalmInv, Calm
<1>4. phase[h] \in Sending /\ NumbersInv(h)
  BY <1>1, HostTypes DEF WayInv
<1>5. \A n : Open(h, n) =>
        /\ ota'.active /\ ota'.expected = Size[h] /\ ota'.written = n
        /\ slots'[Target'] = [nr \in 1 .. n |-> Piece(h, attempt[h], nr)]
  BY <1>1 DEF Open, device, Target
<1>6. phase[h] \notin {"failed", "cleanup"}
  BY <1>3 DEF CalmWay
<1>7. CASE Len(awaited[h]) > 1
  <2>1. phase'[h] = phase[h]
    BY <1>7 DEF ReadGood
  <2>2. phase[h] = "chunk"
    <3>1. phase[h] \in {"ping", "abort", "begin", "end"} => Len(awaited[h]) = 1
      BY DEF WayInv, ClientInv
    <3>2. \A n \in Nat : n > 1 => n # 1
      OBVIOUS
    <3>3. phase[h] \notin {"ping", "abort", "begin", "end"}
      BY <1>7, <3>1, <3>2, HostTypes
    <3> QED BY <1>4, <1>6, <3>3 DEF Sending
  <2>3. Aligned(h) /\ Open(h, sent[h] - Len(lines[h]))
        /\ \A i \in DOMAIN answers[h] : answers[h][i].ok
    BY <1>3, <2>2 DEF CalmWay, CalmDevice
  <2>4. /\ Aligned(h)'
        /\ \A i \in DOMAIN answers'[h] :
             i + 1 \in DOMAIN answers[h] /\ answers'[h][i] = answers[h][i + 1]
    BY <1>1, <1>2, <2>3, AlignedAfterOne
  <2>5. \A i \in DOMAIN answers'[h] : answers'[h][i].ok
    BY <2>3, <2>4
  <2>6. Open(h, sent[h] - Len(lines[h]))'
    BY <1>1, <1>5, <2>3 DEF Open, Piece
  <2> QED BY <2>1, <2>2, <2>4, <2>5, <2>6 DEF CalmWay, CalmDevice
<1>8. CASE ~(Len(awaited[h]) > 1)
  <2>1. phase'[h] = After(phase[h])
    BY <1>8, Proceeding DEF ReadGood
  <2>2. Len(awaited[h]) = 1 /\ Len(awaited'[h]) = 0
    <3>1. Len(awaited[h]) \in Nat \ {0} /\ Len(Tail(awaited[h])) = Len(awaited[h]) - 1
      BY <1>1, HostTypes, TailElements
    <3>2. \A n \in Nat \ {0} : ~(n > 1) => n = 1 /\ n - 1 = 0
      OBVIOUS
    <3> QED BY <1>1, <1>8, <3>1, <3>2
  <2>3. CASE phase[h] \in {"ping", "end"}
    <3>1. phase'[h] \in {"connected", "idle"}
      BY <2>1, <2>3 DEF After
    <3> QED BY <3>1 DEF CalmWay, CalmDevice
  <2>4. CASE phase[h] \in {"abort", "begin"}
    <3>1. Head(answers[h]) = answers[h][1] /\ Len(answers[h]) = 1 /\ lines[h] = <<>>
      BY <1>1, <1>2, <2>4, CalmAnswer
    <3>2. Aligned(h)' /\ lines'[h] = <<>>
      BY <1>1, <2>2, <3>1, AlignedAfterLast
    <3>3. CASE phase[h] = "abort"
      <4>1. phase'[h] = "aborted" /\ ~ota.active
        BY <1>3, <2>1, <3>1, <3>3 DEF After, CalmDevice
      <4> QED BY <1>1, <3>2, <4>1 DEF CalmWay, CalmDevice, device
    <3>4. CASE phase[h] = "begin"
      <4>1. phase'[h] = "begun"
        BY <2>1, <3>4 DEF After
      <4>2. answers[h][Len(answers[h])].ok
        BY <1>1, <3>1
      <4>3. Open(h, 0) /\ sent[h] = 0
        BY <1>3, <3>1, <3>4, <4>2 DEF CalmDevice, WayInv, ClientInv
      <4>4. Open(h, sent[h])
        BY <4>3
      <4>5. Open(h, sent[h])'
        BY <1>1, <1>5, <4>4 DEF Open, Piece
      <4> QED BY <3>2, <4>1, <4>5 DEF CalmWay, CalmDevice
    <3> QED BY <2>4, <3>3, <3>4
  <2>5. CASE phase[h] = "chunk"
    <3>1. phase'[h] = "begun"
      BY <2>1, <2>5 DEF After
    <3>2. Aligned(h) /\ Open(h, sent[h] - Len(lines[h]))
      BY <1>3, <2>5 DEF CalmWay, CalmDevice
    <3>3. lines[h] = <<>> /\ Len(answers[h]) = 1
      <4>1. Len(answers[h]) \in Nat \ {0} /\ Len(lines[h]) \in Nat
        BY <1>1, HostTypes, EmptySeq
      <4>2. \A a \in Nat \ {0}, l \in Nat, w \in Nat : w = a + l /\ w = 1 => l = 0 /\ a = 1
        OBVIOUS
      <4>3. Len(awaited[h]) = Len(answers[h]) + Len(lines[h])
        BY <3>2 DEF Aligned
      <4>4. Len(lines[h]) = 0 /\ Len(answers[h]) = 1
        BY <2>2, <4>1, <4>2, <4>3, HostTypes
      <4> QED BY <4>4, HostTypes, EmptySeq
    <3>4. Aligned(h)' /\ lines'[h] = <<>>
      BY <1>1, <2>2, <3>3, AlignedAfterLast
    <3>5. sent[h] - Len(lines[h]) = sent[h]
      <4>1. \A n \in Nat : n - 0 = n
        OBVIOUS
      <4>2. Len(lines[h]) = 0
        BY <3>3
      <4> QED BY <4>1, <4>2, HostTypes
    <3>6. Open(h, sent[h])'
      BY <1>1, <1>5, <3>2, <3>5 DEF Open, Piece
    <3> QED BY <3>1, <3>4, <3>6 DEF CalmWay, CalmDevice
  <2> QED BY <1>4, <1>6, <2>3, <2>4, <2>5 DEF Sending
<1> QED BY <1>7, <1>8

\* A calm update is refused nothing but a begin, and no answer in it is taken
\* for another's.
LEMMA CalmRefusal ==
  ASSUME TypeOK, NEW h \in Hosts, WayInv(h), CalmInv(h), ReadBad(h), Calm(h)
  PROVE  phase[h] = "begin" /\ h = Phone /\ ota.active
<1>1. /\ Reading(h) /\ Matches(h) /\ ~Head(answers[h]).ok
      /\ answers[h] # <<>> /\ awaited[h] # <<>>
  BY DEF ReadBad, Reading
<1>2. CalmWay(h) /\ CalmDevice(h) /\ h \notin late
  BY DEF CalmInv, Calm
<1>3. /\ phase[h] \in Sending /\ NumbersInv(h)
      /\ Head(answers[h]) = answers[h][1] /\ 1 \in DOMAIN answers[h]
      /\ Head(awaited[h]) = awaited[h][1]
  BY <1>1, AnswerAtHand DEF WayInv
<1>4. phase[h] # "ping"
  <2> SUFFICES ASSUME phase[h] = "ping" PROVE FALSE
    OBVIOUS
  <2>1. awaited[h][1].cmd = "ping"
    BY DEF WayInv, ClientInv
  <2>2. answers[h][1].to.cmd = "ping"
    BY <1>1, <1>2, <1>3, <2>1, WayFits
  <2> QED BY <1>1, <1>3, <2>2 DEF NumbersInv
<1>5. phase[h] # "abort"
  <2> SUFFICES ASSUME phase[h] = "abort" PROVE FALSE
    OBVIOUS
  <2>1. awaited[h][1].cmd = "abort"
    BY DEF WayInv, ClientInv
  <2>2. answers[h][1].to.cmd = "abort"
    BY <1>1, <1>2, <1>3, <2>1, CalmAnswer
  <2> QED BY <1>1, <1>3, <2>2 DEF NumbersInv
<1>6. phase[h] # "chunk"
  BY <1>1, <1>2, <1>3 DEF CalmDevice
<1>7. phase[h] # "end"
  <2> SUFFICES ASSUME phase[h] = "end" PROVE FALSE
    OBVIOUS
  <2>1. Len(awaited[h]) = 1 /\ Len(awaited[h]) = Len(answers[h]) + Len(lines[h])
    BY <1>2 DEF WayInv, ClientInv, CalmWay, Aligned
  <2>2. \A a \in Nat \ {0}, l \in Nat, w \in Nat : w = a + l /\ w = 1 => l = 0
    OBVIOUS
  <2>3. Len(answers[h]) \in Nat \ {0} /\ Len(lines[h]) \in Nat /\ Len(awaited[h]) \in Nat
    BY <1>1, HostTypes, EmptySeq
  <2>4. lines[h] = <<>>
    <3>1. Len(lines[h]) = 0
      BY <2>1, <2>2, <2>3
    <3> QED BY <3>1, HostTypes, EmptySeq
  <2> QED BY <1>1, <1>2, <1>3, <2>4 DEF CalmDevice
<1>8. phase[h] = "begin"
  BY <1>2, <1>3, <1>4, <1>5, <1>6, <1>7 DEF Sending, CalmWay
<1>9. Len(answers[h]) = 1 /\ lines[h] = <<>>
  BY <1>1, <1>2, <1>8, CalmAnswer
<1>10. ~answers[h][Len(answers[h])].ok
  BY <1>1, <1>3, <1>9
<1> QED BY <1>2, <1>8, <1>9, <1>10 DEF CalmDevice

LEMMA ReadBadKeepsCalm ==
  ASSUME TypeOK, NEW h \in Hosts, WayInv(h), CalmInv(h), ReadBad(h)
  PROVE  CalmInv(h)'
<1>1. CASE Calm(h)
  <2>1. phase[h] = "begin"
    BY <1>1, CalmRefusal
  <2>2. phase'[h] = "idle"
    BY <2>1, Proceeding DEF ReadBad, AfterFailure
  <2> QED BY <2>2, QuietIsCalm
<1>2. CASE ~Calm(h)
  <2>1. answers[h] # <<>> /\ TakeAnswer(h) /\ UNCHANGED late
    BY DEF ReadBad, Reading
  <2> QED BY <1>2, <2>1, TakenAnswers DEF CalmInv, Calm
<1> QED BY <1>1, <1>2

\* A late answer of an earlier request is in front of what is awaited.
LEMMA ReadOtherKeepsCalm ==
  ASSUME TypeOK, NEW h \in Hosts, WayInv(h), CalmInv(h), ReadOther(h)
  PROVE  CalmInv(h)'
<1> SUFFICES ASSUME Calm(h)' PROVE CalmWay(h)' /\ CalmDevice(h)'
  BY DEF CalmInv
<1>1. /\ Reading(h) /\ ~Matches(h) /\ TakeAnswer(h) /\ answers[h] # <<>>
      /\ UNCHANGED <<device, lines, host, late>>
  BY DEF ReadOther, Reading
<1>2. h \notin disturbed' /\ Calm(h)
  BY <1>1, TakenAnswers DEF Calm
<1>3. CalmWay(h) /\ CalmDevice(h) /\ h \notin late
  BY <1>2 DEF CalmInv, Calm
<1>4. phase[h] \in Sending /\ NumbersInv(h) /\ 1 \in DOMAIN answers[h]
      /\ Head(answers[h]) = answers[h][1] /\ Head(awaited[h]) = awaited[h][1]
      /\ Head(answers[h]).id = Head(answers[h]).to.id
  BY <1>1, AnswerAtHand DEF WayInv
<1>5. ~Aligned(h)
  BY <1>1, <1>4, AlignedMatches
<1>6. phase[h] \in {"ping", "abort", "begin"} /\ (phase[h] = "begin" => h # Pc)
  BY <1>3, <1>4, <1>5 DEF CalmWay, Sending
<1>7. /\ Len(answers'[h]) = Len(answers[h]) - 1
      /\ DOMAIN answers'[h] = 1 .. Len(answers[h]) - 1
      /\ \A i \in DOMAIN answers'[h] : answers'[h][i] = answers[h][i + 1]
  BY <1>1, <1>2, TakenAnswers
<1>8. Coming(h)
  BY <1>3, <1>6 DEF CalmWay
<1>9. CASE lines[h] # <<>>
  <2>1. Coming(h)'
    BY <1>1, <1>8, <1>9 DEF Coming, host
  <2> QED BY <1>1, <1>6, <1>9, <2>1 DEF CalmWay, CalmDevice, host
<1>10. CASE lines[h] = <<>>
  <2>1. answers[h][Len(answers[h])].to = awaited[h][1]
    BY <1>8, <1>10 DEF Coming
  <2>2. Len(answers[h]) # 1
    <3> SUFFICES ASSUME Len(answers[h]) = 1 PROVE FALSE
      OBVIOUS
    <3>1. answers[h][1].to = awaited[h][1]
      BY <2>1
    <3> QED BY <1>1, <1>4, <3>1 DEF Matches
  <2>3. Len(answers[h]) \in Nat \ {0}
    BY <1>1, HostTypes, EmptySeq
  <2>4. \A n \in Nat \ {0} : n # 1 => n - 1 \in 1 .. n - 1 /\ (n - 1) + 1 = n
    OBVIOUS
  <2>5. Len(answers'[h]) \in DOMAIN answers'[h]
        /\ answers'[h][Len(answers'[h])] = answers[h][Len(answers[h])]
    BY <1>7, <2>2, <2>3, <2>4
  <2>6. answers'[h] # <<>>
    BY <2>5
  <2>7. Coming(h)'
    BY <1>1, <1>10, <2>1, <2>5, <2>6 DEF Coming, host
  <2>8. \A n : Open(h, n)' <=> Open(h, n)
    BY <1>1 DEF Open, device, host, Target, Piece
  <2>9. CalmDevice(h)'
    BY <1>1, <1>3, <1>6, <2>5, <2>8 DEF CalmDevice, device, host
  <2> QED BY <1>1, <1>6, <2>7, <2>9 DEF CalmWay, host
<1> QED BY <1>9, <1>10

\* What a calm update waits for is under way, so a timeout is a mishap.
LEMMA CalmTimeout ==
  ASSUME TypeOK, NEW h \in Hosts, CalmInv(h), Timeout(h)
  PROVE  ~Calm(h)'
<1> SUFFICES ASSUME Calm(h)' PROVE FALSE
  OBVIOUS
<1>1. lines[h] = <<>> /\ answers[h] = <<>> /\ Calm(h) /\ awaited[h] # <<>>
  BY DEF Timeout, Mishap, Calm
<1>2. CalmWay(h) /\ phase[h] \in Sending
  BY <1>1, HostTypes DEF CalmInv
<1>3. ~Coming(h)
  BY <1>1 DEF Coming
<1>4. ~Aligned(h)
  <2>1. Len(answers[h]) = 0 /\ Len(lines[h]) = 0
    BY <1>1
  <2>2. Len(awaited[h]) \in Nat \ {0}
    BY <1>1, HostTypes, EmptySeq
  <2>3. 0 + 0 = 0
    OBVIOUS
  <2>4. Len(awaited[h]) # Len(answers[h]) + Len(lines[h])
    BY <2>1, <2>2, <2>3
  <2> QED BY <2>4 DEF Aligned
<1> QED BY <1>2, <1>3, <1>4 DEF CalmWay, Sending

\* Answering a line keeps what is awaited on the way, and in line.
LEMMA ComingAnswered ==
  ASSUME TypeOK, NEW h \in Hosts, lines[h] # <<>>, NEW ok \in BOOLEAN, Answer(h, ok),
         awaited'[h] = awaited[h], Coming(h)
  PROVE  /\ Coming(h)'
         /\ lines'[h] = <<>> =>
              /\ Head(lines[h]) = awaited[h][1]
              /\ answers'[h][Len(answers'[h])].ok = ok
<1> DEFINE n == Len(lines[h])
           m == Len(answers[h])
           a == answers'[h][m + 1]
<1>1. /\ Head(lines[h]) = lines[h][1] /\ Len(lines'[h]) = n - 1
      /\ DOMAIN lines'[h] = 1 .. n - 1
      /\ \A i \in DOMAIN lines'[h] : lines'[h][i] = lines[h][i + 1]
      /\ lines'[h] = <<>> <=> n = 1
      /\ Len(answers'[h]) = m + 1 /\ DOMAIN answers'[h] = 1 .. m + 1
      /\ a.to = Head(lines[h]) /\ a.ok = ok
  BY AnsweredLine
<1>2. n \in Nat \ {0} /\ m \in Nat
  BY HostTypes, EmptySeq
<1>3. lines[h][n] = awaited[h][1]
  BY DEF Coming
<1>4. answers'[h][Len(answers'[h])] = a
  BY <1>1
<1> HIDE DEF n, m, a
<1>5. CASE n = 1
  <2>1. lines'[h] = <<>> /\ Head(lines[h]) = awaited[h][1]
    BY <1>1, <1>3, <1>5
  <2>2. m + 1 \in DOMAIN answers'[h]
    BY <1>1, <1>2
  <2>3. answers'[h] # <<>>
    BY <2>2
  <2> QED BY <1>1, <1>4, <2>1, <2>3 DEF Coming
<1>6. CASE n # 1
  <2>1. n - 1 \in 1 .. n - 1 /\ (n - 1) + 1 = n
    BY <1>2, <1>6
  <2>2. lines'[h][n - 1] = lines[h][n]
    BY <1>1, <2>1
  <2> QED BY <1>1, <1>3, <1>6, <2>2 DEF Coming
<1> QED BY <1>5, <1>6

LEMMA AlignedAnswered ==
  ASSUME TypeOK, NEW h \in Hosts, lines[h] # <<>>, NEW ok \in BOOLEAN, Answer(h, ok),
         awaited'[h] = awaited[h], Aligned(h)
  PROVE  /\ Aligned(h)'
         /\ Head(lines[h]) = awaited[h][Len(answers[h]) + 1]
         /\ Len(answers[h]) + 1 \in DOMAIN awaited[h]
         /\ Len(lines[h]) \in Nat \ {0}
         /\ Len(awaited[h]) = Len(answers[h]) + Len(lines[h])
<1> DEFINE n == Len(lines[h])
           m == Len(answers[h])
           w == Len(awaited[h])
           a == answers'[h][m + 1]
<1>1. /\ Head(lines[h]) = lines[h][1] /\ Len(lines'[h]) = n - 1
      /\ DOMAIN lines'[h] = 1 .. n - 1
      /\ \A i \in DOMAIN lines'[h] : lines'[h][i] = lines[h][i + 1]
      /\ Len(answers'[h]) = m + 1 /\ DOMAIN answers'[h] = 1 .. m + 1
      /\ \A i \in DOMAIN answers[h] : answers'[h][i] = answers[h][i]
      /\ \A i \in DOMAIN answers'[h] : i \in DOMAIN answers[h] \/ i = m + 1
      /\ a.to = Head(lines[h])
  BY AnsweredLine
<1>2. /\ n \in Nat \ {0} /\ m \in Nat /\ w = m + n
      /\ DOMAIN lines[h] = 1 .. n /\ DOMAIN awaited[h] = 1 .. w
  BY HostTypes, EmptySeq DEF Aligned
<1>3. /\ \A i \in DOMAIN answers[h] : answers[h][i].to = awaited[h][i]
      /\ \A i \in 1 .. n : lines[h][i] = awaited[h][m + i]
  BY <1>2 DEF Aligned
<1>4. answers'[h][m + 1] = a
  OBVIOUS
<1> HIDE DEF n, m, w, a
<1>5. Head(lines[h]) = awaited[h][m + 1] /\ m + 1 \in DOMAIN awaited[h]
  <2>1. 1 \in 1 .. n /\ m + 1 \in 1 .. w
    BY <1>2
  <2> QED BY <1>1, <1>2, <1>3, <2>1
<1>6. w = Len(answers'[h]) + Len(lines'[h])
  <2>1. w = (m + 1) + (n - 1)
    BY <1>2
  <2> QED BY <1>1, <2>1, Zenon
<1>7. \A i \in DOMAIN answers'[h] : answers'[h][i].to = awaited[h][i]
  BY <1>1, <1>3, <1>4, <1>5
<1>8. ASSUME NEW i \in 1 .. n - 1
      PROVE  lines'[h][i] = awaited[h][Len(answers'[h]) + i]
  <2>1. i + 1 \in 1 .. n /\ m + (i + 1) = (m + 1) + i
    BY <1>2
  <2> QED BY <1>1, <1>3, <2>1
<1>9. Aligned(h)'
  BY <1>1, <1>6, <1>7, <1>8 DEF Aligned, w
<1> QED BY <1>2, <1>5, <1>9 DEF n, m, w

\* Where a command of a calm update stands when the device comes to it.
LEMMA CalmLine ==
  ASSUME TypeOK, NEW h \in Hosts, WayInv(h), CalmInv(h), Calm(h), lines[h] # <<>>,
         NEW ok \in BOOLEAN, Answer(h, ok), UNCHANGED host,
         phase[h] \in Sending
  PROVE  /\ CalmWay(h)'
         /\ phase[h] \in {"abort", "begin"} /\ lines'[h] = <<>> =>
              /\ Head(lines[h]).cmd = phase[h]
              /\ answers'[h][Len(answers'[h])].ok = ok
         /\ phase[h] = "begin" /\ h = Pc => lines'[h] = <<>>
         /\ phase[h] = "chunk" =>
              /\ Head(lines[h]).cmd = "chunk"
              /\ Head(lines[h]).attempt = attempt[h]
              /\ Head(lines[h]).nr = (sent[h] - Len(lines[h])) + 1
              /\ Len(lines[h]) \in 1 .. sent[h]
              /\ sent[h] - Len(lines'[h]) = (sent[h] - Len(lines[h])) + 1
         /\ phase[h] = "end" =>
              /\ Head(lines[h]).cmd = "end" /\ lines'[h] = <<>>
              /\ answers'[h][1].ok = ok
<1> DEFINE n == Len(lines[h])
           m == Len(answers[h])
           w == Len(awaited[h])
<1>1. CalmWay(h)
  BY DEF CalmInv
<1>2. awaited'[h] = awaited[h] /\ phase' = phase
  BY DEF host
<1>3. Coming(h) => Coming(h)'
  BY <1>2, ComingAnswered
<1>4. /\ Aligned(h) => Aligned(h)'
      /\ Aligned(h) => /\ Head(lines[h]) = awaited[h][m + 1] /\ m + 1 \in 1 .. w
                       /\ w = m + n
  BY <1>2, AlignedAnswered, HostTypes
<1>5. n \in Nat \ {0} /\ m \in Nat /\ w \in Nat
  BY HostTypes, EmptySeq
<1>6. Len(lines'[h]) = n - 1 /\ (lines'[h] = <<>> <=> n = 1)
      /\ answers'[h][m + 1].ok = ok
  BY AnsweredLine
<1>7. CalmWay(h)'
  BY <1>1, <1>2, <1>3, <1>4 DEF CalmWay
<1>8. phase[h] \in {"abort", "begin", "end"} => w = 1 /\ awaited[h][1].cmd = phase[h]
  BY DEF WayInv, ClientInv
<1>9. ASSUME phase[h] \in {"abort", "begin"}, lines'[h] = <<>>
      PROVE  Head(lines[h]).cmd = phase[h] /\ answers'[h][Len(answers'[h])].ok = ok
  <2>1. Coming(h)
    BY <1>1, <1>9 DEF CalmWay
  <2> QED BY <1>2, <1>8, <1>9, <2>1, ComingAnswered
<1>10. ASSUME phase[h] = "chunk"
       PROVE  /\ Head(lines[h]).cmd = "chunk"
              /\ Head(lines[h]).attempt = attempt[h]
              /\ Head(lines[h]).nr = (sent[h] - n) + 1
              /\ n \in 1 .. sent[h]
              /\ sent[h] - Len(lines'[h]) = (sent[h] - n) + 1
  <2>1. Head(lines[h]) = awaited[h][m + 1] /\ m + 1 \in DOMAIN awaited[h] /\ w = m + n
    BY <1>1, <1>4, <1>10, HostTypes DEF CalmWay
  <2>2. /\ \A i \in DOMAIN awaited[h] :
             /\ awaited[h][i].cmd = "chunk"
             /\ awaited[h][i].attempt = attempt[h]
             /\ awaited[h][i].nr = sent[h] - w + i
    BY <1>10 DEF WayInv, ClientInv
  <2>3. sent[h] \in Nat /\ sent[h] - n \in Nat
    <3>1. ota.written \in Nat
      BY DEF TypeOK
    <3>2. ota.written = sent[h] - n
      BY <1>10 DEF CalmInv, CalmDevice, Open
    <3> QED BY <3>1, <3>2, HostTypes
  <2> HIDE DEF n, m, w
  <2>4. sent[h] - w + (m + 1) = (sent[h] - n) + 1
    BY <1>5, <2>1, <2>3
  <2>5. sent[h] - (n - 1) = (sent[h] - n) + 1
    BY <1>5, <2>3
  <2>6. n \in 1 .. sent[h]
    BY <1>5, <2>3
  <2> QED BY <1>5, <1>6, <2>1, <2>2, <2>4, <2>5, <2>6
<1>11. ASSUME phase[h] = "end"
       PROVE  Head(lines[h]).cmd = "end" /\ lines'[h] = <<>> /\ answers'[h][1].ok = ok
  <2>1. Aligned(h)
    BY <1>1, <1>11 DEF CalmWay
  <2>2. w = 1 /\ w = m + n
    BY <1>4, <1>8, <1>11, <2>1
  <2> HIDE DEF n, m, w
  <2>3. n = 1 /\ m = 0
    BY <1>5, <2>2
  <2>4. Head(lines[h]) = awaited[h][1] /\ m + 1 = 1
    BY <1>4, <2>1, <2>3
  <2> QED BY <1>6, <1>8, <1>11, <2>3, <2>4
<1>12. ASSUME phase[h] = "begin", h = Pc
       PROVE  lines'[h] = <<>>
  <2>1. w = 1 /\ w = m + n
    BY <1>1, <1>4, <1>8, <1>12 DEF CalmWay
  <2> HIDE DEF n, m, w
  <2>2. n = 1
    BY <1>5, <2>1
  <2> QED BY <1>6, <2>2
<1> QED BY <1>7, <1>9, <1>10, <1>11, <1>12

\* The file of a chunk more.
LEMMA PiecesAppend ==
  ASSUME NEW h, NEW k, NEW n \in Nat
  PROVE  Append([nr \in 1 .. n |-> Piece(h, k, nr)], Piece(h, k, n + 1))
           = [nr \in 1 .. n + 1 |-> Piece(h, k, nr)]
<1> DEFINE S == {Piece(h, k, nr) : nr \in 1 .. n + 1}
           s == [nr \in 1 .. n |-> Piece(h, k, nr)]
           t == [nr \in 1 .. n + 1 |-> Piece(h, k, nr)]
           p == Piece(h, k, n + 1)
<1>1. s \in Seq(S) /\ Len(s) = n /\ t \in Seq(S) /\ Len(t) = n + 1
  <2>1. \A i \in 1 .. n : Piece(h, k, i) \in S
    OBVIOUS
  <2>2. \A i \in 1 .. n + 1 : Piece(h, k, i) \in S
    OBVIOUS
  <2> HIDE DEF S
  <2>3. s \in Seq(S) /\ t \in Seq(S)
    BY <2>1, <2>2, IsASeq
  <2> QED BY <2>3
<1>2. p \in S /\ t[n + 1] = p /\ \A i \in 1 .. n : t[i] = s[i]
  OBVIOUS
<1> HIDE DEF S, s, t, p
<1>3. /\ Append(s, p) \in Seq(S) /\ Len(Append(s, p)) = n + 1
      /\ \A i \in 1 .. n : Append(s, p)[i] = s[i]
      /\ Append(s, p)[n + 1] = p
  BY <1>1, <1>2, AppendProperties
<1>4. \A i \in 1 .. n + 1 : Append(s, p)[i] = t[i]
  <2>1. \A i \in 1 .. n + 1 : i \in 1 .. n \/ i = n + 1
    OBVIOUS
  <2> QED BY <1>2, <1>3, <2>1
<1>5. Append(s, p) = t
  BY <1>1, <1>3, <1>4, SeqEqual
<1> QED BY <1>5 DEF s, t, p

LEMMA HandleKeepsCalm ==
  ASSUME TypeOK, NEW h \in Hosts, WayInv(h), CalmInv(h), Handle(h)
  PROVE  CalmInv(h)'
<1> DEFINE r == Head(lines[h])
<1> SUFFICES ASSUME Calm(h)' PROVE CalmWay(h)' /\ CalmDevice(h)'
  BY DEF CalmInv
<1>1. /\ lines[h] # <<>> /\ Answer(h, TRUE) /\ UNCHANGED <<host, late>>
      /\ TRUE \in BOOLEAN
  BY DEF Handle
<1>2. Calm(h) /\ CalmWay(h) /\ CalmDevice(h)
  BY <1>1 DEF Handle, CalmInv, Calm
<1>3. /\ r.cmd = "begin" => Begin(Size[h])
      /\ r.cmd = "chunk" => Chunk(Piece(h, r.attempt, r.nr))
      /\ r.cmd = "end" => End
      /\ r.cmd = "abort" => Abort
  BY DEF Handle
<1>4. CASE phase[h] \in {"idle", "closed", "connected"}
  BY <1>1, <1>4 DEF CalmWay, CalmDevice, host
<1>5. CASE phase[h] \in {"aborted", "begun"}
  <2>1. Aligned(h) /\ phase[h] \notin Sending
    BY <1>2, <1>5 DEF CalmWay, Sending
  <2> QED BY <1>1, <2>1, AlignedEmpty
<1>6. CASE phase[h] \in Sending
  <2>1. CalmWay(h)'
    BY <1>1, <1>2, <1>6, CalmLine
  <2>2. UNCHANGED <<phase, sent, attempt>>
    BY <1>1 DEF host
  <2>3. CASE phase[h] = "ping"
    BY <2>1, <2>2, <2>3 DEF CalmDevice
  <2>4. CASE phase[h] = "abort"
    <3>1. lines'[h] = <<>> => r.cmd = "abort"
      BY <1>1, <1>2, <1>6, <2>4, CalmLine
    <3>2. lines'[h] = <<>> => ~ota'.active
      BY <1>3, <3>1 DEF Abort, NoUpdate
    <3> QED BY <2>1, <2>2, <2>4, <3>2 DEF CalmDevice
  <2>5. CASE phase[h] = "begin"
    <3>1. /\ lines'[h] = <<>> => r.cmd = "begin" /\ answers'[h][Len(answers'[h])].ok
          /\ h = Pc => lines'[h] = <<>>
      BY <1>1, <1>2, <1>6, <2>5, CalmLine
    <3>2. ASSUME Begin(Size[h]) PROVE Open(h, 0)'
      <4>1. /\ ota' = [active |-> TRUE, expected |-> Size[h], written |-> 0]
            /\ Target' = Target /\ slots' = [slots EXCEPT ![Target] = <<>>]
        BY <3>2 DEF Begin, Target
      <4>2. Target \in {0, 1} /\ DOMAIN slots = {0, 1}
        BY DEF TypeOK, Target
      <4>3. slots'[Target'] = <<>>
        BY <4>1, <4>2
      <4>4. [nr \in 1 .. 0 |-> Piece(h, attempt[h], nr)'] = <<>>
        OBVIOUS
      <4> QED BY <4>1, <4>3, <4>4 DEF Open, Piece
    <3> QED BY <1>3, <2>1, <2>2, <2>5, <3>1, <3>2 DEF CalmDevice
  <2>6. CASE phase[h] = "chunk"
    <3> DEFINE n == sent[h] - Len(lines[h])
    <3>1. /\ r.cmd = "chunk" /\ r.attempt = attempt[h] /\ r.nr = n + 1
          /\ Len(lines[h]) \in 1 .. sent[h] /\ sent[h] - Len(lines'[h]) = n + 1
      BY <1>1, <1>2, <1>6, <2>6, CalmLine
    <3>2. Open(h, n) /\ \A i \in DOMAIN answers[h] : answers[h][i].ok
      BY <1>2, <2>6 DEF CalmDevice
    <3>3. n \in Nat
      BY <3>1, HostTypes
    <3>4. Chunk(Piece(h, attempt[h], n + 1))
      BY <1>3, <3>1
    <3> HIDE DEF n
    <3>5. /\ ota'.active /\ ota'.expected = Size[h] /\ ota'.written = n + 1
          /\ slots'[Target'] = [nr \in 1 .. n + 1 |-> Piece(h, attempt[h], nr)]
      <4>1. /\ ota' = [ota EXCEPT !.written = @ + 1] /\ Target' = Target
            /\ slots' = [slots EXCEPT ![Target] = Append(@, Piece(h, attempt[h], n + 1))]
        BY <3>4 DEF Chunk, Target
      <4>2. /\ Target \in {0, 1} /\ DOMAIN slots = {0, 1}
            /\ ota \in [active : BOOLEAN, expected : Nat, written : Nat]
        BY DEF TypeOK, Target
      <4>3. slots'[Target'] = Append(slots[Target], Piece(h, attempt[h], n + 1))
        BY <4>1, <4>2
      <4>4. slots[Target] = [nr \in 1 .. n |-> Piece(h, attempt[h], nr)]
        BY <3>2 DEF Open
      <4>5. slots'[Target'] = [nr \in 1 .. n + 1 |-> Piece(h, attempt[h], nr)]
        BY <3>3, <4>3, <4>4, PiecesAppend
      <4>6. ota'.active /\ ota'.expected = Size[h] /\ ota'.written = n + 1
        BY <3>2, <4>1, <4>2 DEF Open
      <4> QED BY <4>5, <4>6
    <3>6. \A i \in DOMAIN answers'[h] : answers'[h][i].ok
      <4>1. /\ \A i \in DOMAIN answers'[h] :
                 i \in DOMAIN answers[h] \/ i = Len(answers[h]) + 1
            /\ \A i \in DOMAIN answers[h] : answers'[h][i] = answers[h][i]
            /\ answers'[h][Len(answers[h]) + 1].ok
        BY <1>1, AnsweredLine
      <4> QED BY <3>2, <4>1
    <3>7. sent'[h] - Len(lines'[h]) = n + 1 /\ phase'[h] = "chunk"
      BY <2>2, <2>6, <3>1
    <3>8. slots'[Target'] = [nr \in 1 .. n + 1 |-> Piece(h, attempt[h], nr)']
      BY <2>2, <3>5 DEF Piece
    <3>9. CalmDevice(h)'
      BY <2>2, <3>5, <3>6, <3>7, <3>8 DEF CalmDevice, Open, Piece
    <3> QED BY <2>1, <3>9
  <2>7. CASE phase[h] = "end"
    <3>1. r.cmd = "end" /\ lines'[h] = <<>> /\ answers'[h][1].ok
      BY <1>1, <1>2, <1>6, <2>7, CalmLine
    <3>2. Open(h, Size[h])
      BY <1>1, <1>2, <2>7 DEF CalmDevice
    <3>3. slots'[boot'] = File(h, attempt[h])
      BY <1>3, <3>1, <3>2 DEF End, Open, File
    <3> QED BY <2>1, <2>2, <2>7, <3>1, <3>3 DEF CalmDevice, File, Piece
  <2> QED BY <1>2, <1>6, <2>3, <2>4, <2>5, <2>6, <2>7 DEF Sending, CalmWay
<1> QED BY <1>2, <1>4, <1>5, <1>6, HostTypes DEF Phases, Sending, CalmWay

\* Of the commands of a calm update the device refuses only a begin, against a
\* session left open.
LEMMA HandleRefusedKeepsCalm ==
  ASSUME TypeOK, NEW h \in Hosts, WayInv(h), CalmInv(h), HandleRefused(h)
  PROVE  CalmInv(h)'
<1> DEFINE r == Head(lines[h])
<1> SUFFICES ASSUME Calm(h)' PROVE CalmWay(h)' /\ CalmDevice(h)'
  BY DEF CalmInv
<1>1. /\ lines[h] # <<>> /\ Answer(h, FALSE) /\ UNCHANGED <<host, late>>
      /\ FALSE \in BOOLEAN /\ Refuses(r)
      /\ r.cmd # "end" => UNCHANGED device
  BY DEF HandleRefused
<1>2. Calm(h) /\ CalmWay(h) /\ CalmDevice(h)
  BY <1>1 DEF HandleRefused, CalmInv, Calm
<1>3. UNCHANGED <<phase, sent, attempt>>
  BY <1>1 DEF host
<1>4. CASE phase[h] \in {"idle", "closed", "connected"}
  BY <1>3, <1>4 DEF CalmWay, CalmDevice
<1>5. CASE phase[h] \in {"aborted", "begun"}
  <2>1. Aligned(h) /\ phase[h] \notin Sending
    BY <1>2, <1>5 DEF CalmWay, Sending
  <2> QED BY <1>1, <2>1, AlignedEmpty
<1>6. CASE phase[h] \in Sending
  <2>1. CalmWay(h)'
    BY <1>1, <1>2, <1>6, CalmLine
  <2>2. CASE phase[h] = "ping"
    BY <2>1, <1>3, <2>2 DEF CalmDevice
  <2>3. CASE phase[h] = "abort"
    <3>1. lines'[h] = <<>> => r.cmd = "abort"
      BY <1>1, <1>2, <1>6, <2>3, CalmLine
    <3>2. lines'[h] # <<>>
      BY <1>1, <3>1 DEF Refuses
    <3> QED BY <2>1, <1>3, <2>3, <3>2 DEF CalmDevice
  <2>4. CASE phase[h] = "begin"
    <3>1. /\ lines'[h] = <<>> => r.cmd = "begin"
          /\ lines'[h] = <<>> => ~answers'[h][Len(answers'[h])].ok
          /\ h = Pc => lines'[h] = <<>>
      BY <1>1, <1>2, <1>6, <2>4, CalmLine
    <3>2. lines'[h] = <<>> => ota.active /\ UNCHANGED device
      BY <1>1, <3>1 DEF Refuses, BeginRefused
    <3>3. h = Pc => ~ota.active
      BY <1>1, <1>2, <2>4 DEF CalmDevice
    <3>4. h = Phone \/ h = Pc
      BY HostAssumption
    <3>5. lines'[h] = <<>> => h = Phone /\ ota'.active
      BY <3>2, <3>3, <3>4 DEF device
    <3> QED BY <2>1, <1>3, <2>4, <3>1, <3>2, <3>3, <3>5 DEF CalmDevice
  <2>5. CASE phase[h] = "chunk"
    <3>1. r.cmd = "chunk" /\ Len(lines[h]) \in 1 .. sent[h]
      BY <1>1, <1>2, <1>6, <2>5, CalmLine
    <3>2. ota.active /\ ota.expected = Size[h] /\ ota.written = sent[h] - Len(lines[h])
      BY <1>2, <2>5 DEF CalmDevice, Open
    <3>3. \A s, size \in Nat : \A l \in 1 .. s : s <= size => ~(s - l + 1 > size)
      OBVIOUS
    <3>4. ~(ota.written + 1 > ota.expected)
      BY <3>1, <3>2, <3>3, HostTypes
    <3> QED BY <1>1, <3>1, <3>2, <3>4 DEF Refuses, ChunkRefused
  <2>6. CASE phase[h] = "end"
    <3>1. r.cmd = "end"
      BY <1>1, <1>2, <1>6, <2>6, CalmLine
    <3>2. Open(h, Size[h])
      BY <1>1, <1>2, <2>6 DEF CalmDevice
    <3>3. slots[Target] = File(h, attempt[h]) /\ attempt[h] \in 1 .. MaxAttempts[h]
      <4>1. attempt[h] > 0
        BY <2>6 DEF WayInv, AttemptsInv
      <4>2. attempt[h] <= MaxAttempts[h] /\ MaxAttempts[h] \in Nat
        BY BoundAssumption DEF TypeOK
      <4>3. attempt[h] \in 1 .. MaxAttempts[h]
        BY <4>1, <4>2, HostTypes
      <4> QED BY <3>2, <4>3 DEF Open, File
    <3>4. slots[Target] \in Images
      BY <3>3, FileAssumption
    <3> QED BY <1>1, <3>1, <3>2, <3>4 DEF Refuses, EndRefused, Open
  <2> QED BY <1>2, <1>6, <2>2, <2>3, <2>4, <2>5, <2>6 DEF Sending, CalmWay
<1> QED BY <1>2, <1>4, <1>5, <1>6, HostTypes DEF Phases, Sending, CalmWay

LEMMA StepKeepsCalm ==
  ASSUME TypeOK, NEW g \in Hosts, WayInv(g), CalmInv(g), RestartInv, [Next]_vars
  PROVE  CalmInv(g)'
<1>1. ASSUME NEW h \in Hosts \ {g},
             \/ HostStep(h) \/ Start(h) \/ Disconnect(h)
             \/ Handle(h) \/ HandleRefused(h) \/ HandleFails(h) \/ DropLine(h)
      PROVE  CalmInv(g)'
  BY <1>1, OthersKeepCalm
<1>2. CASE HostStep(g)
  <2>1. CASE Timeout(g)
    BY <2>1, CalmTimeout DEF CalmInv
  <2> QED BY <1>2, <2>1, SendsKeepCalm, SendChunksKeepsCalm, ConnectKeepsCalm,
             ReadGoodKeepsCalm, ReadBadKeepsCalm, ReadOtherKeepsCalm DEF HostStep
<1>3. CASE Start(g) \/ Disconnect(g)
  <2>1. phase'[g] \in {"idle", "closed", "connected"}
    BY <1>3 DEF Start, Disconnect, TypeOK
  <2> QED BY <2>1, QuietIsCalm
<1>4. CASE Handle(g)
  BY <1>4, HandleKeepsCalm
<1>5. CASE HandleRefused(g)
  BY <1>5, HandleRefusedKeepsCalm
<1>6. CASE HandleFails(g) \/ DropLine(g)
  <2>1. g \in disturbed'
    BY <1>6 DEF HandleFails, DropLine, Mishap
  <2> QED BY <2>1 DEF CalmInv, Calm
<1>7. CASE Restart \/ PowerLoss
  BY <1>7, RebootKeepsCalm
<1>8. CASE Terminated \/ UNCHANGED vars
  <2>1. Untouched(g) /\ UNCHANGED device /\ (Calm(g)' => Calm(g))
    BY <1>8 DEF Terminated, vars, link, host, history, Untouched, SameHost, Calm
  <2> QED BY <2>1, UntouchedKeepsCalm
<1> QED BY <1>1, <1>2, <1>3, <1>4, <1>5, <1>6, <1>7, <1>8 DEF Next, DeviceStep

\* The inductive invariant of the two theorems about calm updates.
CalmUpdates == NumbersAndTypes /\ RestartInv /\ \A h \in Hosts : CalmInv(h)

LEMMA CalmInductive ==
  /\ Init => CalmUpdates
  /\ CalmUpdates /\ [Next]_vars => CalmUpdates'
<1>1. ASSUME Init PROVE CalmUpdates
  <2>1. RestartInv
    BY <1>1 DEF Init, InitDevice, RestartInv
  <2>2. \A h \in Hosts : CalmInv(h)
    BY <1>1 DEF Init, CalmInv, CalmWay, CalmDevice
  <2> QED BY <1>1, <2>1, <2>2, NumbersInductive DEF CalmUpdates
<1>2. ASSUME CalmUpdates, [Next]_vars PROVE CalmUpdates'
  <2>1. TypeOK /\ RestartInv /\ \A h \in Hosts : WayInv(h) /\ CalmInv(h)
    BY <1>2 DEF CalmUpdates, NumbersAndTypes
  <2>2. NumbersAndTypes' /\ RestartInv'
    BY <1>2, NumbersInductive, StepKeepsRestart DEF CalmUpdates
  <2>3. ASSUME NEW h \in Hosts PROVE CalmInv(h)'
    BY <1>2, <2>1, StepKeepsCalm
  <2> QED BY <2>2, <2>3 DEF CalmUpdates
<1> QED BY <1>1, <1>2

\* How a host's user comes to be told something.
LEMMA Telling ==
  ASSUME TypeOK, NEW h \in Hosts, [Next]_vars, told'[h] # told[h]
  PROVE  \/ ReadGood(h) \/ ReadBad(h) \/ Timeout(h)
         \/ told'[h] = "nothing"
<1>1. /\ told \in [Hosts -> {"nothing", "updated", "failed"}]
      /\ told' # told
  BY DEF TypeOK
<1>2. CASE DeviceStep \/ PowerLoss \/ Terminated \/ UNCHANGED vars
  BY <1>1, <1>2 DEF DeviceStep, Restart, Handle, HandleRefused, PowerLoss,
                    Terminated, vars, host
<1>3. ASSUME NEW g \in Hosts,
             Disconnect(g) \/ HandleFails(g) \/ DropLine(g)
      PROVE  FALSE
  BY <1>1, <1>3 DEF Disconnect, HandleFails, DropLine, host
<1>4. ASSUME NEW g \in Hosts, Start(g)
      PROVE  told'[h] = "nothing"
  BY <1>1, <1>4 DEF Start
<1>5. ASSUME NEW g \in Hosts, HostStep(g)
      PROVE  ReadGood(h) \/ ReadBad(h) \/ Timeout(h)
  <2>1. ReadGood(g) \/ ReadBad(g) \/ Timeout(g)
    BY <1>1, <1>5 DEF HostStep, Connect, SendAbort, SendBegin, SendChunks, SendEnd,
                      SendCleanup, ReadOther, host
  <2>2. UNCHANGED told \/ \E p : Proceed(g, p)
    BY <2>1 DEF ReadGood, ReadBad, Timeout
  <2>3. g = h
    BY <1>1, <2>2 DEF Proceed
  <2> QED BY <2>1, <2>3
<1> QED BY <1>2, <1>3, <1>4, <1>5 DEF Next

\* When the user of a calm update reads that the firmware is updated, the device
\* boots his file, for all hosts, files, windows and bounds: whatever earlier
\* updates of either host have left in the device or on the way.
THEOREM UpdateIsMine == Spec => UpdatedMeansMine
<1> DEFINE Mine == \A h \in Hosts :
             told'[h] = "updated" /\ told[h] # "updated" /\ Calm(h) =>
               slots'[boot'] = File(h, attempt[h])
<1>1. ASSUME CalmUpdates, [Next]_vars PROVE Mine
  <2> SUFFICES ASSUME NEW h \in Hosts,
                      told'[h] = "updated", told[h] # "updated", Calm(h)
               PROVE  slots'[boot'] = File(h, attempt[h])
    OBVIOUS
  <2>1. TypeOK /\ WayInv(h) /\ CalmWay(h) /\ CalmDevice(h)
    BY <1>1 DEF CalmUpdates, NumbersAndTypes, CalmInv
  <2>2. ReadGood(h) \/ ReadBad(h) \/ Timeout(h)
    BY <1>1, <2>1, Telling
  <2>3. /\ UNCHANGED device
        /\ UNCHANGED told \/ \E p : Proceed(h, p)
    BY <2>2 DEF ReadGood, ReadBad, Timeout
  <2>4. phase[h] = "end"
    BY <2>1, <2>3 DEF Proceed, TypeOK
  <2>5. awaited[h] # <<>> /\ phase[h] \in Sending
    BY <2>1, <2>4, HostTypes DEF Sending
  <2>6. ReadGood(h)
    <3>1. AfterFailure(phase[h]) # "idle"
      BY <2>4 DEF AfterFailure
    <3>2. ~(Proceed(h, AfterFailure(phase[h])))
      BY <2>1, <3>1 DEF Proceed, TypeOK
    <3> QED BY <2>2, <3>2 DEF ReadBad, Timeout
  <2>7. Aligned(h) /\ Len(awaited[h]) = 1
    BY <2>1, <2>4 DEF CalmWay, WayInv, ClientInv
  <2>8. lines[h] = <<>>
    <3>1. /\ Len(answers[h]) \in Nat \ {0} /\ Len(lines[h]) \in Nat
          /\ Len(awaited[h]) \in Nat
          /\ Len(awaited[h]) = Len(answers[h]) + Len(lines[h])
      BY <2>1, <2>6, <2>7, HostTypes, EmptySeq DEF ReadGood, Reading, Aligned
    <3>2. \A a \in Nat \ {0}, l \in Nat, w \in Nat : w = a + l /\ w = 1 => l = 0
      OBVIOUS
    <3>3. Len(lines[h]) = 0
      BY <2>7, <3>1, <3>2
    <3> QED BY <2>1, <3>3, HostTypes, EmptySeq
  <2>9. slots[boot] = File(h, attempt[h])
    BY <2>1, <2>4, <2>8 DEF CalmDevice
  <2> QED BY <2>3, <2>9 DEF device
<1>2. CalmUpdates /\ [Next]_vars => [Mine]_vars
  BY <1>1
<1>3. Spec => [][Mine]_vars
  <2> HIDE DEF Mine
  <2> QED BY <1>2, CalmInductive, PTL DEF Spec
<1> QED BY <1>3 DEF UpdatedMeansMine

\* A calm update fails for nothing but the application's begin against a session
\* left open, for all hosts, files, windows and bounds.
THEOREM CalmSucceeds == Spec => CalmUpdateSucceeds
<1> DEFINE Succeeds == \A h \in Hosts :
             told'[h] = "failed" /\ told[h] # "failed" /\ Calm(h)' =>
               h = Phone /\ phase[h] = "begin" /\ ota.active
<1>1. ASSUME CalmUpdates, [Next]_vars PROVE Succeeds
  <2> SUFFICES ASSUME NEW h \in Hosts,
                      told'[h] = "failed", told[h] # "failed", Calm(h)'
               PROVE  h = Phone /\ phase[h] = "begin" /\ ota.active
    OBVIOUS
  <2>1. TypeOK /\ WayInv(h) /\ CalmInv(h)
    BY <1>1 DEF CalmUpdates, NumbersAndTypes
  <2>2. ReadGood(h) \/ ReadBad(h) \/ Timeout(h)
    BY <1>1, <2>1, Telling
  <2>3. ~Timeout(h)
    BY <2>1, CalmTimeout
  <2>4. Calm(h)
    <3>1. /\ answers[h] # <<>> /\ TakeAnswer(h)
          /\ h \in late => h \in late'
      BY <2>2, <2>3 DEF ReadGood, ReadBad, Reading
    <3> QED BY <2>1, <3>1, TakenAnswers DEF Calm
  <2>5. ~ReadGood(h)
    <3> SUFFICES ASSUME ReadGood(h) PROVE FALSE
      OBVIOUS
    <3>1. CalmWay(h) /\ phase[h] \in Sending
      BY <2>1, <2>4, HostTypes DEF CalmInv, ReadGood, Reading
    <3>2. phase[h] # "cleanup"
      BY <3>1 DEF CalmWay
    <3>3. Proceed(h, After(phase[h]))
      BY DEF ReadGood
    <3>4. After(phase[h]) = "idle" => phase[h] = "end"
      BY <3>1, <3>2 DEF After, Sending
    <3> QED BY <2>1, <3>3, <3>4 DEF Proceed, TypeOK
  <2> QED BY <2>1, <2>2, <2>3, <2>4, <2>5, CalmRefusal
<1>2. CalmUpdates /\ [Next]_vars => [Succeeds]_vars
  BY <1>1
<1>3. Spec => [][Succeeds]_vars
  <2> HIDE DEF Succeeds
  <2> QED BY <1>2, CalmInductive, PTL DEF Spec
<1> QED BY <1>3 DEF CalmUpdateSucceeds
=============================================================================
