--------------------------- MODULE FirmwareUpdate ---------------------------
(***************************************************************************)
(* A firmware update over the serial line: the programs on the host, PC    *)
(* tool (SerialDeviceClient.cs) and Android application (SerialClient.kt), *)
(* the lines between them and the device, and the device's update session  *)
(* (OtaSession).                                                           *)
(*                                                                         *)
(* Requests carry a number and the device answers them in order, line by   *)
(* line, on the transport they came from; one task serves both transports. *)
(* A request may be dropped on its way (a full UART queue, a full stream   *)
(* buffer), a host may give up waiting while its answer is under way, and  *)
(* it may then try again, on the same connection or on a new one that      *)
(* numbers its requests from 1 again.                                      *)
(***************************************************************************)
EXTENDS OtaSession

CONSTANTS
  Pc,           \* the PC tool
  Phone,        \* the Android application
  Hosts,        \* those of the two that are at work, each on its transport
  Size,         \* chunks of the file each host sends
  Window,       \* PipelineWindow of the PC tool
  MaxAttempts,  \* bound: updates each host tries, per host
  MaxMishaps    \* bound: lost lines, early timeouts, failed calls and resets

ASSUME HostAssumption == Pc # Phone /\ Hosts \subseteq {Pc, Phone}
ASSUME SizeAssumption == Size \in [Hosts -> Nat \ {0}]
ASSUME BoundAssumption ==
  /\ Window \in Nat \ {0}
  /\ MaxAttempts \in [Hosts -> Nat]
  /\ MaxMishaps \in Nat

VARIABLES
  lines,      \* requests on their way to the device, per host
  answers,    \* answers on their way to the host
  connected,  \* the host has a client object
  phase,      \* what the host is doing
  awaited,    \* requests whose answers it waits for, in order
  lastId,     \* _nextId, idGen: number of the last request
  sent,       \* chunks of the file already sent
  attempt,    \* number of the update the host is trying
  told,       \* how the last update ended for its user
  mishaps,    \* mishaps so far (bounded by MaxMishaps)
  disturbed,  \* history: hosts whose update met a mishap or another host
  late        \* history: hosts whose client has taken the pong of an earlier
              \* client of theirs for its own

link == <<lines, answers>>
host == <<connected, phase, awaited, lastId, sent, attempt, told>>
history == <<disturbed, late>>
vars == <<device, link, host, mishaps, history>>

Request(id, h, cmd, nr) == [id |-> id, cmd |-> cmd, attempt |-> attempt[h], nr |-> nr]

Piece(h, k, nr) == [host |-> h, attempt |-> k, nr |-> nr]
File(h, k) == [nr \in 1 .. Size[h] |-> Piece(h, k, nr)]

\* What the hosts send is whole firmware.
ASSUME FileAssumption ==
  \A h \in Hosts : \A k \in 1 .. MaxAttempts[h] : File(h, k) \in Images

Init ==
  /\ InitDevice
  /\ lines = [h \in Hosts |-> <<>>]
  /\ answers = [h \in Hosts |-> <<>>]
  /\ connected = [h \in Hosts |-> FALSE]
  /\ phase = [h \in Hosts |-> "idle"]
  /\ awaited = [h \in Hosts |-> <<>>]
  /\ lastId = [h \in Hosts |-> 0]
  /\ sent = [h \in Hosts |-> 0]
  /\ attempt = [h \in Hosts |-> 0]
  /\ told = [h \in Hosts |-> "nothing"]
  /\ mishaps = 0
  /\ disturbed = {}
  /\ late = {}

\* A mishap disturbs the updates of the hosts in hs.
Mishap(hs) ==
  /\ mishaps < MaxMishaps
  /\ mishaps' = mishaps + 1
  /\ disturbed' = disturbed \cup hs

(***************************************************************************)
(* The hosts.                                                              *)
(***************************************************************************)

\* Requests go out with the numbers after lastId, and their answers are
\* awaited in the same order.
Send(h, requests) ==
  /\ lines' = [lines EXCEPT ![h] = @ \o requests]
  /\ awaited' = [awaited EXCEPT ![h] = requests]
  /\ lastId' = [lastId EXCEPT ![h] = @ + Len(requests)]

SendOne(h, cmd) == Send(h, <<Request(lastId[h] + 1, h, cmd, 0)>>)

\* The user starts an update.
Start(h) ==
  /\ phase[h] = "idle"
  /\ attempt[h] < MaxAttempts[h]
  /\ attempt' = [attempt EXCEPT ![h] = @ + 1]
  /\ phase' = [phase EXCEPT ![h] = IF connected[h] THEN "connected" ELSE "closed"]
  /\ sent' = [sent EXCEPT ![h] = 0]
  /\ told' = [told EXCEPT ![h] = "nothing"]
  /\ disturbed' = disturbed \ {h}
  /\ UNCHANGED <<device, link, connected, awaited, lastId, mishaps, late>>

\* A new client object numbers from 1; what has arrived before is discarded.
Connect(h) ==
  /\ phase[h] = "closed"
  /\ phase' = [phase EXCEPT ![h] = "ping"]
  /\ answers' = [answers EXCEPT ![h] = <<>>]
  /\ LET ping == Request(1, h, "ping", 0) IN
       /\ lines' = [lines EXCEPT ![h] = Append(@, ping)]
       /\ awaited' = [awaited EXCEPT ![h] = <<ping>>]
  /\ lastId' = [lastId EXCEPT ![h] = 1]
  /\ late' = late \ {h}
  /\ UNCHANGED <<device, connected, sent, attempt, told, mishaps, disturbed>>

\* The PC tool first aborts whatever an earlier update left behind.
SendAbort(h) ==
  /\ h = Pc
  /\ phase[h] = "connected"
  /\ phase' = [phase EXCEPT ![h] = "abort"]
  /\ SendOne(h, "abort")
  /\ UNCHANGED <<device, answers, connected, sent, attempt, told, mishaps, history>>

SendBegin(h) ==
  /\ phase[h] = IF h = Pc THEN "aborted" ELSE "connected"
  /\ phase' = [phase EXCEPT ![h] = "begin"]
  /\ SendOne(h, "begin")
  /\ UNCHANGED <<device, answers, connected, sent, attempt, told, mishaps, history>>

\* The PC tool sends a window of chunks before it reads their answers, the
\* Android application one chunk at a time.
SendChunks(h) ==
  /\ phase[h] = "begun"
  /\ sent[h] < Size[h]
  /\ LET left == Size[h] - sent[h]
         most == IF h = Pc THEN Window ELSE 1
         count == IF left < most THEN left ELSE most
     IN /\ Send(h, [i \in 1 .. count |->
                      Request(lastId[h] + i, h, "chunk", sent[h] + i)])
        /\ sent' = [sent EXCEPT ![h] = @ + count]
  /\ phase' = [phase EXCEPT ![h] = "chunk"]
  /\ UNCHANGED <<device, answers, connected, attempt, told, mishaps, history>>

SendEnd(h) ==
  /\ phase[h] = "begun"
  /\ sent[h] = Size[h]
  /\ phase' = [phase EXCEPT ![h] = "end"]
  /\ SendOne(h, "end")
  /\ UNCHANGED <<device, answers, connected, sent, attempt, told, mishaps, history>>

\* A failure among the chunks or at the end aborts the update.
SendCleanup(h) ==
  /\ phase[h] = "failed"
  /\ phase' = [phase EXCEPT ![h] = "cleanup"]
  /\ SendOne(h, "abort")
  /\ UNCHANGED <<device, answers, connected, sent, attempt, told, mishaps, history>>

\* Where the host goes when the last awaited answer of a phase is good.
After(p) ==
  CASE p = "ping" -> "connected"
    [] p = "abort" -> "aborted"
    [] p = "begin" -> "begun"
    [] p = "chunk" -> "begun"
    [] p = "end" -> "idle"
    [] p = "cleanup" -> "idle"

\* Where it goes when one is bad or does not come: the results of the two
\* aborts are ignored, and ota.begin is not among what is cleaned up after.
AfterFailure(p) ==
  CASE p = "ping" -> "idle"
    [] p = "abort" -> "aborted"
    [] p = "begin" -> "idle"
    [] p = "chunk" -> "failed"
    [] p = "end" -> "failed"
    [] p = "cleanup" -> "idle"

\* A PC tool that has updated the firmware disposes of its client, and so does
\* a client that did not get its pong.
Proceed(h, p) ==
  /\ phase' = [phase EXCEPT ![h] = p]
  /\ told' = [told EXCEPT ![h] =
                IF p # "idle" THEN @
                ELSE IF phase[h] = "end" THEN "updated" ELSE "failed"]
  /\ connected' = [connected EXCEPT ![h] =
                     IF phase[h] = "ping" THEN p = "connected"
                     ELSE @ /\ ~(phase[h] = "end" /\ p = "idle")]

Reading(h) == awaited[h] # <<>> /\ answers[h] # <<>>

Matches_Any(h) == Head(answers[h]).id > 0

\* The answer at hand has the number the host waits for.
Matches(h) == Head(answers[h]).id = Head(awaited[h]).id

\* The Android application reads what has arrived and keeps the first line.
Unread(h) ==
  LET rest == Tail(answers[h]) IN
  IF h = Phone THEN {SubSeq(rest, i, Len(rest)) : i \in 1 .. Len(rest) + 1}
               ELSE {rest}

\* The answer at hand is taken, and with it what is thrown away behind it.
TakeAnswer(h) ==
  \E rest \in Unread(h) :
    /\ answers' = [answers EXCEPT ![h] = rest]
    /\ disturbed' = IF rest = Tail(answers[h]) THEN disturbed ELSE disturbed \cup {h}

ReadGood(h) ==
  /\ Reading(h)
  /\ Matches(h)
  /\ Head(answers[h]).ok
  /\ TakeAnswer(h)
  /\ awaited' = [awaited EXCEPT ![h] = Tail(@)]
  /\ late' = IF phase[h] = "ping" /\ Head(answers[h]).to # Head(awaited[h])
               THEN late \cup {h} ELSE late
  /\ IF Len(awaited[h]) > 1 THEN UNCHANGED <<phase, told, connected>>
                            ELSE Proceed(h, After(phase[h]))
  /\ UNCHANGED <<device, lines, lastId, sent, attempt, mishaps>>

ReadBad_ReadsOn(h) ==
  /\ Reading(h)
  /\ Matches(h)
  /\ ~Head(answers[h]).ok
  /\ TakeAnswer(h)
  /\ awaited' = [awaited EXCEPT ![h] = Tail(@)]
  /\ Proceed(h, AfterFailure(phase[h]))
  /\ UNCHANGED <<device, lines, lastId, sent, attempt, mishaps, late>>

\* The answers of the rest of the window stay unread.
ReadBad(h) ==
  /\ Reading(h)
  /\ Matches(h)
  /\ ~Head(answers[h]).ok
  /\ TakeAnswer(h)
  /\ awaited' = [awaited EXCEPT ![h] = <<>>]
  /\ Proceed(h, AfterFailure(phase[h]))
  /\ UNCHANGED <<device, lines, lastId, sent, attempt, mishaps, late>>

\* The answer of a request the host has given up.
ReadOther(h) ==
  /\ Reading(h)
  /\ ~Matches(h)
  /\ TakeAnswer(h)
  /\ UNCHANGED <<device, lines, host, mishaps, late>>

\* No answer in time: nothing is under way any more, or it is only late.
Timeout(h) ==
  /\ awaited[h] # <<>>
  /\ IF lines[h] = <<>> /\ answers[h] = <<>>
       THEN UNCHANGED <<mishaps, disturbed>>
       ELSE Mishap({h})
  /\ awaited' = [awaited EXCEPT ![h] = <<>>]
  /\ Proceed(h, AfterFailure(phase[h]))
  /\ UNCHANGED <<device, link, lastId, sent, attempt, late>>

\* The user disconnects, or leaves the application, between two updates.
Disconnect(h) ==
  /\ phase[h] = "idle"
  /\ connected[h]
  /\ connected' = [connected EXCEPT ![h] = FALSE]
  /\ UNCHANGED <<device, link, phase, awaited, lastId, sent, attempt, told,
                 mishaps, history>>

(***************************************************************************)
(* The device takes the next line of a transport and answers it.           *)
(***************************************************************************)

\* Commands the update session refuses.
Refuses(r) ==
  \/ r.cmd = "begin" /\ BeginRefused
  \/ r.cmd = "chunk" /\ ChunkRefused
  \/ r.cmd = "end" /\ (EndRefused \/ slots[Target] \notin Images)

Answer(h, ok) ==
  LET r == Head(lines[h]) IN
  /\ lines' = [lines EXCEPT ![h] = Tail(@)]
  /\ answers' = [answers EXCEPT ![h] =
                   Append(@, [id |-> r.id, ok |-> ok, to |-> r])]

\* Another host's command in the middle of an update.
Others(h) == {g \in Hosts \ {h} : phase[g] # "idle"}

Handle(h) ==
  /\ ~restarting
  /\ lines[h] # <<>>
  /\ LET r == Head(lines[h]) IN
       /\ \/ r.cmd = "ping" /\ UNCHANGED device
          \/ r.cmd = "begin" /\ Begin(Size[h])
          \/ r.cmd = "chunk" /\ Chunk(Piece(h, r.attempt, r.nr))
          \/ r.cmd = "end" /\ End
          \/ r.cmd = "abort" /\ Abort
       /\ disturbed' = IF r.cmd = "ping" THEN disturbed ELSE disturbed \cup Others(h)
  /\ Answer(h, TRUE)
  /\ UNCHANGED <<host, mishaps, late>>

HandleRefused(h) ==
  /\ ~restarting
  /\ lines[h] # <<>>
  /\ LET r == Head(lines[h]) IN
       /\ Refuses(r)
       /\ IF r.cmd = "end" /\ ~EndRefused THEN EndFails ELSE UNCHANGED device
  /\ disturbed' = disturbed \cup Others(h)
  /\ Answer(h, FALSE)
  /\ UNCHANGED <<host, mishaps, late>>

\* Flash fails.
HandleFails(h) ==
  /\ ~restarting
  /\ lines[h] # <<>>
  /\ LET r == Head(lines[h]) IN
       /\ ~Refuses(r)
       /\ \/ r.cmd = "begin" /\ BeginFails(Size[h])
          \/ r.cmd = "chunk" /\ ChunkFails
          \/ r.cmd = "end" /\ EndFails
  /\ Answer(h, FALSE)
  /\ Mishap({h} \cup Others(h))
  /\ UNCHANGED <<host, late>>

\* A line is dropped: no memory, no room in the queue or in the buffer.
DropLine(h) ==
  /\ \E i \in DOMAIN lines[h] :
       lines' = [lines EXCEPT ![h] = SubSeq(@, 1, i - 1) \o SubSeq(@, i + 1, Len(@))]
  /\ Mishap({h})
  /\ UNCHANGED <<device, answers, host, late>>

\* The restart after a good ota.end: the lines that wait are forgotten.
Restart ==
  /\ restarting
  /\ Reboot
  /\ lines' = [h \in Hosts |-> <<>>]
  /\ disturbed' = disturbed \cup {h \in Hosts : lines[h] # <<>>}
  /\ UNCHANGED <<answers, host, mishaps, late>>

\* A loss of power; an answer may not have been sent yet.
PowerLoss ==
  /\ Reboot
  /\ Mishap({h \in Hosts : phase[h] # "idle"})
  /\ lines' = [h \in Hosts |-> <<>>]
  /\ \/ UNCHANGED answers
     \/ \E h \in Hosts :
          /\ answers[h] # <<>>
          /\ answers' = [answers EXCEPT ![h] = SubSeq(@, 1, Len(@) - 1)]
  /\ UNCHANGED <<host, late>>

HostStep(h) ==
  \/ Connect(h)
  \/ SendAbort(h)
  \/ SendBegin(h)
  \/ SendChunks(h)
  \/ SendEnd(h)
  \/ SendCleanup(h)
  \/ ReadGood(h)
  \/ ReadBad(h)
  \/ ReadOther(h)
  \/ Timeout(h)

DeviceStep == Restart \/ \E h \in Hosts : Handle(h) \/ HandleRefused(h)

\* Every user has had all the tries the bound allows.
Terminated ==
  /\ \A h \in Hosts : phase[h] = "idle" /\ attempt[h] = MaxAttempts[h]
  /\ UNCHANGED vars

Next ==
  \/ DeviceStep
  \/ \E h \in Hosts : HostStep(h) \/ Start(h) \/ Disconnect(h)
  \/ \E h \in Hosts : HandleFails(h) \/ DropLine(h)
  \/ PowerLoss
  \/ Terminated

Spec == Init /\ [][Next]_vars

-----------------------------------------------------------------------------
Commands == {"ping", "abort", "begin", "chunk", "end"}
Sending == {"ping", "abort", "begin", "chunk", "end", "cleanup"}
Phases == {"idle", "closed", "ping", "connected", "abort", "aborted", "begin",
           "begun", "chunk", "end", "failed", "cleanup"}
Requests == [id : Nat, cmd : Commands, attempt : Nat, nr : Nat]
Answers == [id : Nat, ok : BOOLEAN, to : Requests]

\* Types of the variables; a host waits for answers exactly in the phases that
\* send requests.
TypeOK ==
  /\ ota \in [active : BOOLEAN, expected : Nat, written : Nat]
  /\ DOMAIN slots = {0, 1}
  /\ running \in {0, 1} /\ boot \in {0, 1} /\ restarting \in BOOLEAN
  /\ lines \in [Hosts -> Seq(Requests)]
  /\ answers \in [Hosts -> Seq(Answers)]
  /\ awaited \in [Hosts -> Seq(Requests)]
  /\ connected \in [Hosts -> BOOLEAN]
  /\ phase \in [Hosts -> Phases]
  /\ \A h \in Hosts : awaited[h] # <<>> <=> phase[h] \in Sending
  /\ lastId \in [Hosts -> Nat]
  /\ sent \in [Hosts -> Nat] /\ \A h \in Hosts : sent[h] <= Size[h]
  /\ attempt \in [Hosts -> Nat] /\ \A h \in Hosts : attempt[h] <= MaxAttempts[h]
  /\ told \in [Hosts -> {"nothing", "updated", "failed"}]
  /\ mishaps \in 0 .. MaxMishaps
  /\ disturbed \subseteq Hosts
  /\ late \subseteq Hosts

\* An answer is taken for the answer of the request it belongs to, although
\* numbers start again with every connection and answers of given-up requests
\* arrive late.  Pongs are all alike, and only a client that has taken the pong
\* of an earlier one for its own may mistake other answers, too.
AnswersFitRequest ==
  \A h \in Hosts :
    Reading(h) /\ Matches(h) /\ h \notin late =>
      \/ Head(answers[h]).to = Head(awaited[h])
      \/ Head(answers[h]).to.cmd = "ping" /\ Head(awaited[h]).cmd = "ping"

\* Nothing has gone wrong with the update of a host.
Calm(h) == h \notin disturbed \cup late

\* Who is told that the firmware is updated has the device boot the file it
\* sent, all of it and nothing else.
UpdatedMeansMine ==
  [][\A h \in Hosts :
       told'[h] = "updated" /\ told[h] # "updated" /\ Calm(h) =>
         slots'[boot'] = File(h, attempt[h])]_vars

\* Whatever earlier updates left behind, an open session, requests in the
\* queue, answers nobody read, an update in which nothing goes wrong succeeds.
\* The application alone, which does not give up a session before it begins
\* its own, may fail, and only against a session left open.
CalmUpdateSucceeds ==
  [][\A h \in Hosts :
       told'[h] = "failed" /\ told[h] # "failed" /\ Calm(h)' =>
         h = Phone /\ phase[h] = "begin" /\ ota.active]_vars
=============================================================================
