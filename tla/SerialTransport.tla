--------------------------- MODULE SerialTransport ---------------------------
(***************************************************************************)
(* From bytes to requests and back (main/usb_serial/usb_serial.c).  USB     *)
(* bytes go from TinyUSB's callback through a stream buffer to config_task, *)
(* which cuts them into lines itself; UART bytes are cut into lines by      *)
(* uart_rx_task and reach config_task through a queue.  config_task answers *)
(* one request after the other, over USB through TinyUSB's FIFO, which      *)
(* moves only while a host reads.                                           *)
(*                                                                         *)
(* A byte is a pair of its line and its place in it, place 0 being the      *)
(* newline.  What a request says is the matter of other modules.           *)
(***************************************************************************)
EXTENDS Naturals, Sequences

CONSTANTS
  Sendings,     \* bound: the lengths of the lines the two hosts may send
  LineMax,      \* USB_LINE_MAX - 1, what a line buffer takes
  StreamSize,   \* size of s_receive_stream
  BatchSize,    \* what config_task takes from the stream at a time
  QueueLength,  \* of s_uart_line_queue
  FifoSize,     \* CONFIG_TINYUSB_CDC_TX_BUFSIZE
  AnswerSize    \* bytes of an answer, without its newline

Transports == {"usb", "uart"}

ASSUME SizeAssumption ==
  /\ {LineMax, StreamSize, BatchSize, QueueLength, FifoSize, AnswerSize}
       \subseteq Nat \ {0}
  /\ Sendings \subseteq [Transports -> Seq(Nat \ {0})]

VARIABLES
  size,      \* how long the lines of each host are, in this behaviour
  next,      \* the byte each host sends next
  stream,    \* s_receive_stream
  input,     \* what config_task has taken from it
  line,      \* the line buffer of config_task and that of uart_rx_task
  queue,     \* s_uart_line_queue
  pc,        \* control point of config_task
  rx,        \* control point of uart_rx_task
  left,      \* bytes of the answer still to be written
  fifo,      \* bytes in the FIFO towards the USB host
  reading,   \* TRUE: an application on the USB host has the port open
  whole,     \* history: lines that were taken for a request as they were sent
  odd,       \* history: lines with a part in some other request
  hurt       \* history: lines that a dropped byte or line has touched

host == <<size, next>>
receiver == <<stream, input, line, queue, rx>>
writer == <<left, fifo, reading>>
history == <<whole, odd, hurt>>
vars == <<host, receiver, pc, writer, history>>

Init ==
  /\ size \in Sendings
  /\ next = [t \in Transports |-> <<1, 1>>]
  /\ stream = <<>>
  /\ input = <<>>
  /\ line = [t \in Transports |-> <<>>]
  /\ queue = <<>>
  /\ pc = "Receive"
  /\ rx = "Read"
  /\ left = 0
  /\ fifo = 0
  /\ reading = TRUE
  /\ whole = [t \in Transports |-> {}]
  /\ odd = [t \in Transports |-> {}]
  /\ hurt = [t \in Transports |-> {}]

-----------------------------------------------------------------------------
Lines(t) == DOMAIN size[t]

IsNewline(b) == b[2] = 0

Sending(t) == next[t][1] \in Lines(t)

\* The host goes on behind its byte b.
Advance(t) ==
  LET b == next[t] IN
  next' = [next EXCEPT ![t] =
             CASE IsNewline(b) -> <<b[1] + 1, 1>>
               [] b[2] = size[t][b[1]] -> <<b[1], 0>>
               [] OTHER -> <<b[1], b[2] + 1>>]

AsSent(t, k) == [i \in 1 .. size[t][k] |-> <<k, i>>]

\* A byte that is dropped hurts its line, a newline the next one, too.
Hurts(b) == IF IsNewline(b) THEN {b[1], b[1] + 1} ELSE {b[1]}

Collect_NoLimit(t, b) == Append(line[t], b)

Collect_OffByOne(t, b) ==
  IF Len(line[t]) + 1 < LineMax THEN Append(line[t], b) ELSE <<>>

\* A line buffer that is full starts again, without the byte that was too many.
Collect(t, b) == IF Len(line[t]) < LineMax THEN Append(line[t], b) ELSE <<>>

\* A line becomes a request (process_request).
Accept(t, text) ==
  IF \E k \in Lines(t) : text = AsSent(t, k)
    THEN /\ whole' = [whole EXCEPT ![t] = @ \cup {text[1][1]}]
         /\ UNCHANGED odd
    ELSE /\ odd' = [odd EXCEPT ![t] = @ \cup {text[i][1] : i \in DOMAIN text}]
         /\ UNCHANGED whole

-----------------------------------------------------------------------------
(***************************************************************************)
(* The USB host, and TinyUSB's task.                                       *)
(***************************************************************************)

\* receive_callback: what does not fit into the stream is dropped, unnoticed.
ReceiveCallback ==
  /\ Sending("usb")
  /\ Advance("usb")
  /\ IF Len(stream) < StreamSize
       THEN stream' = Append(stream, next["usb"]) /\ UNCHANGED hurt
       ELSE /\ hurt' = [hurt EXCEPT !["usb"] = @ \cup Hurts(next["usb"])]
            /\ UNCHANGED stream
  /\ UNCHANGED <<size, input, line, queue, rx, pc, writer, whole, odd>>

\* A client is stopped or unplugged in the middle of a line; what comes next is
\* glued to what it has sent, since no line buffer is emptied for a new client.
HostBreaksOff(t) ==
  LET b == next[t] IN
  /\ Sending(t)
  /\ b[2] # 1
  /\ next' = [next EXCEPT ![t] = <<b[1] + 1, 1>>]
  /\ hurt' = [hurt EXCEPT ![t] = @ \cup {b[1], b[1] + 1}]
  /\ UNCHANGED <<size, receiver, pc, writer, whole, odd>>

\* The endpoint is polled: one transfer after the other empties the FIFO.
HostReads ==
  /\ reading
  /\ fifo > 0
  /\ fifo' = fifo - 1
  /\ UNCHANGED <<host, receiver, pc, left, reading, history>>

\* The application opens or closes the port, or is stopped.
HostTurns ==
  /\ reading' = ~reading
  /\ UNCHANGED <<host, receiver, pc, left, fifo, history>>

\* cdcd_reset, when the cable is pulled or the host resets the bus.
BusReset ==
  /\ fifo > 0
  /\ fifo' = 0
  /\ reading' = FALSE
  /\ UNCHANGED <<host, receiver, pc, left, history>>

-----------------------------------------------------------------------------
(***************************************************************************)
(* uart_rx_task.                                                           *)
(***************************************************************************)

ReadUart ==
  /\ rx = "Read"
  /\ Sending("uart")
  /\ Advance("uart")
  /\ LET b == next["uart"] IN
       IF IsNewline(b)
         THEN /\ rx' = IF line["uart"] = <<>> THEN "Read" ELSE "Offer"
              /\ UNCHANGED line
         ELSE /\ line' = [line EXCEPT !["uart"] = Collect("uart", b)]
              /\ UNCHANGED rx
  /\ UNCHANGED <<size, stream, input, queue, pc, writer, history>>

\* xQueueSend of a copy of the line.
Offer ==
  /\ rx = "Offer"
  /\ Len(queue) < QueueLength
  /\ queue' = Append(queue, line["uart"])
  /\ line' = [line EXCEPT !["uart"] = <<>>]
  /\ rx' = "Read"
  /\ UNCHANGED <<host, stream, input, pc, writer, history>>

\* No memory for the copy, or no room in the queue for 100 ms.
DropUartLine ==
  /\ rx = "Offer"
  /\ hurt' = [hurt EXCEPT !["uart"] =
                @ \cup {line["uart"][i][1] : i \in DOMAIN line["uart"]}]
  /\ line' = [line EXCEPT !["uart"] = <<>>]
  /\ rx' = "Read"
  /\ UNCHANGED <<host, stream, input, queue, pc, writer, whole, odd>>

-----------------------------------------------------------------------------
(***************************************************************************)
(* config_task.                                                            *)
(***************************************************************************)

\* xStreamBufferReceive, for two milliseconds.
Receive ==
  /\ pc = "Receive"
  /\ IF stream = <<>>
       THEN pc' = "Drain" /\ UNCHANGED <<stream, input>>
       ELSE LET n == IF Len(stream) < BatchSize THEN Len(stream) ELSE BatchSize IN
              /\ input' = SubSeq(stream, 1, n)
              /\ stream' = SubSeq(stream, n + 1, Len(stream))
              /\ pc' = "Consume"
  /\ UNCHANGED <<host, line, queue, rx, writer, history>>

\* consume_bytes, one byte.
Consume ==
  /\ pc = "Consume"
  /\ input # <<>>
  /\ input' = Tail(input)
  /\ IF IsNewline(Head(input))
       THEN IF line["usb"] = <<>>
              THEN UNCHANGED <<line, pc, left, whole, odd>>
              ELSE /\ Accept("usb", line["usb"])
                   /\ line' = [line EXCEPT !["usb"] = <<>>]
                   /\ left' = AnswerSize
                   /\ pc' = "Write"
       ELSE /\ line' = [line EXCEPT !["usb"] = Collect("usb", Head(input))]
            /\ UNCHANGED <<pc, left, whole, odd>>
  /\ UNCHANGED <<host, stream, queue, rx, fifo, reading, hurt>>

Consumed ==
  /\ pc = "Consume"
  /\ input = <<>>
  /\ pc' = "Drain"
  /\ UNCHANGED <<host, receiver, writer, history>>

Write_WholeAnswer ==
  /\ pc = "Write"
  /\ left > 0
  /\ FifoSize - fifo >= left
  /\ fifo' = fifo + left
  /\ left' = 0
  /\ pc' = "Flush"
  /\ UNCHANGED <<host, receiver, reading, history>>

\* tinyusb_cdcacm_write_queue takes what there is room for, maybe nothing.
Write ==
  /\ pc = "Write"
  /\ left > 0
  /\ LET room == FifoSize - fifo
         queued == IF left < room THEN left ELSE room
     IN  fifo' = fifo + queued /\ left' = left - queued
  /\ pc' = "Flush"
  /\ UNCHANGED <<host, receiver, reading, history>>

\* The newline, if there is room for it; there may be none after a timeout.  The FIFO
\* then stays full: the newline is lost, or, where no application has the port open,
\* it takes the place of the oldest byte (cdc_device.c:418).
WriteNewline ==
  /\ pc = "Write"
  /\ left = 0
  /\ fifo' = IF fifo < FifoSize THEN fifo + 1 ELSE fifo
  /\ pc' = "Newline"
  /\ UNCHANGED <<host, receiver, left, reading, history>>

\* tinyusb_cdcacm_write_flush: the FIFO is empty, or 100 ms have gone by.
Flush ==
  /\ \/ pc = "Flush" /\ pc' = "Write"
     \/ pc = "Newline" /\ pc' = "Consume"
  /\ UNCHANGED <<host, receiver, writer, history>>

\* The next line of the UART; its answer goes out whether somebody listens or
\* not.
TakeUartLine ==
  /\ pc = "Drain"
  /\ queue # <<>>
  /\ Accept("uart", Head(queue))
  /\ queue' = Tail(queue)
  /\ UNCHANGED <<host, stream, input, line, rx, pc, writer, hurt>>

Drained ==
  /\ pc = "Drain"
  /\ queue = <<>>
  /\ pc' = "Receive"
  /\ UNCHANGED <<host, receiver, writer, history>>

-----------------------------------------------------------------------------
ConfigTask ==
  \/ Receive
  \/ Consume
  \/ Consumed
  \/ Write
  \/ WriteNewline
  \/ Flush
  \/ TakeUartLine
  \/ Drained

UartRxTask == Offer \/ DropUartLine

Next ==
  \/ ConfigTask
  \/ UartRxTask
  \/ ReadUart
  \/ ReceiveCallback
  \/ HostReads
  \/ HostTurns
  \/ BusReset
  \/ \E t \in Transports : HostBreaksOff(t)

Spec == Init /\ [][Next]_vars

\* The tasks run; a host that keeps the port open polls the endpoint.  Nobody
\* is bound to send, to open the port or to keep it open.
FairSpec ==
  Spec /\ WF_vars(ConfigTask) /\ WF_vars(UartRxTask) /\ WF_vars(HostReads)

-----------------------------------------------------------------------------
Text == Seq(Nat \X Nat)

\* Types of the variables; no buffer holds more than its size, and a request
\* is being answered only where the code writes.
TypeOK ==
  /\ size \in Sendings
  /\ \A t \in Transports :
       /\ next[t] \in Nat \X Nat
       /\ line[t] \in Text /\ Len(line[t]) <= LineMax
       /\ whole[t] \cup odd[t] \subseteq Lines(t)
       /\ hurt[t] \subseteq 1 .. Len(size[t]) + 1
  /\ stream \in Text /\ Len(stream) <= StreamSize
  /\ input \in Text /\ Len(input) <= BatchSize
  /\ queue \in Seq(Text) /\ Len(queue) <= QueueLength
  /\ pc \in {"Receive", "Consume", "Write", "Flush", "Newline", "Drain"}
  /\ rx \in {"Read", "Offer"}
  /\ left \in 0 .. AnswerSize
  /\ left > 0 => pc \in {"Write", "Flush"}
  /\ fifo \in 0 .. FifoSize
  /\ reading \in BOOLEAN

\* A line nothing was dropped from, behind a newline that was not dropped, and
\* not longer than docs/PROTOCOL.md allows.
Clean(t, k) == k \notin hurt[t] /\ size[t][k] <= LineMax

\* The line has left the buffers behind it.
Gone(t, k) ==
  LET under == IF t = "usb" THEN stream \o input \o line[t] ELSE line[t] IN
  /\ next[t][1] > k
  /\ \A i \in DOMAIN under : under[i][1] > k
  /\ t = "uart" => \A i \in DOMAIN queue : \A j \in DOMAIN queue[i] : queue[i][j][1] > k

\* Dropped bytes and overlong lines hurt nobody but the lines they belong to
\* and the one behind a lost newline: every other line becomes the request it
\* was sent as, and no other request has a part of it.
DamageConfined ==
  \A t \in Transports : \A k \in Lines(t) :
    Clean(t, k) => k \notin odd[t] /\ (Gone(t, k) => k \in whole[t])

\* Whatever the USB host did before, once it goes on reading config_task gets
\* through its answers and the lines of the UART are served.  (While it does
\* not read, an answer longer than the room in the FIFO holds up both.)
UartServed == <>[]reading => [](queue # <<>> => <>(queue = <<>>))
=============================================================================
