------------------------------ MODULE UartRate ------------------------------
(***************************************************************************)
(* A change of the UART's rate: the command uart.baud of                   *)
(* main/usb_serial/usb_serial.c and its one client, the Android application *)
(* (SerialClient.kt, AppViewModel.kt) with a CH34x bridge.  A line is       *)
(* understood only by a side that reads at the rate it was sent at.  Over   *)
(* USB there is no rate, and the device refuses the command.               *)
(***************************************************************************)
EXTENDS Naturals

CONSTANTS
  Rates,       \* BAUD_OPTIONS, the same six in the firmware
  BootRate,    \* 115200
  Uart,        \* TRUE: the bridge; FALSE: the native USB port
  MaxRequests, \* bound: requests of the application
  None         \* no line

VARIABLES
  deviceRate,  \* set by uart_set_baudrate
  portRate,    \* set by setParameters
  serBaud,     \* the rate of the next connection
  phase,       \* what the application waits for
  wanted,      \* the rate it has asked for
  line,        \* the request on its way
  answer,      \* the answer on its way
  requests     \* requests made so far (bounded by MaxRequests)

app == <<portRate, serBaud, phase, wanted>>
vars == <<deviceRate, app, line, answer, requests>>

Init ==
  /\ deviceRate = BootRate
  /\ portRate = BootRate
  /\ serBaud = BootRate
  /\ phase = "closed"
  /\ wanted = BootRate
  /\ line = None
  /\ answer = None
  /\ requests = 0

\* A request goes out at the rate of the port.
Send(p, rate) ==
  /\ requests < MaxRequests
  /\ requests' = requests + 1
  /\ phase' = p
  /\ wanted' = rate
  /\ line' = [rate |-> portRate', cmd |-> p, baud |-> rate]
  /\ answer' = None

\* usbConnect opens the port at serBaud and sends a ping.
Open ==
  /\ phase = "closed"
  /\ portRate' = serBaud
  /\ Send("ping", serBaud)
  /\ UNCHANGED <<deviceRate, serBaud>>

\* startPolling: status.get and the like.
Poll ==
  /\ phase = "open"
  /\ UNCHANGED <<deviceRate, portRate, serBaud>>
  /\ Send("poll", wanted)

\* setSerialBaud of the view model, setBaud of the transport.
SetBaud ==
  /\ phase = "open"
  /\ UNCHANGED <<deviceRate, portRate, serBaud>>
  /\ \E rate \in Rates : Send("uart.baud", rate)

\* The device understands the request: it changes its rate first and answers
\* 20 ms later at the rate it then has.
Handle ==
  /\ line # None
  /\ ~Uart \/ line.rate = deviceRate
  /\ deviceRate' =
       IF line.cmd = "uart.baud" /\ Uart THEN line.baud ELSE deviceRate
  /\ answer' = [rate |-> deviceRate', ok |-> line.cmd # "uart.baud" \/ Uart]
  /\ line' = None
  /\ UNCHANGED <<app, requests>>

\* At another rate it is noise.
HandleNoise ==
  /\ line # None
  /\ Uart
  /\ line.rate # deviceRate
  /\ line' = None
  /\ UNCHANGED <<deviceRate, app, answer, requests>>

Readable == answer # None /\ (~Uart \/ answer.rate = portRate)

\* The answer arrives.  Only now the port follows a change of the rate.
ReadAnswer ==
  /\ Readable
  /\ phase' = "open"
  /\ IF phase = "uart.baud" /\ answer.ok
       THEN portRate' = wanted /\ serBaud' = wanted
       ELSE UNCHANGED <<portRate, serBaud>>
  /\ answer' = None
  /\ UNCHANGED <<deviceRate, wanted, line, requests>>

\* nextLine finds no line for five seconds.  A ping that fails closes the port,
\* any other request only fails.
Timeout ==
  /\ phase \in {"ping", "poll", "uart.baud"}
  /\ line = None
  /\ ~Readable
  /\ phase' = IF phase = "ping" THEN "closed" ELSE "open"
  /\ answer' = None
  /\ UNCHANGED <<deviceRate, portRate, serBaud, wanted, line, requests>>

Close ==
  /\ phase = "open"
  /\ phase' = "closed"
  /\ UNCHANGED <<deviceRate, portRate, serBaud, wanted, line, answer, requests>>

\* The user makes no further request.
Terminated ==
  /\ phase \in {"open", "closed"}
  /\ UNCHANGED vars

Next ==
  \/ Open
  \/ Poll
  \/ SetBaud
  \/ Handle
  \/ HandleNoise
  \/ ReadAnswer
  \/ Timeout
  \/ Close
  \/ Terminated

Spec == Init /\ [][Next]_vars

-----------------------------------------------------------------------------
\* SerialClient.kt:273 says of setBaud that the change takes effect on a CH34x:
\* when it is over, the application and the device use the same rate.
ChangeTakesEffect ==
  [][phase = "uart.baud" /\ phase' = "open" => portRate' = deviceRate']_vars
=============================================================================
