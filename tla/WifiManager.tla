----------------------------- MODULE WifiManager -----------------------------
(***************************************************************************)
(* The Wi-Fi task (main/wifi/wifi_manager.c): it joins the network of the  *)
(* configuration, joins again after every loss, stops the player when the  *)
(* source changes and keeps the radio playing while there is a connection. *)
(*                                                                         *)
(* The driver reports joins and losses through the queue of the event      *)
(* loop, whose task runs event_handler; the flag both tasks write and the  *)
(* state shown to clients are written one after the other.  The player is  *)
(* what this task sees of it: a command in the queue, the source served,   *)
(* the stop bit, which audio_task clears after it has taken a command (the *)
(* rest of it is the module AudioService).                                 *)
(***************************************************************************)
EXTENDS Naturals, Sequences

CONSTANTS
  Nets,          \* networks, each with its password
  Urls,          \* radio stations
  None,          \* no network, no source
  Song,          \* a file users or other tasks play
  Configs,       \* configurations users may choose
  FirstConfig,   \* the one at boot
  QueueLength,   \* events the event loop holds
  MaxChanges,    \* bound: changes of the configuration
  MaxCalls,      \* bound: calls of the player by others
  MaxFaults      \* bound: failed starts of the driver

ASSUME NoneAssumption == None \notin Nets \cup Urls /\ Song \notin Urls \cup {None}
ASSUME ConfigAssumption ==
  /\ Configs \subseteq [net : Nets \cup {None}, mode : {"birthday", "radio"},
                        url : Urls \cup {None}]
  /\ FirstConfig \in Configs
ASSUME BoundAssumption ==
  /\ QueueLength \in Nat \ {0}
  /\ {MaxChanges, MaxCalls, MaxFaults} \subseteq Nat

VARIABLES
  config,     \* s_config of nvs_config.c
  changes,    \* changes of the configuration (bounded)
  up,         \* networks within reach
  link,       \* station of the driver: "off", "idle", "joining", "joined"
  net,        \* network the station is configured for
  events,     \* queue of the event loop
  faults,     \* failed starts (bounded)
  handler,    \* control point of event_handler: "Idle", "ShowLost", "ShowUp"
  bit,        \* WIFI_CONNECTED_BIT
  shown,      \* wifi_connected in app_state
  pc,         \* control point of wifi_task
  first,      \* locals of wifi_task
  current,
  previous,
  started,    \* s_started
  queued,     \* command in the queue of the player
  taken,      \* command audio_task has taken and not yet begun
  serving,    \* source that plays
  stopBit,    \* AUDIO_STOP_BIT
  calls,      \* calls of others (bounded)
  erased,     \* history: a stop of wifi_task was cleared by the song it meant
  broken      \* history: the last start of the driver failed

world == <<config, changes, up>>
driver == <<link, net, events, faults>>
flags == <<handler, bit, shown>>
task == <<pc, first, current, previous, started>>
player == <<queued, taken, serving, stopBit, calls>>
history == <<erased, broken>>
vars == <<world, driver, flags, task, player, history>>

Init ==
  /\ config = FirstConfig
  /\ changes = 0
  /\ up \in SUBSET Nets
  /\ link = "off"
  /\ net = None
  /\ events = <<>>
  /\ faults = 0
  /\ handler = "Idle"
  /\ bit = FALSE
  /\ shown = FALSE
  /\ pc = "Wait"
  /\ first = TRUE
  /\ current = FirstConfig
  /\ previous = FirstConfig
  /\ started = FALSE
  /\ queued = None
  /\ taken = None
  /\ serving = None
  /\ stopBit = FALSE
  /\ calls = 0
  /\ erased = FALSE
  /\ broken = FALSE

(***************************************************************************)
(* The player, as wifi_task and the others use it.                         *)
(***************************************************************************)

\* audio_service_is_active
Active == queued # None \/ taken # None \/ serving # None

\* queue_command: what plays is asked to stop, what waits is replaced.
Order(source) == queued' = source /\ stopBit' = TRUE

\* audio_service_stop; a command taken in the middle of it loses the bit as one
\* taken before it does.
Stop == queued' = None /\ stopBit' = TRUE

\* audio_task receives a command ...
Take ==
  /\ queued # None /\ taken = None /\ serving = None
  /\ taken' = queued
  /\ queued' = None
  /\ UNCHANGED <<world, driver, flags, task, serving, stopBit, calls, history>>

\* ... and clears the stop bit, whoever has set it since.
Begin ==
  /\ taken # None
  /\ serving' = taken
  /\ taken' = None
  /\ stopBit' = FALSE
  /\ UNCHANGED <<world, driver, flags, task, queued, calls, history>>

\* A stop bit ends what plays; without one only a song ends.
End ==
  /\ serving # None
  /\ stopBit \/ serving = Song
  /\ serving' = None
  /\ erased' = FALSE
  /\ UNCHANGED <<world, driver, flags, task, queued, taken, stopBit, calls, broken>>

OthersCall ==
  /\ calls < MaxCalls
  /\ calls' = calls + 1
  /\ Order(Song) \/ Stop
  /\ UNCHANGED <<world, driver, flags, task, taken, serving, history>>

(***************************************************************************)
(* The driver, and the handler of its events.                              *)
(***************************************************************************)

Post(event) == Len(events) < QueueLength /\ events' = Append(events, event)

Joins ==
  /\ link = "joining" /\ net \in up
  /\ link' = "joined"
  /\ Post("gotIp")
  /\ UNCHANGED <<world, net, faults, flags, task, player, history>>

\* The network is not found, or is lost.
Loses ==
  /\ link \in {"joining", "joined"} /\ net \notin up
  /\ link' = "idle"
  /\ Post("lost")
  /\ UNCHANGED <<world, net, faults, flags, task, player, history>>

HandleEvent_KeepsBit ==
  /\ handler = "Idle"
  /\ events # <<>>
  /\ bit' = (bit \/ Head(events) = "gotIp")
  /\ handler' = IF Head(events) = "gotIp" THEN "ShowUp" ELSE "ShowLost"
  /\ events' = Tail(events)
  /\ UNCHANGED <<world, link, net, faults, shown, task, player, history>>

\* event_handler: first the bit, then the state shown.
HandleEvent ==
  /\ handler = "Idle"
  /\ events # <<>>
  /\ bit' = (Head(events) = "gotIp")
  /\ handler' = IF Head(events) = "gotIp" THEN "ShowUp" ELSE "ShowLost"
  /\ events' = Tail(events)
  /\ UNCHANGED <<world, link, net, faults, shown, task, player, history>>

\* The state shown follows the event, not the bit.
HandlerShows ==
  /\ handler # "Idle"
  /\ shown' = (handler = "ShowUp")
  /\ handler' = "Idle"
  /\ UNCHANGED <<world, driver, bit, task, player, history>>

(***************************************************************************)
(* wifi_task.                                                              *)
(***************************************************************************)

Goto(next) == pc' = next /\ UNCHANGED <<first, current, previous>>

NewCredentials == first \/ current.net # previous.net

NewSource_ModeOnly == first \/ current.mode # previous.mode

NewSource == first \/ current.mode # previous.mode \/ current.url # previous.url

\* The delay is over or a change is notified: the configuration is copied.
Wake ==
  /\ pc = "Wait"
  /\ current' = config
  /\ pc' = "Compare"
  /\ UNCHANGED <<world, driver, flags, first, previous, started, player, history>>

Keep ==
  /\ pc = "Compare"
  /\ ~NewCredentials
  /\ Goto("Source")
  /\ UNCHANGED <<world, driver, flags, started, player, history>>

\* apply_credentials: the old network is left, which the driver reports.
Leave ==
  /\ pc = "Compare"
  /\ NewCredentials
  /\ Goto("Clear")
  /\ started' = FALSE
  /\ IF started
       THEN /\ link' = "off"
            /\ IF link \in {"joining", "joined"} THEN Post("lost")
                                                 ELSE UNCHANGED events
       ELSE UNCHANGED <<link, events>>
  /\ UNCHANGED <<world, net, faults, flags, player, history>>

ClearBit ==
  /\ pc = "Clear"
  /\ bit' = FALSE
  /\ Goto("Hide")
  /\ UNCHANGED <<world, driver, handler, shown, started, player, history>>

\* Without a network nothing is left to apply.
Hide ==
  /\ pc = "Hide"
  /\ shown' = FALSE
  /\ broken' = FALSE
  /\ Goto(IF current.net = None THEN "Source" ELSE "Start")
  /\ UNCHANGED <<world, driver, handler, bit, started, player, erased>>

\* esp_wifi_set_config, esp_wifi_start and esp_wifi_connect.
Start ==
  /\ pc = "Start"
  /\ net' = current.net
  /\ link' = "joining"
  /\ started' = TRUE
  /\ Goto("Source")
  /\ UNCHANGED <<world, events, faults, flags, player, history>>

\* A failure is only logged; the configuration counts as applied.
StartFails ==
  /\ pc = "Start"
  /\ faults < MaxFaults
  /\ faults' = faults + 1
  /\ broken' = TRUE
  /\ Goto("Source")
  /\ UNCHANGED <<world, link, net, events, flags, started, player, erased>>

\* A new source: what plays is stopped, whatever it is.
Source ==
  /\ pc = "Source"
  /\ Goto("Check")
  /\ IF ~first /\ NewSource
       THEN Stop /\ erased' = (erased \/ (taken # None /\ taken # Song))
       ELSE UNCHANGED <<queued, stopBit, erased>>
  /\ UNCHANGED <<world, driver, flags, started, taken, serving, calls, broken>>

\* Started, but the first esp_wifi_connect fails: Reconnect tries again.
ConnectFails ==
  /\ pc = "Start"
  /\ faults < MaxFaults
  /\ faults' = faults + 1
  /\ net' = current.net
  /\ link' = "idle"
  /\ started' = TRUE
  /\ Goto("Source")
  /\ UNCHANGED <<world, events, flags, player, history>>

\* The three questions of the loop, each asked of another task.
CheckConnected ==
  /\ pc = "Check"
  /\ Goto(IF current.mode = "radio" /\ bit /\ current.url # None THEN "CheckIdle"
                                                                 ELSE "CheckLost")
  /\ UNCHANGED <<world, driver, flags, started, player, history>>

CheckIdle_StopIsActive ==
  /\ pc = "CheckIdle"
  /\ Goto(IF Active \/ stopBit THEN "CheckLost" ELSE "Radio")
  /\ UNCHANGED <<world, driver, flags, started, player, history>>

CheckIdle ==
  /\ pc = "CheckIdle"
  /\ Goto(IF Active THEN "CheckLost" ELSE "Radio")
  /\ UNCHANGED <<world, driver, flags, started, player, history>>

Sleep ==
  /\ pc' = "Wait"
  /\ previous' = current
  /\ first' = FALSE
  /\ UNCHANGED <<current, started>>

\* audio_service_start_radio; others may have used the player since CheckIdle.
StartRadio ==
  /\ pc = "Radio"
  /\ Order(current.url)
  /\ Sleep
  /\ UNCHANGED <<world, driver, flags, taken, serving, calls, history>>

Reconnect_OnlyAtBoot ==
  /\ pc = "CheckLost"
  /\ link' = IF started /\ first /\ link = "idle" THEN "joining" ELSE link
  /\ Sleep
  /\ UNCHANGED <<world, net, events, faults, flags, player, history>>

\* esp_wifi_connect does nothing while the station joins or has joined.
Reconnect ==
  /\ pc = "CheckLost"
  /\ link' = IF started /\ ~bit /\ link = "idle" THEN "joining" ELSE link
  /\ Sleep
  /\ UNCHANGED <<world, net, events, faults, flags, player, history>>

(***************************************************************************)
(* Users and the air.                                                      *)
(***************************************************************************)

Reconfigure ==
  /\ changes < MaxChanges
  /\ changes' = changes + 1
  /\ config' \in Configs \ {config}
  /\ UNCHANGED <<up, driver, flags, task, player, history>>

NetworkChanges ==
  /\ up' \in SUBSET Nets \ {up}
  /\ UNCHANGED <<config, changes, driver, flags, task, player, history>>

TaskStep ==
  \/ Wake \/ Keep \/ Leave \/ ClearBit \/ Hide \/ Start \/ StartFails
  \/ ConnectFails
  \/ Source \/ CheckConnected \/ CheckIdle \/ StartRadio \/ Reconnect

DriverStep == Joins \/ Loses

HandlerStep == HandleEvent \/ HandlerShows

PlayerStep == Take \/ Begin \/ End

Next ==
  \/ TaskStep
  \/ DriverStep
  \/ HandlerStep
  \/ PlayerStep
  \/ OthersCall
  \/ Reconfigure
  \/ NetworkChanges

Spec == Init /\ [][Next]_vars

\* The tasks run, and the driver answers; users and the air owe nothing.
FairSpec ==
  Spec /\ WF_vars(TaskStep) /\ WF_vars(DriverStep)
       /\ WF_vars(HandlerStep) /\ WF_vars(PlayerStep)
-----------------------------------------------------------------------------
WorldType ==
  /\ config \in Configs
  /\ changes \in 0 .. MaxChanges
  /\ up \subseteq Nets

DriverType ==
  /\ link \in {"off", "idle", "joining", "joined"}
  /\ net \in Nets \cup {None}
  /\ events \in Seq({"gotIp", "lost"}) /\ Len(events) <= QueueLength
  /\ faults \in 0 .. MaxFaults

FlagsType ==
  /\ handler \in {"Idle", "ShowLost", "ShowUp"}
  /\ bit \in BOOLEAN
  /\ shown \in BOOLEAN

TaskType ==
  /\ pc \in {"Wait", "Compare", "Clear", "Hide", "Start", "Source", "Check",
             "CheckIdle", "Radio", "CheckLost"}
  /\ first \in BOOLEAN
  /\ current \in Configs
  /\ previous \in Configs
  /\ started \in BOOLEAN
  /\ started <=> link # "off"

PlayerType ==
  /\ queued \in Urls \cup {Song, None}
  /\ taken \in Urls \cup {Song, None}
  /\ serving \in Urls \cup {Song, None}
  /\ taken = None \/ serving = None
  /\ stopBit \in BOOLEAN
  /\ calls \in 0 .. MaxCalls

HistoryType == erased \in BOOLEAN /\ broken \in BOOLEAN

\* Types of the variables; s_started says whether the driver runs, and the
\* player begins a command only when nothing plays.
TypeOK ==
  /\ WorldType
  /\ DriverType
  /\ FlagsType
  /\ TaskType
  /\ PlayerType
  /\ HistoryType

\* Once the events are handled the bit and the state shown to clients say what
\* the driver says, however the handler and the task took turns writing them.
FlagsFollowDriver ==
  events = <<>> /\ handler = "Idle" => bit = (link = "joined") /\ shown = bit

Online(c) == config = c /\ c.net \in up /\ ~broken

\* A network that stays within reach is joined, after a change of credentials,
\* a failed connect and every loss, and shown as joined; a failed start alone
\* is never made good (broken).
Rejoins ==
  \A c \in Configs :
    <>[]Online(c) => <>[](link = "joined" /\ net = c.net /\ bit /\ shown)

\* A station that is no longer configured comes to its end, but for the stop
\* that audio_task clears (erased).
OldStationEnds ==
  \A c \in Configs :
    <>[](config = c /\ ~erased)
      => <>[](serving \in Urls => c.mode = "radio" /\ serving = c.url)

\* In radio mode the station plays again after every stop, song and loss.
RadioComesBack ==
  \A c \in Configs :
    c.mode = "radio" /\ c.url # None
      => (<>[](Online(c) /\ ~erased) => []<>(serving = c.url))
=============================================================================
