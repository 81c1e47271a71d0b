---------------------------- MODULE SensorTrigger ----------------------------
(***************************************************************************)
(* The light sensor task (main/sensor/bh1750.c): it samples the BH1750,    *)
(* publishes the reading, and in birthday mode starts the song when the    *)
(* light crosses the threshold, once, until a sample is back beyond the    *)
(* dead zone.  The sensor may come off its bus, users change the           *)
(* configuration, and other tasks use the player meanwhile.                *)
(*                                                                         *)
(* Lux values are integers; the service is idle or busy (its interior is   *)
(* the module AudioService).  The names of the specification are those of  *)
(* the task, which BootSequence starts: a module can extend both.          *)
(***************************************************************************)
EXTENDS Integers

CONSTANTS
  Luxes,         \* readings the sensor may give
  Configs,       \* configurations users may choose
  FirstConfig,   \* the one at boot
  MaxOthers      \* bound: songs other tasks start, and refused calls

ASSUME LuxAssumption == Luxes \subseteq Nat
ASSUME ConfigAssumption ==
  /\ Configs \subseteq [mode : {"birthday", "radio"}, direction : {"above", "below"},
                        trigger : Nat, dead : Nat]
  /\ FirstConfig \in Configs
ASSUME OthersAssumption == MaxOthers \in Nat

VARIABLES
  lux,        \* the light in the room
  attached,   \* the sensor answers on the bus
  config,     \* s_config of nvs_config.c
  busy,       \* audio_service_is_active
  others,     \* calls by other tasks, and refusals (bounded by MaxOthers)
  ready,      \* s_ready
  latched,    \* local of sensor_task
  sample,     \* local "lux" of sensor_task
  published,  \* lux in app_state
  at,         \* control point of sensor_task
  songs       \* history: songs started since a sample was back beyond the
              \* dead zone or another mode was seen

world == <<lux, attached, config, busy, others>>
task == <<ready, latched, sample, published, at>>
sensorVars == <<world, task, songs>>

NoReading == -1

SensorInit ==
  /\ lux \in Luxes
  /\ attached \in BOOLEAN
  /\ config = FirstConfig
  /\ busy = FALSE
  /\ others = 0
  /\ ready = FALSE
  /\ latched = FALSE
  /\ sample = NoReading
  /\ published = NoReading
  /\ at = "Loop"
  /\ songs = 0

(***************************************************************************)
(* The conditions of sensor_task.                                          *)
(***************************************************************************)

Triggers(l, c) ==
  IF c.direction = "above" THEN l > c.trigger ELSE l < c.trigger

Rearms_Swapped(l, c) ==
  IF c.direction = "above" THEN l <= c.trigger - c.dead
                           ELSE l <= c.trigger + c.dead

Rearms(l, c) ==
  IF c.direction = "above" THEN l <= c.trigger - c.dead
                           ELSE l >= c.trigger + c.dead

(***************************************************************************)
(* sensor_task.                                                            *)
(***************************************************************************)

Connect_OnlyAtBoot ==
  /\ at = "Loop"
  /\ ~ready
  /\ published = NoReading
  /\ attached
  /\ ready' = TRUE
  /\ UNCHANGED <<world, latched, sample, published, at, songs>>

\* bh1750_init succeeds; while it fails the task waits and tries again.
Connect ==
  /\ at = "Loop"
  /\ ~ready
  /\ attached
  /\ ready' = TRUE
  /\ UNCHANGED <<world, latched, sample, published, at, songs>>

SampleFails_Unlatches ==
  /\ at = "Loop"
  /\ ready
  /\ ~attached
  /\ ready' = FALSE
  /\ latched' = FALSE
  /\ UNCHANGED <<world, sample, published, at, songs>>

\* A failed read leaves the latch as it is.
SampleFails ==
  /\ at = "Loop"
  /\ ready
  /\ ~attached
  /\ ready' = FALSE
  /\ UNCHANGED <<world, latched, sample, published, at, songs>>

\* A valid reading is published before anything is decided on it.
Read ==
  /\ at = "Loop"
  /\ ready
  /\ attached
  /\ sample' = lux
  /\ published' = lux
  /\ at' = "Decide"
  /\ UNCHANGED <<world, ready, latched, songs>>

\* nvs_config_get is called after the read: the configuration may be newer
\* than the sample.
InZone == config.mode # "birthday" \/ Rearms(sample, config)

\* Another mode, or light back beyond the dead zone: armed.
Unlatch ==
  /\ at = "Decide"
  /\ IF latched THEN InZone ELSE config.mode # "birthday"
  /\ latched' = FALSE
  /\ at' = "Loop"
  /\ songs' = 0
  /\ UNCHANGED <<world, ready, sample, published>>

\* Nothing to do: still latched, too little light, or the player is busy.
Wait ==
  /\ at = "Decide"
  /\ config.mode = "birthday"
  /\ IF latched THEN ~Rearms(sample, config)
                ELSE ~Triggers(sample, config) \/ busy
  /\ at' = "Loop"
  /\ songs' = IF InZone THEN 0 ELSE songs
  /\ UNCHANGED <<world, ready, latched, sample, published>>

\* The player looked idle; another task may use it before Play.
Fire ==
  /\ at = "Decide"
  /\ config.mode = "birthday"
  /\ ~latched
  /\ Triggers(sample, config)
  /\ ~busy
  /\ at' = "Play"
  /\ songs' = IF InZone THEN 0 ELSE songs
  /\ UNCHANGED <<world, ready, latched, sample, published>>

\* audio_service_play_birthday accepts the song.
Play ==
  /\ at = "Play"
  /\ busy' = TRUE
  /\ latched' = TRUE
  /\ at' = "Loop"
  /\ songs' = songs + 1
  /\ UNCHANGED <<lux, attached, config, others, ready, sample, published>>

Refused == others < MaxOthers /\ others' = others + 1

PlayFails_Latches ==
  /\ at = "Play"
  /\ Refused
  /\ latched' = TRUE
  /\ at' = "Loop"
  /\ UNCHANGED <<lux, attached, config, busy, ready, sample, published, songs>>

\* audio_service_play_birthday returns an error: the next sample tries again.
PlayFails ==
  /\ at = "Play"
  /\ Refused
  /\ at' = "Loop"
  /\ UNCHANGED <<lux, attached, config, busy, ready, latched, sample, published,
                 songs>>

(***************************************************************************)
(* Everything else.                                                        *)
(***************************************************************************)

LightChanges ==
  /\ lux' \in Luxes
  /\ UNCHANGED <<attached, config, busy, others, task, songs>>

\* The sensor comes off the bus, or back on.
Rewire ==
  /\ attached' = ~attached
  /\ UNCHANGED <<lux, config, busy, others, task, songs>>

Reconfigure ==
  /\ config' \in Configs
  /\ UNCHANGED <<lux, attached, busy, others, task, songs>>

OtherPlays ==
  /\ Refused
  /\ busy' = TRUE
  /\ UNCHANGED <<lux, attached, config, task, songs>>

SongEnds ==
  /\ busy
  /\ busy' = FALSE
  /\ UNCHANGED <<lux, attached, config, others, task, songs>>

SensorStep ==
  \/ Connect
  \/ SampleFails
  \/ Read
  \/ Unlatch
  \/ Wait
  \/ Fire
  \/ Play
  \/ PlayFails

SensorNext ==
  \/ SensorStep
  \/ LightChanges
  \/ Rewire
  \/ Reconfigure
  \/ OtherPlays
  \/ SongEnds

SensorSpec == SensorInit /\ [][SensorNext]_sensorVars

\* The task runs whenever its delay is over, and a song comes to its end.
SensorFairSpec == SensorSpec /\ WF_sensorVars(SensorStep) /\ WF_sensorVars(SongEnds)

-----------------------------------------------------------------------------
WorldType ==
  /\ lux \in Luxes
  /\ attached \in BOOLEAN
  /\ config \in Configs
  /\ busy \in BOOLEAN
  /\ others \in 0 .. MaxOthers

TaskType ==
  /\ ready \in BOOLEAN
  /\ latched \in BOOLEAN
  /\ sample \in Luxes \cup {NoReading}
  /\ published = sample
  /\ at \in {"Loop", "Decide", "Play"}
  /\ at = "Play" => ~latched

\* Types of the variables; a reading is published before it is acted upon,
\* and the latch is open while a song is being started.
SensorTypeOK == WorldType /\ TaskType /\ songs \in Nat

\* One lasting change of light starts one song, through lost sensors, refused
\* calls, songs of others and changes of the configuration.
OneSongPerExcursion == songs <= 1

\* While the sensor is back on the bus and the light is steady, the reading
\* shown is the light: every loss of the sensor is followed by a reconnection.
ReadingRecovers ==
  \A l \in Luxes :
    <>[](attached /\ lux = l) => <>[](published = l)

Steady(c) == attached /\ config = c

\* In darkness (or, for a song that starts in the dark, in the brightest
\* light) the trigger is armed again: no latch stays for ever.
DarknessRearms ==
  \A c \in Configs :
    LET calm == IF c.direction = "above"
                  THEN \A l \in Luxes : lux <= l
                  ELSE \A l \in Luxes : lux >= l
    IN <>[](Steady(c) /\ calm) => <>[]~latched

\* Light that stays beyond the threshold gets its song, after the songs of
\* others and refused calls: light that has been so since the first reading of a
\* start too.  The task compares every reading with trigger_lux itself
\* (bh1750.c:105); README.md:74 and docs/PROTOCOL.md:78 tell of another program,
\* in which the first reading is a baseline that follows the room, only a
\* distance from it starts a song and the dead zone is a share of that distance.
\* There, steady light would never be heard.
LastingLightIsHeard ==
  \A c \in Configs :
    <>[](Steady(c) /\ c.mode = "birthday" /\ Triggers(lux, c)) => <>[](songs = 1)
=============================================================================
