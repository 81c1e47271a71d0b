----------------------------- MODULE ConfigStore -----------------------------
(***************************************************************************)
(* The configuration of the firmware (main/config/nvs_config.c): the copy  *)
(* in RAM behind a mutex, the keys in NVS it is loaded from at boot, and   *)
(* the mirror file /littlefs/config/config.json that every accepted update *)
(* rewrites after it has let go of the mutex.                              *)
(*                                                                         *)
(* An update is a partial function from the fields a request names to the  *)
(* values it gives them; the others keep what they have.  Three fields     *)
(* stand for the twelve: the two that constrain each other and one that is *)
(* free.  Lux values are integers, so trigger_lux * 0.2f is trigger \div 5.*)
(* Power may fail between any two steps.                                   *)
(***************************************************************************)
EXTENDS Naturals, Sequences

CONSTANTS
  Updaters,     \* tasks that call nvs_config_update_json
  Main,         \* app_main, which loads the configuration at boot
  Requests,     \* bodies of config.set and PUT /api/config
  Faults,       \* TRUE: an NVS or mirror write may fail
  MaxUpdates,   \* bound: updates requested in one behaviour
  MaxCrashes    \* bound: resets in one behaviour

Modes == {"birthday", "radio"}
Fields == {"mode", "trigger_lux", "dead_zone_lux"}

ASSUME RequestAssumption == \A r \in Requests : DOMAIN r \subseteq Fields
ASSUME BoundAssumption == MaxUpdates \in Nat /\ MaxCrashes \in Nat
ASSUME FaultAssumption == Faults \in BOOLEAN

VARIABLES
  config,     \* s_config
  previous,   \* the local copy an update falls back to
  lock,       \* holder of s_lock, or NoTask
  nvs,        \* keys of the namespace "musicbox" written so far
  mirror,     \* content of config.json: <<>> before it is first written
  pc,         \* control point of each task
  req,        \* the request each updater serves
  text,       \* what each task is about to write to the mirror
  key,        \* index of the next key persist_locked writes
  updates,    \* updates requested so far (bounded by MaxUpdates)
  crashes,    \* resets so far (bounded by MaxCrashes)
  acked,      \* history: the last configuration an update acknowledged
  attempted,  \* history: per field, values tried since and not acknowledged
  committed,  \* history: configurations acknowledged or loaded at a boot
  loose,      \* history: since a request last named the dead zone, one has
              \* lowered the trigger without it, or a reset has kept keys of
              \* an update cut short
  raced       \* history: since the boot a mirror write has failed, or an
              \* update was accepted before the mirror of another was written

ram == <<config, previous, lock>>
task == <<pc, req, text, key>>
bounds == <<updates, crashes>>
history == <<acked, attempted, committed, loose, raced>>
vars == <<ram, nvs, mirror, task, bounds, history>>

Tasks == Updaters \cup {Main}
NoTask == "none"
NoRequest == <<>>

ASSUME TaskAssumption == Main \notin Updaters /\ NoTask \notin Tasks

Keys_NoMode == <<"trigger_lux", "dead_zone_lux">>

\* The order in which persist_locked writes the keys.
Keys == <<"mode", "trigger_lux", "dead_zone_lux">>

\* The largest lux value a request may give.
MaxLux == 100000

Defaults == [mode |-> "birthday", trigger_lux |-> 300, dead_zone_lux |-> 50]

Override(r, base) == [f \in Fields |-> IF f \in DOMAIN r THEN r[f] ELSE base[f]]

\* What the boot makes of a zone wider than the trigger.  The 50 may be wider
\* than the trigger too, and a zone as wide as the trigger is left alone.
Repaired(c) == [c EXCEPT !.dead_zone_lux = IF @ > c.trigger_lux THEN 50 ELSE @]

\* What nvs_config_init leaves in s_config: stored values over the defaults,
\* then the range checks.
Loaded ==
  Repaired([Override(nvs, Defaults) EXCEPT !.trigger_lux = IF @ < 1 THEN 300 ELSE @])

\* The ranges nvs_config_update_json accepts.
Valid(r) ==
  /\ "mode" \in DOMAIN r => r["mode"] \in Modes
  /\ "trigger_lux" \in DOMAIN r => r["trigger_lux"] \in 1 .. MaxLux
  /\ "dead_zone_lux" \in DOMAIN r => r["dead_zone_lux"] \in 0 .. MaxLux

Candidate_NoClamp(r) == Override(r, config)

\* The candidate of an accepted request: only a request that names the dead
\* zone has it cut down below the trigger.
Candidate(r) ==
  LET c == Override(r, config) IN
  IF "dead_zone_lux" \in DOMAIN r /\ c.dead_zone_lux >= c.trigger_lux
    THEN [c EXCEPT !.dead_zone_lux = c.trigger_lux \div 5]
    ELSE c

Nothing == [f \in Fields |-> {}]

Init ==
  /\ config = Defaults
  /\ previous = Defaults
  /\ lock = NoTask
  /\ nvs = <<>>
  /\ mirror = <<>>
  /\ pc = [t \in Tasks |-> IF t = Main THEN "Load" ELSE "Idle"]
  /\ req = [u \in Updaters |-> NoRequest]
  /\ text = [t \in Tasks |-> Defaults]
  /\ key = 1
  /\ updates = 0
  /\ crashes = 0
  /\ acked = Defaults
  /\ attempted = Nothing
  /\ committed = {}
  /\ loose = FALSE
  /\ raced = FALSE

Goto(t, from, to) ==
  /\ pc[t] = from
  /\ pc' = [pc EXCEPT ![t] = to]

(***************************************************************************)
(* Boot: app_main loads the configuration and writes the mirror before it  *)
(* starts the tasks and the server that can change it.                     *)
(***************************************************************************)

Load_NoMirror ==
  /\ Goto(Main, "Load", "Idle")
  /\ config' = Loaded
  /\ committed' = committed \cup {Loaded}
  /\ UNCHANGED <<previous, lock, nvs, mirror, req, text, key, bounds, acked,
                 attempted, loose, raced>>

Load ==
  /\ Goto(Main, "Load", "ReadConfig")
  /\ config' = Loaded
  /\ committed' = committed \cup {Loaded}
  /\ UNCHANGED <<previous, lock, nvs, mirror, req, text, key, bounds, acked,
                 attempted, loose, raced>>

Running == pc[Main] = "Idle"

(***************************************************************************)
(* An update.                                                              *)
(***************************************************************************)

Request(u) ==
  /\ Running
  /\ updates < MaxUpdates
  /\ updates' = updates + 1
  /\ Goto(u, "Idle", "Lock")
  /\ \E r \in Requests : req' = [req EXCEPT ![u] = r]
  /\ UNCHANGED <<ram, nvs, mirror, text, key, crashes, history>>

\* A request outside the ranges is answered with an error and changes nothing.
Refuse(u) ==
  /\ lock = NoTask
  /\ ~Valid(req[u])
  /\ Goto(u, "Lock", "Idle")
  /\ UNCHANGED <<ram, nvs, mirror, req, text, key, bounds, history>>

\* The candidate is in s_config while it is being persisted: only the mutex
\* hides it from the other tasks.
Accept(u) ==
  /\ lock = NoTask
  /\ Valid(req[u])
  /\ Goto(u, "Lock", "Persist")
  /\ lock' = u
  /\ config' = Candidate(req[u])
  /\ previous' = config
  /\ key' = 1
  /\ attempted' =
       [f \in Fields |-> attempted[f] \cup {Candidate(req[u])[f]}]
  /\ raced' = (raced \/ \E t \in Tasks : pc[t] \in {"ReadConfig", "Write"})
  /\ UNCHANGED <<nvs, mirror, req, text, bounds, acked, committed, loose>>

WriteKey_SkipsDeadZone(u) ==
  /\ pc[u] = "Persist"
  /\ key <= Len(Keys)
  /\ key' = key + 1
  /\ nvs' = IF Keys[key] = "dead_zone_lux" THEN nvs
            ELSE [f \in DOMAIN nvs \cup {Keys[key]} |->
                    IF f = Keys[key] THEN config[f] ELSE nvs[f]]
  /\ UNCHANGED <<ram, mirror, pc, req, text, bounds, history>>

\* nvs_set_*: NVS writes each entry to flash as a whole and at once, so a
\* reset leaves the keys written so far.
WriteKey(u) ==
  /\ pc[u] = "Persist"
  /\ key <= Len(Keys)
  /\ key' = key + 1
  /\ nvs' = [f \in DOMAIN nvs \cup {Keys[key]} |->
               IF f = Keys[key] THEN config[f] ELSE nvs[f]]
  /\ UNCHANGED <<ram, mirror, pc, req, text, bounds, history>>

PersistFails_KeepsLock(u) ==
  /\ Faults
  /\ Goto(u, "Persist", "Idle")
  /\ config' = previous
  /\ UNCHANGED <<previous, lock, nvs, mirror, req, text, key, bounds, history>>

\* nvs_open, one of the nvs_set_* or nvs_commit fails: RAM goes back, the
\* keys already written do not.
PersistFails(u) ==
  /\ Faults
  /\ Goto(u, "Persist", "Idle")
  /\ config' = previous
  /\ lock' = NoTask
  /\ UNCHANGED <<previous, nvs, mirror, req, text, key, bounds, history>>

Persisted(u) ==
  /\ key > Len(Keys)
  /\ Goto(u, "Persist", "ReadConfig")
  /\ lock' = NoTask
  /\ acked' = config
  /\ attempted' = Nothing
  /\ committed' = committed \cup {config}
  /\ loose' = /\ "dead_zone_lux" \notin DOMAIN req[u]
              /\ loose \/ config.trigger_lux < previous.trigger_lux
  /\ UNCHANGED <<config, previous, nvs, mirror, req, text, key, bounds, raced>>

(***************************************************************************)
(* The mirror: nvs_config_write_mirror, called after an update and at boot.*)
(***************************************************************************)

ReadConfig_Unlocked(t) ==
  /\ Goto(t, "ReadConfig", "Write")
  /\ text' = [text EXCEPT ![t] = config]
  /\ UNCHANGED <<ram, nvs, mirror, req, key, bounds, history>>

\* nvs_config_to_json copies the configuration under the mutex.
ReadConfig(t) ==
  /\ lock = NoTask
  /\ Goto(t, "ReadConfig", "Write")
  /\ text' = [text EXCEPT ![t] = config]
  /\ UNCHANGED <<ram, nvs, mirror, req, key, bounds, history>>

\* fopen(.., "wb") to fclose: littlefs replaces the content when the file is
\* closed, so the steps before that show nothing.
WriteMirror(t) ==
  /\ Goto(t, "Write", "Idle")
  /\ mirror' = <<text[t]>>
  /\ UNCHANGED <<ram, nvs, req, text, key, bounds, history>>

\* Out of memory, out of file handles or out of space: both callers of
\* nvs_config_write_mirror ignore its result.
MirrorFails(t) ==
  /\ Faults
  /\ Goto(t, "Write", "Idle")
  /\ raced' = TRUE
  /\ UNCHANGED <<ram, nvs, mirror, req, text, key, bounds, acked, attempted,
                 committed, loose>>

(***************************************************************************)
(* A reset or a loss of power: flash stays, RAM and tasks go.              *)
(***************************************************************************)

Crash ==
  /\ crashes < MaxCrashes
  /\ crashes' = crashes + 1
  /\ config' = Defaults
  /\ previous' = Defaults
  /\ lock' = NoTask
  /\ pc' = [t \in Tasks |-> IF t = Main THEN "Load" ELSE "Idle"]
  /\ req' = [u \in Updaters |-> NoRequest]
  /\ text' = [t \in Tasks |-> Defaults]
  /\ key' = 1
  /\ loose' = (loose \/ attempted # Nothing)
  /\ raced' = FALSE
  /\ UNCHANGED <<nvs, mirror, updates, acked, attempted, committed>>

UpdaterStep(u) ==
  \/ Refuse(u)
  \/ Accept(u)
  \/ WriteKey(u)
  \/ PersistFails(u)
  \/ Persisted(u)

MirrorStep(t) ==
  \/ ReadConfig(t)
  \/ WriteMirror(t)
  \/ MirrorFails(t)

\* Every task is idle and every bound is used up.
Terminated ==
  /\ \A t \in Tasks : pc[t] = "Idle"
  /\ updates = MaxUpdates
  /\ UNCHANGED vars

Next ==
  \/ Load
  \/ \E u \in Updaters : Request(u) \/ UpdaterStep(u)
  \/ \E t \in Tasks : MirrorStep(t)
  \/ Crash
  \/ Terminated

Spec == Init /\ [][Next]_vars

\* A task that can run does; requests, faults and resets are nobody's duty.
Fairness ==
  /\ WF_vars(Load)
  /\ \A u \in Updaters : WF_vars(UpdaterStep(u))
  /\ \A t \in Tasks : WF_vars(MirrorStep(t))

FairSpec == Spec /\ Fairness

-----------------------------------------------------------------------------
Config == [mode : Modes, trigger_lux : 1 .. MaxLux, dead_zone_lux : 0 .. MaxLux]

UpdaterPoints == {"Idle", "Lock", "Persist", "ReadConfig", "Write"}
MainPoints == {"Load", "ReadConfig", "Write", "Idle"}

\* Types of the variables; NVS holds a configuration, some keys maybe missing.
TypeOK ==
  /\ config \in Config /\ previous \in Config /\ acked \in Config
  /\ lock \in Updaters \cup {NoTask}
  /\ DOMAIN nvs \subseteq Fields /\ Override(nvs, Defaults) \in Config
  /\ mirror = <<>> \/ (mirror = <<mirror[1]>> /\ mirror[1] \in Config)
  /\ pc \in [Tasks -> UpdaterPoints \cup MainPoints]
  /\ pc[Main] \in MainPoints
  /\ \A u \in Updaters : pc[u] \in UpdaterPoints
  /\ req \in [Updaters -> Requests \cup {NoRequest}]
  /\ text \in [Tasks -> Config]
  /\ key \in 1 .. Len(Keys) + 1
  /\ committed \subseteq Config
  /\ DOMAIN attempted = Fields
  /\ loose \in BOOLEAN /\ raced \in BOOLEAN

\* Nobody holds the mutex and the boot has loaded the configuration.
Settled == lock = NoTask /\ pc[Main] # "Load"

\* No update has been cut short by a failed write or a reset since the last
\* acknowledged one.
Undisturbed == attempted = Nothing

\* An acknowledged update is what the flash holds, before and after any number
\* of failed writes and resets, until a later one is accepted; and the device
\* runs with it, or with what the range checks of a boot make of it, which do
\* not write their repair back.
AcknowledgedSurvives ==
  lock = NoTask /\ Undisturbed =>
    /\ Override(nvs, Defaults) = acked
    /\ pc[Main] # "Load" => config \in {acked, Repaired(acked)}

\* Even when updates are cut short, no key in NVS is older than the last
\* acknowledged update: a reset may bring back part of a later update, never
\* part of an earlier one.
NothingOlderThanAcknowledged ==
  lock = NoTask =>
    \A f \in Fields :
      Override(nvs, Defaults)[f] \in {acked[f]} \cup attempted[f]

\* The mirror never shows an update that was answered with an error: the
\* candidate in s_config is invisible until it is persisted.
MirrorShowsCommitted ==
  /\ \A i \in DOMAIN mirror : mirror[i] \in committed
  /\ \A t \in Tasks : pc[t] = "Write" => text[t] \in committed

\* The sensor re-arms below the dead zone and fires at the trigger.  Once a
\* request has named the zone it stays below the trigger, through concurrent
\* updates, failed writes and resets, but for two things.  A request that lowers
\* the trigger and leaves the zone out is taken as it is (nvs_config.c:202-210),
\* although simulator.py:137 says that the firmware cuts down any zone as wide
\* as the trigger; and a reset in the middle of an update can mix two of them.
\* The range checks of the boot do not repair every such zone, so both last
\* until the zone is named again.
DeadZoneBelowTrigger ==
  Settled /\ ~loose => config.dead_zone_lux < config.trigger_lux

\* Once nobody is updating, the mirror is the configuration.
MirrorCurrent == (\A t \in Tasks : pc[t] = "Idle") => mirror = <<config>>

\* Without two updates in flight at once the mirror is the configuration as
\* soon as nobody is updating, whatever was refused or failed to persist, and
\* through a reset between the keys in NVS and the mirror.
MirrorFollows == ~raced => MirrorCurrent

\* Every request is answered, whatever fails: no error path keeps the mutex.
UpdatesAnswered == \A u \in Updaters : pc[u] = "Lock" ~> pc[u] = "Idle"
=============================================================================
