-------------------------- MODULE ConfigStoreProofs --------------------------
(***************************************************************************)
(* Proofs about ConfigStore.  Between the steps of an update the copies in *)
(* RAM, in NVS and in the mirror differ, so no safety property of the run  *)
(* is inductive: the invariant says which copies agree, and on what, at    *)
(* each control point of the tasks.                                        *)
(***************************************************************************)
EXTENDS ConfigStore, TLAPS

\* What NVS holds, with the defaults where it holds nothing.
Stored == Override(nvs, Defaults)

\* A task is persisting exactly when it holds the mutex, and it has a request.
Mutex ==
  \A u \in Updaters :
    /\ pc[u] = "Persist" <=> lock = u
    /\ pc[u] \in {"Lock", "Persist"} => req[u] \in Requests

\* Nobody updates before the boot is done.
BootFirst == pc[Main] # "Idle" => \A u \in Updaters : pc[u] = "Idle"

\* The keys written so far are those of the candidate, which counts as tried.
Writing ==
  lock # NoTask =>
    /\ \A i \in 1 .. Len(Keys) : i < key => Stored[Keys[i]] = config[Keys[i]]
    /\ \A f \in Fields : config[f] \in attempted[f]
    /\ previous \in committed

\* Every key is of the last acknowledged configuration or of a later attempt.
NoneOlder == \A f \in Fields : Stored[f] \in {acked[f]} \cup attempted[f]

\* The tasks see committed configurations only.
Visible ==
  /\ lock = NoTask /\ pc[Main] # "Load" => config \in committed
  /\ \A t \in Tasks : pc[t] = "Write" => text[t] \in committed
  /\ mirror = <<>> \/ \E c \in committed : mirror = <<c>>

\* As long as nothing was tried since, NVS holds what was acknowledged, and RAM
\* that or what a boot has made of it.
RamKept == pc[Main] # "Load" => config \in {acked, Repaired(acked)}

Kept ==
  Undisturbed =>
    /\ lock = NoTask
    /\ Stored = acked
    /\ RamKept

InMirror == {t \in Tasks : pc[t] \in {"ReadConfig", "Write"}}

\* What the tasks see: the candidate is hidden by the mutex.
Shown == IF lock = NoTask THEN config ELSE previous

\* Without a race one task at a time is at the mirror, with nobody updating, and
\* what it has read is the configuration.
Mirroring ==
  ~raced =>
    /\ \A t \in InMirror : lock = NoTask /\ InMirror = {t}
    /\ \A t \in Tasks : pc[t] = "Write" => text[t] = config
    /\ InMirror = {} /\ pc[Main] # "Load" => mirror = <<Shown>>

Inv1 == TypeOK /\ Mutex /\ BootFirst /\ Writing /\ NoneOlder /\ Visible /\ Mirroring

-----------------------------------------------------------------------------
LEMMA KeysAre ==
  /\ Len(Keys) = 3
  /\ Keys[1] = "mode" /\ Keys[2] = "trigger_lux" /\ Keys[3] = "dead_zone_lux"
BY DEF Keys

LEMMA MaxLuxIs == MaxLux \in Nat /\ 300 <= MaxLux
BY SMT DEF MaxLux

LEMMA FieldsOf ==
  \A c \in Config :
    /\ DOMAIN c = Fields /\ c = [f \in Fields |-> c[f]]
    /\ c.mode \in Modes /\ c.trigger_lux \in 1 .. MaxLux /\ c.dead_zone_lux \in 0 .. MaxLux
<1>1. \A c \in Config : DOMAIN c = Fields
  BY DEF Config, Fields
<1>2. \A c \in Config : c = [f \in Fields |-> c[f]]
  BY <1>1 DEF Config
<1>3. \A c \in Config :
        c.mode \in Modes /\ c.trigger_lux \in 1 .. MaxLux /\ c.dead_zone_lux \in 0 .. MaxLux
  BY DEF Config
<1>. QED BY <1>1, <1>2, <1>3, Zenon

\* A function of the fields with values in range is a configuration.
LEMMA IsConfig ==
  ASSUME NEW g, DOMAIN g = Fields, g = [f \in Fields |-> g[f]],
         g.mode \in Modes, g.trigger_lux \in 1 .. MaxLux, g.dead_zone_lux \in 0 .. MaxLux
  PROVE  g \in Config
BY DEF Config, Fields

LEMMA SameConfig ==
  ASSUME NEW c \in Config, NEW d \in Config, \A f \in Fields : c[f] = d[f]
  PROVE  c = d
BY FieldsOf, Zenon

LEMMA DefaultsType == Defaults \in Config
<1>1. 300 \in 1 .. MaxLux /\ 50 \in 0 .. MaxLux
  BY MaxLuxIs, SMT
<1>2. "birthday" \in Modes
  BY DEF Modes
<1>. QED BY <1>1, <1>2, SMT DEF Defaults, Config

LEMMA DeadZoneType ==
  ASSUME NEW c \in Config, NEW d \in 0 .. MaxLux
  PROVE  /\ [c EXCEPT !.dead_zone_lux = d] \in Config
         /\ [c EXCEPT !.dead_zone_lux = d].mode = c.mode
         /\ [c EXCEPT !.dead_zone_lux = d].trigger_lux = c.trigger_lux
         /\ [c EXCEPT !.dead_zone_lux = d].dead_zone_lux = d
BY DEF Config

LEMMA OverrideType ==
  ASSUME NEW r, Valid(r), NEW b \in Config
  PROVE  /\ Override(r, b) \in Config
         /\ \A f \in Fields : Override(r, b)[f] = IF f \in DOMAIN r THEN r[f] ELSE b[f]
<1> DEFINE g == Override(r, b)
<1>1. DOMAIN g = Fields /\ g = [f \in Fields |-> g[f]]
      /\ \A f \in Fields : g[f] = IF f \in DOMAIN r THEN r[f] ELSE b[f]
  BY DEF Override
<1>2. g["mode"] \in Modes /\ g["trigger_lux"] \in 1 .. MaxLux /\ g["dead_zone_lux"] \in 0 .. MaxLux
  BY <1>1, FieldsOf DEF Valid, Fields
<1> HIDE DEF g
<1>3. g \in Config
  BY <1>1, <1>2, IsConfig
<1>. QED BY <1>1, <1>3 DEF g

\* An accepted request makes a configuration.
LEMMA CandidateType ==
  ASSUME NEW r, Valid(r), config \in Config
  PROVE  /\ Candidate(r) \in Config
         /\ Candidate(r).trigger_lux = Override(r, config).trigger_lux
         /\ "dead_zone_lux" \in DOMAIN r => Candidate(r).dead_zone_lux < Candidate(r).trigger_lux
         /\ "dead_zone_lux" \notin DOMAIN r => Candidate(r) = Override(r, config)
<1> DEFINE c == Override(r, config)
<1>1. c \in Config
  BY OverrideType
<1>2. c.trigger_lux \in 1 .. MaxLux /\ c.dead_zone_lux \in 0 .. MaxLux
  BY <1>1, FieldsOf
<1>3. Candidate(r) = IF "dead_zone_lux" \in DOMAIN r /\ c.dead_zone_lux >= c.trigger_lux
                       THEN [c EXCEPT !.dead_zone_lux = c.trigger_lux \div 5] ELSE c
  BY DEF Candidate
<1> HIDE DEF c
<1>4. c.trigger_lux \div 5 \in 0 .. MaxLux /\ c.trigger_lux \div 5 < c.trigger_lux
  BY <1>2, MaxLuxIs
<1>5. CASE "dead_zone_lux" \in DOMAIN r /\ c.dead_zone_lux >= c.trigger_lux
  BY <1>1, <1>3, <1>4, <1>5, DeadZoneType DEF c
<1>6. CASE "dead_zone_lux" \in DOMAIN r /\ ~(c.dead_zone_lux >= c.trigger_lux)
  <2>1. Candidate(r) = c /\ c.dead_zone_lux < c.trigger_lux
    BY <1>2, <1>3, <1>6, MaxLuxIs
  <2>. QED BY <1>1, <1>6, <2>1 DEF c
<1>7. CASE "dead_zone_lux" \notin DOMAIN r
  BY <1>1, <1>3, <1>7 DEF c
<1>. QED BY <1>5, <1>6, <1>7

\* The range checks of the boot touch nothing but a dead zone that is too wide.
LEMMA LoadedType ==
  ASSUME Stored \in Config
  PROVE  /\ Loaded \in Config
         /\ Loaded = Repaired(Stored)
         /\ Stored.dead_zone_lux < Stored.trigger_lux => Loaded = Stored
<1> DEFINE c == Stored
           dead == IF c.dead_zone_lux > c.trigger_lux THEN 50 ELSE c.dead_zone_lux
<1>1. c.trigger_lux \in 1 .. MaxLux /\ c.dead_zone_lux \in 0 .. MaxLux /\ c \in Config
  BY FieldsOf
<1>2. Loaded = Repaired([c EXCEPT !.trigger_lux = IF @ < 1 THEN 300 ELSE @])
  BY Zenon DEF Loaded, Stored
<1>3. ~(c.trigger_lux < 1)
  BY <1>1, MaxLuxIs
<1>4. dead \in 0 .. MaxLux
  BY <1>1, MaxLuxIs
<1> HIDE DEF c
<1>5. [c EXCEPT !.trigger_lux = IF @ < 1 THEN 300 ELSE @] = c
  BY <1>1, <1>3 DEF Config
<1>6. Loaded = Repaired(c)
  BY <1>2, <1>5, Zenon
<1>7. Repaired(c) = [c EXCEPT !.dead_zone_lux = dead]
  BY <1>1 DEF Repaired, Config
<1>8. c = [c EXCEPT !.dead_zone_lux = c.dead_zone_lux]
  BY <1>1 DEF Config
<1>9. c.dead_zone_lux < c.trigger_lux => Loaded = c
  <2>1. c.dead_zone_lux < c.trigger_lux => dead = c.dead_zone_lux
    BY <1>1, MaxLuxIs
  <2>. QED BY <1>6, <1>7, <1>8, <2>1
<1>10. Loaded \in Config
  BY <1>1, <1>4, <1>6, <1>7, DeadZoneType
<1>. QED BY <1>6, <1>9, <1>10 DEF c

\* One key more is written: it is the candidate's, the others stay.
LEMMA WriteKeyStored ==
  ASSUME TypeOK, NEW u \in Updaters, WriteKey(u)
  PROVE  /\ Stored' \in Config
         /\ DOMAIN nvs' \subseteq Fields
         /\ \A f \in Fields : Stored'[f] = IF f = Keys[key] THEN config[f] ELSE Stored[f]
<1>1. key \in 1 .. 3 /\ Keys[key] \in Fields
  BY KeysAre DEF TypeOK, WriteKey, Fields
<1>2. nvs' = [f \in DOMAIN nvs \cup {Keys[key]} |-> IF f = Keys[key] THEN config[f] ELSE nvs[f]]
  BY DEF WriteKey
<1>3. DOMAIN nvs' = DOMAIN nvs \cup {Keys[key]}
  BY <1>2
<1>4. \A f \in Fields : Stored[f] = IF f \in DOMAIN nvs THEN nvs[f] ELSE Defaults[f]
  BY DEF Stored, Override
<1>5. \A f \in Fields : Stored'[f] = IF f \in DOMAIN nvs' THEN nvs'[f] ELSE Defaults[f]
  BY DEF Stored, Override
<1>6. \A f \in Fields : Stored'[f] = IF f = Keys[key] THEN config[f] ELSE Stored[f]
  BY <1>2, <1>3, <1>4, <1>5
<1>7. DOMAIN Stored' = Fields /\ Stored' = [f \in Fields |-> Stored'[f]]
  BY DEF Stored, Override
<1>8. /\ config.mode \in Modes /\ config.trigger_lux \in 1 .. MaxLux
      /\ config.dead_zone_lux \in 0 .. MaxLux
      /\ Stored.mode \in Modes /\ Stored.trigger_lux \in 1 .. MaxLux
      /\ Stored.dead_zone_lux \in 0 .. MaxLux
  <2>1. config \in Config /\ Stored \in Config
    BY DEF TypeOK, Stored
  <2>. QED BY <2>1, FieldsOf, Zenon
<1>9. /\ Stored'["mode"] \in Modes /\ Stored'["trigger_lux"] \in 1 .. MaxLux
      /\ Stored'["dead_zone_lux"] \in 0 .. MaxLux
  BY <1>6, <1>8 DEF Fields
<1>10. Stored' \in Config
  BY <1>7, <1>9, IsConfig
<1>. QED BY <1>1, <1>3, <1>6, <1>10 DEF TypeOK, Stored

\* A task that goes on leaves the others where they are.
LEMMA Moves ==
  ASSUME TypeOK, NEW t \in Tasks, NEW from, NEW to, Goto(t, from, to)
  PROVE  /\ pc[t] = from /\ pc'[t] = to
         /\ \A s \in Tasks \ {t} : pc'[s] = pc[s]
BY DEF Goto, TypeOK

LEMMA StoredStays == ASSUME nvs' = nvs PROVE Stored' = Stored
BY DEF Stored, Override

LEMMA TasksAre == Main \in Tasks /\ Updaters \subseteq Tasks /\ Main \notin Updaters
                  /\ NoTask \notin Updaters
BY TaskAssumption DEF Tasks

-----------------------------------------------------------------------------
\* Nothing has been loaded and nothing asked for when the device is switched on.
LEMMA InitInv == Init => Inv1 /\ Kept
<1> SUFFICES ASSUME Init PROVE Inv1 /\ Kept
  OBVIOUS
<1>1. Stored = Defaults
  <2>1. \A f \in Fields : Stored[f] = Defaults[f]
    BY DEF Init, Stored, Override
  <2>2. DOMAIN Stored = Fields /\ Stored = [f \in Fields |-> Stored[f]]
    BY DEF Stored, Override
  <2>. QED BY <2>1, <2>2, DefaultsType, FieldsOf, Zenon
<1>2. TypeOK
  <2>1. pc \in [Tasks -> UpdaterPoints \cup MainPoints] /\ pc[Main] \in MainPoints
        /\ \A u \in Updaters : pc[u] \in UpdaterPoints
    BY TasksAre DEF Init, UpdaterPoints, MainPoints
  <2>2. DOMAIN nvs \subseteq Fields /\ DOMAIN attempted = Fields
    BY DEF Init, Nothing
  <2>3. key \in 1 .. Len(Keys) + 1
    BY KeysAre DEF Init
  <2>. QED BY <1>1, <2>1, <2>2, <2>3, DefaultsType, Zenon DEF Init, TypeOK, Stored
<1>3. Mutex /\ BootFirst
  BY TasksAre DEF Init, Mutex, BootFirst
<1>4. Writing /\ Visible
  BY TasksAre DEF Init, Writing, Visible
<1>5. NoneOlder /\ Kept
  BY <1>1, TasksAre DEF Init, NoneOlder, Kept, RamKept
<1>6. Mirroring
  BY TasksAre DEF Init, Mirroring, InMirror
<1>. QED BY <1>2, <1>3, <1>4, <1>5, <1>6 DEF Inv1

\* The mutex keeps updates apart.
LEMMA MutexStep == TypeOK /\ Mutex /\ [Next]_vars => Mutex'
<1> SUFFICES ASSUME TypeOK, Mutex, [Next]_vars PROVE Mutex'
  OBVIOUS
<1> USE TasksAre
<1>1. CASE Load
  <2>1. \A u \in Updaters : pc'[u] = pc[u]
    BY <1>1, Moves DEF Load
  <2>. QED BY <1>1, <2>1 DEF Load, Mutex
<1>2. ASSUME NEW u \in Updaters, Request(u) PROVE Mutex'
  <2>1. pc[u] = "Idle" /\ pc'[u] = "Lock" /\ \A v \in Updaters \ {u} : pc'[v] = pc[v]
    BY <1>2, Moves DEF Request
  <2>2. PICK r \in Requests : req' = [req EXCEPT ![u] = r]
    BY <1>2 DEF Request
  <2>3. req'[u] = r /\ \A v \in Updaters \ {u} : req'[v] = req[v]
    BY <2>2 DEF TypeOK
  <2>4. lock' = lock
    BY <1>2 DEF Request, ram
  <2>. QED BY <2>1, <2>3, <2>4 DEF Mutex
<1>3. ASSUME NEW u \in Updaters, Refuse(u) PROVE Mutex'
  <2>1. pc[u] = "Lock" /\ pc'[u] = "Idle" /\ \A v \in Updaters \ {u} : pc'[v] = pc[v]
    BY <1>3, Moves DEF Refuse
  <2>. QED BY <1>3, <2>1 DEF Refuse, ram, Mutex
<1>4. ASSUME NEW u \in Updaters, Accept(u) PROVE Mutex'
  <2>1. pc[u] = "Lock" /\ pc'[u] = "Persist" /\ \A v \in Updaters \ {u} : pc'[v] = pc[v]
    BY <1>4, Moves DEF Accept
  <2>2. lock = NoTask /\ lock' = u /\ req' = req
    BY <1>4 DEF Accept
  <2>. QED BY <2>1, <2>2 DEF Mutex
<1>5. ASSUME NEW u \in Updaters, WriteKey(u) PROVE Mutex'
  BY <1>5 DEF WriteKey, ram, Mutex
<1>6. ASSUME NEW u \in Updaters, PersistFails(u) \/ Persisted(u) PROVE Mutex'
  <2>1. PICK to \in {"Idle", "ReadConfig"} : Goto(u, "Persist", to)
    BY <1>6 DEF PersistFails, Persisted
  <2>2. pc[u] = "Persist" /\ pc'[u] \in {"Idle", "ReadConfig"}
        /\ \A v \in Updaters \ {u} : pc'[v] = pc[v]
    BY <2>1, Moves
  <2>3. lock' = NoTask /\ req' = req
    BY <1>6 DEF PersistFails, Persisted
  <2>. QED BY <2>2, <2>3 DEF Mutex
<1>7. ASSUME NEW t \in Tasks, MirrorStep(t) PROVE Mutex'
  <2>1. /\ pc[t] \in {"ReadConfig", "Write"} /\ pc'[t] \in {"Write", "Idle"}
        /\ \A v \in Tasks \ {t} : pc'[v] = pc[v]
    <3>1. PICK from \in {"ReadConfig", "Write"}, to \in {"Write", "Idle"} : Goto(t, from, to)
      BY <1>7 DEF MirrorStep, ReadConfig, WriteMirror, MirrorFails
    <3>. QED BY <3>1, Moves
  <2>2. lock' = lock /\ req' = req
    BY <1>7 DEF MirrorStep, ReadConfig, WriteMirror, MirrorFails, ram
  <2>. QED BY <2>1, <2>2 DEF Mutex
<1>8. CASE Crash
  BY <1>8 DEF Crash, Mutex
<1>9. CASE UNCHANGED vars
  BY <1>9 DEF vars, ram, task, Mutex
<1>. QED BY <1>1, <1>2, <1>3, <1>4, <1>5, <1>6, <1>7, <1>8, <1>9
       DEF Next, UpdaterStep, Terminated

\* Updates begin when the boot is done, and only a reset begins a boot.
LEMMA BootStep == TypeOK /\ BootFirst /\ [Next]_vars => BootFirst'
<1> SUFFICES ASSUME TypeOK, BootFirst, [Next]_vars PROVE BootFirst'
  OBVIOUS
<1> USE TasksAre
<1>1. CASE Load
  <2>1. \A u \in Updaters : pc'[u] = pc[u]
    BY <1>1, Moves DEF Load
  <2>2. pc[Main] = "Load"
    BY <1>1, Moves DEF Load
  <2>. QED BY <2>1, <2>2 DEF BootFirst
<1>2. ASSUME NEW u \in Updaters, Request(u) PROVE BootFirst'
  <2>1. pc'[Main] = pc[Main] /\ pc[Main] = "Idle"
    BY <1>2, Moves DEF Request, Running
  <2>. QED BY <2>1 DEF BootFirst
<1>3. ASSUME NEW u \in Updaters, UpdaterStep(u) PROVE BootFirst'
  <2>1. pc[u] # "Idle"
    BY <1>3 DEF UpdaterStep, Refuse, Accept, WriteKey, PersistFails, Persisted, Goto
  <2>2. pc'[Main] = pc[Main]
    BY <1>3, Moves DEF UpdaterStep, Refuse, Accept, WriteKey, PersistFails, Persisted
  <2>. QED BY <2>1, <2>2 DEF BootFirst
<1>4. ASSUME NEW t \in Tasks, MirrorStep(t) PROVE BootFirst'
  <2>1. /\ pc[t] # "Idle" /\ (t = Main => pc'[t] \in {"Write", "Idle"})
        /\ \A v \in Tasks \ {t} : pc'[v] = pc[v]
    <3>1. PICK from \in {"ReadConfig", "Write"}, to \in {"Write", "Idle"} : Goto(t, from, to)
      BY <1>4 DEF MirrorStep, ReadConfig, WriteMirror, MirrorFails
    <3>. QED BY <3>1, Moves
  <2>2. CASE t = Main
    BY <2>1, <2>2 DEF BootFirst
  <2>3. CASE t # Main
    BY <2>1, <2>3 DEF BootFirst
  <2>. QED BY <2>2, <2>3
<1>5. CASE Crash
  BY <1>5 DEF Crash, BootFirst
<1>6. CASE UNCHANGED vars
  BY <1>6 DEF vars, task, BootFirst
<1>. QED BY <1>1, <1>2, <1>3, <1>4, <1>5, <1>6 DEF Next, Terminated

\* The candidate goes to NVS key by key.
LEMMA WritingStep ==
  TypeOK /\ Mutex /\ BootFirst /\ Visible /\ Writing /\ [Next]_vars => Writing'
<1> SUFFICES ASSUME TypeOK, Mutex, BootFirst, Visible, Writing, [Next]_vars PROVE Writing'
  OBVIOUS
<1> USE TasksAre
<1>0. ASSUME lock' = lock, config' = config, previous' = previous, nvs' = nvs, key' = key,
             attempted' = attempted, committed \subseteq committed'
      PROVE  Writing'
  BY <1>0, StoredStays DEF Writing
<1>1. CASE Load
  <2>1. lock = NoTask
    BY <1>1 DEF Load, Goto, BootFirst, Mutex, TypeOK
  <2>. QED BY <1>1, <2>1 DEF Load, Writing
<1>2. ASSUME NEW u \in Updaters, Request(u) \/ Refuse(u) PROVE Writing'
  BY <1>0, <1>2 DEF Request, Refuse, ram, history
<1>3. ASSUME NEW u \in Updaters, Accept(u) PROVE Writing'
  <2>1. config \in committed /\ previous' = config /\ committed' = committed
    <3>1. pc[Main] # "Load"
      BY <1>3 DEF Accept, Goto, BootFirst
    <3>. QED BY <1>3, <3>1 DEF Accept, Visible
  <2>2. key' = 1 /\ config' = Candidate(req[u])
    BY <1>3 DEF Accept
  <2>3. \A f \in Fields : config'[f] \in attempted'[f]
    BY <1>3, <2>2 DEF Accept
  <2>. QED BY <2>1, <2>2, <2>3 DEF Writing
<1>4. ASSUME NEW u \in Updaters, WriteKey(u) PROVE Writing'
  <2>1. lock = u /\ lock # NoTask
    BY <1>4 DEF WriteKey, Mutex
  <2>2. key' = key + 1 /\ config' = config /\ previous' = previous /\ lock' = lock
        /\ attempted' = attempted /\ committed' = committed
    BY <1>4 DEF WriteKey, ram, history
  <2>3. \A f \in Fields : Stored'[f] = IF f = Keys[key] THEN config[f] ELSE Stored[f]
    BY <1>4, WriteKeyStored
  <2>4. \A i \in 1 .. 3 : i < key => Stored[Keys[i]] = config[Keys[i]]
    BY <2>1, KeysAre DEF Writing
  <2>5. key \in 1 .. 4 /\ \A i \in 1 .. 3 : Keys[i] \in Fields
    BY KeysAre DEF TypeOK, Fields
  <2>6. \A i \in 1 .. 3 : i < key + 1 => Stored'[Keys[i]] = config[Keys[i]]
    <3> SUFFICES ASSUME NEW i \in 1 .. 3, i < key + 1 PROVE Stored'[Keys[i]] = config[Keys[i]]
      OBVIOUS
    <3>1. i < key \/ i = key
      BY <2>5
    <3>. QED BY <2>3, <2>4, <2>5, <3>1, Zenon
  <2>7. (\A f \in Fields : config[f] \in attempted[f]) /\ previous \in committed
    BY <2>1 DEF Writing
  <2>8. \A i \in 1 .. Len(Keys) : i < key' => Stored'[Keys[i]] = config'[Keys[i]]
    BY <2>2, <2>6, KeysAre
  <2>. QED BY <2>2, <2>7, <2>8, Zenon DEF Writing
<1>5. ASSUME NEW u \in Updaters, PersistFails(u) \/ Persisted(u) PROVE Writing'
  BY <1>5 DEF PersistFails, Persisted, Writing
<1>6. ASSUME NEW t \in Tasks, MirrorStep(t) PROVE Writing'
  BY <1>0, <1>6 DEF MirrorStep, ReadConfig, WriteMirror, MirrorFails, ram, history
<1>7. CASE Crash
  BY <1>7 DEF Crash, Writing
<1>8. CASE UNCHANGED vars
  BY <1>0, <1>8 DEF vars, ram, task, history
<1>. QED BY <1>1, <1>2, <1>3, <1>4, <1>5, <1>6, <1>7, <1>8 DEF Next, UpdaterStep, Terminated

\* The types survive every step.
LEMMA TypeStep == TypeOK /\ Mutex /\ [Next]_vars => TypeOK'
<1> SUFFICES ASSUME TypeOK, Mutex, [Next]_vars PROVE TypeOK'
  OBVIOUS
<1> USE TasksAre
<1>a. Stored \in Config
  BY DEF TypeOK, Stored
<1>b. ASSUME nvs' = nvs PROVE Override(nvs, Defaults)' \in Config /\ DOMAIN nvs' \subseteq Fields
  BY <1>b DEF TypeOK
<1>c. ASSUME NEW u \in Updaters, NEW to \in UpdaterPoints, pc' = [pc EXCEPT ![u] = to]
      PROVE  /\ pc' \in [Tasks -> UpdaterPoints \cup MainPoints] /\ pc'[Main] \in MainPoints
             /\ \A v \in Updaters : pc'[v] \in UpdaterPoints
  BY <1>c DEF TypeOK
<1>1. CASE Load
  <2>1. Loaded \in Config
    BY <1>a, LoadedType
  <2>2. /\ pc' \in [Tasks -> UpdaterPoints \cup MainPoints] /\ pc'[Main] \in MainPoints
        /\ \A v \in Updaters : pc'[v] \in UpdaterPoints
    BY <1>1 DEF Load, Goto, TypeOK, MainPoints
  <2>. QED BY <1>1, <1>b, <2>1, <2>2 DEF Load, TypeOK
<1>2. ASSUME NEW u \in Updaters, Request(u) PROVE TypeOK'
  <2>1. /\ pc' \in [Tasks -> UpdaterPoints \cup MainPoints] /\ pc'[Main] \in MainPoints
        /\ \A v \in Updaters : pc'[v] \in UpdaterPoints
    BY <1>2, <1>c DEF Request, Goto, UpdaterPoints
  <2>2. req' \in [Updaters -> Requests \cup {NoRequest}]
    BY <1>2 DEF Request, TypeOK
  <2>. QED BY <1>2, <1>b, <2>1, <2>2 DEF Request, TypeOK, ram, history
<1>3. ASSUME NEW u \in Updaters, Refuse(u) PROVE TypeOK'
  <2>1. /\ pc' \in [Tasks -> UpdaterPoints \cup MainPoints] /\ pc'[Main] \in MainPoints
        /\ \A v \in Updaters : pc'[v] \in UpdaterPoints
    BY <1>3, <1>c DEF Refuse, Goto, UpdaterPoints
  <2>. QED BY <1>3, <1>b, <2>1 DEF Refuse, TypeOK, ram, history
<1>4. ASSUME NEW u \in Updaters, Accept(u) PROVE TypeOK'
  <2>1. /\ pc' \in [Tasks -> UpdaterPoints \cup MainPoints] /\ pc'[Main] \in MainPoints
        /\ \A v \in Updaters : pc'[v] \in UpdaterPoints
    BY <1>4, <1>c DEF Accept, Goto, UpdaterPoints
  <2>2. Candidate(req[u]) \in Config
    BY <1>4, CandidateType DEF Accept, TypeOK
  <2>3. key' \in 1 .. Len(Keys) + 1
    BY <1>4, KeysAre DEF Accept
  <2>4. DOMAIN attempted' = Fields /\ raced' \in BOOLEAN
    BY <1>4 DEF Accept
  <2>. QED BY <1>4, <1>b, <2>1, <2>2, <2>3, <2>4 DEF Accept, TypeOK
<1>5. ASSUME NEW u \in Updaters, WriteKey(u) PROVE TypeOK'
  <2>1. Override(nvs, Defaults)' \in Config /\ DOMAIN nvs' \subseteq Fields
    BY <1>5, WriteKeyStored DEF Stored
  <2>2. key' \in 1 .. Len(Keys) + 1
    BY <1>5, KeysAre DEF WriteKey, TypeOK
  <2>. QED BY <1>5, <2>1, <2>2 DEF WriteKey, TypeOK, ram, history
<1>6. ASSUME NEW u \in Updaters, PersistFails(u) PROVE TypeOK'
  <2>1. /\ pc' \in [Tasks -> UpdaterPoints \cup MainPoints] /\ pc'[Main] \in MainPoints
        /\ \A v \in Updaters : pc'[v] \in UpdaterPoints
    BY <1>6, <1>c DEF PersistFails, Goto, UpdaterPoints
  <2>. QED BY <1>6, <1>b, <2>1 DEF PersistFails, TypeOK, history
<1>7. ASSUME NEW u \in Updaters, Persisted(u) PROVE TypeOK'
  <2>1. /\ pc' \in [Tasks -> UpdaterPoints \cup MainPoints] /\ pc'[Main] \in MainPoints
        /\ \A v \in Updaters : pc'[v] \in UpdaterPoints
    BY <1>7, <1>c DEF Persisted, Goto, UpdaterPoints
  <2>2. DOMAIN attempted' = Fields /\ loose' \in BOOLEAN /\ committed' \subseteq Config
    BY <1>7 DEF Persisted, Nothing, TypeOK
  <2>. QED BY <1>7, <1>b, <2>1, <2>2 DEF Persisted, TypeOK
<1>8. ASSUME NEW t \in Tasks, MirrorStep(t) PROVE TypeOK'
  <2>1. PICK to \in {"Write", "Idle"} : pc' = [pc EXCEPT ![t] = to]
    BY <1>8 DEF MirrorStep, ReadConfig, WriteMirror, MirrorFails, Goto
  <2>2. /\ pc' \in [Tasks -> UpdaterPoints \cup MainPoints] /\ pc'[Main] \in MainPoints
        /\ \A v \in Updaters : pc'[v] \in UpdaterPoints
    BY <2>1 DEF TypeOK, UpdaterPoints, MainPoints
  <2>3. text' \in [Tasks -> Config]
    BY <1>8 DEF MirrorStep, ReadConfig, WriteMirror, MirrorFails, TypeOK
  <2>4. mirror' = <<>> \/ \E c \in Config : mirror' = <<c>>
    <3>1. mirror' = mirror \/ mirror' = <<text[t]>>
      BY <1>8 DEF MirrorStep, ReadConfig, WriteMirror, MirrorFails
    <3>. QED BY <3>1 DEF TypeOK
  <2>5. /\ config' = config /\ previous' = previous /\ lock' = lock /\ nvs' = nvs /\ req' = req
        /\ key' = key /\ acked' = acked /\ attempted' = attempted /\ committed' = committed
        /\ loose' = loose /\ raced' \in BOOLEAN
    BY <1>8 DEF MirrorStep, ReadConfig, WriteMirror, MirrorFails, TypeOK, ram, history
  <2>. QED BY <1>b, <2>2, <2>3, <2>4, <2>5 DEF TypeOK
<1>9. CASE Crash
  <2>1. /\ pc' \in [Tasks -> UpdaterPoints \cup MainPoints] /\ pc'[Main] \in MainPoints
        /\ \A v \in Updaters : pc'[v] \in UpdaterPoints
    BY <1>9 DEF Crash, UpdaterPoints, MainPoints
  <2>2. key' \in 1 .. Len(Keys) + 1 /\ req' \in [Updaters -> Requests \cup {NoRequest}]
        /\ text' \in [Tasks -> Config] /\ loose' \in BOOLEAN
    BY <1>9, KeysAre, DefaultsType DEF Crash, TypeOK
  <2>. QED BY <1>9, <1>b, <2>1, <2>2, DefaultsType DEF Crash, TypeOK
<1>10. CASE UNCHANGED vars
  BY <1>10, <1>b DEF vars, ram, task, history, TypeOK
<1>. QED BY <1>1, <1>2, <1>3, <1>4, <1>5, <1>6, <1>7, <1>8, <1>9, <1>10
       DEF Next, UpdaterStep, Terminated

\* When the last key is written NVS holds the candidate.
LEMMA AllWritten ==
  ASSUME TypeOK, Mutex, Writing, NEW u \in Updaters, Persisted(u)
  PROVE  Stored = config
<1>1. lock # NoTask
  BY TasksAre DEF Persisted, Goto, Mutex
<1>2. \A i \in 1 .. 3 : Stored[Keys[i]] = config[Keys[i]]
  BY <1>1, KeysAre DEF Writing, Persisted, TypeOK
<1>3. \A f \in Fields : Stored[f] = config[f]
  BY <1>2, KeysAre DEF Fields
<1>. QED BY <1>3, SameConfig DEF TypeOK, Stored

\* A key is replaced by a value that counts as tried, and tried values are
\* forgotten only when every key is acknowledged.
LEMMA NoneOlderStep ==
  TypeOK /\ Mutex /\ Writing /\ NoneOlder /\ [Next]_vars => NoneOlder'
<1> SUFFICES ASSUME TypeOK, Mutex, Writing, NoneOlder, [Next]_vars PROVE NoneOlder'
  OBVIOUS
<1> USE TasksAre
<1>0. ASSUME nvs' = nvs, acked' = acked, \A f \in Fields : attempted[f] \subseteq attempted'[f]
      PROVE  NoneOlder'
  BY <1>0, StoredStays DEF NoneOlder
<1>1. CASE Load \/ Crash \/ UNCHANGED vars
  BY <1>0, <1>1 DEF Load, Crash, vars, history
<1>2. ASSUME NEW u \in Updaters, Request(u) \/ Refuse(u) \/ PersistFails(u) PROVE NoneOlder'
  BY <1>0, <1>2 DEF Request, Refuse, PersistFails, history
<1>3. ASSUME NEW u \in Updaters, Accept(u) PROVE NoneOlder'
  BY <1>0, <1>3 DEF Accept
<1>4. ASSUME NEW u \in Updaters, WriteKey(u) PROVE NoneOlder'
  <2>1. \A f \in Fields : Stored'[f] = IF f = Keys[key] THEN config[f] ELSE Stored[f]
    BY <1>4, WriteKeyStored
  <2>2. \A f \in Fields : config[f] \in attempted[f]
    BY <1>4 DEF WriteKey, Mutex, Writing
  <2>. QED BY <1>4, <2>1, <2>2 DEF WriteKey, history, NoneOlder
<1>5. ASSUME NEW u \in Updaters, Persisted(u) PROVE NoneOlder'
  <2>1. Stored' = config /\ acked' = config
    BY <1>5, AllWritten, StoredStays DEF Persisted
  <2>. QED BY <2>1 DEF NoneOlder
<1>6. ASSUME NEW t \in Tasks, MirrorStep(t) PROVE NoneOlder'
  BY <1>0, <1>6 DEF MirrorStep, ReadConfig, WriteMirror, MirrorFails, history
<1>. QED BY <1>1, <1>2, <1>3, <1>4, <1>5, <1>6 DEF Next, UpdaterStep, Terminated

\* What the tasks see, and what they write to the mirror, has been committed.
LEMMA VisibleStep ==
  TypeOK /\ Mutex /\ BootFirst /\ Writing /\ Visible /\ [Next]_vars => Visible'
<1> SUFFICES ASSUME TypeOK, Mutex, BootFirst, Writing, Visible, [Next]_vars PROVE Visible'
  OBVIOUS
<1> USE TasksAre
<1>0. ASSUME text' = text, mirror' = mirror, committed \subseteq committed',
             NEW t \in Tasks, pc'[t] # "Write", \A s \in Tasks \ {t} : pc'[s] = pc[s]
      PROVE  /\ \A s \in Tasks : pc'[s] = "Write" => text'[s] \in committed'
             /\ mirror' = <<>> \/ \E c \in committed' : mirror' = <<c>>
  BY <1>0 DEF Visible
<1>1. CASE Load
  <2>1. pc'[Main] = "ReadConfig" /\ \A s \in Tasks \ {Main} : pc'[s] = pc[s]
    BY <1>1, Moves DEF Load
  <2>. QED BY <1>0, <1>1, <2>1 DEF Load, Visible
<1>2. ASSUME NEW u \in Updaters, Request(u) \/ Refuse(u) PROVE Visible'
  <2>1. PICK from \in {"Idle", "Lock"}, to \in {"Idle", "Lock"} : Goto(u, from, to)
    BY <1>2 DEF Request, Refuse
  <2>2. pc'[u] # "Write" /\ \A s \in Tasks \ {u} : pc'[s] = pc[s]
    BY <2>1, Moves
  <2>. QED BY <1>0, <1>2, <2>2 DEF Request, Refuse, Visible, ram, history
<1>3. ASSUME NEW u \in Updaters, Accept(u) PROVE Visible'
  <2>1. pc'[u] = "Persist" /\ \A s \in Tasks \ {u} : pc'[s] = pc[s]
    BY <1>3, Moves DEF Accept
  <2>. QED BY <1>0, <1>3, <2>1 DEF Accept, Visible
<1>4. ASSUME NEW u \in Updaters, WriteKey(u) PROVE Visible'
  BY <1>4 DEF WriteKey, ram, history, Visible
<1>5. ASSUME NEW u \in Updaters, PersistFails(u) \/ Persisted(u) PROVE Visible'
  <2>1. PICK to \in {"Idle", "ReadConfig"} : Goto(u, "Persist", to)
    BY <1>5 DEF PersistFails, Persisted
  <2>2. pc[u] = "Persist" /\ pc'[u] # "Write" /\ \A s \in Tasks \ {u} : pc'[s] = pc[s]
    BY <2>1, Moves
  <2>3. previous \in committed
    BY <2>2 DEF Mutex, Writing
  <2>4. config' \in committed' /\ committed \subseteq committed'
        /\ text' = text /\ mirror' = mirror
    BY <1>5, <2>3 DEF PersistFails, Persisted, history
  <2>. QED BY <1>0, <2>2, <2>4 DEF Visible
<1>6. ASSUME NEW t \in Tasks, MirrorStep(t) PROVE Visible'
  <2>0. /\ config' = config /\ lock' = lock /\ committed' = committed
        /\ pc[Main] # "Load" <=> pc'[Main] # "Load"
    <3>1. PICK from \in {"ReadConfig", "Write"}, to \in {"Write", "Idle"} : Goto(t, from, to)
      BY <1>6 DEF MirrorStep, ReadConfig, WriteMirror, MirrorFails
    <3>2. /\ pc[t] # "Load" /\ pc'[t] # "Load" /\ \A s \in Tasks \ {t} : pc'[s] = pc[s]
      BY <3>1, Moves
    <3>. QED BY <1>6, <3>2 DEF MirrorStep, ReadConfig, WriteMirror, MirrorFails, ram, history
  <2>1. CASE ReadConfig(t)
    <3>1. pc[t] = "ReadConfig" /\ \A s \in Tasks \ {t} : pc'[s] = pc[s]
      BY <2>1, Moves DEF ReadConfig
    <3>2. config \in committed
      <4>1. pc[Main] # "Load"
        BY <3>1 DEF BootFirst, Tasks
      <4>. QED BY <2>1, <4>1 DEF ReadConfig, Visible
    <3>3. text'[t] = config /\ \A s \in Tasks \ {t} : text'[s] = text[s]
      BY <2>1 DEF ReadConfig, TypeOK
    <3>4. mirror' = mirror
      BY <2>1 DEF ReadConfig
    <3>. QED BY <2>0, <3>1, <3>2, <3>3, <3>4 DEF Visible
  <2>2. CASE WriteMirror(t)
    <3>1. pc[t] = "Write" /\ pc'[t] = "Idle" /\ \A s \in Tasks \ {t} : pc'[s] = pc[s]
      BY <2>2, Moves DEF WriteMirror
    <3>2. mirror' = <<text[t]>> /\ text[t] \in committed /\ text' = text
      BY <2>2, <3>1 DEF WriteMirror, Visible
    <3>. QED BY <2>0, <3>1, <3>2 DEF Visible
  <2>3. CASE MirrorFails(t)
    <3>1. pc'[t] = "Idle" /\ \A s \in Tasks \ {t} : pc'[s] = pc[s]
      BY <2>3, Moves DEF MirrorFails
    <3>. QED BY <1>0, <2>0, <2>3, <3>1 DEF MirrorFails, Visible
  <2>. QED BY <1>6, <2>1, <2>2, <2>3 DEF MirrorStep
<1>7. CASE Crash
  BY <1>7 DEF Crash, Visible
<1>8. CASE UNCHANGED vars
  BY <1>8 DEF vars, ram, task, history, Visible
<1>. QED BY <1>1, <1>2, <1>3, <1>4, <1>5, <1>6, <1>7, <1>8 DEF Next, UpdaterStep, Terminated

\* Unless it is raced, the mirror is written from what the tasks see.
LEMMA MirroringStep ==
  TypeOK /\ Mutex /\ BootFirst /\ Mirroring /\ [Next]_vars => Mirroring'
<1> SUFFICES ASSUME TypeOK, Mutex, BootFirst, Mirroring, [Next]_vars, ~raced' PROVE Mirroring'
  BY DEF Mirroring
<1> USE TasksAre
<1>0. ASSUME raced' = raced, lock' = lock, config' = config, previous' = previous,
             text' = text, mirror' = mirror, InMirror' = InMirror,
             \A t \in Tasks : pc'[t] = "Write" => pc[t] = "Write",
             pc'[Main] # "Load" => pc[Main] # "Load"
      PROVE  Mirroring'
  BY <1>0 DEF Mirroring, Shown
<1>1. CASE Load
  <2>1. pc[Main] = "Load" /\ pc'[Main] = "ReadConfig" /\ \A s \in Tasks \ {Main} : pc'[s] = pc[s]
    BY <1>1, Moves DEF Load
  <2>2. \A u \in Updaters : pc'[u] = "Idle" /\ pc[u] = "Idle"
    BY <2>1 DEF BootFirst
  <2>3. InMirror' = {Main}
    BY <2>1, <2>2 DEF InMirror, Tasks
  <2>4. lock' = NoTask
    BY <1>1, <2>2 DEF Load, Mutex, TypeOK
  <2>5. \A t \in Tasks : pc'[t] # "Write"
    BY <2>1, <2>2 DEF Tasks
  <2>. QED BY <2>3, <2>4, <2>5 DEF Mirroring
<1>2. ASSUME NEW u \in Updaters, Request(u) \/ Refuse(u) PROVE Mirroring'
  <2>1. PICK from \in {"Idle", "Lock"}, to \in {"Idle", "Lock"} : Goto(u, from, to)
    BY <1>2 DEF Request, Refuse
  <2>2. pc[u] \in {"Idle", "Lock"} /\ pc'[u] \in {"Idle", "Lock"}
        /\ \A s \in Tasks \ {u} : pc'[s] = pc[s]
    BY <2>1, Moves
  <2>3. InMirror' = InMirror
    BY <2>2 DEF InMirror
  <2>. QED BY <1>0, <1>2, <2>2, <2>3 DEF Request, Refuse, ram, history
<1>3. ASSUME NEW u \in Updaters, Accept(u) PROVE Mirroring'
  <2>1. pc[u] = "Lock" /\ pc'[u] = "Persist" /\ \A s \in Tasks \ {u} : pc'[s] = pc[s]
    BY <1>3, Moves DEF Accept
  <2>2. ~raced /\ InMirror = {}
    BY <1>3 DEF Accept, InMirror
  <2>3. InMirror' = {} /\ \A t \in Tasks : pc'[t] # "Write"
    BY <2>1, <2>2 DEF InMirror
  <2>4. pc'[Main] # "Load" => mirror' = <<config>>
    BY <1>3, <2>1, <2>2 DEF Accept, Mirroring, Shown
  <2>5. Shown' = config
    BY <1>3 DEF Accept, Shown
  <2>. QED BY <2>3, <2>4, <2>5 DEF Mirroring
<1>4. ASSUME NEW u \in Updaters, WriteKey(u) PROVE Mirroring'
  BY <1>0, <1>4 DEF WriteKey, ram, history, InMirror
<1>5. ASSUME NEW u \in Updaters, PersistFails(u) PROVE Mirroring'
  <2>1. pc[u] = "Persist" /\ pc'[u] = "Idle" /\ \A s \in Tasks \ {u} : pc'[s] = pc[s]
    BY <1>5, Moves DEF PersistFails
  <2>2. lock = u /\ ~raced
    BY <1>5, <2>1 DEF PersistFails, Mutex, history
  <2>3. InMirror = {}
    BY <2>2 DEF Mirroring
  <2>4. InMirror' = {} /\ \A t \in Tasks : pc'[t] # "Write"
    BY <2>1, <2>3 DEF InMirror
  <2>5. pc'[Main] # "Load" => mirror' = <<previous>>
    BY <1>5, <2>1, <2>2, <2>3 DEF PersistFails, Mirroring, Shown
  <2>6. Shown' = previous
    BY <1>5 DEF PersistFails, Shown
  <2>. QED BY <2>4, <2>5, <2>6 DEF Mirroring
<1>6. ASSUME NEW u \in Updaters, Persisted(u) PROVE Mirroring'
  <2>1. pc[u] = "Persist" /\ pc'[u] = "ReadConfig" /\ \A s \in Tasks \ {u} : pc'[s] = pc[s]
    BY <1>6, Moves DEF Persisted
  <2>2. lock = u /\ ~raced
    BY <1>6, <2>1 DEF Persisted, Mutex
  <2>3. InMirror = {}
    BY <2>2 DEF Mirroring
  <2>4. InMirror' = {u} /\ \A t \in Tasks : pc'[t] # "Write"
    BY <2>1, <2>3 DEF InMirror
  <2>5. lock' = NoTask
    BY <1>6 DEF Persisted
  <2>. QED BY <2>4, <2>5 DEF Mirroring
<1>7. ASSUME NEW t \in Tasks, MirrorStep(t) PROVE Mirroring'
  <2>1. CASE ReadConfig(t)
    <3>1. pc[t] = "ReadConfig" /\ pc'[t] = "Write" /\ \A s \in Tasks \ {t} : pc'[s] = pc[s]
      BY <2>1, Moves DEF ReadConfig
    <3>2. ~raced /\ InMirror = {t} /\ lock' = NoTask
      BY <2>1, <3>1 DEF ReadConfig, Mirroring, InMirror, ram, history
    <3>3. InMirror' = {t} /\ \A s \in Tasks : pc'[s] = "Write" => s = t
      BY <3>1, <3>2 DEF InMirror
    <3>4. text'[t] = config /\ config' = config
      BY <2>1 DEF ReadConfig, TypeOK, ram
    <3>. QED BY <3>2, <3>3, <3>4 DEF Mirroring
  <2>2. CASE WriteMirror(t)
    <3>1. pc[t] = "Write" /\ pc'[t] = "Idle" /\ \A s \in Tasks \ {t} : pc'[s] = pc[s]
      BY <2>2, Moves DEF WriteMirror
    <3>2. ~raced /\ InMirror = {t} /\ lock = NoTask /\ text[t] = config
      BY <2>2, <3>1 DEF WriteMirror, Mirroring, InMirror, history
    <3>3. InMirror' = {} /\ \A s \in Tasks : pc'[s] # "Write"
      BY <3>1, <3>2 DEF InMirror
    <3>4. mirror' = <<config>> /\ Shown' = config
      BY <2>2, <3>2 DEF WriteMirror, Shown, ram
    <3>. QED BY <3>3, <3>4 DEF Mirroring
  <2>3. CASE MirrorFails(t)
    BY <2>3 DEF MirrorFails
  <2>. QED BY <1>7, <2>1, <2>2, <2>3 DEF MirrorStep
<1>8. CASE Crash
  <2>1. pc'[Main] = "Load" /\ \A u \in Updaters : pc'[u] = "Idle"
    BY <1>8 DEF Crash
  <2>2. InMirror' = {} /\ \A t \in Tasks : pc'[t] # "Write"
    BY <2>1 DEF InMirror, Tasks
  <2>. QED BY <2>1, <2>2 DEF Mirroring
<1>9. CASE UNCHANGED vars
  BY <1>0, <1>9 DEF vars, ram, task, history, InMirror
<1>. QED BY <1>1, <1>2, <1>3, <1>4, <1>5, <1>6, <1>7, <1>8, <1>9
       DEF Next, UpdaterStep, Terminated

-----------------------------------------------------------------------------
\* The invariant is inductive.
LEMMA Inductive == Inv1 /\ [Next]_vars => Inv1'
<1> SUFFICES ASSUME Inv1, [Next]_vars PROVE Inv1'
  OBVIOUS
<1> USE DEF Inv1
<1>1. TypeOK' /\ Mutex'
  BY TypeStep, MutexStep, Zenon
<1>2. BootFirst' /\ Writing'
  BY BootStep, WritingStep, Zenon
<1>3. NoneOlder' /\ Visible'
  BY NoneOlderStep, VisibleStep, Zenon
<1>4. Mirroring'
  BY MirroringStep, Zenon
<1>. QED BY <1>1, <1>2, <1>3, <1>4

\* The invariant holds in every reachable state.
THEOREM Invariance == Spec => []Inv1
<1>1. Init => Inv1
  BY InitInv
<1>2. Inv1 /\ [Next]_vars => Inv1'
  BY Inductive
<1>. QED BY <1>1, <1>2, PTL DEF Spec

\* The variables keep their types; whatever keys a reset leaves in NVS, with the
\* defaults they make a configuration within the ranges (nvs_config_init).
THEOREM TypeCorrect == Spec => []TypeOK
<1>1. Inv1 => TypeOK
  BY DEF Inv1
<1>. QED BY <1>1, Invariance, PTL

\* Whatever fails and is reset, no key is older than the last acknowledged update.
THEOREM NoKeyIsOlder == Spec => []NothingOlderThanAcknowledged
<1>1. Inv1 => NothingOlderThanAcknowledged
  BY DEF Inv1, NoneOlder, NothingOlderThanAcknowledged, Stored
<1>. QED BY <1>1, Invariance, PTL

\* The mirror shows only what was acknowledged or loaded.
THEOREM MirrorIsCommitted == Spec => []MirrorShowsCommitted
<1>1. Inv1 => MirrorShowsCommitted
  <2> SUFFICES ASSUME Inv1 PROVE MirrorShowsCommitted
    OBVIOUS
  <2>1. \A i \in DOMAIN mirror : mirror[i] \in committed
    BY DEF Inv1, Visible
  <2>. QED BY <2>1 DEF Inv1, Visible, MirrorShowsCommitted
<1>. QED BY <1>1, Invariance, PTL

\* Without a race the mirror is the configuration when nobody is updating.
THEOREM MirrorIsCurrent == Spec => []MirrorFollows
<1>1. Inv1 => MirrorFollows
  <2> SUFFICES ASSUME Inv1, ~raced, \A t \in Tasks : pc[t] = "Idle" PROVE mirror = <<config>>
    BY DEF MirrorFollows, MirrorCurrent
  <2>1. InMirror = {} /\ pc[Main] # "Load"
    BY TasksAre DEF InMirror
  <2>2. lock = NoTask
    BY TasksAre DEF Inv1, Mutex, TypeOK
  <2>. QED BY <2>1, <2>2 DEF Inv1, Mirroring, Shown
<1>. QED BY <1>1, Invariance, PTL

-----------------------------------------------------------------------------
(***************************************************************************)
(* What was acknowledged survives; and the zone stays below the trigger     *)
(* until a request lowers the trigger alone or a reset cuts an update in    *)
(* two.  While an update is being persisted its zone is right if the        *)
(* request names it, or if it was right before and the trigger not lowered. *)
(***************************************************************************)

Below(c) == c.dead_zone_lux < c.trigger_lux

Zone ==
  /\ ~loose =>
       /\ pc[Main] # "Load" /\ lock = NoTask => Below(config)
       /\ pc[Main] = "Load" => Undisturbed
       /\ lock # NoTask => Below(previous)
       /\ Below(acked)
  /\ \A u \in Updaters :
       lock = u =>
         \/ Below(config)
         \/ /\ "dead_zone_lux" \notin DOMAIN req[u]
            /\ Below(previous) => config.trigger_lux < previous.trigger_lux

Inv2 == Inv1 /\ Kept /\ Zone

\* Accepting a request keeps a zone that is right, if it names it or does not
\* lower the trigger.
LEMMA CandidateZone ==
  ASSUME NEW r, Valid(r), config \in Config
  PROVE  \/ Below(Candidate(r))
         \/ /\ "dead_zone_lux" \notin DOMAIN r
            /\ Below(config) => Candidate(r).trigger_lux < config.trigger_lux
<1>1. /\ Candidate(r) \in Config
      /\ "dead_zone_lux" \in DOMAIN r => Candidate(r).dead_zone_lux < Candidate(r).trigger_lux
      /\ "dead_zone_lux" \notin DOMAIN r => Candidate(r) = Override(r, config)
  BY CandidateType
<1>2. /\ Candidate(r).trigger_lux \in 1 .. MaxLux
      /\ config.dead_zone_lux \in 0 .. MaxLux /\ config.trigger_lux \in 1 .. MaxLux
  BY <1>1, FieldsOf
<1>3. CASE "dead_zone_lux" \in DOMAIN r
  BY <1>1, <1>3 DEF Below
<1>4. CASE "dead_zone_lux" \notin DOMAIN r
  <2>1. \A f \in Fields : Override(r, config)[f] = IF f \in DOMAIN r THEN r[f] ELSE config[f]
    BY OverrideType
  <2>2. Candidate(r)["dead_zone_lux"] = config["dead_zone_lux"]
    BY <1>1, <1>4, <2>1 DEF Fields
  <2>. QED BY <1>2, <1>4, <2>2, MaxLuxIs DEF Below
<1>. QED BY <1>3, <1>4

LEMMA NothingTried == ASSUME Undisturbed, \E f \in Fields : attempted[f] # {} PROVE FALSE
BY DEF Undisturbed, Nothing

\* While somebody persists something has been tried.
LEMMA Disturbed == ASSUME Writing, lock # NoTask PROVE ~Undisturbed
BY NothingTried DEF Writing, Fields

\* RAM, NVS and the answer agree again after each update that is answered "ok",
\* and after each boot.
LEMMA KeptStep == Inv1 /\ Kept /\ [Next]_vars => Kept'
<1> SUFFICES ASSUME Inv1, Kept, [Next]_vars, Undisturbed'
             PROVE  lock' = NoTask /\ Stored' = acked' /\ RamKept'
  BY DEF Kept
<1>0. Inv1'
  BY Inductive
<1>1. lock' = NoTask
  BY <1>0, Disturbed DEF Inv1, Writing, Fields, Undisturbed, Nothing
<1> USE TasksAre DEF Inv1
<1>2. CASE Load
  <2>1. Undisturbed /\ Stored' = Stored /\ acked' = acked /\ config' = Loaded
    BY <1>2, StoredStays DEF Load, Undisturbed
  <2>2. Stored = acked
    BY <2>1 DEF Kept
  <2>3. Loaded = Repaired(acked)
    BY <2>2, LoadedType DEF TypeOK, Stored
  <2>. QED BY <1>1, <2>1, <2>2, <2>3 DEF RamKept, Repaired
<1>3. ASSUME NEW u \in Updaters, Request(u) \/ Refuse(u) PROVE Stored' = acked' /\ RamKept'
  <2>1. Undisturbed /\ Stored' = Stored /\ acked' = acked /\ config' = config
    BY <1>3, StoredStays DEF Request, Refuse, Undisturbed, ram, history
  <2>2. pc'[Main] = pc[Main]
    BY <1>3, Moves DEF Request, Refuse
  <2>. QED BY <2>1, <2>2 DEF Kept, RamKept, Repaired
<1>4. ASSUME NEW u \in Updaters, Accept(u) \/ WriteKey(u) PROVE FALSE
  BY <1>1, <1>4 DEF Accept, WriteKey, Mutex, ram
<1>5. ASSUME NEW u \in Updaters, PersistFails(u) PROVE FALSE
  <2>1. lock = u /\ Undisturbed
    BY <1>5 DEF PersistFails, Goto, Mutex, history, Undisturbed
  <2>. QED BY <2>1, Disturbed
<1>6. ASSUME NEW u \in Updaters, Persisted(u) PROVE Stored' = acked' /\ RamKept'
  BY <1>6, AllWritten, StoredStays DEF Persisted, RamKept
<1>7. ASSUME NEW t \in Tasks, MirrorStep(t) PROVE Stored' = acked' /\ RamKept'
  <2>1. Undisturbed /\ Stored' = Stored /\ acked' = acked /\ config' = config
    BY <1>7, StoredStays DEF MirrorStep, ReadConfig, WriteMirror, MirrorFails, Undisturbed, ram, history
  <2>2. pc'[Main] # "Load" => pc[Main] # "Load"
    <3>1. PICK from \in {"ReadConfig", "Write"}, to \in {"Write", "Idle"} : Goto(t, from, to)
      BY <1>7 DEF MirrorStep, ReadConfig, WriteMirror, MirrorFails
    <3>2. /\ pc[t] # "Load" /\ \A s \in Tasks \ {t} : pc'[s] = pc[s]
      BY <3>1, Moves
    <3>. QED BY <3>2
  <2>. QED BY <2>1, <2>2 DEF Kept, RamKept, Repaired
<1>8. CASE Crash
  <2>1. Undisturbed /\ Stored' = Stored /\ acked' = acked /\ pc'[Main] = "Load"
    BY <1>8, StoredStays DEF Crash, Undisturbed
  <2>. QED BY <1>1, <2>1 DEF Kept, RamKept, Repaired
<1>9. CASE UNCHANGED vars
  <2>1. Undisturbed /\ Stored' = Stored /\ acked' = acked /\ config' = config /\ pc' = pc
    BY <1>9, StoredStays DEF vars, ram, task, history, Undisturbed
  <2>. QED BY <1>1, <2>1 DEF Kept, RamKept, Repaired
<1>. QED BY <1>1, <1>2, <1>3, <1>4, <1>5, <1>6, <1>7, <1>8, <1>9
       DEF Next, UpdaterStep, Terminated

\* A zone that is below the trigger stays so until a request lowers the trigger
\* alone or a reset mixes two updates.
LEMMA ZoneStep == Inv2 /\ [Next]_vars => Zone'
<1> SUFFICES ASSUME Inv2, [Next]_vars PROVE Zone'
  OBVIOUS
<1> USE TasksAre DEF Inv1, Inv2
<1>0. ASSUME config' = config, acked' = acked, previous' = previous, lock' = lock, req' = req,
             loose' = loose, attempted' = attempted, pc'[Main] = "Load" <=> pc[Main] = "Load"
      PROVE  Zone'
  BY <1>0 DEF Zone, Below, Undisturbed
<1>1. CASE Load
  <2>1. pc[Main] = "Load" /\ pc'[Main] = "ReadConfig"
    BY <1>1, Moves DEF Load
  <2>2. lock = NoTask
    BY <2>1 DEF BootFirst, Mutex, TypeOK
  <2>3. config' = Loaded /\ acked' = acked /\ lock' = lock /\ loose' = loose
    BY <1>1 DEF Load
  <2>4. ~loose => Loaded = acked /\ Below(acked)
    <3> SUFFICES ASSUME ~loose PROVE Loaded = acked /\ Below(acked)
      OBVIOUS
    <3>1. Undisturbed /\ Below(acked)
      BY <2>1 DEF Zone
    <3>2. Stored = acked
      BY <3>1 DEF Kept
    <3>. QED BY <3>1, <3>2, LoadedType DEF TypeOK, Stored, Below
  <2>. QED BY <2>1, <2>2, <2>3, <2>4 DEF Zone, Below
<1>2. ASSUME NEW u \in Updaters, Request(u) PROVE Zone'
  <2>1. pc[u] = "Idle" /\ pc'[Main] = pc[Main]
    BY <1>2, Moves DEF Request
  <2>2. \A v \in Updaters \ {u} : req'[v] = req[v]
    BY <1>2 DEF Request, TypeOK
  <2>3. lock # u
    BY <2>1 DEF Mutex
  <2>4. config' = config /\ acked' = acked /\ previous' = previous /\ lock' = lock
        /\ loose' = loose /\ attempted' = attempted
    BY <1>2 DEF Request, ram, history
  <2>. QED BY <2>1, <2>2, <2>3, <2>4 DEF Zone, Below, Undisturbed
<1>3. ASSUME NEW u \in Updaters, Refuse(u) PROVE Zone'
  <2>1. pc'[Main] = pc[Main]
    BY <1>3, Moves DEF Refuse
  <2>. QED BY <1>0, <1>3, <2>1 DEF Refuse, ram, history
<1>4. ASSUME NEW u \in Updaters, Accept(u) PROVE Zone'
  <2>1. req[u] \in Requests /\ Valid(req[u])
    BY <1>4 DEF Accept, Goto, Mutex
  <2>2. pc'[Main] = pc[Main] /\ pc[Main] # "Load"
    BY <1>4, Moves DEF Accept, BootFirst
  <2>3. \/ Below(Candidate(req[u]))
        \/ /\ "dead_zone_lux" \notin DOMAIN req[u]
           /\ Below(config) => Candidate(req[u]).trigger_lux < config.trigger_lux
    BY <2>1, CandidateZone DEF TypeOK
  <2>4. config' = Candidate(req[u]) /\ previous' = config /\ acked' = acked /\ lock' = u
        /\ lock = NoTask /\ loose' = loose /\ req' = req
    BY <1>4 DEF Accept
  <2>. QED BY <2>2, <2>3, <2>4 DEF Zone, Below
<1>5. ASSUME NEW u \in Updaters, WriteKey(u) PROVE Zone'
  BY <1>0, <1>5 DEF WriteKey, ram, history
<1>6. ASSUME NEW u \in Updaters, PersistFails(u) PROVE Zone'
  <2>1. lock = u /\ lock # NoTask
    BY <1>6 DEF PersistFails, Goto, Mutex
  <2>2. pc'[Main] = pc[Main] /\ pc[Main] # "Load"
    BY <1>6, Moves DEF PersistFails, BootFirst
  <2>3. config' = previous /\ acked' = acked /\ lock' = NoTask /\ loose' = loose
    BY <1>6 DEF PersistFails, history
  <2>. QED BY <2>1, <2>2, <2>3 DEF Zone, Below
<1>7. ASSUME NEW u \in Updaters, Persisted(u) PROVE Zone'
  <2>1. lock = u
    BY <1>7 DEF Persisted, Goto, Mutex
  <2>2. pc'[Main] = pc[Main] /\ pc[Main] # "Load"
    BY <1>7, Moves DEF Persisted, BootFirst
  <2>3. config' = config /\ acked' = config /\ lock' = NoTask
        /\ loose' = ("dead_zone_lux" \notin DOMAIN req[u]
                     /\ (loose \/ config.trigger_lux < previous.trigger_lux))
    BY <1>7 DEF Persisted
  <2>4. ~loose' => Below(config)
    <3>1. CASE "dead_zone_lux" \in DOMAIN req[u]
      BY <2>1, <3>1 DEF Zone
    <3>2. CASE ~loose /\ ~(config.trigger_lux < previous.trigger_lux)
      BY <2>1, <2>2, <3>2 DEF Zone
    <3>. QED BY <2>3, <3>1, <3>2
  <2>. QED BY <2>2, <2>3, <2>4 DEF Zone, Below
<1>8. ASSUME NEW t \in Tasks, MirrorStep(t) PROVE Zone'
  <2>1. pc'[Main] = "Load" <=> pc[Main] = "Load"
    <3>1. PICK from \in {"ReadConfig", "Write"}, to \in {"Write", "Idle"} : Goto(t, from, to)
      BY <1>8 DEF MirrorStep, ReadConfig, WriteMirror, MirrorFails
    <3>2. pc[t] # "Load" /\ pc'[t] # "Load" /\ \A s \in Tasks \ {t} : pc'[s] = pc[s]
      BY <3>1, Moves
    <3>. QED BY <3>2
  <2>. QED BY <1>0, <1>8, <2>1 DEF MirrorStep, ReadConfig, WriteMirror, MirrorFails, ram, history
<1>9. CASE Crash
  <2>1. /\ lock' = NoTask /\ acked' = acked /\ attempted' = attempted /\ pc'[Main] = "Load"
        /\ loose' = (loose \/ ~Undisturbed)
    BY <1>9 DEF Crash, Undisturbed
  <2>. QED BY <2>1 DEF Zone, Below, Undisturbed
<1>10. CASE UNCHANGED vars
  BY <1>0, <1>10 DEF vars, ram, task, history
<1>. QED BY <1>1, <1>2, <1>3, <1>4, <1>5, <1>6, <1>7, <1>8, <1>9, <1>10
       DEF Next, UpdaterStep, Terminated

LEMMA Invariance2 == Spec => []Inv2
<1>1. Init => Inv2
  <2> SUFFICES ASSUME Init PROVE Zone
    BY InitInv DEF Inv2
  <2>1. Below(Defaults)
    BY DEF Below, Defaults
  <2>2. config = Defaults /\ acked = Defaults /\ lock = NoTask /\ attempted = Nothing
    BY DEF Init
  <2>. QED BY <2>1, <2>2, TasksAre DEF Zone, Undisturbed
<1>2. Inv2 /\ [Next]_vars => Inv2'
  <2> SUFFICES ASSUME Inv2, [Next]_vars PROVE Inv2'
    OBVIOUS
  <2>1. Inv1' /\ Kept'
    BY Inductive, KeptStep, Zenon DEF Inv2
  <2>2. Zone'
    BY ZoneStep, Zenon
  <2>. QED BY <2>1, <2>2 DEF Inv2
<1>. QED BY <1>1, <1>2, PTL DEF Spec

\* Whatever requests are made, an acknowledged update is what the flash holds, and
\* the device runs with it or with what a boot has made of it, through any number
\* of failed writes and resets.
THEOREM AcknowledgedIsKept == Spec => []AcknowledgedSurvives
<1>1. Inv2 => AcknowledgedSurvives
  BY DEF Inv2, Kept, RamKept, AcknowledgedSurvives, Stored
<1>. QED BY <1>1, Invariance2, PTL

\* Whatever requests are made, the dead zone stays below the trigger once it has
\* been named, until a request lowers the trigger alone or a reset cuts an update
\* in two.
THEOREM ZoneStaysBelow == Spec => []DeadZoneBelowTrigger
<1>1. Inv2 => DeadZoneBelowTrigger
  BY DEF Inv2, Zone, Below, DeadZoneBelowTrigger, Settled
<1>. QED BY <1>1, Invariance2, PTL
=============================================================================
