------------------------------ MODULE ConfigApp ------------------------------
(***************************************************************************)
(* The configuration page of the Android application (ConfigScreen.kt,      *)
(* AppViewModel.kt) in front of the configuration store.  It has two copies *)
(* of the configuration, the one last read from the device and the form,   *)
(* and saves the whole form.  The serializer it uses (Json without          *)
(* encodeDefaults) leaves out the fields that have the default values of    *)
(* the application's own data class, and the device keeps what a request    *)
(* does not name.                                                          *)
(***************************************************************************)
EXTENDS ConfigStore

CONSTANTS
  App,     \* the task that serves the application, one of Updaters
  Entries  \* bound: configurations its user may enter

VARIABLES
  known,   \* config of the view model: <<>> or the configuration last read
  editing, \* the form: <<>> or the configuration it shows
  saving   \* <<>> or the configuration last saved

app == <<known, editing, saving>>

AppInit ==
  /\ Init
  /\ known = <<>>
  /\ editing = <<>>
  /\ saving = <<>>

AppDefaults == [mode |-> "birthday", trigger_lux |-> 300, dead_zone_lux |-> 50]

\* The request that is made of a configuration.
Encoded(c) == [f \in {g \in Fields : c[g] # AppDefaults[g]} |-> c[f]]

\* config.get, by a button and after each save.  The serial client has one
\* request at a time on its way, so a second save may come before the read
\* that follows the first.
Reads ==
  /\ Running
  /\ pc[App] = "Idle"
  /\ lock = NoTask
  /\ known' = <<config>>
  \* the form follows only if this is not what was read before
  /\ editing' = IF known' # known THEN known' ELSE editing
  /\ UNCHANGED <<vars, saving>>

\* The page is left and opened again.
Opens ==
  /\ known # <<>>
  /\ editing' = known
  /\ UNCHANGED <<vars, known, saving>>

Edits ==
  /\ editing # <<>>
  /\ \E c \in Entries : editing' = <<c>>
  /\ UNCHANGED <<vars, known, saving>>

\* The button of the form.
Saves ==
  /\ editing # <<>>
  /\ Request(App)
  /\ req'[App] = Encoded(editing[1])
  /\ saving' = editing
  /\ UNCHANGED <<known, editing>>

\* The device, and the other clients, who are not those of App.
DeviceStep ==
  \/ Load
  \/ \E u \in Updaters : UpdaterStep(u)
  \/ \E u \in Updaters \ {App} : Request(u)
  \/ \E t \in Tasks : MirrorStep(t)
  \/ Crash

AppNext ==
  \/ Reads
  \/ Opens
  \/ Edits
  \/ Saves
  \/ DeviceStep /\ UNCHANGED app

AppSpec == AppInit /\ [][AppNext]_<<vars, app>>

-----------------------------------------------------------------------------
\* AppViewModel.kt:229 says of a save that was answered "ok" that the
\* configuration is saved: each value of the form is then the device's value,
\* but for a dead zone as wide as the trigger, which the device cuts down.
SavedIsStored ==
  [][\A f \in Fields :
       /\ pc[App] = "Persist" /\ pc'[App] = "ReadConfig"
       /\ f = "dead_zone_lux" => saving[1].dead_zone_lux < saving[1].trigger_lux
       => config'[f] = saving[1][f]]_<<vars, app>>
=============================================================================
