---------------------------- MODULE UploadSession ----------------------------
(***************************************************************************)
(* The file store (main/filesystem/littlefs.c): music files, the single    *)
(* upload session behind its mutex, and the .upload file a session writes  *)
(* until it is complete.  The serial task and the HTTP server share the    *)
(* one session; the audio task opens files to play without the mutex, and  *)
(* an open file can be neither removed nor replaced.                       *)
(*                                                                         *)
(* Every operation holds the mutex throughout, so it is one action, except *)
(* the end of a session: between its unlink and its rename the player may  *)
(* look and the power may fail.  Data is counted in pieces, and a piece is *)
(* the number of the upload it belongs to.                                 *)
(***************************************************************************)
EXTENDS Naturals, Sequences

CONSTANTS
  Serial,       \* the serial task: a client that may go away in an upload
  Http,         \* the HTTP server: one handler at a time
  Clients,      \* those of the two that are at work
  Names,        \* names of music files
  MaxSize,      \* bound: pieces in one file
  MaxUploads,   \* bound: uploads begun in one behaviour
  MaxCrashes,   \* bound: resets in one behaviour
  Faults        \* TRUE: writing to flash may fail

ASSUME ClientAssumption == Clients \subseteq {Serial, Http}
ASSUME NameAssumption == Names # {}
ASSUME BoundAssumption ==
  MaxSize \in Nat \ {0} /\ MaxUploads \in Nat /\ MaxCrashes \in Nat
ASSUME FaultAssumption == Faults \in BOOLEAN

VARIABLES
  files,      \* the file each name holds
  temps,      \* names that have a .upload file on flash
  session,    \* s_upload and the statics beside it
  reading,    \* names the audio task has open
  pc,         \* control point of each client
  job,        \* the upload each client is making
  peer,       \* the HTTP client of an upload: "sends", "silent" or "closed"
  uploads,    \* uploads begun so far (bounded by MaxUploads)
  crashes,    \* resets so far (bounded by MaxCrashes)
  believed,   \* history: the file each name holds by the answers given
  disturbed,  \* history: clients whose upload another call has touched
  unknown,    \* history: names whose last upload no answer settled
  stray       \* history: .upload files nobody will remove

disk == <<files, temps>>
client == <<pc, job>>
bounds == <<uploads, crashes>>
history == <<believed, disturbed, unknown, stray>>
vars == <<disk, session, reading, client, peer, bounds, history>>

NoFile == [size |-> 0, data |-> <<>>]
NoJob(n) == [name |-> n, size |-> 0, id |-> 0, left |-> 0]
SomeName == CHOOSE n \in Names : TRUE

\* "open" is s_upload # NULL; the other fields outlive the session.
NoSession == [open |-> FALSE, name |-> SomeName, size |-> 0, data |-> <<>>]

Init ==
  /\ files = [n \in Names |-> NoFile]
  /\ temps = {}
  /\ session = NoSession
  /\ reading = {}
  /\ pc = [c \in Clients |-> "Idle"]
  /\ job = [c \in Clients |-> NoJob(SomeName)]
  /\ peer = "sends"
  /\ uploads = 0
  /\ crashes = 0
  /\ believed = [n \in Names |-> NoFile]
  /\ disturbed = {}
  /\ unknown = {}
  /\ stray = {}

\* The mutex is held across actions only by a client about to rename.
Unlocked == \A c \in Clients : pc[c] # "Rename"

\* A call of c on the session while another client's upload is under way.
Disturb(c) ==
  disturbed' = disturbed \cup {d \in Clients \ {c} : pc[d] # "Idle"}

(***************************************************************************)
(* The operations.                                                         *)
(***************************************************************************)

Begin_LeavesTemp(c) ==
  /\ Unlocked
  /\ pc[c] = "Idle"
  /\ uploads < MaxUploads
  /\ uploads' = uploads + 1
  /\ \E n \in Names, s \in 1 .. MaxSize :
       /\ session' = [open |-> TRUE, name |-> n, size |-> s, data |-> <<>>]
       /\ temps' = temps \cup {n}
       /\ stray' = stray \ {n}
       /\ job' = [job EXCEPT ![c] =
                    [name |-> n, size |-> s, id |-> uploads', left |-> s]]
  /\ pc' = [pc EXCEPT ![c] = "Sending"]
  /\ disturbed' = (disturbed \cup {d \in Clients \ {c} : pc[d] # "Idle"}) \ {c}
  /\ peer' = IF c = Http THEN "sends" ELSE peer
  /\ UNCHANGED <<files, reading, crashes, believed, unknown>>

\* filesystem_upload_begin: an open session, whoever began it, is closed and
\* its .upload file removed; fopen(.., "wb") creates the new one at once.
Begin(c) ==
  /\ Unlocked
  /\ pc[c] = "Idle"
  /\ uploads < MaxUploads
  /\ uploads' = uploads + 1
  /\ \E n \in Names, s \in 1 .. MaxSize :
       LET closed == IF session.open THEN temps \ {session.name} ELSE temps IN
       /\ \/ /\ session' = [open |-> TRUE, name |-> n, size |-> s, data |-> <<>>]
             /\ temps' = closed \cup {n}
             /\ stray' = stray \ {n}
             /\ pc' = [pc EXCEPT ![c] = "Sending"]
          \/ /\ Faults
             /\ session' = [open |-> FALSE, name |-> n, size |-> s, data |-> <<>>]
             /\ temps' = closed
             /\ pc' = pc
             /\ UNCHANGED stray
       /\ job' = [job EXCEPT ![c] =
                    [name |-> n, size |-> s, id |-> uploads', left |-> s]]
  /\ disturbed' = (disturbed \cup {d \in Clients \ {c} : pc[d] # "Idle"}) \ {c}
  /\ peer' = IF c = Http THEN "sends" ELSE peer
  /\ UNCHANGED <<files, reading, crashes, believed, unknown>>

\* The next piece is there.
Delivers(c) == pc[c] = "Sending" /\ job[c].left > 0 /\ (c = Http => peer = "sends")

Fits == session.open /\ Len(session.data) < session.size

\* filesystem_upload_write of the next piece.  It does not ask whose session
\* it is.
Write(c) ==
  /\ Unlocked
  /\ Delivers(c)
  /\ Fits
  /\ session' = [session EXCEPT !.data = Append(@, job[c].id)]
  /\ job' = [job EXCEPT ![c].left = @ - 1]
  /\ Disturb(c)
  /\ UNCHANGED <<disk, reading, pc, bounds, believed, unknown, stray, peer>>

\* The piece is refused, or the flash is full: both clients go on to give the
\* upload up.
WriteFails(c) ==
  /\ Unlocked
  /\ Delivers(c)
  /\ ~Fits \/ Faults
  /\ pc' = [pc EXCEPT ![c] = "Abort"]
  /\ UNCHANGED <<disk, session, reading, job, bounds, history, peer>>

\* The serial host goes away in the middle of an upload; its session stays.
Vanish(c) ==
  /\ c = Serial
  /\ pc[c] \in {"Sending", "Abort"}
  /\ pc' = [pc EXCEPT ![c] = "Idle"]
  /\ disturbed' = disturbed \ {c}
  /\ UNCHANGED <<disk, session, reading, job, bounds, believed, unknown,
                 stray, peer>>

\* The HTTP client pauses, goes on, or closes its connection in the middle of
\* the body.  Meanwhile the handler's receive times out and is tried again.
PeerTurns ==
  /\ Http \in Clients
  /\ pc[Http] = "Sending"
  /\ job[Http].left > 0
  /\ \/ peer = "sends" /\ peer' \in {"silent", "closed"}
     \/ peer = "silent" /\ peer' \in {"sends", "closed"}
  /\ UNCHANGED <<disk, session, reading, client, bounds, history>>

Disconnect_TriedAgain(c) ==
  /\ c = Http
  /\ pc[c] = "Sending"
  /\ peer = "closed"
  /\ UNCHANGED vars

\* A closed connection ends the loop.
Disconnect(c) ==
  /\ c = Http
  /\ pc[c] = "Sending"
  /\ peer = "closed"
  /\ peer' = "sends"
  /\ pc' = [pc EXCEPT ![c] = "Abort"]
  /\ UNCHANGED <<disk, session, reading, job, bounds, history>>

\* What filesystem_upload_end leaves of a session it does not commit.
Discard ==
  /\ session' = [session EXCEPT !.open = FALSE, !.size = 0, !.data = <<>>]
  /\ temps' = temps \ {session.name}

\* file.abort, or the error path of the POST handler: upload_end(false), with
\* or without a session, whoever began it.
Abort(c) ==
  /\ Unlocked
  /\ pc[c] = "Abort"
  /\ pc' = [pc EXCEPT ![c] = "Idle"]
  /\ IF session.open
       THEN Discard /\ disturbed' =
              (disturbed \cup {d \in Clients \ {c} : pc[d] # "Idle"}) \ {c}
       ELSE disturbed' = disturbed \ {c} /\ UNCHANGED <<session, temps>>
  /\ UNCHANGED <<files, reading, job, bounds, believed, unknown, stray, peer>>

\* upload_end(true) when there is no session: an error, and nothing to do.
EndWithoutSession(c) ==
  /\ Unlocked
  /\ pc[c] = "Sending"
  /\ job[c].left = 0
  /\ ~session.open
  /\ pc' = [pc EXCEPT ![c] = "Idle"]
  /\ disturbed' = disturbed \ {c}
  /\ UNCHANGED <<disk, session, reading, job, bounds, believed, unknown,
                 stray, peer>>

EndRefused_RemovesTarget(c) ==
  /\ Unlocked
  /\ pc[c] = "Sending"
  /\ job[c].left = 0
  /\ session.open
  /\ Len(session.data) # session.size \/ Faults
  /\ Discard
  /\ files' = [files EXCEPT ![session.name] = NoFile]
  /\ pc' = [pc EXCEPT ![c] = "Idle"]
  /\ disturbed' =
       (disturbed \cup {d \in Clients \ {c} : pc[d] # "Idle"}) \ {c}
  /\ UNCHANGED <<reading, job, bounds, believed, unknown, stray, peer>>

\* upload_end(true) when pieces are missing or fflush or fclose fail.
EndRefused(c) ==
  /\ Unlocked
  /\ pc[c] = "Sending"
  /\ job[c].left = 0
  /\ session.open
  /\ Len(session.data) # session.size \/ Faults
  /\ Discard
  /\ pc' = [pc EXCEPT ![c] = "Idle"]
  /\ disturbed' =
       (disturbed \cup {d \in Clients \ {c} : pc[d] # "Idle"}) \ {c}
  /\ UNCHANGED <<files, reading, job, bounds, believed, unknown, stray, peer>>

EndCommits_Incomplete(c) ==
  /\ Unlocked
  /\ pc[c] = "Sending"
  /\ job[c].left = 0
  /\ session.open
  /\ session' = [session EXCEPT !.open = FALSE]
  /\ files' = IF session.name \in reading THEN files
              ELSE [files EXCEPT ![session.name] = NoFile]
  /\ pc' = [pc EXCEPT ![c] = "Rename"]
  /\ Disturb(c)
  /\ UNCHANGED <<temps, reading, job, bounds, believed, unknown, stray, peer>>

\* upload_end(true) of a complete session: the .upload file is closed and the
\* old file removed, unless the player has it open.
EndCommits(c) ==
  /\ Unlocked
  /\ pc[c] = "Sending"
  /\ job[c].left = 0
  /\ session.open
  /\ Len(session.data) = session.size
  /\ session' = [session EXCEPT !.open = FALSE]
  /\ files' = IF session.name \in reading THEN files
              ELSE [files EXCEPT ![session.name] = NoFile]
  /\ pc' = [pc EXCEPT ![c] = "Rename"]
  /\ Disturb(c)
  /\ UNCHANGED <<temps, reading, job, bounds, believed, unknown, stray, peer>>

SessionClosed == session' = [session EXCEPT !.size = 0, !.data = <<>>]

\* The .upload file takes the place of the old one and the client is told so.
\* Afterwards the client believes its own upload to be there.
Rename(c) ==
  /\ pc[c] = "Rename"
  /\ session.name \notin reading
  /\ files' = [files EXCEPT ![session.name] =
                 [size |-> session.size, data |-> session.data]]
  /\ temps' = temps \ {session.name}
  /\ SessionClosed
  /\ pc' = [pc EXCEPT ![c] = "Idle"]
  /\ believed' = [believed EXCEPT ![job[c].name] =
                    [size |-> job[c].size,
                     data |-> [i \in 1 .. job[c].size |-> job[c].id]]]
  /\ unknown' =
       IF c \in disturbed THEN unknown \cup {job[c].name, session.name}
                          ELSE unknown \ {job[c].name}
  /\ disturbed' = disturbed \ {c}
  /\ UNCHANGED <<reading, job, bounds, stray, peer>>

\* The player opened the old file before the unlink and still has it, or the
\* flash fails: the client is told that the upload failed, and the .upload
\* file stays.  The old file is still there only in the first case.
RenameFails(c) ==
  /\ pc[c] = "Rename"
  /\ session.name \in reading \/ Faults
  /\ SessionClosed
  /\ pc' = [pc EXCEPT ![c] = "Idle"]
  /\ stray' = stray \cup {session.name}
  /\ unknown' = IF session.name \in reading THEN unknown
                                            ELSE unknown \cup {session.name}
  /\ disturbed' = disturbed \ {c}
  /\ UNCHANGED <<disk, reading, job, bounds, believed, peer>>

\* filesystem_delete_music: a missing or an open file is an error.
Delete(c) ==
  /\ Unlocked
  /\ pc[c] = "Idle"
  /\ \E n \in Names \ reading :
       /\ files[n] # NoFile
       /\ files' = [files EXCEPT ![n] = NoFile]
       /\ believed' = [believed EXCEPT ![n] = NoFile]
       /\ unknown' = unknown \ {n}
  /\ UNCHANGED <<temps, session, reading, client, bounds, disturbed, stray,
                 peer>>

(***************************************************************************)
(* The audio task, which plays one file at a time and takes no mutex.      *)
(***************************************************************************)

OpenToPlay ==
  /\ reading = {}
  /\ \E n \in Names : files[n] # NoFile /\ reading' = {n}
  /\ UNCHANGED <<disk, session, client, bounds, history, peer>>

CloseFile ==
  /\ reading # {}
  /\ reading' = {}
  /\ UNCHANGED <<disk, session, client, bounds, history, peer>>

(***************************************************************************)
(* A reset or a loss of power.                                             *)
(***************************************************************************)

Crash ==
  /\ crashes < MaxCrashes
  /\ crashes' = crashes + 1
  /\ peer' = "sends"
  /\ session' = NoSession
  /\ reading' = {}
  /\ pc' = [c \in Clients |-> "Idle"]
  /\ stray' = stray \cup temps
  /\ unknown' =
       unknown \cup {session.name : c \in {d \in Clients : pc[d] = "Rename"}}
  /\ disturbed' = {}
  /\ UNCHANGED <<disk, job, uploads, believed>>

Step(c) ==
  \/ Begin(c)
  \/ Write(c)
  \/ WriteFails(c)
  \/ Vanish(c)
  \/ Disconnect(c)
  \/ Abort(c)
  \/ EndWithoutSession(c)
  \/ EndRefused(c)
  \/ EndCommits(c)
  \/ Rename(c)
  \/ RenameFails(c)
  \/ Delete(c)

\* The handler on its way to the end of its upload.
HttpStep ==
  \/ Write(Http)
  \/ WriteFails(Http)
  \/ Disconnect(Http)
  \/ Abort(Http)
  \/ EndWithoutSession(Http)
  \/ EndRefused(Http)
  \/ EndCommits(Http)
  \/ Rename(Http)
  \/ RenameFails(Http)

\* Every upload the bound allows has been made.
Terminated ==
  /\ uploads = MaxUploads
  /\ \A c \in Clients : pc[c] = "Idle"
  /\ UNCHANGED vars

Next ==
  \/ \E c \in Clients : Step(c)
  \/ PeerTurns
  \/ OpenToPlay
  \/ CloseFile
  \/ Crash
  \/ Terminated

Spec == Init /\ [][Next]_vars

\* The handler of the HTTP server runs on, and whoever has the mutex; the
\* clients need not send.
FairSpec ==
  /\ Spec
  /\ WF_vars(Http \in Clients /\ HttpStep)
  /\ \A c \in Clients : WF_vars(Rename(c) \/ RenameFails(c))

-----------------------------------------------------------------------------
Ids == 1 .. MaxUploads
Files == [size : 0 .. MaxSize, data : Seq(Ids)]
Sessions == [open : BOOLEAN, name : Names, size : 0 .. MaxSize, data : Seq(Ids)]
Jobs == [name : Names, size : 0 .. MaxSize, id : 0 .. MaxUploads, left : 0 .. MaxSize]

\* Types of the variables; a session never holds more than was announced.
TypeOK ==
  /\ files \in [Names -> Files]
  /\ temps \subseteq Names
  /\ session \in Sessions
  /\ Len(session.data) <= session.size
  /\ reading \subseteq Names
  /\ pc \in [Clients -> {"Idle", "Sending", "Abort", "Rename"}]
  /\ job \in [Clients -> Jobs]
  /\ peer \in {"sends", "silent", "closed"}
  /\ uploads \in 0 .. MaxUploads
  /\ crashes \in 0 .. MaxCrashes
  /\ believed \in [Names -> Files]
  /\ disturbed \subseteq Clients
  /\ unknown \subseteq Names
  /\ stray \subseteq Names

\* What the clients were told is what is on flash: after an answer "ok" the
\* file is the whole upload or is gone, after an error it is as before.  Names
\* whose upload met a reset or a flash error between unlink and rename, or was
\* made while another client used the session, are excepted until the next
\* answer "ok".
AnswersHold ==
  Unlocked => \A n \in Names \ unknown : files[n] = believed[n]

\* At most one .upload file takes up space, but for those a reset or a player
\* left behind; those go only when the same name is uploaded again.
NoStrayTemp ==
  Unlocked => temps \subseteq stray \cup IF session.open THEN {session.name} ELSE {}

\* The one handler the HTTP server runs at a time ends, and the server with its
\* other clients goes on, unless the client of the upload falls silent.
HttpUploadEnds ==
  Http \in Clients =>
    (pc[Http] # "Idle" ~> pc[Http] = "Idle" \/ peer = "silent")

\* The player never finds anything but a whole file.
Store == INSTANCE AudioFiles WITH content <- files, Pieces <- Ids
WholeFilesOnly == Store!Spec
=============================================================================
