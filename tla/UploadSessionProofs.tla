------------------------- MODULE UploadSessionProofs -------------------------
(***************************************************************************)
(* Proofs about UploadSession.  AnswersHold speaks of the moments without   *)
(* a rename on its way and is not inductive: the invariant says in          *)
(* addition what a session holds while its client has been left alone, and  *)
(* what the name about to be renamed to holds meanwhile.                    *)
(***************************************************************************)
EXTENDS UploadSession, TLAPS

\* A client with an upload under way has an upload number.
Numbered == \A c \in Clients : pc[c] # "Idle" => job[c].id \in Ids

\* One client at a time holds the mutex for its rename, with its session closed
\* and complete, and it has disturbed every other upload.
Renaming ==
  \A c \in Clients : pc[c] = "Rename" =>
    /\ ~session.open
    /\ session.size > 0
    /\ Len(session.data) = session.size
    /\ \A d \in Clients \ {c} : pc[d] # "Rename" /\ (pc[d] # "Idle" => d \in disturbed)

\* An open session is of some size.
Announced == session.open => session.size > 0

\* The pieces of an undisturbed upload are its own.
Own(c) ==
  /\ session.name = job[c].name
  /\ session.size = job[c].size
  /\ \A i \in 1 .. Len(session.data) : session.data[i] = job[c].id

Undisturbed ==
  \A c \in Clients \ disturbed :
    /\ pc[c] = "Sending" =>
         session.open /\ Own(c) /\ Len(session.data) + job[c].left = session.size
    /\ pc[c] = "Rename" => Own(c)

\* The player has only files open that are there.
PlayedExists == \A n \in reading : files[n] # NoFile

\* Known names hold what the answers say, but for the one about to be replaced,
\* which may be gone already.
Answered ==
  \A n \in Names \ unknown :
    \/ files[n] = believed[n]
    \/ ~Unlocked /\ n = session.name /\ files[n] = NoFile

\* A .upload file belongs to the session, or to the rename on its way, or it
\* has been left behind.
TempsKnown ==
  temps \subseteq stray \cup IF session.open \/ ~Unlocked THEN {session.name} ELSE {}

IInv ==
  /\ TypeOK
  /\ Numbered
  /\ Renaming
  /\ Announced
  /\ Undisturbed
  /\ PlayedExists
  /\ Answered
  /\ TempsKnown

-----------------------------------------------------------------------------
LEMMA SomeNameType == SomeName \in Names
BY NameAssumption DEF SomeName

LEMMA EmptySeq == <<>> \in Seq(Ids) /\ Len(<<>>) = 0
OBVIOUS

\* A session whose fields are changed is still one.
LEMMA SessionType ==
  ASSUME NEW s \in Sessions, NEW d \in Seq(Ids), NEW z \in 0 .. MaxSize
  PROVE  /\ [s EXCEPT !.open = FALSE, !.size = z, !.data = d] \in Sessions
         /\ [s EXCEPT !.size = z, !.data = d] \in Sessions
         /\ [s EXCEPT !.data = d] \in Sessions
         /\ [s EXCEPT !.open = FALSE] \in Sessions
BY DEF Sessions

\* An upload all of whose pieces are the same.
LEMMA OnePieceType ==
  \A s \in 0 .. MaxSize, x \in Ids : [i \in 1 .. s |-> x] \in Seq(Ids)
<1> SUFFICES ASSUME NEW s \in Nat, NEW x \in Ids PROVE [i \in 1 .. s |-> x] \in Seq(Ids)
  BY BoundAssumption
<1>1. [i \in 1 .. s |-> x] \in [1 .. s -> Ids]
  OBVIOUS
<1>. QED BY <1>1, SMTT(60)

LEMMA NoFileType == NoFile \in Files
BY BoundAssumption DEF NoFile, Files

\* Nothing is open and nothing uploaded when the device starts.
LEMMA InitInv == Init => IInv
<1> SUFFICES ASSUME Init PROVE IInv
  OBVIOUS
<1>1. TypeOK
  <2>1. NoSession \in Sessions
        /\ Len(NoSession.data) <= NoSession.size
    BY SomeNameType, BoundAssumption DEF NoSession, Sessions
  <2>2. NoJob(SomeName) \in Jobs
    BY SomeNameType, BoundAssumption DEF NoJob, Jobs
  <2>3. uploads \in 0 .. MaxUploads /\ crashes \in 0 .. MaxCrashes
    BY BoundAssumption DEF Init
  <2>. QED BY <2>1, <2>2, <2>3, NoFileType, Zenon DEF Init, TypeOK
<1>2. Numbered /\ Renaming /\ Announced /\ Undisturbed
  BY DEF Init, NoSession, Numbered, Renaming, Announced, Undisturbed
<1>3. PlayedExists /\ Answered /\ TempsKnown
  BY DEF Init, PlayedExists, Answered, TempsKnown
<1>. QED BY <1>1, <1>2, <1>3 DEF IInv

\* The types survive the beginning of an upload.
LEMMA BeginType == \A c \in Clients : TypeOK /\ Begin(c) => TypeOK'
<1> SUFFICES ASSUME NEW c \in Clients, TypeOK, Begin(c) PROVE TypeOK'
  OBVIOUS
<1> USE DEF TypeOK, Sessions, Jobs
<1>1. uploads' \in 0 .. MaxUploads
  BY BoundAssumption DEF Begin
<1>2. PICK n \in Names, s \in 1 .. MaxSize :
        LET closed == IF session.open THEN temps \ {session.name} ELSE temps IN
        /\ \/ /\ session' = [open |-> TRUE, name |-> n, size |-> s, data |-> <<>>]
              /\ temps' = closed \cup {n}
              /\ stray' = stray \ {n}
              /\ pc' = [pc EXCEPT ![c] = "Sending"]
           \/ /\ Faults
              /\ session' = [open |-> FALSE, name |-> n, size |-> s, data |-> <<>>]
              /\ temps' = closed
              /\ pc' = pc
              /\ UNCHANGED stray
        /\ job' = [job EXCEPT ![c] = [name |-> n, size |-> s, id |-> uploads', left |-> s]]
  BY Zenon DEF Begin
<1>3. s \in 0 .. MaxSize /\ 0 <= s
  BY BoundAssumption
<1>4. session' \in Sessions
      /\ Len(session'.data) <= session'.size
  <2>1. PICK o \in BOOLEAN : session' = [open |-> o, name |-> n, size |-> s, data |-> <<>>]
    BY <1>2, Zenon
  <2>2. session'.size = s /\ session'.data = <<>>
    BY <2>1
  <2>. QED BY <1>3, <2>1, <2>2, EmptySeq
<1>5. job' \in [Clients -> Jobs]
  BY <1>1, <1>2, <1>3
<1>6. temps' \subseteq Names /\ stray' \subseteq Names
  BY <1>2
<1>7. pc' \in [Clients -> {"Idle", "Sending", "Abort", "Rename"}]
  BY <1>2
<1>8. disturbed' \subseteq Clients /\ peer' \in {"sends", "silent", "closed"}
  BY DEF Begin
<1>. QED BY <1>1, <1>4, <1>5, <1>6, <1>7, <1>8 DEF Begin

\* A piece goes into the session only if there is room for it.
LEMMA WriteType == \A c \in Clients : TypeOK /\ Numbered /\ Write(c) => TypeOK'
<1> SUFFICES ASSUME NEW c \in Clients, TypeOK, Numbered, Write(c) PROVE TypeOK'
  OBVIOUS
<1> USE DEF TypeOK, Sessions, Jobs
<1>1. job[c].id \in Ids /\ job[c].left > 0
  BY DEF Write, Delivers, Numbered
<1>2. session' = [session EXCEPT !.data = Append(@, job[c].id)]
      /\ Len(session.data) < session.size
  BY DEF Write, Fits
<1> DEFINE d == Append(session.data, job[c].id)
<1>a. d \in Seq(Ids) /\ Len(d) = Len(session.data) + 1
  BY <1>1
<1>b. session' = [session EXCEPT !.data = d]
  BY <1>2
<1> HIDE DEF d
<1>c. session' \in Sessions
  BY <1>a, <1>b, SessionType, BoundAssumption DEF Sessions
<1>d. session'.data = d /\ session'.size = session.size
  BY <1>b
<1>3. session' \in Sessions
      /\ Len(session'.data) <= session'.size
  BY <1>2, <1>a, <1>c, <1>d DEF Sessions
<1>e. job[c].left - 1 \in 0 .. MaxSize
  BY <1>1, BoundAssumption
<1>f. job' = [job EXCEPT ![c].left = @ - 1]
  BY DEF Write
<1>4. job' \in [Clients -> Jobs]
  BY <1>e, <1>f, ZenonT(30)
<1>5. disturbed' \subseteq Clients
  BY DEF Write, Disturb
<1>. QED BY <1>3, <1>4, <1>5 DEF Write, disk, bounds

\* Giving a session up, with or without an end, keeps the types.
LEMMA GiveUpType ==
  \A c \in Clients :
    TypeOK /\ (WriteFails(c) \/ Vanish(c) \/ Disconnect(c) \/ Abort(c)
               \/ EndWithoutSession(c) \/ EndRefused(c)) => TypeOK'
<1> SUFFICES ASSUME NEW c \in Clients, TypeOK,
                    WriteFails(c) \/ Vanish(c) \/ Disconnect(c) \/ Abort(c)
                    \/ EndWithoutSession(c) \/ EndRefused(c)
             PROVE  TypeOK'
  OBVIOUS
<1> USE DEF TypeOK, Sessions, Jobs
<1>0. Discard =>
        /\ session' \in Sessions
        /\ Len(session'.data) <= session'.size
        /\ temps' \subseteq Names
  <2> SUFFICES ASSUME Discard
               PROVE  /\ session' \in Sessions /\ Len(session'.data) <= session'.size
                      /\ temps' \subseteq Names
    BY DEF Sessions
  <2>1. session' = [session EXCEPT !.open = FALSE, !.size = 0, !.data = <<>>]
    BY DEF Discard
  <2>0. session \in Sessions /\ 0 \in 0 .. MaxSize
    BY BoundAssumption DEF Sessions
  <2>2. session' \in Sessions
    BY <2>0, <2>1, SessionType, EmptySeq, Zenon
  <2>3. session'.data = <<>> /\ session'.size = 0
    BY <2>1
  <2>. QED BY <2>2, <2>3, EmptySeq DEF Discard
<1>1. CASE WriteFails(c)
  BY <1>1 DEF WriteFails, disk, bounds, history
<1>2. CASE Vanish(c)
  BY <1>2 DEF Vanish, disk, bounds
<1>3. CASE Disconnect(c)
  BY <1>3 DEF Disconnect, disk, bounds, history
<1>4. CASE Abort(c)
  BY <1>0, <1>4 DEF Abort, bounds
<1>5. CASE EndWithoutSession(c)
  BY <1>5 DEF EndWithoutSession, disk, bounds
<1>6. CASE EndRefused(c)
  BY <1>0, <1>6 DEF EndRefused, bounds
<1>. QED BY <1>1, <1>2, <1>3, <1>4, <1>5, <1>6

\* So do the removal of the old file and the rename.
LEMMA EndType ==
  \A c \in Clients :
    TypeOK /\ Numbered /\ (EndCommits(c) \/ Rename(c) \/ RenameFails(c) \/ Delete(c)) => TypeOK'
<1> SUFFICES ASSUME NEW c \in Clients, TypeOK, Numbered,
                    EndCommits(c) \/ Rename(c) \/ RenameFails(c) \/ Delete(c)
             PROVE  TypeOK'
  OBVIOUS
<1> USE DEF TypeOK, Sessions, Jobs
<1>0. SessionClosed =>
        /\ session' \in Sessions
        /\ Len(session'.data) <= session'.size
  <2> SUFFICES ASSUME SessionClosed
               PROVE  session' \in Sessions /\ Len(session'.data) <= session'.size
    BY DEF Sessions
  <2>1. session' = [session EXCEPT !.size = 0, !.data = <<>>]
    BY DEF SessionClosed
  <2>0. session \in Sessions /\ 0 \in 0 .. MaxSize
    BY BoundAssumption DEF Sessions
  <2>2. session' \in Sessions
    BY <2>0, <2>1, SessionType, EmptySeq, Zenon
  <2>3. session'.data = <<>> /\ session'.size = 0
    BY <2>1
  <2>. QED BY <2>2, <2>3, EmptySeq
<1>1. CASE EndCommits(c)
  BY <1>1, NoFileType DEF EndCommits, Disturb, bounds
<1>2. CASE Rename(c)
  <2>1. [size |-> session.size, data |-> session.data] \in Files
    BY DEF Files
  <2>2. job[c].id \in Ids /\ job[c].size \in 0 .. MaxSize /\ job[c].name \in Names
    BY <1>2 DEF Rename, Numbered
  <2>3. [i \in 1 .. job[c].size |-> job[c].id] \in Seq(Ids)
    BY <2>2, OnePieceType, Zenon
  <2>4. [size |-> job[c].size, data |-> [i \in 1 .. job[c].size |-> job[c].id]] \in Files
    BY <2>2, <2>3 DEF Files
  <2>5. files' \in [Names -> Files] /\ believed' \in [Names -> Files]
    BY <1>2, <2>1, <2>4, Zenon DEF Rename
  <2>6. unknown' \subseteq Names /\ temps' \subseteq Names /\ disturbed' \subseteq Clients
    BY <1>2, <2>2 DEF Rename
  <2>7. pc' \in [Clients -> {"Idle", "Sending", "Abort", "Rename"}]
    BY <1>2 DEF Rename
  <2>. QED BY <1>0, <1>2, <2>5, <2>6, <2>7 DEF Rename, bounds
<1>3. CASE RenameFails(c)
  <2>1. unknown' \subseteq Names /\ stray' \subseteq Names /\ disturbed' \subseteq Clients
    BY <1>3 DEF RenameFails
  <2>2. pc' \in [Clients -> {"Idle", "Sending", "Abort", "Rename"}]
    BY <1>3 DEF RenameFails
  <2>. QED BY <1>0, <1>3, <2>1, <2>2 DEF RenameFails, disk, bounds
<1>4. CASE Delete(c)
  BY <1>4, NoFileType DEF Delete, client, bounds
<1>. QED BY <1>1, <1>2, <1>3, <1>4

\* The types survive every step.
LEMMA TypeStep == TypeOK /\ Numbered /\ [Next]_vars => TypeOK'
<1> SUFFICES ASSUME TypeOK, Numbered, [Next]_vars PROVE TypeOK'
  OBVIOUS
<1>1. ASSUME NEW c \in Clients, Step(c) PROVE TypeOK'
  BY <1>1, BeginType, WriteType, GiveUpType, EndType, Zenon DEF Step
<1>2. CASE PeerTurns
  BY <1>2 DEF PeerTurns, TypeOK, disk, client, bounds, history
<1>3. CASE OpenToPlay
  BY <1>3 DEF OpenToPlay, TypeOK, disk, client, bounds, history
<1>4. CASE CloseFile
  BY <1>4 DEF CloseFile, TypeOK, disk, client, bounds, history
<1>5. CASE Crash
  <2>1. NoSession \in Sessions
        /\ Len(NoSession.data) <= NoSession.size
    BY SomeNameType, BoundAssumption DEF NoSession, Sessions
  <2>2. crashes' \in 0 .. MaxCrashes
    BY <1>5, BoundAssumption DEF Crash, TypeOK
  <2>3. unknown' \subseteq Names
    BY <1>5 DEF Crash, TypeOK, Sessions
  <2>. QED BY <1>5, <2>1, <2>2, <2>3 DEF Crash, TypeOK, disk
<1>6. CASE UNCHANGED vars
  BY <1>6 DEF TypeOK, vars, disk, client, bounds, history
<1>. QED BY <1>1, <1>2, <1>3, <1>4, <1>5, <1>6, Zenon DEF Next, Terminated

-----------------------------------------------------------------------------
\* A step of one client leaves the control point and the job of another alone.
LEMMA OthersKeep ==
  \A c \in Clients : TypeOK /\ Step(c) =>
    \A d \in Clients \ {c} : pc'[d] = pc[d] /\ job'[d] = job[d]
<1> SUFFICES ASSUME NEW c \in Clients, TypeOK, Step(c), NEW d \in Clients \ {c}
             PROVE  pc'[d] = pc[d] /\ job'[d] = job[d]
  BY Zenon
<1> USE DEF TypeOK, client
<1>1. CASE Begin(c)
  BY <1>1 DEF Begin
<1>2. CASE Write(c)
  BY <1>2 DEF Write
<1>3. CASE WriteFails(c) \/ Vanish(c) \/ Disconnect(c)
  BY <1>3 DEF WriteFails, Vanish, Disconnect
<1>4. CASE Abort(c) \/ EndWithoutSession(c) \/ EndRefused(c)
  BY <1>4 DEF Abort, EndWithoutSession, EndRefused
<1>5. CASE EndCommits(c)
  BY <1>5 DEF EndCommits
<1>6. CASE Rename(c) \/ RenameFails(c)
  BY <1>6 DEF Rename, RenameFails
<1>7. CASE Delete(c)
  BY <1>7 DEF Delete
<1>. QED BY <1>1, <1>2, <1>3, <1>4, <1>5, <1>6, <1>7 DEF Step

\* An upload has the number it was given when it began.
LEMMA NumberedStep == TypeOK /\ Numbered /\ [Next]_vars => Numbered'
<1> SUFFICES ASSUME TypeOK, Numbered, [Next]_vars PROVE Numbered'
  OBVIOUS
<1>1. ASSUME NEW c \in Clients, Step(c) PROVE Numbered'
  <2>1. pc'[c] # "Idle" => job'[c].id \in Ids
    <3>1. CASE Begin(c)
      <4>1. uploads' \in Ids
        BY <3>1, BoundAssumption DEF Begin, TypeOK, Ids
      <4>2. job'[c].id = uploads'
        BY <3>1 DEF Begin, TypeOK
      <4>. QED BY <4>1, <4>2
    <3>2. CASE Write(c)
      <4>1. job'[c].id = job[c].id /\ pc[c] # "Idle"
        BY <3>2 DEF Write, Delivers, TypeOK, Jobs
      <4>. QED BY <4>1 DEF Numbered
    <3>3. CASE WriteFails(c) \/ Vanish(c) \/ Disconnect(c)
      BY <3>3 DEF WriteFails, Vanish, Disconnect, Delivers, TypeOK, Numbered
    <3>4. CASE Abort(c) \/ EndWithoutSession(c) \/ EndRefused(c)
      BY <3>4 DEF Abort, EndWithoutSession, EndRefused, TypeOK
    <3>5. CASE EndCommits(c)
      BY <3>5 DEF EndCommits, TypeOK, Numbered
    <3>6. CASE Rename(c) \/ RenameFails(c)
      BY <3>6 DEF Rename, RenameFails, TypeOK
    <3>7. CASE Delete(c)
      BY <3>7 DEF Delete, TypeOK, client, Numbered
    <3>. QED BY <1>1, <3>1, <3>2, <3>3, <3>4, <3>5, <3>6, <3>7 DEF Step
  <2>2. \A d \in Clients \ {c} : pc'[d] = pc[d] /\ job'[d] = job[d]
    BY <1>1, OthersKeep, Zenon
  <2>. QED BY <2>1, <2>2, Zenon DEF Numbered
<1>2. CASE Crash
  BY <1>2 DEF Crash, Numbered
<1>3. CASE PeerTurns \/ OpenToPlay \/ CloseFile \/ UNCHANGED vars
  BY <1>3 DEF PeerTurns, OpenToPlay, CloseFile, vars, client, Numbered
<1>. QED BY <1>1, <1>2, <1>3, Zenon DEF Next, Terminated

\* The steps that need the mutex leave no client in a rename but the one that
\* commits.
LEMMA UnlockedStays ==
  \A c \in Clients :
    TypeOK /\ (Begin(c) \/ Write(c) \/ WriteFails(c) \/ Abort(c)
               \/ EndWithoutSession(c) \/ EndRefused(c) \/ Delete(c))
    => Unlocked /\ Unlocked'
<1> SUFFICES ASSUME NEW c \in Clients, TypeOK,
                    Begin(c) \/ Write(c) \/ WriteFails(c) \/ Abort(c)
                    \/ EndWithoutSession(c) \/ EndRefused(c) \/ Delete(c)
             PROVE  Unlocked /\ Unlocked'
  BY Zenon
<1>1. Step(c)
  BY DEF Step
<1>2. \A d \in Clients \ {c} : pc'[d] = pc[d]
  BY <1>1, OthersKeep, Zenon
<1>3. Unlocked
  BY DEF Begin, Write, WriteFails, Abort, EndWithoutSession, EndRefused, Delete
<1>4. pc'[c] # "Rename"
  <2>1. CASE Begin(c)
    BY <2>1 DEF Begin, TypeOK
  <2>2. CASE Write(c) \/ WriteFails(c)
    BY <1>3, <2>2 DEF Write, WriteFails, TypeOK, Unlocked
  <2>3. CASE Abort(c) \/ EndWithoutSession(c) \/ EndRefused(c) \/ Delete(c)
    BY <1>3, <2>3 DEF Abort, EndWithoutSession, EndRefused, Delete, TypeOK, client, Unlocked
  <2>. QED BY <2>1, <2>2, <2>3
<1>. QED BY <1>2, <1>3, <1>4 DEF Unlocked

\* The mutex keeps a rename apart from every other use of the session.
LEMMA RenamingStep ==
  TypeOK /\ Renaming /\ Announced /\ [Next]_vars => Renaming'
<1> SUFFICES ASSUME TypeOK, Renaming, Announced, [Next]_vars PROVE Renaming'
  OBVIOUS
<1>1. ASSUME NEW c \in Clients, Step(c) PROVE Renaming'
  <2>0. \A d \in Clients \ {c} : pc'[d] = pc[d]
    BY <1>1, OthersKeep, Zenon
  <2>1. CASE Begin(c) \/ Write(c) \/ WriteFails(c) \/ Abort(c)
             \/ EndWithoutSession(c) \/ EndRefused(c) \/ Delete(c)
    <3>1. Unlocked'
      BY <2>1, UnlockedStays
    <3>. QED BY <3>1 DEF Unlocked, Renaming
  <2>2. CASE EndCommits(c)
    <3>1. /\ ~session'.open
          /\ session'.size = session.size
          /\ session'.data = session.data
      BY <2>2 DEF EndCommits, TypeOK, Sessions
    <3>2. session.size > 0 /\ Len(session.data) = session.size
      BY <2>2 DEF EndCommits, Announced
    <3>3. \A d \in Clients \ {c} : pc[d] # "Rename" /\ (pc[d] # "Idle" => d \in disturbed')
      BY <2>2 DEF EndCommits, Unlocked, Disturb
    <3>. QED BY <2>0, <3>1, <3>2, <3>3 DEF Renaming
  <2>3. CASE Rename(c) \/ RenameFails(c)
    <3>1. pc'[c] = "Idle" /\ pc[c] = "Rename"
      BY <2>3 DEF Rename, RenameFails, TypeOK
    <3>2. \A d \in Clients \ {c} : pc[d] # "Rename"
      BY <3>1 DEF Renaming
    <3>. QED BY <2>0, <3>1, <3>2 DEF Renaming
  <2>4. CASE Vanish(c) \/ Disconnect(c)
    <3>1. session' = session
      BY <2>4 DEF Vanish, Disconnect
    <3>2. pc'[c] \in {"Idle", "Abort"} /\ (pc'[c] # "Idle" => pc[c] # "Idle")
      BY <2>4 DEF Vanish, Disconnect, TypeOK
    <3>3. disturbed \ {c} \subseteq disturbed' /\ (pc'[c] # "Idle" => disturbed' = disturbed)
      BY <2>4 DEF Vanish, Disconnect, TypeOK, history
    <3>4. SUFFICES ASSUME NEW d \in Clients, pc'[d] = "Rename", NEW e \in Clients \ {d}
                   PROVE  /\ ~session.open /\ session.size > 0 /\ Len(session.data) = session.size
                          /\ pc'[e] # "Rename" /\ (pc'[e] # "Idle" => e \in disturbed')
      BY <2>0, <3>1, <3>2 DEF Renaming
    <3>5. d # c /\ pc[d] = "Rename"
      BY <2>0, <3>2, <3>4
    <3>6. /\ ~session.open /\ session.size > 0 /\ Len(session.data) = session.size
          /\ pc[e] # "Rename" /\ (pc[e] # "Idle" => e \in disturbed)
      BY <3>5 DEF Renaming
    <3>7. pc'[e] # "Rename" /\ (pc'[e] # "Idle" => pc[e] # "Idle")
      BY <2>0, <3>2, <3>6
    <3>. QED BY <3>3, <3>6, <3>7
  <2>. QED BY <1>1, <2>1, <2>2, <2>3, <2>4 DEF Step
<1>2. CASE Crash
  BY <1>2 DEF Crash, Renaming
<1>3. CASE PeerTurns \/ OpenToPlay \/ CloseFile \/ UNCHANGED vars
  BY <1>3 DEF PeerTurns, OpenToPlay, CloseFile, vars, client, history, Renaming
<1>. QED BY <1>1, <1>2, <1>3, Zenon DEF Next, Terminated
\* A session is opened with a size.
LEMMA AnnouncedStep == TypeOK /\ Renaming /\ Announced /\ [Next]_vars => Announced'
<1> SUFFICES ASSUME TypeOK, Renaming, Announced, [Next]_vars, session'.open PROVE session'.size > 0
  BY DEF Announced
<1> USE DEF TypeOK, Sessions
<1>1. ASSUME NEW c \in Clients, Step(c) PROVE session'.size > 0
  <2>1. CASE Begin(c)
    <3>1. PICK s \in 1 .. MaxSize : session'.size = s
      BY <2>1 DEF Begin
    <3>. QED BY <3>1, BoundAssumption
  <2>2. CASE Write(c)
    <3>1. session'.size = session.size /\ session'.open = session.open
      BY <2>2 DEF Write
    <3>. QED BY <3>1 DEF Announced
  <2>3. CASE WriteFails(c) \/ Vanish(c) \/ Disconnect(c) \/ EndWithoutSession(c) \/ Delete(c)
    BY <2>3 DEF WriteFails, Vanish, Disconnect, EndWithoutSession, Delete, Announced
  <2>4. CASE Abort(c)
    BY <2>4 DEF Abort, Discard, Announced
  <2>5. CASE EndRefused(c) \/ EndCommits(c)
    <3>1. session'.open = FALSE
      BY <2>5 DEF EndRefused, Discard, EndCommits
    <3>. QED BY <3>1
  <2>6. CASE Rename(c) \/ RenameFails(c)
    <3>1. session'.open = session.open
      BY <2>6 DEF Rename, RenameFails, SessionClosed
    <3>2. ~session.open
      BY <2>6 DEF Rename, RenameFails, Renaming
    <3>. QED BY <3>1, <3>2
  <2>. QED BY <1>1, <2>1, <2>2, <2>3, <2>4, <2>5, <2>6 DEF Step
<1>2. CASE Crash
  BY <1>2 DEF Crash, NoSession
<1>3. CASE PeerTurns \/ OpenToPlay \/ CloseFile \/ UNCHANGED vars
  BY <1>3 DEF PeerTurns, OpenToPlay, CloseFile, vars, Announced
<1>. QED BY <1>1, <1>2, <1>3, Zenon DEF Next, Terminated

\* The player's file is removed and replaced only when it is not open.
LEMMA PlayedStep == TypeOK /\ Renaming /\ PlayedExists /\ [Next]_vars => PlayedExists'
<1> SUFFICES ASSUME TypeOK, Renaming, PlayedExists, [Next]_vars, NEW n \in reading'
             PROVE  files'[n] # NoFile
  BY DEF PlayedExists
<1> USE DEF TypeOK, Sessions
<1>1. ASSUME NEW c \in Clients, Step(c) PROVE files'[n] # NoFile
  <2>1. CASE EndCommits(c)
    BY <2>1 DEF EndCommits, PlayedExists
  <2>2. CASE Rename(c)
    <3>1. n \in reading /\ n # session.name
      BY <2>2 DEF Rename
    <3>2. files'[n] = files[n]
      BY <2>2, <3>1 DEF Rename
    <3>. QED BY <3>1, <3>2 DEF PlayedExists
  <2>3. CASE Delete(c)
    BY <2>3 DEF Delete, PlayedExists
  <2>4. CASE Begin(c) \/ Write(c) \/ WriteFails(c) \/ Vanish(c) \/ Disconnect(c) \/ Abort(c)
             \/ EndWithoutSession(c) \/ EndRefused(c) \/ RenameFails(c)
    <3>1. files' = files /\ reading' = reading
      BY <2>4 DEF Begin, Write, WriteFails, Vanish, Disconnect, Abort,
                  EndWithoutSession, EndRefused, RenameFails, disk
    <3>. QED BY <3>1 DEF PlayedExists
  <2>. QED BY <1>1, <2>1, <2>2, <2>3, <2>4 DEF Step
<1>2. CASE Crash
  BY <1>2 DEF Crash
<1>3. CASE OpenToPlay
  BY <1>3 DEF OpenToPlay, disk
<1>4. CASE PeerTurns \/ CloseFile \/ UNCHANGED vars
  BY <1>4 DEF PeerTurns, CloseFile, vars, disk, PlayedExists
<1>. QED BY <1>1, <1>2, <1>3, <1>4, Zenon DEF Next, Terminated

\* No step loses track of a .upload file.
LEMMA TempsStep == TypeOK /\ Renaming /\ TempsKnown /\ [Next]_vars => TempsKnown'
<1> SUFFICES ASSUME TypeOK, Renaming, TempsKnown, [Next]_vars PROVE TempsKnown'
  OBVIOUS
<1> USE DEF TypeOK, Sessions, TempsKnown
<1>1. ASSUME NEW c \in Clients, Step(c) PROVE TempsKnown'
  <2>1. CASE Begin(c)
    <3>1. Unlocked
      BY <2>1 DEF Begin
    <3>2. PICK n \in Names, o \in BOOLEAN :
            /\ session'.name = n /\ session'.open = o
            /\ temps' \subseteq (IF session.open THEN temps \ {session.name} ELSE temps)
                                \cup (IF o THEN {n} ELSE {})
            /\ stray \ {n} \subseteq stray' /\ (~o => stray' = stray)
      <4>1. PICK n \in Names, s \in 1 .. MaxSize :
              LET closed == IF session.open THEN temps \ {session.name} ELSE temps IN
              \/ /\ session' = [open |-> TRUE, name |-> n, size |-> s, data |-> <<>>]
                 /\ temps' = closed \cup {n}
                 /\ stray' = stray \ {n}
              \/ /\ session' = [open |-> FALSE, name |-> n, size |-> s, data |-> <<>>]
                 /\ temps' = closed
                 /\ UNCHANGED stray
        BY <2>1, Zenon DEF Begin
      <4>2. CASE /\ session' = [open |-> TRUE, name |-> n, size |-> s, data |-> <<>>]
                 /\ temps' = (IF session.open THEN temps \ {session.name} ELSE temps) \cup {n}
                 /\ stray' = stray \ {n}
        <5>1. session'.name = n /\ session'.open = TRUE
          BY <4>2
        <5>. QED BY <4>2, <5>1
      <4>3. CASE /\ session' = [open |-> FALSE, name |-> n, size |-> s, data |-> <<>>]
                 /\ temps' = IF session.open THEN temps \ {session.name} ELSE temps
                 /\ stray' = stray
        <5>1. session'.name = n /\ session'.open = FALSE
          BY <4>3
        <5>. QED BY <4>3, <5>1
      <4>. QED BY <4>1, <4>2, <4>3
    <3>. QED BY <3>1, <3>2
  <2>2. CASE Write(c)
    <3>1. session'.name = session.name /\ session'.open = session.open
      BY <2>2 DEF Write
    <3>2. Unlocked /\ Unlocked'
      BY <2>2, UnlockedStays
    <3>. QED BY <2>2, <3>1, <3>2 DEF Write, disk
  <2>3. CASE WriteFails(c) \/ EndWithoutSession(c) \/ Delete(c)
    <3>1. Unlocked /\ Unlocked'
      BY <2>3, UnlockedStays
    <3>. QED BY <2>3, <3>1 DEF WriteFails, EndWithoutSession, Delete, disk, history
  <2>4. CASE Vanish(c) \/ Disconnect(c)
    <3>1. ~Unlocked => ~Unlocked'
      <4>1. pc[c] # "Rename"
        BY <2>4 DEF Vanish, Disconnect
      <4>2. \A d \in Clients \ {c} : pc'[d] = pc[d]
        BY <1>1, OthersKeep, Zenon
      <4>. QED BY <4>1, <4>2 DEF Unlocked
    <3>2. temps' = temps /\ stray' = stray /\ session' = session
      BY <2>4 DEF Vanish, Disconnect, disk, history
    <3>. QED BY <3>1, <3>2
  <2>5. CASE Abort(c) \/ EndRefused(c)
    <3>1. Unlocked /\ stray' = stray
      BY <2>5 DEF Abort, EndRefused
    <3>2. \/ temps' = temps \ {session.name}
          \/ ~session.open /\ temps' = temps
      BY <2>5 DEF Abort, EndRefused, Discard
    <3>. QED BY <3>1, <3>2
  <2>6. CASE EndCommits(c)
    <3>1. session'.name = session.name /\ ~Unlocked'
      BY <2>6 DEF EndCommits, Unlocked
    <3>. QED BY <2>6, <3>1 DEF EndCommits
  <2>7. CASE Rename(c) \/ RenameFails(c)
    <3>1. \/ temps' = temps \ {session.name} /\ stray' = stray
          \/ temps' = temps /\ stray' = stray \cup {session.name}
      BY <2>7 DEF Rename, RenameFails, disk
    <3>. QED BY <3>1
  <2>. QED BY <1>1, <2>1, <2>2, <2>3, <2>4, <2>5, <2>6, <2>7 DEF Step
<1>2. CASE Crash
  BY <1>2 DEF Crash, disk
<1>3. CASE PeerTurns \/ OpenToPlay \/ CloseFile \/ UNCHANGED vars
  BY <1>3 DEF PeerTurns, OpenToPlay, CloseFile, vars, disk, client, history, Unlocked
<1>. QED BY <1>1, <1>2, <1>3, Zenon DEF Next, Terminated
\* An upload nobody else has touched has its pieces, all its own, in the session.
LEMMA UndisturbedStep ==
  TypeOK /\ Renaming /\ Undisturbed /\ [Next]_vars => Undisturbed'
<1> SUFFICES ASSUME TypeOK, Renaming, Undisturbed, [Next]_vars PROVE Undisturbed'
  OBVIOUS
<1> USE DEF TypeOK
<1> DEFINE Holds(d) == /\ pc[d] = "Sending" =>
                            /\ session.open /\ Own(d)
                            /\ Len(session.data) + job[d].left = session.size
                       /\ pc[d] = "Rename" => Own(d)
<1>0. \A d \in Clients \ disturbed : Holds(d)
  BY DEF Undisturbed
<1>s. (\A d \in Clients \ disturbed' : Holds(d)') => Undisturbed'
  BY DEF Undisturbed
<1>k. ASSUME session' = session, NEW d \in Clients \ disturbed,
             pc'[d] = pc[d], job'[d] = job[d]
      PROVE  Holds(d)'
  BY <1>0, <1>k DEF Own
<1>i. ASSUME NEW d \in Clients, pc'[d] \notin {"Sending", "Rename"} PROVE Holds(d)'
  BY <1>i
<1> HIDE DEF Holds
<1>1. ASSUME NEW c \in Clients, Step(c) PROVE Undisturbed'
  <2>0. \A d \in Clients \ {c} : pc'[d] = pc[d] /\ job'[d] = job[d]
    BY <1>1, OthersKeep, Zenon
  <2>d. ASSUME {d \in Clients \ {c} : pc[d] # "Idle"} \subseteq disturbed',
               NEW d \in Clients \ disturbed', d # c
        PROVE  Holds(d)'
    <3>1. pc'[d] = "Idle"
      BY <2>0, <2>d
    <3>. QED BY <1>i, <3>1
  <2>1. CASE Begin(c)
    <3>1. {d \in Clients \ {c} : pc[d] # "Idle"} \subseteq disturbed'
      BY <2>1 DEF Begin
    <3>2. PICK n \in Names, s \in 1 .. MaxSize :
            /\ \/ /\ session' = [open |-> TRUE, name |-> n, size |-> s, data |-> <<>>]
                  /\ pc' = [pc EXCEPT ![c] = "Sending"]
               \/ pc' = pc
            /\ job' = [job EXCEPT ![c] = [name |-> n, size |-> s, id |-> uploads', left |-> s]]
      BY <2>1, Zenon DEF Begin
    <3>3. CASE pc' = pc
      <4>1. pc'[c] = "Idle"
        BY <2>1, <3>3 DEF Begin
      <4>2. Holds(c)'
        BY <1>i, <4>1
      <4>. QED BY <1>s, <2>d, <3>1, <4>2
    <3>4. CASE /\ session' = [open |-> TRUE, name |-> n, size |-> s, data |-> <<>>]
               /\ pc' = [pc EXCEPT ![c] = "Sending"]
      <4>1. job'[c] = [name |-> n, size |-> s, id |-> uploads', left |-> s]
        BY <3>2
      <4>2. pc'[c] = "Sending"
        BY <3>4
      <4>3. /\ session'.open = TRUE /\ session'.name = n /\ session'.size = s
            /\ session'.data = <<>>
        BY <3>4
      <4>4. /\ job'[c].name = n /\ job'[c].size = s /\ job'[c].left = s
        BY <4>1
      <4>5. Len(session'.data) = 0 /\ s \in Nat
        BY <4>3, EmptySeq, BoundAssumption
      <4>6. Holds(c)'
        BY <4>2, <4>3, <4>4, <4>5 DEF Holds, Own
      <4>. QED BY <1>s, <2>d, <3>1, <4>6
    <3>. QED BY <3>2, <3>3, <3>4
  <2>2. CASE Write(c)
    <3>1. {d \in Clients \ {c} : pc[d] # "Idle"} \subseteq disturbed' /\ disturbed \subseteq disturbed'
      BY <2>2 DEF Write, Disturb
    <3>2. SUFFICES ASSUME c \notin disturbed' PROVE Holds(c)'
      BY <1>s, <2>d, <3>1
    <3>3. /\ session.open /\ Own(c)
          /\ Len(session.data) + job[c].left = session.size
          /\ job[c].left > 0
      BY <1>0, <2>2, <3>1, <3>2 DEF Holds, Write, Delivers
    <3>4. session.data \in Seq(Ids) /\ session.size \in Nat /\ job[c].left \in Nat
          /\ job[c].id \in 0 .. MaxUploads
      BY BoundAssumption DEF Sessions, Jobs
    <3> DEFINE d == Append(session.data, job[c].id)
    <3>5. session' = [session EXCEPT !.data = d]
      BY <2>2 DEF Write
    <3>6. /\ Len(d) = Len(session.data) + 1
          /\ \A i \in 1 .. Len(d) : d[i] = job[c].id
      <4>1. \A i \in 1 .. Len(session.data) : session.data[i] = job[c].id
        BY <3>3 DEF Own
      <4>. QED BY <3>4, <4>1
    <3> HIDE DEF d
    <3>7. /\ session'.open = session.open /\ session'.name = session.name
          /\ session'.size = session.size /\ session'.data = d
      BY <3>5 DEF Sessions
    <3>8. /\ job'[c].name = job[c].name /\ job'[c].size = job[c].size
          /\ job'[c].id = job[c].id /\ job'[c].left = job[c].left - 1
      BY <2>2 DEF Write, Jobs
    <3>9. pc'[c] = "Sending"
      BY <2>2 DEF Write, Delivers
    <3>10. Own(c)'
      BY <3>3, <3>6, <3>7, <3>8 DEF Own
    <3>11. Len(session'.data) + job'[c].left = session'.size
      <4>1. Len(session'.data) = Len(session.data) + 1 /\ Len(session.data) \in Nat
        BY <3>4, <3>6, <3>7
      <4>2. job'[c].left = job[c].left - 1 /\ session'.size = session.size
        BY <3>7, <3>8
      <4>3. \A a \in Nat, b \in Nat : (a + 1) + (b - 1) = a + b
        OBVIOUS
      <4>4. Len(session'.data) + job'[c].left = Len(session.data) + job[c].left
        BY <3>4, <4>1, <4>2, <4>3, Zenon
      <4>. QED BY <3>3, <4>2, <4>4, Zenon
    <3>. QED BY <3>3, <3>7, <3>9, <3>10, <3>11 DEF Holds
  <2>3. CASE WriteFails(c) \/ Vanish(c) \/ Disconnect(c) \/ EndWithoutSession(c)
    <3>1. pc'[c] \in {"Idle", "Abort"}
      BY <2>3 DEF WriteFails, Vanish, Disconnect, EndWithoutSession
    <3>2. session' = session /\ disturbed \ {c} \subseteq disturbed'
      BY <2>3 DEF WriteFails, Vanish, Disconnect, EndWithoutSession, history
    <3>3. Holds(c)'
      BY <1>i, <3>1
    <3>. QED BY <1>k, <1>s, <2>0, <3>2, <3>3
  <2>4. CASE Abort(c)
    <3>1. pc'[c] = "Idle"
      BY <2>4 DEF Abort
    <3>2. Holds(c)'
      BY <1>i, <3>1
    <3>3. CASE session.open
      <4>1. {d \in Clients \ {c} : pc[d] # "Idle"} \subseteq disturbed'
        BY <2>4, <3>3 DEF Abort
      <4>. QED BY <1>s, <2>d, <3>2, <4>1
    <3>4. CASE ~session.open
      <4>1. session' = session /\ disturbed' = disturbed \ {c}
        BY <2>4, <3>4 DEF Abort
      <4>. QED BY <1>k, <1>s, <2>0, <3>2, <4>1
    <3>. QED BY <3>3, <3>4
  <2>5. CASE EndRefused(c)
    <3>1. pc'[c] = "Idle" /\ {d \in Clients \ {c} : pc[d] # "Idle"} \subseteq disturbed'
      BY <2>5 DEF EndRefused
    <3>2. Holds(c)'
      BY <1>i, <3>1
    <3>. QED BY <1>s, <2>d, <3>1, <3>2
  <2>6. CASE EndCommits(c)
    <3>1. {d \in Clients \ {c} : pc[d] # "Idle"} \subseteq disturbed' /\ disturbed \subseteq disturbed'
      BY <2>6 DEF EndCommits, Disturb
    <3>2. SUFFICES ASSUME c \notin disturbed' PROVE Holds(c)'
      BY <1>s, <2>d, <3>1
    <3>3. Own(c)
      BY <1>0, <2>6, <3>1, <3>2 DEF Holds, EndCommits
    <3>4. /\ session'.name = session.name /\ session'.size = session.size
          /\ session'.data = session.data /\ job'[c] = job[c]
      BY <2>6 DEF EndCommits
    <3>5. pc'[c] = "Rename"
      BY <2>6 DEF EndCommits
    <3>. QED BY <3>3, <3>4, <3>5 DEF Holds, Own
  <2>7. CASE Rename(c) \/ RenameFails(c)
    <3>1. pc[c] = "Rename" /\ pc'[c] = "Idle" /\ disturbed' = disturbed \ {c}
      BY <2>7 DEF Rename, RenameFails
    <3>2. {d \in Clients \ {c} : pc[d] # "Idle"} \subseteq disturbed'
      BY <3>1 DEF Renaming
    <3>3. Holds(c)'
      BY <1>i, <3>1
    <3>. QED BY <1>s, <2>d, <3>2, <3>3
  <2>8. CASE Delete(c)
    <3>1. session' = session /\ pc' = pc /\ job' = job /\ disturbed' = disturbed
      BY <2>8 DEF Delete, client
    <3>. QED BY <1>k, <1>s, <3>1
  <2>. QED BY <1>1, <2>1, <2>2, <2>3, <2>4, <2>5, <2>6, <2>7, <2>8 DEF Step
<1>2. CASE Crash
  BY <1>2 DEF Crash, Undisturbed
<1>3. CASE PeerTurns \/ OpenToPlay \/ CloseFile \/ UNCHANGED vars
  <2>1. session' = session /\ pc' = pc /\ job' = job /\ disturbed' = disturbed
    BY <1>3 DEF PeerTurns, OpenToPlay, CloseFile, vars, client, history
  <2>. QED BY <1>k, <1>s, <2>1
<1>. QED BY <1>1, <1>2, <1>3, Zenon DEF Next, Terminated

\* The names settled by answers stay so; the one about to be replaced is settled
\* again by the answer to its rename, or is no longer known.
LEMMA AnsweredStep ==
  TypeOK /\ Numbered /\ Renaming /\ Undisturbed /\ PlayedExists /\ Answered /\ [Next]_vars
    => Answered'
<1> SUFFICES ASSUME TypeOK, Numbered, Renaming, Undisturbed, PlayedExists, Answered,
                    [Next]_vars, NEW n \in Names, n \notin unknown'
             PROVE  \/ files'[n] = believed'[n]
                    \/ ~Unlocked' /\ n = session'.name /\ files'[n] = NoFile
  BY DEF Answered
<1> USE DEF TypeOK
<1>a. \/ n \in unknown
      \/ files[n] = believed[n]
      \/ ~Unlocked /\ n = session.name /\ files[n] = NoFile
  BY DEF Answered
<1>1. ASSUME NEW c \in Clients, Step(c)
      PROVE  \/ files'[n] = believed'[n]
             \/ ~Unlocked' /\ n = session'.name /\ files'[n] = NoFile
  <2>1. CASE Begin(c) \/ Write(c) \/ WriteFails(c) \/ Abort(c)
             \/ EndWithoutSession(c) \/ EndRefused(c)
    <3>1. Unlocked
      BY <2>1, UnlockedStays
    <3>2. files' = files /\ believed' = believed /\ unknown' = unknown
      BY <2>1 DEF Begin, Write, WriteFails, Abort, EndWithoutSession, EndRefused, disk, history
    <3>. QED BY <1>a, <3>1, <3>2
  <2>2. CASE Delete(c)
    <3>1. PICK m \in Names : /\ files' = [files EXCEPT ![m] = NoFile]
                             /\ believed' = [believed EXCEPT ![m] = NoFile]
                             /\ unknown' = unknown \ {m}
      BY <2>2 DEF Delete
    <3>2. Unlocked
      BY <2>2, UnlockedStays
    <3>. QED BY <1>a, <3>1, <3>2
  <2>3. CASE Vanish(c) \/ Disconnect(c)
    <3>1. pc[c] # "Rename" /\ session' = session
          /\ files' = files /\ believed' = believed /\ unknown' = unknown
      BY <2>3 DEF Vanish, Disconnect, disk, history
    <3>2. \A d \in Clients \ {c} : pc'[d] = pc[d]
      BY <1>1, OthersKeep, Zenon
    <3>3. ~Unlocked => ~Unlocked'
      BY <3>1, <3>2 DEF Unlocked
    <3>. QED BY <1>a, <3>1, <3>3
  <2>4. CASE EndCommits(c)
    <3>1. Unlocked /\ ~Unlocked'
      BY <2>4 DEF EndCommits, Unlocked
    <3>2. session'.name = session.name /\ session.name \in Names
      BY <2>4 DEF EndCommits, Sessions
    <3>3. believed' = believed /\ unknown' = unknown
      BY <2>4 DEF EndCommits
    <3>4. files' = files \/ files' = [files EXCEPT ![session.name] = NoFile]
      BY <2>4 DEF EndCommits
    <3>. QED BY <1>a, <3>1, <3>2, <3>3, <3>4
  <2>5. CASE Rename(c)
    <3>1. /\ files' = [files EXCEPT ![session.name] = [size |-> session.size, data |-> session.data]]
          /\ believed' = [believed EXCEPT ![job[c].name] =
                            [size |-> job[c].size,
                             data |-> [i \in 1 .. job[c].size |-> job[c].id]]]
          /\ unknown' = IF c \in disturbed THEN unknown \cup {job[c].name, session.name}
                                           ELSE unknown \ {job[c].name}
      BY <2>5 DEF Rename
    <3>2. CASE c \in disturbed
      <4>1. n # session.name /\ n # job[c].name /\ n \notin unknown
        BY <3>1, <3>2
      <4>2. files'[n] = files[n] /\ believed'[n] = believed[n]
        BY <3>1, <4>1
      <4>. QED BY <1>a, <4>1, <4>2
    <3>3. CASE c \notin disturbed
      <4>1. Own(c)
        BY <2>5, <3>3 DEF Rename, Undisturbed
      <4>2. CASE n = job[c].name
        <5>1. session.name = n /\ job[c].size = session.size /\ Len(session.data) = session.size
          BY <2>5, <4>1, <4>2 DEF Own, Rename, Renaming
        <5>2. session.data = [i \in 1 .. job[c].size |-> job[c].id]
          <6>1. session.data \in Seq(Ids)
            BY DEF Sessions
          <6>2. DOMAIN session.data = 1 .. Len(session.data)
                /\ session.data = [i \in DOMAIN session.data |-> session.data[i]]
            BY <6>1
          <6>3. \A i \in 1 .. Len(session.data) : session.data[i] = job[c].id
            BY <4>1 DEF Own
          <6>. QED BY <5>1, <6>2, <6>3
        <5>3. files'[n] = [size |-> session.size, data |-> session.data]
          BY <3>1, <5>1
        <5>4. believed'[n] = [size |-> job[c].size, data |-> [i \in 1 .. job[c].size |-> job[c].id]]
          BY <3>1, <4>2, Zenon
        <5>. QED BY <5>1, <5>2, <5>3, <5>4
      <4>3. CASE n # job[c].name
        <5>1. n # session.name /\ n \notin unknown
          BY <3>1, <3>3, <4>1, <4>3 DEF Own
        <5>2. files'[n] = files[n] /\ believed'[n] = believed[n]
          BY <3>1, <4>3, <5>1
        <5>. QED BY <1>a, <5>1, <5>2
      <4>. QED BY <4>2, <4>3
    <3>. QED BY <3>2, <3>3
  <2>6. CASE RenameFails(c)
    <3>1. files' = files /\ believed' = believed
          /\ unknown' = IF session.name \in reading THEN unknown ELSE unknown \cup {session.name}
      BY <2>6 DEF RenameFails, disk
    <3>2. n = session.name => files[n] # NoFile
      BY <3>1 DEF PlayedExists
    <3>. QED BY <1>a, <3>1, <3>2
  <2>. QED BY <1>1, <2>1, <2>2, <2>3, <2>4, <2>5, <2>6 DEF Step
<1>2. CASE Crash
  <2>1. files' = files /\ believed' = believed
        /\ unknown' = unknown \cup {session.name : c \in {d \in Clients : pc[d] = "Rename"}}
    BY <1>2 DEF Crash, disk
  <2>2. ~Unlocked => session.name \in unknown'
    BY <2>1 DEF Unlocked
  <2>. QED BY <1>a, <2>1, <2>2
<1>3. CASE PeerTurns \/ OpenToPlay \/ CloseFile \/ UNCHANGED vars
  BY <1>a, <1>3 DEF PeerTurns, OpenToPlay, CloseFile, vars, disk, client, history, Unlocked
<1>. QED BY <1>1, <1>2, <1>3, Zenon DEF Next, Terminated
-----------------------------------------------------------------------------
\* The invariant is inductive.
LEMMA Inductive == IInv /\ [Next]_vars => IInv'
<1> SUFFICES ASSUME IInv, [Next]_vars PROVE IInv'
  OBVIOUS
<1> USE DEF IInv
<1>1. TypeOK' /\ Numbered'
  BY TypeStep, NumberedStep, Zenon
<1>2. Renaming' /\ Announced'
  BY RenamingStep, AnnouncedStep, Zenon
<1>3. Undisturbed'
  BY UndisturbedStep, Zenon
<1>4. PlayedExists' /\ Answered'
  BY PlayedStep, AnsweredStep, Zenon
<1>5. TempsKnown'
  BY TempsStep, Zenon
<1>. QED BY <1>1, <1>2, <1>3, <1>4, <1>5

\* The invariant holds in every reachable state.
THEOREM Invariance == Spec => []IInv
<1>1. Init => IInv
  BY InitInv
<1>2. IInv /\ [Next]_vars => IInv'
  BY Inductive
<1>. QED BY <1>1, <1>2, PTL DEF Spec

\* The variables keep their types, and a session never takes more than was
\* announced for it (filesystem_upload_write).
THEOREM TypeCorrect == Spec => []TypeOK
<1>1. IInv => TypeOK
  BY DEF IInv
<1>. QED BY <1>1, Invariance, PTL

\* What the clients of the file store were told of a name is what it holds,
\* whatever the other client, the player, the flash and resets do.
THEOREM AnswersAreTrue == Spec => []AnswersHold
<1>1. IInv => AnswersHold
  BY DEF IInv, Answered, AnswersHold
<1>. QED BY <1>1, Invariance, PTL

\* Every .upload file belongs to the session or is one of those left behind.
THEOREM NoTempIsLost == Spec => []NoStrayTemp
<1>1. IInv => NoStrayTemp
  BY DEF IInv, TempsKnown, NoStrayTemp
<1>. QED BY <1>1, Invariance, PTL

-----------------------------------------------------------------------------
\* A complete session is a whole file of the abstract store.
LEMMA CompleteIsWhole ==
  TypeOK /\ session.size > 0 /\ Len(session.data) = session.size
    => [size |-> session.size, data |-> session.data] \in Store!Whole
<1> SUFFICES ASSUME TypeOK, session.size > 0, Len(session.data) = session.size
             PROVE  [size |-> session.size, data |-> session.data] \in Store!Whole
  OBVIOUS
<1>1. session.size \in 1 .. MaxSize /\ session.data \in Seq(Ids)
  BY BoundAssumption DEF TypeOK, Sessions
<1>2. session.data \in [1 .. session.size -> Ids]
  BY <1>1
<1>3. [size |-> session.size, data |-> session.data]
        \in [size : {session.size}, data : [1 .. session.size -> Ids]]
  BY <1>2
<1>. QED BY <1>1, <1>3 DEF Store!Whole

\* A step of the file store publishes a whole file, removes one, or changes none.
LEMMA StoreStep == IInv /\ [Next]_vars => [Store!Next]_files
<1> SUFFICES ASSUME IInv, [Next]_vars PROVE Store!Next \/ files' = files
  BY Zenon
<1> USE DEF IInv
<1>0. NoFile = Store!NoFile
  BY DEF NoFile, Store!NoFile
<1>1. ASSUME NEW c \in Clients, Step(c) PROVE Store!Next \/ files' = files
  <2>1. CASE EndCommits(c)
    <3>1. session.name \in Names
      BY DEF TypeOK, Sessions
    <3>2. files' = files \/ Store!Remove(session.name)
      BY <1>0, <2>1 DEF EndCommits, Store!Remove
    <3>. QED BY <3>1, <3>2 DEF Store!Next
  <2>2. CASE Rename(c)
    <3>1. session.name \in Names
      BY DEF TypeOK, Sessions
    <3>2. [size |-> session.size, data |-> session.data] \in Store!Whole
      BY <2>2, CompleteIsWhole DEF Rename, Renaming
    <3>3. Store!Publish(session.name)
      BY <2>2, <3>2 DEF Rename, Store!Publish
    <3>. QED BY <3>1, <3>3 DEF Store!Next
  <2>3. CASE Delete(c)
    <3>1. PICK m \in Names : Store!Remove(m)
      BY <1>0, <2>3 DEF Delete, Store!Remove
    <3>. QED BY <3>1 DEF Store!Next
  <2>4. CASE Begin(c) \/ Write(c) \/ WriteFails(c) \/ Vanish(c) \/ Disconnect(c) \/ Abort(c)
             \/ EndWithoutSession(c) \/ EndRefused(c) \/ RenameFails(c)
    BY <2>4 DEF Begin, Write, WriteFails, Vanish, Disconnect, Abort,
                EndWithoutSession, EndRefused, RenameFails, disk
  <2>. QED BY <1>1, <2>1, <2>2, <2>3, <2>4 DEF Step
<1>2. CASE Crash \/ PeerTurns \/ OpenToPlay \/ CloseFile \/ UNCHANGED vars
  BY <1>2 DEF Crash, PeerTurns, OpenToPlay, CloseFile, vars, disk
<1>. QED BY <1>1, <1>2, Zenon DEF Next, Terminated

\* The file store implements AudioFiles: a name holds nothing or a whole file,
\* and the player never finds anything in between.
THEOREM FilesAreWhole == Spec => WholeFilesOnly
<1>1. Init => Store!Init
  BY DEF Init, Store!Init, NoFile, Store!NoFile
<1>2. IInv /\ [Next]_vars => [Store!Next]_files
  BY StoreStep
<1>. QED BY <1>1, <1>2, Invariance, PTL DEF Spec, WholeFilesOnly, Store!Spec
=============================================================================
