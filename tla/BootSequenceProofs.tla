------------------------- MODULE BootSequenceProofs -------------------------
(***************************************************************************)
(* Proofs about BootSequence, and about SensorTrigger, the task of one of  *)
(* its stages.  ToneAsAsked is not inductive: it speaks of the moment of   *)
(* the tone only.  The invariant follows a request from the handler over   *)
(* the flash to the next start: unless it is stray, sine_sec and sine_bits *)
(* are those of the test owed.                                             *)
(***************************************************************************)
EXTENDS BootSequence, SensorTrigger, TLAPS

\* What the flash says is what is owed, unless it is known to be stray.
FlashIsOwed ==
  sineSec # None /\ ~stray =>
    owed \in Tests /\ sineSec = owed.seconds /\ sineBits = owed.bits

\* The handler has written what it is going to acknowledge.
Written ==
  /\ pc \in {"write_seconds", "write_bits", "answer"} => test \in Tests
  /\ pc \in {"write_bits", "answer"} => sineSec = test.seconds /\ stray
  /\ pc = "answer" => sineBits = test.bits

\* What a start reads of a test.
AsRead(t) == IF unread THEN [t EXCEPT !.bits = 16] ELSE t

\* A start that has read a test has read what is owed, and takes it.
Taking ==
  /\ unread => pc \in {"clear_seconds", "clear_bits", "tone"}
  /\ pc = "clear_seconds" => test \in Tests /\ (stray \/ test = AsRead(owed))
  /\ pc \in {"clear_bits", "tone"} => taken = Stray \/ test = AsRead(taken)
  /\ pc = "clear_bits" => sineSec = None

IInv == TypeOK /\ FlashIsOwed /\ Written /\ Taking

\* Every stage leads to the next one, the last one to the running device.
LEMMA AfterType == \A s \in StageNames : After(s) \in StageNames \cup {"running"}
<1> SUFFICES ASSUME NEW s \in StageNames PROVE After(s) \in StageNames \cup {"running"}
  OBVIOUS
<1> DEFINE I == CHOOSE i \in 1..Len(Stages) : Stages[i] = s
<1>1. Len(Stages) = 9
  BY DEF Stages
<1>2. I \in 1..9 /\ Stages[I] = s
  BY <1>1 DEF StageNames
<1>3. CASE I = 9
  BY <1>1, <1>3, Zenon DEF After
<1>4. CASE I # 9
  <2>1. I + 1 \in 1..Len(Stages)
    BY <1>1, <1>2, <1>4
  <2>2. After(s) = Stages[I + 1]
    BY <1>1, <1>4, Zenon DEF After
  <2>. QED BY <2>1, <2>2 DEF StageNames
<1>. QED BY <1>3, <1>4

\* The stages of the start are none of the other places in it.
LEMMA StageNamesAre ==
  StageNames = {"config", "files", "mirror", "audio", "sensor", "wifi", "web", "serial", "song"}
<1>1. 1..Len(Stages) = {1, 2, 3, 4, 5, 6, 7, 8, 9}
  BY DEF Stages
<1>. QED BY <1>1 DEF StageNames, Stages

\* The device starts with an empty flash and no request.
LEMMA InitInv == Init => IInv
<1> SUFFICES ASSUME Init PROVE IInv
  OBVIOUS
<1>1. requests \in 0..MaxRequests /\ faults \in 0..MaxFaults
  BY BoundAssumption DEF Init
<1>2. TypeOK
  BY <1>1, Zenon DEF Init, TypeOK
<1>3. FlashIsOwed /\ Written /\ Taking
  BY DEF Init, FlashIsOwed, Written, Taking
<1>. QED BY <1>2, <1>3 DEF IInv

\* Every step counts at most one fault, within the bound.
LEMMA FaultType ==
  ASSUME faults \in 0..MaxFaults, Fault \/ Calm
  PROVE  faults' \in 0..MaxFaults
BY BoundAssumption DEF Fault, Calm

\* The variables keep their types.
LEMMA TypeStep == IInv /\ [Next]_vars => TypeOK'
<1> SUFFICES ASSUME IInv, [Next]_vars PROVE TypeOK'
  OBVIOUS
<1>0. TypeOK
  BY DEF IInv
<1> USE <1>0 DEF TypeOK
<1>f. Fault \/ Calm => faults' \in 0..MaxFaults
  BY FaultType
<1>1. CASE InitializeNvs
  BY <1>1, <1>f, Zenon DEF InitializeNvs, flash, history
<1>2. CASE ReadPending
  <2>1. test' \in Tests
    BY <1>2 DEF ReadPending, Tests, Bits
  <2>2. unread' \in BOOLEAN
    BY <1>2, Zenon DEF ReadPending
  <2>3. Fault \/ Calm
    BY <1>2, Zenon DEF ReadPending
  <2>. QED BY <1>2, <1>f, <2>1, <2>2, <2>3, Zenon DEF ReadPending, flash
<1>18. CASE NothingPending
  BY <1>18, <1>f, StageNamesAre DEF NothingPending, flash, history
<1>3. CASE ClearSeconds
  BY <1>3, <1>f, Zenon DEF ClearSeconds, TakeOwed
<1>4. CASE ClearBits
  BY <1>4, <1>f, Zenon DEF ClearBits, history
<1>5. CASE Tone
  BY <1>5, <1>f, StageNamesAre DEF Tone, flash
<1>6. CASE Stage
  BY <1>6, <1>f, AfterType, Zenon DEF Stage, flash, history
<1>7. CASE SkipAbsent
  <2>1. absent \subseteq StageNames
    BY StageNamesAre DEF Optional
  <2>. QED BY <1>7, <1>f, <2>1, AfterType, Zenon DEF SkipAbsent, flash, history
<1>8. CASE WriteSeconds
  <2>1. test \in Tests /\ test.seconds \in Seconds
    BY <1>8 DEF WriteSeconds, IInv, Written, Tests
  <2>. QED BY <1>8, <1>f, <2>1, Zenon DEF WriteSeconds, Refuse
<1>9. CASE WriteBits
  <2>1. test \in Tests /\ test.bits \in Bits
    BY <1>9 DEF WriteBits, IInv, Written, Tests
  <2>. QED BY <1>9, <1>f, <2>1, Zenon DEF WriteBits, Refuse, history
<1>10. CASE Answer
  BY <1>10, <1>f, Zenon DEF Answer, flash
<1>11. CASE Restart
  BY <1>11, <1>f, Zenon DEF Restart, StartAnew, flash
<1>12. CASE EraseNvs
  BY <1>12, <1>f, Zenon DEF EraseNvs
<1>13. CASE ReadFails
  BY <1>13, <1>f, StageNamesAre DEF ReadFails, flash
<1>14. CASE StageFails
  BY <1>14, <1>f, Zenon DEF StageFails, StartAnew, flash
<1>15. CASE Request
  <2>1. requests' \in 0..MaxRequests
    BY <1>15, BoundAssumption DEF Request
  <2>. QED BY <1>15, <1>f, <2>1, Zenon DEF Request, flash, history
<1>16. CASE PowerCut
  BY <1>16, <1>f, Zenon DEF PowerCut, StartAnew, flash
<1>17. CASE UNCHANGED vars
  BY <1>17, Zenon DEF vars, flash, history
<1>. QED
  BY <1>1, <1>2, <1>3, <1>4, <1>5, <1>6, <1>7, <1>8, <1>9, <1>10, <1>11, <1>12,
     <1>13, <1>14, <1>15, <1>16, <1>17, <1>18 DEF Next, Step, Idle

\* Whoever writes a key makes the flash stray first; it is no longer so only
\* when both keys are those acknowledged, or when sine_sec is gone.
LEMMA FlashStep == IInv /\ [Next]_vars => FlashIsOwed'
<1> SUFFICES ASSUME IInv, [Next]_vars PROVE FlashIsOwed'
  OBVIOUS
<1> USE DEF IInv, FlashIsOwed
<1>1. CASE EraseNvs
  BY <1>1 DEF EraseNvs
<1>2. CASE ReadFails
  BY <1>2 DEF ReadFails, flash
<1>3. CASE ClearSeconds
  BY <1>3 DEF ClearSeconds
<1>4. CASE ClearBits
  \* sine_sec is gone already.
  BY <1>4 DEF ClearBits, history, Taking
<1>5. CASE WriteSeconds
  BY <1>5 DEF WriteSeconds, Refuse
<1>6. CASE WriteBits
  BY <1>6 DEF WriteBits, history, Written
<1>7. CASE Answer
  BY <1>7 DEF Answer, flash, Written
<1>8. CASE UNCHANGED <<sineSec, sineBits, owed, stray>>
  BY <1>8
<1>. QED
  BY <1>1, <1>2, <1>3, <1>4, <1>5, <1>6, <1>7, <1>8 DEF Next, Step, Idle,
     InitializeNvs, NothingPending, ReadPending, Tone, Stage, SkipAbsent, Restart, StageFails,
     Request, PowerCut, flash, history, vars

\* The handler's places follow each other, and what it has written stays.
LEMMA WrittenStep == IInv /\ [Next]_vars => Written'
<1> SUFFICES ASSUME IInv, [Next]_vars PROVE Written'
  OBVIOUS
<1> USE DEF IInv, Written
<1>1. CASE Request
  BY <1>1 DEF Request
<1>2. CASE WriteSeconds
  BY <1>2 DEF WriteSeconds, Refuse
<1>3. CASE WriteBits
  BY <1>3 DEF WriteBits, Refuse, history
<1>4. CASE Stage \/ SkipAbsent
  <2>1. pc \in StageNames
    BY <1>4, StageNamesAre DEF Stage, SkipAbsent, TypeOK, Optional
  <2>2. pc' \in StageNames \cup {"running"}
    BY <1>4, <2>1, AfterType, Zenon DEF Stage, SkipAbsent
  <2>. QED BY <2>2, StageNamesAre
<1>5. CASE pc' \in {"nvs", "read", "clear_seconds", "clear_bits", "tone", "config",
                    "running", "restart"}
  BY <1>5
<1>6. CASE UNCHANGED vars
  BY <1>6 DEF vars, flash, history
<1>. QED
  BY <1>1, <1>2, <1>3, <1>4, <1>5, <1>6 DEF Next, Step, Idle, InitializeNvs,
     NothingPending, ReadPending, ClearSeconds, ClearBits, Tone, Answer, Restart, StageFails,
     PowerCut, EraseNvs, ReadFails, StartAnew

\* A start reads the flash while it says what is owed, and takes that.
LEMMA TakingStep == IInv /\ [Next]_vars => Taking'
<1> SUFFICES ASSUME IInv, [Next]_vars PROVE Taking'
  OBVIOUS
<1> USE DEF IInv, Taking
<1>1. CASE ReadPending
  <2>1. pc' = "clear_seconds" /\ sineSec # None /\ ~unread /\ UNCHANGED <<stray, owed>>
    BY <1>1 DEF ReadPending
  <2>2. \/ /\ ~unread'
           /\ test' = [seconds |-> sineSec, bits |-> IF sineBits = None THEN 16 ELSE sineBits]
        \/ /\ unread'
           /\ test' = [seconds |-> sineSec, bits |-> 16]
    BY <1>1, <2>1 DEF ReadPending
  <2>3. test' \in Tests
    BY <2>1, <2>2 DEF Tests, Bits, TypeOK
  <2>4. ~stray => test' = AsRead(owed)'
    <3> SUFFICES ASSUME ~stray PROVE test' = AsRead(owed)'
      OBVIOUS
    <3>1. owed \in Tests /\ sineSec = owed.seconds /\ sineBits = owed.bits
      BY <2>1 DEF FlashIsOwed
    <3>2. sineBits # None
      BY <3>1, SecondsAssumption DEF Tests
    <3>. QED BY <2>1, <2>2, <3>1, <3>2 DEF Tests, AsRead
  <2>. QED BY <2>1, <2>3, <2>4 DEF TypeOK
<1>2. CASE ClearSeconds
  BY <1>2 DEF ClearSeconds, TakeOwed, AsRead
<1>3. CASE ClearBits
  BY <1>3 DEF ClearBits, history, AsRead
<1>4. CASE Stage \/ SkipAbsent
  <2>1. pc \in StageNames
    BY <1>4, StageNamesAre DEF Stage, SkipAbsent, TypeOK, Optional
  <2>2. pc' \in StageNames \cup {"running"}
    BY <1>4, <2>1, AfterType, Zenon DEF Stage, SkipAbsent
  <2>3. ~unread'
    BY <1>4, <2>1, StageNamesAre DEF Stage, SkipAbsent, history
  <2>. QED BY <2>2, <2>3, StageNamesAre
<1>5. ASSUME pc' \in {"nvs", "read", "config", "running", "restart", "write_seconds",
                      "write_bits", "answer"},
             ~unread'
      PROVE  Taking'
  BY <1>5
<1>6. CASE StageFails \/ PowerCut \/ Restart \/ Tone
  BY <1>5, <1>6 DEF StageFails, PowerCut, Restart, StartAnew, Tone
<1>7. CASE InitializeNvs \/ NothingPending \/ EraseNvs \/ ReadFails
  BY <1>5, <1>7 DEF InitializeNvs, NothingPending, EraseNvs, ReadFails, history
<1>8. CASE Request \/ WriteSeconds \/ WriteBits \/ Answer
  BY <1>5, <1>8 DEF Request, WriteSeconds, WriteBits, Refuse, Answer, history
<1>9. CASE UNCHANGED vars
  BY <1>9 DEF vars, flash, history, AsRead
<1>. QED
  BY <1>1, <1>2, <1>3, <1>4, <1>6, <1>7, <1>8, <1>9 DEF Next, Step, Idle

\* The inductive invariant holds in every reachable state.
THEOREM Invariance == Spec => []IInv
<1>1. IInv /\ [Next]_vars => IInv'
  BY TypeStep, FlashStep, WrittenStep, TakingStep DEF IInv
<1>. QED BY InitInv, <1>1, PTL DEF Spec

\* The variables of the start and of the request keep their types.
THEOREM TypeCorrect == Spec => []TypeOK
<1>1. IInv => TypeOK
  BY DEF IInv
<1>. QED BY Invariance, <1>1, PTL

\* For all lengths, however many requests and faults there are: a start gives
\* the tone that was acknowledged last, once, or one left over by a failure; and
\* only a start that could not read the width gives another one, of 16 bits.
THEOREM ToneIsAsAsked == Spec => []ToneAsAsked
<1>1. IInv => ToneAsAsked
  BY DEF IInv, Taking, ToneAsAsked, AsRead
<1>. QED BY Invariance, <1>1, PTL
-----------------------------------------------------------------------------
(***************************************************************************)
(* The sensor task.  OneSongPerExcursion is not inductive: a state with    *)
(* one song counted and the latch open could start a second.  What rules   *)
(* it out is that a counted song keeps the latch closed.                   *)
(***************************************************************************)

\* A song counted since the light was last back keeps the latch closed.
LatchHolds == songs \in {0, 1} /\ (songs = 1 => latched)

\* A song is counted once, in a state of the right types.
SensorInv == SensorTypeOK /\ LatchHolds

\* The task starts with no reading and nothing played.
LEMMA SensorInitInv == SensorInit => SensorInv
<1> SUFFICES ASSUME SensorInit PROVE SensorInv
  OBVIOUS
<1>1. WorldType
  <2>1. others \in 0 .. MaxOthers
    BY OthersAssumption DEF SensorInit
  <2>2. config \in Configs
    BY ConfigAssumption DEF SensorInit
  <2>. QED BY <2>1, <2>2 DEF SensorInit, WorldType
<1>2. TaskType
  BY Zenon DEF SensorInit, TaskType
<1>3. LatchHolds
  BY DEF SensorInit, LatchHolds
<1>4. songs \in Nat
  BY DEF SensorInit
<1>. QED BY <1>1, <1>2, <1>3, <1>4 DEF SensorInv, SensorTypeOK

\* The light, the bus, the configuration and the player keep their types.
LEMMA SensorWorldStep == WorldType /\ [SensorNext]_sensorVars => WorldType'
<1> SUFFICES ASSUME WorldType, [SensorNext]_sensorVars PROVE WorldType'
  OBVIOUS
<1> USE DEF WorldType
<1>1. CASE Play
  BY <1>1, Zenon DEF Play
<1>2. CASE PlayFails
  BY <1>2, OthersAssumption DEF PlayFails, Refused
<1>3. CASE LightChanges
  BY <1>3, Zenon DEF LightChanges
<1>4. CASE Rewire
  BY <1>4 DEF Rewire
<1>5. CASE Reconfigure
  BY <1>5, Zenon DEF Reconfigure
<1>6. CASE OtherPlays
  <2>1. others' \in 0 .. MaxOthers
    BY <1>6, OthersAssumption DEF OtherPlays, Refused
  <2>. QED BY <1>6, <2>1, Zenon DEF OtherPlays
<1>7. CASE SongEnds
  BY <1>7, Zenon DEF SongEnds
<1>8. CASE UNCHANGED world
  BY <1>8 DEF world
<1>. QED
  BY <1>1, <1>2, <1>3, <1>4, <1>5, <1>6, <1>7, <1>8 DEF SensorNext, SensorStep,
     Connect, SampleFails, Read, Unlatch, Wait, Fire, sensorVars

\* The task keeps its types, publishes what it samples, and fires only with
\* the latch open.
LEMMA SensorTaskStep == SensorTypeOK /\ [SensorNext]_sensorVars => TaskType'
<1> SUFFICES ASSUME SensorTypeOK, [SensorNext]_sensorVars PROVE TaskType'
  OBVIOUS
<1>0. TaskType /\ lux \in Luxes
  BY DEF SensorTypeOK, WorldType
<1> USE <1>0 DEF TaskType
<1>1. CASE Connect
  BY <1>1, Zenon DEF Connect
<1>2. CASE SampleFails
  BY <1>2, Zenon DEF SampleFails
<1>3. CASE Read
  BY <1>3 DEF Read
<1>4. CASE Unlatch
  BY <1>4, Zenon DEF Unlatch
<1>5. CASE Wait
  BY <1>5, Zenon DEF Wait
<1>6. CASE Fire
  BY <1>6, Zenon DEF Fire
<1>7. CASE Play
  BY <1>7, Zenon DEF Play
<1>8. CASE PlayFails
  BY <1>8, Zenon DEF PlayFails
<1>9. CASE UNCHANGED task
  BY <1>9 DEF task
<1>. QED
  BY <1>1, <1>2, <1>3, <1>4, <1>5, <1>6, <1>7, <1>8, <1>9 DEF SensorNext,
     SensorStep, LightChanges, Rewire, Reconfigure, OtherPlays, SongEnds,
     sensorVars

\* Only Play counts a song, and it closes the latch; only a sample back beyond
\* the dead zone, or another mode, opens it, and that ends the count.
LEMMA SensorLatchStep == SensorInv /\ [SensorNext]_sensorVars => LatchHolds'
<1> SUFFICES ASSUME SensorInv, [SensorNext]_sensorVars PROVE LatchHolds'
  OBVIOUS
<1>0. TaskType /\ LatchHolds
  BY DEF SensorInv, SensorTypeOK
<1> USE <1>0 DEF LatchHolds
<1>1. CASE SampleFails
  BY <1>1 DEF SampleFails
<1>2. CASE Read
  BY <1>2 DEF Read
<1>3. CASE Unlatch
  BY <1>3 DEF Unlatch
<1>4. CASE Wait
  <2>1. songs' \in {0, songs} /\ latched' = latched
    BY <1>4 DEF Wait
  <2>. QED BY <2>1
<1>5. CASE Fire
  <2>1. songs' \in {0, songs} /\ latched' = latched
    BY <1>5 DEF Fire
  <2>. QED BY <2>1
<1>6. CASE Play
  \* The latch was open, so no song had been counted.
  <2>1. songs = 0
    BY <1>6 DEF Play, TaskType
  <2>2. songs' = 1 /\ latched' = TRUE
    BY <1>6, <2>1 DEF Play
  <2>. QED BY <2>2
<1>7. CASE UNCHANGED <<latched, songs>>
  BY <1>7
<1>. QED
  BY <1>1, <1>2, <1>3, <1>4, <1>5, <1>6, <1>7 DEF SensorNext, SensorStep,
     Connect, PlayFails, LightChanges, Rewire, Reconfigure, OtherPlays,
     SongEnds, task, sensorVars

\* The inductive invariant holds in every reachable state.
THEOREM SensorInvariance == SensorSpec => []SensorInv
<1>1. SensorInit => SensorInv
  BY SensorInitInv
<1>2. SensorInv /\ [SensorNext]_sensorVars => SensorInv'
  <2>1. LatchHolds' => (songs \in Nat)'
    BY DEF LatchHolds
  <2>. QED
    BY <2>1, SensorWorldStep, SensorTaskStep, SensorLatchStep DEF SensorInv, SensorTypeOK
<1>. QED BY <1>1, <1>2, PTL DEF SensorSpec

\* The variables keep their types, and no song is started with the latch
\* closed.
THEOREM SensorTypeCorrect == SensorSpec => []SensorTypeOK
<1>1. SensorInv => SensorTypeOK
  BY DEF SensorInv
<1>. QED BY SensorInvariance, <1>1, PTL

\* For every set of readings and configurations, also those whose dead zone
\* exceeds the trigger: one lasting change of light starts at most one song.
THEOREM OneSong == SensorSpec => []OneSongPerExcursion
<1>1. SensorInv => OneSongPerExcursion
  BY DEF SensorInv, LatchHolds, OneSongPerExcursion
<1>. QED BY SensorInvariance, <1>1, PTL
=============================================================================
