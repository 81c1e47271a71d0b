-------------------------- MODULE WifiManagerProofs --------------------------
(***************************************************************************)
(* Theorems about WifiManager.  The connected bit and the state shown are  *)
(* written by two tasks in any order, so neither follows the driver at all *)
(* times; the last report on its way, in the queue or in the handler, does *)
(* (ReportHolds), and the task writes only while the driver is off.        *)
(***************************************************************************)
EXTENDS WifiManager, SequenceTheorems, TLAPS

\* What the last report says that has not reached the bit, or the bit.
LastBit == IF events = <<>> THEN bit ELSE events[Len(events)] = "gotIp"

\* What the last report says that has not reached the state shown.
LastShown ==
  IF events # <<>> THEN events[Len(events)] = "gotIp"
  ELSE IF handler # "Idle" THEN handler = "ShowUp"
  ELSE shown

ReportHolds == LastBit = (link = "joined") /\ LastShown = (link = "joined")

\* apply_credentials has left the old network and has not started yet.
OffWhileApplying == pc \in {"Clear", "Hide", "Start"} => link = "off"

IInv == TypeOK /\ ReportHolds /\ OffWhileApplying

\* Types.

\* Only users and the air change the world.
LEMMA WorldTypeStep == WorldType /\ [Next]_vars => WorldType'
<1> SUFFICES ASSUME WorldType, [Next]_vars PROVE WorldType'
  OBVIOUS
<1> USE DEF WorldType
<1>1. CASE Reconfigure
  BY <1>1, BoundAssumption DEF Reconfigure
<1>2. CASE NetworkChanges
  BY <1>2 DEF NetworkChanges
<1>3. CASE UNCHANGED world
  BY <1>3 DEF world
<1>4. QED
  BY <1>1, <1>2, <1>3
  DEF Next, TaskStep, DriverStep, HandlerStep, PlayerStep, Wake, Keep, Leave,
     ClearBit, Hide, Start, StartFails, ConnectFails, Source, CheckConnected,
     CheckIdle, StartRadio, Reconnect, Joins, Loses, HandleEvent,
     HandlerShows, Take, Begin, End, OthersCall, Goto, Sleep, Order, Stop,
     vars, world, driver, flags, task, player, history

\* The queue of events stays within its length.
LEMMA DriverTypeStep == TypeOK /\ [Next]_vars => DriverType'
<1> SUFFICES ASSUME TypeOK, [Next]_vars PROVE DriverType'
  OBVIOUS
<1> USE DEF TypeOK, DriverType, TaskType
<1>1. CASE Joins
  BY <1>1, BoundAssumption DEF Joins, Post
<1>2. CASE Loses
  BY <1>2, BoundAssumption DEF Loses, Post
<1>3. CASE HandleEvent
  <2>1. events # <<>> /\ events' = Tail(events)
    BY <1>3 DEF HandleEvent
  <2>2. events' \in Seq({"gotIp", "lost"}) /\ Len(events') <= QueueLength
    BY <2>1, BoundAssumption
  <2>3. UNCHANGED <<link, net, faults>>
    BY <1>3 DEF HandleEvent
  <2>4. QED
    BY <2>2, <2>3
<1>4. CASE Leave
  <2>1. link' \in {link, "off"} /\ UNCHANGED <<net, faults>>
    BY <1>4 DEF Leave
  <2>2. \/ UNCHANGED events
        \/ Len(events) < QueueLength /\ events' = Append(events, "lost")
    BY <1>4 DEF Leave, Post
  <2>3. events' \in Seq({"gotIp", "lost"}) /\ Len(events') <= QueueLength
    BY <2>2, BoundAssumption
  <2>4. QED
    BY <2>1, <2>3
<1>5. CASE Start
  BY <1>5, ConfigAssumption DEF Start, Goto
<1>6. CASE StartFails
  BY <1>6, BoundAssumption DEF StartFails
<1>7. CASE ConnectFails
  BY <1>7, BoundAssumption, ConfigAssumption DEF ConnectFails, Goto
<1>8. CASE Reconnect
  BY <1>8 DEF Reconnect, Sleep
<1>9. CASE UNCHANGED driver
  BY <1>9 DEF driver
<1>10. QED
  BY <1>1, <1>2, <1>3, <1>4, <1>5, <1>6, <1>7, <1>8, <1>9
  DEF Next, TaskStep, DriverStep, HandlerStep, PlayerStep, Wake, Keep,
     ClearBit, Hide, Source, CheckConnected, CheckIdle, StartRadio,
     HandlerShows, Take, Begin, End, OthersCall, Reconfigure, NetworkChanges,
     Goto, Sleep, Order, Stop, vars, world, driver, flags, task, player,
     history

\* The handler and apply_credentials write the flags.
LEMMA FlagsTypeStep == FlagsType /\ [Next]_vars => FlagsType'
<1> SUFFICES ASSUME FlagsType, [Next]_vars PROVE FlagsType'
  OBVIOUS
<1> USE DEF FlagsType
<1>1. CASE HandleEvent
  BY <1>1 DEF HandleEvent
<1>2. CASE HandlerShows
  BY <1>2 DEF HandlerShows
<1>3. CASE ClearBit
  BY <1>3 DEF ClearBit
<1>4. CASE Hide
  BY <1>4 DEF Hide
<1>5. CASE UNCHANGED flags
  BY <1>5 DEF flags
<1>6. QED
  BY <1>1, <1>2, <1>3, <1>4, <1>5
  DEF Next, TaskStep, DriverStep, HandlerStep, PlayerStep, Wake, Keep, Leave,
     Start, StartFails, ConnectFails, Source, CheckConnected, CheckIdle,
     StartRadio, Reconnect, Joins, Loses, Take, Begin, End, OthersCall,
     Reconfigure, NetworkChanges, Goto, Sleep, Order, Stop, vars, world,
     driver, flags, task, player, history

\* The driver runs exactly while s_started is set.
LEMMA TaskTypeStep == TypeOK /\ [Next]_vars => TaskType'
<1> SUFFICES ASSUME TypeOK, [Next]_vars PROVE TaskType'
  OBVIOUS
<1> USE DEF TypeOK, WorldType, DriverType, TaskType
<1>1. CASE Wake
  BY <1>1 DEF Wake, driver
<1>2. CASE Keep
  BY <1>2 DEF Keep, Goto, driver
<1>3. CASE Leave
  BY <1>3 DEF Leave, Goto, driver
<1>4. CASE ClearBit
  BY <1>4 DEF ClearBit, Goto, driver
<1>5. CASE Hide
  BY <1>5 DEF Hide, Goto, driver
<1>6. CASE Start
  BY <1>6 DEF Start, Goto, driver
<1>7. CASE StartFails
  BY <1>7 DEF StartFails, Goto, driver
<1>8. CASE ConnectFails
  BY <1>8 DEF ConnectFails, Goto, driver
<1>9. CASE Source
  BY <1>9 DEF Source, Goto, driver
<1>10. CASE CheckConnected
  BY <1>10 DEF CheckConnected, Goto, driver
<1>11. CASE CheckIdle
  BY <1>11 DEF CheckIdle, Goto, driver
<1>12. CASE StartRadio
  BY <1>12 DEF StartRadio, Sleep, driver
<1>13. CASE Reconnect
  BY <1>13 DEF Reconnect, Sleep
<1>14. CASE Joins
  BY <1>14 DEF Joins, task
<1>15. CASE Loses
  BY <1>15 DEF Loses, task
<1>16. CASE UNCHANGED <<task, link>>
  BY <1>16 DEF task
<1>17. QED
  BY <1>1, <1>2, <1>3, <1>4, <1>5, <1>6, <1>7, <1>8, <1>9, <1>10, <1>11,
     <1>12, <1>13, <1>14, <1>15, <1>16
  DEF Next, TaskStep, DriverStep, HandlerStep, PlayerStep, HandleEvent,
     HandlerShows, Take, Begin, End, OthersCall, Reconfigure, NetworkChanges,
     Goto, Sleep, Order, Stop, vars, world, driver, flags, task, player,
     history

\* Commands come from the configuration or from others.
LEMMA PlayerTypeStep == TypeOK /\ [Next]_vars => PlayerType'
<1> SUFFICES ASSUME TypeOK, [Next]_vars PROVE PlayerType'
  OBVIOUS
<1> USE DEF TypeOK, TaskType, PlayerType
<1>1. CASE Source
  BY <1>1 DEF Source, Stop
<1>2. CASE StartRadio
  BY <1>2, ConfigAssumption DEF StartRadio, Order
<1>3. CASE Take
  BY <1>3 DEF Take
<1>4. CASE Begin
  BY <1>4 DEF Begin
<1>5. CASE End
  BY <1>5 DEF End
<1>6. CASE OthersCall
  <2>1. calls' \in 0 .. MaxCalls
    BY <1>6, BoundAssumption DEF OthersCall
  <2>2. queued' \in {Song, None} /\ stopBit' = TRUE
    BY <1>6 DEF OthersCall, Order, Stop
  <2>3. UNCHANGED <<taken, serving>>
    BY <1>6 DEF OthersCall
  <2>4. QED
    BY <2>1, <2>2, <2>3
<1>7. CASE UNCHANGED player
  BY <1>7 DEF player
<1>8. QED
  BY <1>1, <1>2, <1>3, <1>4, <1>5, <1>6, <1>7
  DEF Next, TaskStep, DriverStep, HandlerStep, PlayerStep, Wake, Keep, Leave,
     ClearBit, Hide, Start, StartFails, ConnectFails, CheckConnected,
     CheckIdle, Reconnect, Joins, Loses, HandleEvent, HandlerShows,
     Reconfigure, NetworkChanges, Goto, Sleep, Order, Stop, vars, world,
     driver, flags, task, player, history

\* History variables are Boolean.
LEMMA HistoryTypeStep == HistoryType /\ [Next]_vars => HistoryType'
<1> SUFFICES ASSUME HistoryType, [Next]_vars PROVE HistoryType'
  OBVIOUS
<1> USE DEF HistoryType
<1>1. CASE Hide
  BY <1>1 DEF Hide
<1>2. CASE StartFails
  BY <1>2 DEF StartFails
<1>3. CASE Source
  BY <1>3 DEF Source
<1>4. CASE End
  BY <1>4 DEF End
<1>5. CASE UNCHANGED history
  BY <1>5 DEF history
<1>6. QED
  BY <1>1, <1>2, <1>3, <1>4, <1>5
  DEF Next, TaskStep, DriverStep, HandlerStep, PlayerStep, Wake, Keep, Leave,
     ClearBit, Start, ConnectFails, CheckConnected, CheckIdle, StartRadio,
     Reconnect, Joins, Loses, HandleEvent, HandlerShows, Take, Begin,
     OthersCall, Reconfigure, NetworkChanges, Goto, Sleep, Order, Stop, vars,
     world, driver, flags, task, player, history

\* The tasks start before anything has been joined or played.
LEMMA InitType == Init => TypeOK
<1> SUFFICES ASSUME Init PROVE TypeOK
  OBVIOUS
<1>1. WorldType
  BY ConfigAssumption, BoundAssumption DEF Init, WorldType
<1>2. DriverType
  BY BoundAssumption DEF Init, DriverType
<1>3. FlagsType /\ HistoryType
  BY DEF Init, FlagsType, HistoryType
<1>4. TaskType
  BY ConfigAssumption DEF Init, TaskType
<1>5. PlayerType
  <2>1. calls \in 0 .. MaxCalls
    BY BoundAssumption DEF Init
  <2>2. QED
    BY <2>1 DEF Init, PlayerType
<1>6. QED
  BY <1>1, <1>2, <1>3, <1>4, <1>5 DEF TypeOK

\* All parts together.
LEMMA TypeStep == TypeOK /\ [Next]_vars => TypeOK'
<1> SUFFICES ASSUME TypeOK, [Next]_vars PROVE TypeOK'
  OBVIOUS
<1> QED
  BY WorldTypeStep, DriverTypeStep, FlagsTypeStep, TaskTypeStep, PlayerTypeStep,
     HistoryTypeStep DEF TypeOK

\* The variables keep their types: s_started and the driver agree, the queue of
\* events is bounded, a command is begun only when nothing plays.
THEOREM TypeCorrect == Spec => []TypeOK
<1>1. Init => TypeOK
  BY InitType
<1>2. TypeOK /\ [Next]_vars => TypeOK'
  BY TypeStep
<1>3. QED
  BY <1>1, <1>2, PTL DEF Spec

-----------------------------------------------------------------------------

\* The last element of a sequence stays the last when the first is taken.
LEMMA LastOfTail ==
  ASSUME NEW S, NEW s \in Seq(S), s # <<>>
  PROVE  IF Tail(s) = <<>> THEN Head(s) = s[Len(s)]
                           ELSE Tail(s)[Len(Tail(s))] = s[Len(s)]
<1>1. /\ Len(s) \in Nat /\ Len(s) >= 1
      /\ Tail(s) \in Seq(S)
      /\ Len(Tail(s)) = Len(s) - 1
      /\ \A i \in 1 .. Len(Tail(s)) : Tail(s)[i] = s[i + 1]
      /\ Head(s) = s[1]
  BY HeadTailProperties, EmptySeq, LenProperties
<1>2. Tail(s) = <<>> <=> Len(s) = 1
  <2>1. Len(<<>>) = 0 /\ (Tail(s) # <<>> => Len(Tail(s)) # 0)
    BY <1>1, EmptySeq
  <2>2. QED
    BY <1>1, <2>1
<1>3. CASE Tail(s) = <<>>
  BY <1>1, <1>2, <1>3
<1>4. CASE Tail(s) # <<>>
  <2>1. Len(Tail(s)) \in 1 .. Len(Tail(s)) /\ Len(Tail(s)) + 1 = Len(s)
    BY <1>1, <1>2, <1>4
  <2>2. QED
    BY <1>1, <1>4, <2>1
<1>5. QED
  BY <1>3, <1>4

\* The driver is off from the moment the old network is left to the start.
LEMMA OffStep == IInv /\ [Next]_vars => OffWhileApplying'
<1> SUFFICES ASSUME IInv, [Next]_vars PROVE OffWhileApplying'
  OBVIOUS
<1> USE DEF IInv, OffWhileApplying
<1>1. CASE Wake
  BY <1>1 DEF Wake, driver
<1>2. CASE Keep
  BY <1>2 DEF Keep, Goto, driver, task
<1>3. CASE Leave
  BY <1>3 DEF Leave, Goto, TypeOK, TaskType
<1>4. CASE ClearBit
  BY <1>4 DEF ClearBit, Goto, driver, task
<1>5. CASE Hide
  BY <1>5 DEF Hide, Goto, driver, task
<1>6. CASE Start
  BY <1>6 DEF Start, Goto, driver, task
<1>7. CASE StartFails
  BY <1>7 DEF StartFails, Goto, driver, task
<1>8. CASE ConnectFails
  BY <1>8 DEF ConnectFails, Goto, driver, task
<1>9. CASE Source
  BY <1>9 DEF Source, Goto, driver, task
<1>10. CASE CheckConnected
  BY <1>10 DEF CheckConnected, Goto, driver, task
<1>11. CASE CheckIdle
  BY <1>11 DEF CheckIdle, Goto, driver, task
<1>12. CASE StartRadio
  BY <1>12 DEF StartRadio, Sleep, driver
<1>13. CASE Reconnect
  BY <1>13 DEF Reconnect, Sleep
<1>14. CASE Joins
  BY <1>14 DEF Joins, task
<1>15. CASE Loses
  BY <1>15 DEF Loses, task
<1>16. CASE UNCHANGED <<pc, link>>
  BY <1>16
<1>17. QED
  BY <1>1, <1>2, <1>3, <1>4, <1>5, <1>6, <1>7, <1>8, <1>9, <1>10, <1>11,
     <1>12, <1>13, <1>14, <1>15, <1>16
  DEF Next, TaskStep, DriverStep, HandlerStep, PlayerStep, HandleEvent,
     HandlerShows, Take, Begin, End, OthersCall, Reconfigure, NetworkChanges,
     Goto, Sleep, Order, Stop, vars, world, driver, flags, task, player,
     history

\* What is reported last is what the driver did last: each step of the driver
\* that matters posts a report, the handler passes it on, and what
\* apply_credentials writes is what the driver says anyway.
LEMMA ReportStep == IInv /\ [Next]_vars => ReportHolds'
<1> SUFFICES ASSUME IInv, [Next]_vars PROVE ReportHolds'
  OBVIOUS
<1> USE DEF IInv, TypeOK, DriverType, FlagsType, ReportHolds, LastBit, LastShown
<1>1. CASE Joins
  BY <1>1 DEF Joins, Post, flags
<1>2. CASE Loses
  BY <1>2 DEF Loses, Post, flags
<1>3. CASE HandleEvent
  <2>1. /\ handler = "Idle" /\ events # <<>> /\ events' = Tail(events)
        /\ UNCHANGED <<link, shown>>
    BY <1>3 DEF HandleEvent
  <2>2. events \in Seq({"gotIp", "lost"})
    OBVIOUS
  <2>3. CASE Tail(events) # <<>>
    <3>1. Tail(events)[Len(Tail(events))] = events[Len(events)]
      BY <2>1, <2>2, <2>3, LastOfTail
    <3>2. QED
      BY <2>1, <2>3, <3>1
  <2>4. CASE Tail(events) = <<>>
    <3>1. Head(events) = events[Len(events)]
      BY <2>1, <2>2, <2>4, LastOfTail
    <3>2. /\ bit' = (Head(events) = "gotIp")
          /\ (handler' = "ShowUp") = (Head(events) = "gotIp")
          /\ handler' # "Idle"
      BY <1>3 DEF HandleEvent
    <3>3. QED
      BY <2>1, <2>4, <3>1, <3>2
  <2>5. QED
    BY <2>3, <2>4
<1>4. CASE HandlerShows
  BY <1>4 DEF HandlerShows, driver
<1>5. CASE Leave
  BY <1>5 DEF Leave, Post, flags, Goto
<1>6. CASE ClearBit
  BY <1>6 DEF ClearBit, driver, OffWhileApplying
<1>7. CASE Hide
  BY <1>7 DEF Hide, driver, OffWhileApplying
<1>8. CASE Start
  BY <1>8 DEF Start, flags, OffWhileApplying
<1>9. CASE ConnectFails
  BY <1>9 DEF ConnectFails, flags, OffWhileApplying
<1>10. CASE Reconnect
  BY <1>10 DEF Reconnect, flags
<1>11. CASE UNCHANGED <<link, events, handler, bit, shown>>
  BY <1>11
<1>12. QED
  BY <1>1, <1>2, <1>3, <1>4, <1>5, <1>6, <1>7, <1>8, <1>9, <1>10, <1>11
  DEF Next, TaskStep, DriverStep, HandlerStep, PlayerStep, Wake, Keep,
     StartFails, Source, CheckConnected, CheckIdle, StartRadio, Take, Begin,
     End, OthersCall, Reconfigure, NetworkChanges, Goto, Sleep, Order, Stop,
     vars, world, driver, flags, task, player, history

\* Once the events are handled the bit and the state shown to clients say what
\* the driver says, for every queue length, configuration and bound.
THEOREM FlagsTruthful == Spec => []FlagsFollowDriver
<1>1. Init => IInv
  BY InitType
  DEF Init, IInv, ReportHolds, LastBit, LastShown, OffWhileApplying
<1>2. IInv /\ [Next]_vars => IInv'
  BY TypeStep, OffStep, ReportStep DEF IInv
<1>3. IInv => FlagsFollowDriver
  BY DEF IInv, TypeOK, FlagsType, ReportHolds, LastBit, LastShown,
         FlagsFollowDriver
<1>4. QED
  BY <1>1, <1>2, <1>3, PTL DEF Spec
=============================================================================
