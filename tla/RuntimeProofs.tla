--------------------------- MODULE RuntimeProofs ----------------------------
(***************************************************************************)
(* Proofs about Runtime for every queue size, sampling period, duration of *)
(* the blocking calls and watchdog setting its assumptions allow.          *)
(***************************************************************************)
EXTENDS Integers, Runtime, StateMachineProofs

-----------------------------------------------------------------------------
(* The runtime loop and the button feed the machine and do nothing else to *)
(* it, so what holds of the machine under any feeding holds here.          *)

LEMMA StepFeedsMachine == [Next]_vars => [SMNext]_smVars
<1> SUFFICES ASSUME [Next]_vars PROVE [SMNext]_smVars
  OBVIOUS
<1>1. \A e \in BootEvents \union SensorEvents \union ButtonEvents :
        Arrive(e) => SMNext
  BY DEF SMNext, EventTypes, BootEvents, SensorEvents, ButtonEvents
<1>2. CASE SensorInit \/ WifiManagerInit \/ CountTurn \/ StartSample \/ Publish
  BY <1>2 DEF SensorInit, WifiManagerInit, CountTurn, StartSample, Publish
<1>3. CASE PostBoot \/ PostInitDone
  BY <1>1, <1>3 DEF PostBoot, PostInitDone, BootEvents
<1>4. CASE ReadSucceeds \/ ReadFails
  BY <1>1, <1>4 DEF ReadSucceeds, ReadFails, SensorEvents
<1>5. CASE TakeEvent \/ Handle
  BY <1>5 DEF TakeEvent, Handle, SMNext
<1>6. CASE NoEvent \/ KickOrNot \/ DelayOver \/ Tick \/ WatchdogWarns
  BY <1>6 DEF NoEvent, KickOrNot, DelayOver, Tick, WatchdogWarns
<1>7. ASSUME NEW e \in ButtonEvents, ButtonPress(e) PROVE SMNext
  BY <1>1, <1>7 DEF ButtonPress
<1>8. CASE Reboot
  BY <1>8 DEF Reboot, SMNext
<1>9. CASE UNCHANGED vars
  BY <1>9 DEF vars
<1>10. QED
  BY <1>2, <1>3, <1>4, <1>5, <1>6, <1>7, <1>8, <1>9 DEF Next, MainStep, WatchdogFires

(* The runtime implements the machine that is fed in any order. *)
THEOREM RuntimeFeedsMachine == Spec => IsStateMachine
<1>1. Init => SMInit
  BY DEF Init
<1>2. QED
  BY <1>1, StepFeedsMachine, PTL DEF Spec, IsStateMachine, SMSpec

LEMMA MachineHolds == Spec => []MachineInv
  BY RuntimeFeedsMachine, MachineIsSound, PTL DEF IsStateMachine

(* The fault count fits the machine's state at every moment of the node's  *)
(* life.                                                                   *)
THEOREM FaultCountFits == Spec => []FaultCountFitsState
<1>1. MachineInv => FaultCountFitsState
  BY DEF MachineInv
<1>2. QED
  BY <1>1, MachineHolds, PTL

(* ACTIVE is on its way out unless the queue refused PROCESS_DONE. *)
THEOREM ActiveEnds == Spec => []ActiveWillEnd
<1>1. MachineInv => ActiveWillEnd
  BY DEF MachineInv
<1>2. QED
  BY <1>1, MachineHolds, PTL

-----------------------------------------------------------------------------
(* Type correctness. *)

LEMMA LoopTypeInit == Init => LoopTypeOK
<1> SUFFICES ASSUME Init PROVE LoopTypeOK
  OBVIOUS
<1>1. WdtTimeout \in Nat \ {0}
  BY WatchdogAssumption DEF WdtTimeout
<1>2. pc = "sensor_init" /\ MaxBlock = 0
  BY DEF Init, MaxBlock
<1>3. spent \in 0 .. MaxBlock /\ wdt \in 0 .. WdtTimeout /\ quiet \in 0 .. LongPressGap
      /\ counter \in 0 .. SAMPLE_PERIOD - 1 /\ misses \in 0 .. MAX_FAULTS
  BY <1>1, <1>2, RuntimeAssumption, MachineAssumption DEF Init, WatchdogInit
<1>4. QED
  BY <1>2, <1>3 DEF Init, LoopTypeOK, WdtTypeOK, Points

(* What the loop counts and how long it waits has nothing to do with the   *)
(* events it is fed.                                                       *)
LEMMA LoopTypeNext == LoopTypeOK /\ [Next]_vars => LoopTypeOK'
<1> SUFFICES ASSUME LoopTypeOK, [Next]_vars PROVE LoopTypeOK'
  OBVIOUS
<1>1. WdtTimeout \in Nat \ {0} /\ WdtTimeout' = WdtTimeout
  BY WatchdogAssumption DEF WdtTimeout
<1> USE <1>1, RuntimeAssumption, MachineAssumption
    DEF LoopTypeOK, WdtTypeOK, Points, MaxBlock, Goto, WatchdogKick
<1>2. CASE SensorInit
  BY <1>2 DEF SensorInit
<1>3. CASE WifiManagerInit
  BY <1>3 DEF WifiManagerInit
<1>4. CASE PostBoot
  BY <1>4 DEF PostBoot
<1>5. CASE PostInitDone
  BY <1>5 DEF PostInitDone
<1>6. CASE CountTurn
  BY <1>6 DEF CountTurn, SampleDue
<1>7. CASE StartSample
  BY <1>7 DEF StartSample
<1>8. CASE ReadSucceeds
  BY <1>8 DEF ReadSucceeds
<1>9. CASE ReadFails
  BY <1>9 DEF ReadFails
<1>10. CASE TakeEvent
  BY <1>10 DEF TakeEvent
<1>11. CASE NoEvent
  BY <1>11 DEF NoEvent
<1>12. CASE Handle
  BY <1>12 DEF Handle
<1>13. CASE KickOrNot
  BY <1>13 DEF KickOrNot
<1>14. CASE DelayOver
  BY <1>14 DEF DelayOver
<1>15. ASSUME NEW e \in ButtonEvents, ButtonPress(e) PROVE LoopTypeOK'
  <2>1. quiet' = 0 /\ UNCHANGED <<wdt, pc, counter, initialized, spent, misses>>
    BY <1>15 DEF ButtonPress, Presses!Report, mainVars
  <2>2. QED
    BY <2>1
<1>16. CASE Tick
  <2>1. wdt < WdtTimeout /\ wdt' = wdt + 1
    BY <1>16 DEF Tick, Starved
  <2>2. spent' \in 0 .. MaxBlock'
    BY <1>16 DEF Tick
  <2>3. QED
    BY <1>16, <2>1, <2>2 DEF Tick, Presses!Pass
<1>17. CASE WatchdogWarns
  BY <1>17 DEF WatchdogWarns, mainVars
<1>18. CASE Reboot
  <2>1. /\ pc' = "sensor_init" /\ wdt' = 0 /\ counter' = 0 /\ initialized' = FALSE
        /\ spent' = 0 /\ quiet' = 0 /\ misses' = 0
    BY <1>18 DEF Reboot
  <2>2. MaxBlock' = 0
    BY <2>1
  <2>3. spent' \in 0 .. MaxBlock'
    BY <2>1, <2>2
  <2>4. WdtTypeOK'
    BY <2>1
  <2>5. counter' \in 0 .. SAMPLE_PERIOD - 1 /\ quiet' \in 0 .. LongPressGap /\ misses' \in 0 .. MAX_FAULTS
    BY <2>1
  <2>6. QED
    BY <2>1, <2>3, <2>4, <2>5
<1>19. CASE UNCHANGED vars
  BY <1>19 DEF vars, mainVars
<1>20. CASE Publish
  BY <1>20 DEF Publish
<1>21. QED
  BY <1>2, <1>3, <1>4, <1>5, <1>6, <1>7, <1>8, <1>9, <1>10, <1>11, <1>12, <1>13,
     <1>14, <1>15, <1>16, <1>17, <1>18, <1>19, <1>20
  DEF Next, MainStep, WatchdogFires

(* Every variable keeps its type; the queue keeps within its slots and no  *)
(* blocking call outlasts its bound.                                       *)
THEOREM TypeCorrect == Spec => []TypeOK
<1>1. MachineInv /\ LoopTypeOK => TypeOK
  BY DEF MachineInv, TypeOK
<1>2. QED
  BY <1>1, LoopTypeInit, LoopTypeNext, MachineHolds, PTL DEF Spec

-----------------------------------------------------------------------------
(* Where the loop stands. *)

LEMMA PositionNext == LoopPosition /\ [Next]_vars => LoopPosition'
<1> SUFFICES ASSUME LoopPosition, [Next]_vars PROVE LoopPosition'
  OBVIOUS
<1> USE DEF LoopPosition, StartingUp, Goto
<1>1. CASE SensorInit \/ WifiManagerInit
  BY <1>1 DEF SensorInit, WifiManagerInit, smVars
<1>2. CASE PostBoot \/ PostInitDone
  BY <1>2 DEF PostBoot, PostInitDone, Arrive
<1>3. CASE CountTurn \/ StartSample \/ Publish
  BY <1>3 DEF CountTurn, StartSample, Publish
<1>4. CASE ReadSucceeds \/ ReadFails
  BY <1>4 DEF ReadSucceeds, ReadFails
<1>5. CASE TakeEvent \/ NoEvent \/ Handle \/ KickOrNot \/ DelayOver
  BY <1>5 DEF TakeEvent, NoEvent, Handle, KickOrNot, DelayOver
<1>6. ASSUME NEW e \in ButtonEvents, ButtonPress(e) PROVE LoopPosition'
  BY <1>6 DEF ButtonPress, mainVars, Arrive
<1>7. CASE Tick
  BY <1>7 DEF Tick, smVars
<1>8. CASE WatchdogWarns
  BY <1>8 DEF WatchdogWarns, smVars, mainVars
<1>9. CASE Reboot
  BY <1>9 DEF Reboot, Restart
<1>10. CASE UNCHANGED vars
  BY <1>10 DEF vars, smVars, mainVars
<1>11. QED
  BY <1>1, <1>2, <1>3, <1>4, <1>5, <1>6, <1>7, <1>8, <1>9, <1>10
  DEF Next, MainStep, WatchdogFires

LEMMA InHandNext ==
  ASSUME TypeOK, EventInHand, [Next]_vars
  PROVE  EventInHand'
<1> USE DEF EventInHand, Goto
<1>1. CASE SensorInit \/ WifiManagerInit \/ CountTurn \/ StartSample \/ Publish
  BY <1>1 DEF SensorInit, WifiManagerInit, CountTurn, StartSample, Publish, smVars
<1>2. CASE PostBoot \/ PostInitDone \/ ReadSucceeds \/ ReadFails
  BY <1>2 DEF PostBoot, PostInitDone, ReadSucceeds, ReadFails, Arrive
<1>3. CASE TakeEvent
  <2>1. event' \in EventTypes
    BY <1>3, GetKeepsQueue DEF TakeEvent, TypeOK
  <2>2. event' # "none"
    BY <2>1 DEF EventTypes, BootEvents, SensorEvents, ButtonEvents
  <2>3. QED
    BY <1>3, <2>2 DEF TakeEvent
<1>4. CASE Handle
  BY <1>4 DEF Handle, HandleEvent
<1>5. CASE NoEvent \/ KickOrNot \/ DelayOver
  BY <1>5 DEF NoEvent, KickOrNot, DelayOver, smVars
<1>6. ASSUME NEW e \in ButtonEvents, ButtonPress(e) PROVE EventInHand'
  BY <1>6 DEF ButtonPress, mainVars, Arrive
<1>7. CASE Tick
  BY <1>7 DEF Tick, smVars
<1>8. CASE WatchdogWarns
  BY <1>8 DEF WatchdogWarns, smVars, mainVars
<1>9. CASE Reboot
  BY <1>9 DEF Reboot, Restart
<1>10. CASE UNCHANGED vars
  BY <1>10 DEF vars, smVars, mainVars
<1>11. QED
  BY <1>1, <1>2, <1>3, <1>4, <1>5, <1>6, <1>7, <1>8, <1>9, <1>10
  DEF Next, MainStep, WatchdogFires

-----------------------------------------------------------------------------
(* The watchdog. *)

(* A node in BOOT that handles an event is in BOOT or INIT after it. *)
LEMMA FromBoot ==
  ASSUME HandleEvent, current_state = "BOOT"
  PROVE  current_state' \in {"BOOT", "INIT"}
<1>1. Ignore => current_state' = "BOOT"
  BY DEF Ignore, Enter
<1>2. Boot => current_state' = "INIT"
  BY DEF Boot, Enter
<1>3. QED
  BY <1>1, <1>2
  DEF HandleEvent, On, InitDone, StartProcessing, ProcessDone, FirstFault, NextFault, Recover,
      ForceSafeMode, Acknowledge

LEMMA KickNext ==
  ASSUME LoopTypeOK, LoopPosition, KickedInTime, [Next]_vars
  PROVE  KickedInTime'
<1>1. /\ counter \in 0 .. SAMPLE_PERIOD - 1 /\ wdt \in Nat /\ spent \in Nat
      /\ SAMPLE_PERIOD \in Nat \ {0, 1} /\ pc \in Points
      /\ pc = "delay" => spent <= 1
      /\ MaxPublishBlock \in Nat
      /\ pc = "publishing" => spent <= MaxPublishBlock
  BY RuntimeAssumption, WatchdogAssumption DEF LoopTypeOK, WdtTypeOK, WdtTimeout, MaxBlock
<1> USE <1>1 DEF KickedInTime, Goto
<1>2. CASE SensorInit
  BY <1>2 DEF SensorInit
<1>3. CASE WifiManagerInit
  BY <1>3 DEF WifiManagerInit
<1>4. CASE PostBoot
  BY <1>4 DEF PostBoot
<1>5. CASE PostInitDone
  BY <1>5 DEF PostInitDone, Arrive, LoopPosition, StartingUp
<1>6. CASE CountTurn
  BY <1>6 DEF CountTurn, smVars
<1>7. CASE StartSample
  <2>1. counter = SAMPLE_PERIOD - 1 /\ counter # 0
    BY <1>7 DEF StartSample, SampleDue
  <2>2. QED
    BY <1>7, <2>1 DEF StartSample
<1>8. CASE ReadSucceeds
  BY <1>8 DEF ReadSucceeds, WatchdogKick, LoopPosition
<1>9. CASE ReadFails
  BY <1>9 DEF ReadFails, WatchdogKick, LoopPosition
<1>10. CASE TakeEvent
  BY <1>10 DEF TakeEvent, EventGet
<1>11. CASE NoEvent
  BY <1>11 DEF NoEvent, smVars
<1>12. CASE Handle
  BY <1>12, FromBoot DEF Handle
<1>13. CASE KickOrNot
  BY <1>13 DEF KickOrNot, WatchdogKick, ShouldKickWdt
<1>14. CASE DelayOver
  BY <1>14 DEF DelayOver
<1>15. ASSUME NEW e \in ButtonEvents, ButtonPress(e) PROVE KickedInTime'
  BY <1>15 DEF ButtonPress, mainVars, Arrive
<1>16. CASE Tick
  BY <1>16 DEF Tick, MaxBlock, smVars
<1>17. CASE WatchdogWarns
  BY <1>17 DEF WatchdogWarns, smVars, mainVars
<1>18. CASE Reboot
  BY <1>18 DEF Reboot
<1>19. CASE UNCHANGED vars
  BY <1>19 DEF vars, smVars, mainVars
<1>20. CASE Publish
  BY <1>20 DEF Publish
<1>21. QED
  BY <1>2, <1>3, <1>4, <1>5, <1>6, <1>7, <1>8, <1>9, <1>10, <1>11, <1>12, <1>13,
     <1>14, <1>15, <1>16, <1>17, <1>18, <1>19, <1>20
  DEF Next, MainStep, WatchdogFires

(* What the timing rests on; the events and the queue are no part of it.   *)
TimingInv == LoopTypeOK /\ LoopPosition /\ KickedInTime

LEMMA TimingInit == Init => TimingInv
<1>1. Init => LoopPosition /\ KickedInTime
  BY DEF Init, SMInit, WatchdogInit, LoopPosition, StartingUp, KickedInTime
<1>2. QED
  BY <1>1, LoopTypeInit DEF TimingInv

LEMMA TimingNext == TimingInv /\ [Next]_vars => TimingInv'
  BY LoopTypeNext, PositionNext, KickNext DEF TimingInv

LEMMA LoopTimes == Spec => []TimingInv
  BY TimingInit, TimingNext, PTL DEF Spec

(* What the budgets make of it. *)
LEMMA LoopBudget ==
  ASSUME SAMPLE_PERIOD + MaxSensorBlock + MaxPublishBlock < WdtTimeout, TimingInv
  PROVE  WatchdogFed
<1> SUFFICES ASSUME pc \in {"reading", "publishing", "delay"}, initialized
             PROVE  ~Starved
  BY DEF WatchdogFed
<1>1. /\ WdtTimeout \in Nat /\ SAMPLE_PERIOD \in Nat
      /\ MaxSensorBlock \in Nat /\ MaxPublishBlock \in Nat
  BY RuntimeAssumption, WatchdogAssumption DEF WdtTimeout
<1>2. wdt \in Nat /\ counter \in 0 .. SAMPLE_PERIOD - 1
  BY <1>1 DEF TimingInv, LoopTypeOK, WdtTypeOK
<1>3. CASE pc = "reading"
  <2>1. spent \in 0 .. MaxSensorBlock /\ wdt <= MaxPublishBlock + SAMPLE_PERIOD + spent
    BY <1>3 DEF TimingInv, LoopTypeOK, MaxBlock, KickedInTime
  <2>2. QED
    BY <1>1, <1>2, <2>1 DEF Starved
<1>4. CASE pc = "publishing"
  <2>1. spent \in 0 .. MaxPublishBlock /\ wdt <= spent
    BY <1>4 DEF TimingInv, LoopTypeOK, MaxBlock, KickedInTime
  <2>2. QED
    BY <1>1, <1>2, <2>1 DEF Starved
<1>5. CASE pc = "delay"
  <2>1. spent \in 0 .. 1 /\ wdt <= MaxPublishBlock + counter + spent
    BY <1>5 DEF TimingInv, LoopTypeOK, MaxBlock, KickedInTime
  <2>2. QED
    BY <1>1, <1>2, <2>1 DEF Starved
<1>6. QED
  BY <1>3, <1>4, <1>5

(* The timing budget: if the timeout in force exceeds a sampling period,   *)
(* the longest read and the longest publish together, a node whose sensor  *)
(* answered at boot never starves the watchdog once its loop runs, in      *)
(* whatever state it is.                                                   *)
THEOREM WatchdogIsFed ==
  ASSUME SAMPLE_PERIOD + MaxSensorBlock + MaxPublishBlock < WdtTimeout
  PROVE  Spec => []WatchdogFed
  BY LoopBudget, LoopTimes, PTL

-----------------------------------------------------------------------------
(* One sample at a time. *)

LEMMA PostCases ==
  ASSUME SMTypeOK, NEW e \in EventTypes, EventPost(e)
  PROVE  \/ /\ Len(chan') = Len(chan) + 1 /\ Len(chan') <= Capacity
            /\ chan'[Len(chan) + 1] = e
            /\ \A i \in 1 .. Len(chan) : chan'[i] = chan[i]
            /\ lost' = lost \ {e}
         \/ chan' = chan /\ lost' = lost \union {e}
BY CapacityIsPositive DEF SMTypeOK, EventPost

(* Another event's post leaves the others where they are. *)
LEMMA QueuedAfterPost ==
  ASSUME SMTypeOK, NEW e \in EventTypes, EventPost(e), NEW d, d # e
  PROVE  Queued(d)' <=> Queued(d)
<1>1. Len(chan) \in Nat /\ Len(chan') \in Nat
  BY PostKeepsQueue DEF SMTypeOK
<1>2. CASE chan' = chan
  BY <1>2 DEF Queued
<1>3. CASE /\ Len(chan') = Len(chan) + 1
           /\ chan'[Len(chan) + 1] = e
           /\ \A i \in 1 .. Len(chan) : chan'[i] = chan[i]
  <2>1. \A i \in 1 .. Len(chan') : i = Len(chan) + 1 \/ i \in 1 .. Len(chan)
    BY <1>1, <1>3
  <2>2. \A i \in 1 .. Len(chan) : i \in 1 .. Len(chan')
    BY <1>1, <1>3
  <2>3. QED
    BY <1>3, <2>1, <2>2 DEF Queued
<1>4. QED
  BY <1>2, <1>3, PostCases

LEMMA TurnsLeftIsInt ==
  ASSUME TypeOK
  PROVE  TurnsLeft \in Int
BY RuntimeAssumption DEF TypeOK, LoopTypeOK, TurnsLeft

(* Time that passes, or a step that takes no turn, keeps the sample near. *)
LEMMA NearKept ==
  ASSUME SMTypeOK, SampleIsNear, chan' = chan, event' \in {event, "none"},
         TurnsLeft' = TurnsLeft
  PROVE  SampleIsNear'
BY DEF SampleIsNear, SensorEvents

LEMMA NearAfterPost ==
  ASSUME SMTypeOK, SampleIsNear, NEW e \in EventTypes \ SensorEvents, EventPost(e),
         event' \in {event, "none"}, TurnsLeft' = TurnsLeft
  PROVE  SampleIsNear'
<1>1. Len(chan) \in Nat
  BY DEF SMTypeOK
<1>2. CASE chan' = chan
  BY <1>2, NearKept
<1>3. CASE /\ Len(chan') = Len(chan) + 1
           /\ chan'[Len(chan) + 1] = e
           /\ \A i \in 1 .. Len(chan) : chan'[i] = chan[i]
  <2>1. \A i \in 1 .. Len(chan') : i = Len(chan) + 1 \/ i \in 1 .. Len(chan)
    BY <1>1, <1>3
  <2>2. \A i \in 1 .. Len(chan') :
          chan'[i] \in SensorEvents => i \in 1 .. Len(chan) /\ chan'[i] = chan[i]
    BY <1>3, <2>1
  <2>3. event' \in SensorEvents => event' = event
    BY DEF SensorEvents
  <2>4. QED
    BY <2>2, <2>3 DEF SampleIsNear
<1>4. QED
  BY <1>2, <1>3, PostCases

(* A handled event makes the machine post nothing but PROCESS_DONE. *)
LEMMA HandlePosts ==
  ASSUME HandleEvent
  PROVE  /\ event' = "none"
         /\ (chan' = chan /\ lost' = lost) \/ EventPost("PROCESS_DONE")
BY DEF HandleEvent, Boot, InitDone, StartProcessing, ProcessDone, FirstFault, NextFault,
       Recover, ForceSafeMode, Acknowledge, Ignore, Enter

LEMMA NoSampleWaits ==
  ASSUME TypeOK, EventInHand, SampleIsNear, pc = "reading"
  PROVE  event \notin SensorEvents /\ \A i \in 1 .. Len(chan) : chan[i] \notin SensorEvents
<1>1. event = "none"
  BY DEF EventInHand
<1>2. TurnsLeft = 0
  BY DEF TurnsLeft
<1>3. QED
  BY <1>1, <1>2 DEF SampleIsNear, SensorEvents

(* A sample's event goes to the only place it can have. *)
LEMMA NearAfterSample ==
  ASSUME TypeOK, EventInHand, LoopPosition, SampleIsNear, pc = "reading", pc' = "publishing",
         counter' = counter, NEW e \in SensorEvents, Arrive(e)
  PROVE  SampleIsNear'
<1>1. event' = event /\ event \notin SensorEvents
      /\ \A i \in 1 .. Len(chan) : chan[i] \notin SensorEvents
  BY NoSampleWaits DEF Arrive
<1>2. TurnsLeft' = SAMPLE_PERIOD /\ Capacity <= SAMPLE_PERIOD /\ SAMPLE_PERIOD \in Nat
      /\ Capacity \in Nat
  BY RuntimeAssumption, CapacityIsPositive DEF TurnsLeft, LoopPosition
<1>3. SMTypeOK /\ Len(chan) \in Nat /\ e \in EventTypes /\ EventPost(e)
  BY DEF TypeOK, SMTypeOK, EventTypes, Arrive
<1>4. CASE chan' = chan
  BY <1>1, <1>4 DEF SampleIsNear
<1>5. CASE /\ Len(chan') = Len(chan) + 1 /\ Len(chan') <= Capacity
           /\ \A i \in 1 .. Len(chan) : chan'[i] = chan[i]
  <2>1. \A i \in 1 .. Len(chan') : i = Len(chan) + 1 \/ i \in 1 .. Len(chan)
    BY <1>3, <1>5
  <2>2. \A i \in 1 .. Len(chan') : chan'[i] \in SensorEvents => i = Len(chan) + 1
    BY <1>1, <1>5, <2>1
  <2>3. Len(chan) + 1 <= TurnsLeft'
    BY <1>2, <1>3, <1>5
  <2>4. QED
    BY <1>1, <2>2, <2>3 DEF SampleIsNear
<1>6. QED
  BY <1>3, <1>4, <1>5, PostCases

(* A turn of the loop brings the sample's event one place forward. *)
LEMMA NearAfterGet ==
  ASSUME TypeOK, SampleIsNear, pc = "get", pc' = "handle", counter' = counter, EventGet
  PROVE  SampleIsNear'
<1>1. /\ TurnsLeft = SAMPLE_PERIOD - counter /\ TurnsLeft' = TurnsLeft - 1 /\ TurnsLeft \in Int
  BY TurnsLeftIsInt, RuntimeAssumption DEF TurnsLeft, TypeOK, LoopTypeOK
<1>2. /\ Len(chan) \in Nat \ {0} /\ Len(chan') = Len(chan) - 1 /\ event' = chan[1]
      /\ \A i \in 1 .. Len(chan') : chan'[i] = chan[i + 1] /\ i + 1 \in 1 .. Len(chan)
  BY DEF TypeOK, SMTypeOK, EventGet
<1>3. \A i \in 1 .. Len(chan') : chan'[i] \in SensorEvents => i <= TurnsLeft'
  BY <1>1, <1>2 DEF SampleIsNear
<1>4. \A i, j \in 1 .. Len(chan') :
        chan'[i] \in SensorEvents /\ chan'[j] \in SensorEvents => i = j
  <2>1. SUFFICES ASSUME NEW i \in 1 .. Len(chan'), NEW j \in 1 .. Len(chan'),
                        chan'[i] \in SensorEvents, chan'[j] \in SensorEvents
                 PROVE  i = j
    OBVIOUS
  <2>2. /\ i + 1 \in 1 .. Len(chan) /\ chan[i + 1] \in SensorEvents
        /\ j + 1 \in 1 .. Len(chan) /\ chan[j + 1] \in SensorEvents
    BY <1>2, <2>1
  <2>3. i + 1 = j + 1
    BY <2>2 DEF SampleIsNear
  <2>4. i \in Int /\ j \in Int
    BY <1>2
  <2>5. QED
    BY <2>3, <2>4
<1>5. event' \in SensorEvents => \A i \in 1 .. Len(chan') : chan'[i] \notin SensorEvents
  <2>1. 1 \in 1 .. Len(chan) /\ \A i \in 1 .. Len(chan') : i + 1 # 1
    BY <1>2
  <2>2. QED
    BY <1>2, <2>1 DEF SampleIsNear
<1>6. QED
  BY <1>3, <1>4, <1>5 DEF SampleIsNear

LEMMA NearNext ==
  ASSUME TypeOK, EventInHand, LoopPosition, SampleIsNear, [Next]_vars
  PROVE  SampleIsNear'
<1>1. /\ counter \in 0 .. SAMPLE_PERIOD - 1 /\ SAMPLE_PERIOD \in Nat \ {0, 1} /\ SMTypeOK
      /\ pc \in Points
  BY RuntimeAssumption DEF TypeOK, LoopTypeOK
<1>2. ASSUME UNCHANGED <<chan, event>>, TurnsLeft' = TurnsLeft PROVE SampleIsNear'
  BY <1>1, <1>2, NearKept
<1>3. ASSUME NEW e \in EventTypes \ SensorEvents, Arrive(e), TurnsLeft' = TurnsLeft
      PROVE  SampleIsNear'
  BY <1>1, <1>3, NearAfterPost DEF Arrive
<1>4. CASE SensorInit
  BY <1>2, <1>4 DEF SensorInit, Goto, smVars, TurnsLeft
<1>5. CASE WifiManagerInit
  BY <1>2, <1>5 DEF WifiManagerInit, Goto, smVars, TurnsLeft
<1>6. CASE PostBoot
  BY <1>3, <1>6 DEF PostBoot, Goto, TurnsLeft, EventTypes, BootEvents, SensorEvents
<1>7. CASE PostInitDone
  BY <1>3, <1>7 DEF PostInitDone, Goto, TurnsLeft, EventTypes, BootEvents, SensorEvents
<1>8. CASE CountTurn
  <2>1. TurnsLeft' = TurnsLeft
    BY <1>1, <1>8 DEF CountTurn, Goto, TurnsLeft
  <2>2. QED
    BY <1>2, <1>8, <2>1 DEF CountTurn, smVars
<1>9. CASE StartSample
  <2>1. TurnsLeft' = TurnsLeft
    BY <1>1, <1>9 DEF StartSample, SampleDue, Goto, TurnsLeft
  <2>2. QED
    BY <1>2, <1>9, <2>1 DEF StartSample, smVars
<1>10. CASE ReadSucceeds
  BY <1>10, NearAfterSample DEF ReadSucceeds, Goto, SensorEvents
<1>11. CASE ReadFails
  BY <1>11, NearAfterSample DEF ReadFails, Goto, SensorEvents
<1>12. CASE TakeEvent
  BY <1>12, NearAfterGet DEF TakeEvent, Goto
<1>13. CASE NoEvent
  BY <1>1, <1>13 DEF NoEvent, smVars, SampleIsNear, SMTypeOK
<1>14. CASE Handle
  <2>1. TurnsLeft' = TurnsLeft
    BY <1>14 DEF Handle, Goto, TurnsLeft
  <2>2. "PROCESS_DONE" \in EventTypes \ SensorEvents
    BY DEF EventTypes, SensorEvents
  <2>3. QED
    BY <1>1, <1>14, <2>1, <2>2, HandlePosts, NearKept, NearAfterPost DEF Handle
<1>15. CASE KickOrNot
  BY <1>2, <1>15 DEF KickOrNot, Goto, smVars, TurnsLeft
<1>16. CASE DelayOver
  BY <1>2, <1>16 DEF DelayOver, Goto, smVars, TurnsLeft
<1>17. ASSUME NEW e \in ButtonEvents, ButtonPress(e) PROVE SampleIsNear'
  <2>1. e \in EventTypes \ SensorEvents
    BY DEF EventTypes, ButtonEvents, SensorEvents
  <2>2. QED
    BY <1>3, <1>17, <2>1 DEF ButtonPress, mainVars, TurnsLeft
<1>18. CASE Tick
  BY <1>2, <1>18 DEF Tick, smVars, TurnsLeft
<1>19. CASE WatchdogWarns
  BY <1>2, <1>19 DEF WatchdogWarns, smVars, mainVars, TurnsLeft
<1>20. CASE Reboot
  BY <1>20 DEF Reboot, Restart, SampleIsNear, SensorEvents
<1>21. CASE UNCHANGED vars
  BY <1>2, <1>21 DEF vars, smVars, mainVars, TurnsLeft
<1>22. CASE Publish
  BY <1>2, <1>22 DEF Publish, Goto, smVars, TurnsLeft
<1>23. QED
  BY <1>4, <1>5, <1>6, <1>7, <1>8, <1>9, <1>10, <1>11, <1>12, <1>13, <1>14, <1>15,
     <1>16, <1>17, <1>18, <1>19, <1>20, <1>21, <1>22
  DEF Next, MainStep, WatchdogFires

-----------------------------------------------------------------------------
(* No fault without a failed sample. *)

LEMMA CountIsBounded ==
  ASSUME TypeOK, FaultCountFitsState
  PROVE  /\ fault_count \in Nat /\ misses \in Nat /\ MAX_FAULTS \in Nat \ {0, 1}
         /\ misses <= MAX_FAULTS
         /\ current_state # "SAFE_MODE" => fault_count + 1 <= MAX_FAULTS
BY MachineAssumption DEF TypeOK, SMTypeOK, LoopTypeOK, States, FaultCountFitsState

(* A step that leaves the machine and its sensor events alone. *)
LEMMA MissesKept ==
  ASSUME FaultsAreMisses, UNCHANGED <<current_state, fault_count, event, misses>>,
         \A d \in SensorEvents : Queued(d)' <=> Queued(d),
         "SENSOR_READY" \in lost' <=> "SENSOR_READY" \in lost
  PROVE  FaultsAreMisses'
BY DEF FaultsAreMisses, Outstanding, SensorEvents

LEMMA PostKeepsSamples ==
  ASSUME SMTypeOK, NEW e \in EventTypes \ SensorEvents, EventPost(e)
  PROVE  /\ \A d \in SensorEvents : Queued(d)' <=> Queued(d)
         /\ "SENSOR_READY" \in lost' <=> "SENSOR_READY" \in lost
<1>1. \A d \in SensorEvents : Queued(d)' <=> Queued(d)
  BY QueuedAfterPost
<1>2. "SENSOR_READY" \in lost' <=> "SENSOR_READY" \in lost
  BY PostCases DEF SensorEvents
<1>3. QED
  BY <1>1, <1>2

LEMMA HandleKeepsSamples ==
  ASSUME SMTypeOK, HandleEvent
  PROVE  /\ \A d \in SensorEvents : Queued(d)' <=> Queued(d)
         /\ "SENSOR_READY" \in lost' <=> "SENSOR_READY" \in lost
<1>1. "PROCESS_DONE" \in EventTypes \ SensorEvents
  BY DEF EventTypes, SensorEvents
<1>2. CASE chan' = chan /\ lost' = lost
  BY <1>2 DEF Queued
<1>3. CASE EventPost("PROCESS_DONE")
  BY <1>1, <1>3, PostKeepsSamples
<1>4. QED
  BY <1>2, <1>3, HandlePosts

(* Taking an event off the queue keeps it outstanding. *)
LEMMA GetKeepsOutstanding ==
  ASSUME SMTypeOK, EventGet, NEW d, d # "none"
  PROVE  Outstanding(d)' <=> Outstanding(d)
<1>1. /\ Len(chan) \in Nat \ {0} /\ Len(chan') = Len(chan) - 1
      /\ event = "none" /\ event' = chan[1]
      /\ \A i \in 1 .. Len(chan') : chan'[i] = chan[i + 1]
  BY DEF SMTypeOK, EventGet
<1>2. ASSUME Queued(d)' PROVE Queued(d)
  <2>1. PICK i \in 1 .. Len(chan') : chan'[i] = d
    BY <1>2 DEF Queued
  <2>2. i + 1 \in 1 .. Len(chan) /\ chan[i + 1] = d
    BY <1>1, <2>1
  <2>3. QED
    BY <2>2 DEF Queued
<1>3. ASSUME event' = d PROVE Queued(d)
  <2>1. 1 \in 1 .. Len(chan) /\ chan[1] = d
    BY <1>1, <1>3
  <2>2. QED
    BY <2>1 DEF Queued
<1>4. ASSUME Queued(d) PROVE Outstanding(d)'
  <2>1. PICK i \in 1 .. Len(chan) : chan[i] = d
    BY <1>4 DEF Queued
  <2>2. CASE i = 1
    BY <1>1, <2>1, <2>2 DEF Outstanding
  <2>3. CASE i # 1
    <3>1. i - 1 \in 1 .. Len(chan') /\ (i - 1) + 1 = i
      BY <1>1, <2>1, <2>3
    <3>2. chan'[i - 1] = d
      BY <1>1, <2>1, <3>1
    <3>3. QED
      BY <3>1, <3>2 DEF Outstanding, Queued
  <2>4. QED
    BY <2>2, <2>3
<1>5. QED
  BY <1>1, <1>2, <1>3, <1>4 DEF Outstanding

LEMMA MissesAfterRead ==
  ASSUME TypeOK, FaultCountFitsState, EventInHand, SampleIsNear, FaultsAreMisses,
         pc = "reading", ReadSucceeds \/ ReadFails
  PROVE  FaultsAreMisses'
<1>1. /\ SMTypeOK /\ event \notin SensorEvents
      /\ \A d \in SensorEvents : ~Queued(d)
  BY NoSampleWaits DEF TypeOK, Queued
<1>2. "SENSOR_READY" \in EventTypes /\ "SENSOR_TIMEOUT" \in EventTypes
  BY DEF EventTypes, SensorEvents
<1>3. CASE ReadSucceeds
  <2>1. EventPost("SENSOR_READY") /\ event' = event
    BY <1>3 DEF ReadSucceeds, Arrive
  <2>2. ~Outstanding("SENSOR_TIMEOUT")'
    BY <1>1, <1>2, <2>1, QueuedAfterPost DEF Outstanding, SensorEvents
  <2>3. Queued("SENSOR_READY")' \/ "SENSOR_READY" \in lost'
    <3>1. CASE Len(chan') = Len(chan) + 1 /\ chan'[Len(chan) + 1] = "SENSOR_READY"
      <4>1. Len(chan) + 1 \in 1 .. Len(chan')
        BY <1>1, <3>1 DEF SMTypeOK
      <4>2. QED
        BY <3>1, <4>1 DEF Queued
    <3>2. QED
      BY <1>1, <1>2, <2>1, <3>1, PostCases
  <2>4. QED
    BY <2>2, <2>3 DEF FaultsAreMisses, Outstanding
<1>4. CASE ReadFails
  <2>1. /\ EventPost("SENSOR_TIMEOUT")
        /\ UNCHANGED <<current_state, fault_count, event>>
        /\ misses' = IF misses < MAX_FAULTS THEN misses + 1 ELSE misses
    BY <1>4 DEF ReadFails, Arrive
  <2>2. ~Outstanding("SENSOR_READY") /\ ~Outstanding("SENSOR_TIMEOUT")
    BY <1>1 DEF Outstanding, SensorEvents
  <2>3. "SENSOR_READY" \in lost' <=> "SENSOR_READY" \in lost
    BY <1>1, <1>2, <2>1, PostCases
  <2>4. misses' >= 1 /\ misses' \in Nat
    BY <2>1, CountIsBounded
  <2>5. current_state # "SAFE_MODE" /\ "SENSOR_READY" \notin lost => fault_count + 1 <= misses'
    <3>1. current_state # "SAFE_MODE" /\ "SENSOR_READY" \notin lost => fault_count <= misses
      BY <2>2, CountIsBounded DEF FaultsAreMisses
    <3>2. QED
      BY <2>1, <3>1, CountIsBounded
  <2>6. current_state # "SAFE_MODE" /\ "SENSOR_READY" \notin lost =>
          fault_count + (IF Outstanding("SENSOR_TIMEOUT")' THEN 1 ELSE 0) <= misses'
    BY <2>4, <2>5, CountIsBounded
  <2>7. QED
    BY <2>1, <2>3, <2>4, <2>6 DEF FaultsAreMisses
<1>5. QED
  BY <1>3, <1>4

(* The count goes up for the event handled only, and comes down to zero.   *)
LEMMA HandleCounts ==
  ASSUME TypeOK, FaultCountFitsState, HandleEvent
  PROVE  /\ fault_count' \in {fault_count, 0}
            \/ (event = "SENSOR_TIMEOUT" /\ fault_count' = fault_count + 1)
         /\ event = "SENSOR_READY" /\ current_state # "SAFE_MODE" => fault_count' = 0
         /\ current_state = "SAFE_MODE" => current_state' = "SAFE_MODE" \/ fault_count' = 0
         /\ current_state # "SAFE_MODE" /\ current_state' = "SAFE_MODE" =>
              \/ event = "BUTTON_LONG_PRESS"
              \/ event = "SENSOR_TIMEOUT" /\ fault_count + 1 >= MAX_FAULTS
<1> USE DEF On, Enter
<1>1. CASE Boot \/ InitDone \/ ProcessDone
  BY <1>1 DEF Boot, InitDone, ProcessDone
<1>2. CASE StartProcessing
  BY <1>2 DEF StartProcessing, FaultCountFitsState
<1>3. CASE FirstFault \/ NextFault
  BY <1>3 DEF FirstFault, NextFault
<1>4. CASE Recover \/ ForceSafeMode \/ Acknowledge
  BY <1>4 DEF Recover, ForceSafeMode, Acknowledge
<1>5. CASE Ignore
  <2>1. event = "SENSOR_READY" /\ current_state # "SAFE_MODE"
          => current_state \in {"BOOT", "INIT", "ACTIVE"}
    BY <1>5 DEF Ignore, Expected, SensorEvents, TypeOK, SMTypeOK, States
  <2>2. QED
    BY <1>5, <2>1 DEF Ignore, FaultCountFitsState
<1>6. QED
  BY <1>1, <1>2, <1>3, <1>4, <1>5 DEF HandleEvent

(* A sample's event in hand is the only one outstanding. *)
LEMMA SampleInHandIsAlone ==
  ASSUME SampleIsNear, event \in SensorEvents
  PROVE  \A d \in SensorEvents : ~Queued(d)
BY DEF SampleIsNear, Queued

LEMMA MissesAfterHandle ==
  ASSUME TypeOK, FaultCountFitsState, SampleIsNear, FaultsAreMisses,
         HandleEvent, misses' = misses
  PROVE  FaultsAreMisses'
<1>1. /\ SMTypeOK /\ fault_count \in Nat /\ misses \in Nat /\ event' = "none"
      /\ "SENSOR_READY" \in SensorEvents /\ "SENSOR_TIMEOUT" \in SensorEvents
  BY CountIsBounded, HandlePosts DEF TypeOK, SensorEvents
<1>2. /\ \A d \in SensorEvents : Outstanding(d)' <=> Queued(d)
      /\ "SENSOR_READY" \in lost' <=> "SENSOR_READY" \in lost
  BY <1>1, HandleKeepsSamples DEF Outstanding, SensorEvents
<1>3. Outstanding("SENSOR_TIMEOUT")' => misses' >= 1
  BY <1>1, <1>2 DEF FaultsAreMisses, Outstanding
<1>4. ASSUME current_state' # "SAFE_MODE", "SENSOR_READY" \notin lost'
      PROVE  \/ Outstanding("SENSOR_READY")'
             \/ fault_count' + (IF Outstanding("SENSOR_TIMEOUT")' THEN 1 ELSE 0) <= misses'
  <2>1. CASE fault_count' = 0
    BY <1>1, <1>3, <2>1
  <2>2. CASE fault_count' # 0
    <3>1. current_state # "SAFE_MODE" /\ event # "SENSOR_READY"
      BY <1>4, <2>2, HandleCounts
    <3>2. \/ Queued("SENSOR_READY")
          \/ fault_count + (IF Outstanding("SENSOR_TIMEOUT") THEN 1 ELSE 0) <= misses
      BY <1>2, <1>4, <3>1 DEF FaultsAreMisses, Outstanding
    <3>3. CASE event = "SENSOR_TIMEOUT"
      <4>1. ~Queued("SENSOR_READY") /\ ~Queued("SENSOR_TIMEOUT")
        BY <1>1, <3>3, SampleInHandIsAlone
      <4>2. ~Outstanding("SENSOR_TIMEOUT")'
        BY <1>1, <1>2, <4>1
      <4>3. fault_count + 1 <= misses
        BY <3>2, <3>3, <4>1 DEF Outstanding
      <4>4. fault_count' \in {fault_count, fault_count + 1}
        BY <2>2, HandleCounts
      <4>5. fault_count' <= misses' /\ fault_count' \in Nat
        BY <1>1, <4>3, <4>4
      <4>6. QED
        BY <4>2, <4>5
    <3>4. CASE event # "SENSOR_TIMEOUT"
      <4>1. Outstanding("SENSOR_TIMEOUT")' <=> Outstanding("SENSOR_TIMEOUT")
        BY <1>1, <1>2, <3>4 DEF Outstanding
      <4>2. fault_count' = fault_count
        BY <2>2, <3>4, HandleCounts
      <4>3. QED
        BY <1>1, <1>2, <3>2, <4>1, <4>2
    <3>5. QED
      BY <3>3, <3>4
  <2>3. QED
    BY <2>1, <2>2
<1>5. QED
  BY <1>3, <1>4 DEF FaultsAreMisses

LEMMA MissesNext ==
  ASSUME TypeOK, FaultCountFitsState, EventInHand, SampleIsNear, FaultsAreMisses, [Next]_vars
  PROVE  FaultsAreMisses'
<1>1. SMTypeOK
  BY DEF TypeOK
<1>2. ASSUME UNCHANGED <<smVars, misses>> PROVE FaultsAreMisses'
  BY <1>2, MissesKept DEF smVars, Queued
<1>3. ASSUME NEW e \in EventTypes \ SensorEvents, Arrive(e), misses' = misses
      PROVE  FaultsAreMisses'
  BY <1>1, <1>3, MissesKept, PostKeepsSamples DEF Arrive
<1>4. CASE SensorInit \/ WifiManagerInit \/ CountTurn \/ StartSample \/ Publish
  BY <1>2, <1>4 DEF SensorInit, WifiManagerInit, CountTurn, StartSample, Publish
<1>5. CASE PostBoot \/ PostInitDone
  BY <1>3, <1>5 DEF PostBoot, PostInitDone, EventTypes, BootEvents, SensorEvents
<1>6. CASE ReadSucceeds \/ ReadFails
  BY <1>6, MissesAfterRead DEF ReadSucceeds, ReadFails, Goto
<1>7. CASE TakeEvent
  <2>1. \A d \in SensorEvents : Outstanding(d)' <=> Outstanding(d)
    BY <1>1, <1>7, GetKeepsOutstanding DEF TakeEvent, SensorEvents
  <2>2. UNCHANGED <<current_state, fault_count, lost, misses>>
    BY <1>7 DEF TakeEvent, EventGet
  <2>3. QED
    BY <2>1, <2>2 DEF FaultsAreMisses, SensorEvents
<1>8. CASE Handle
  BY <1>8, MissesAfterHandle DEF Handle
<1>9. CASE NoEvent \/ KickOrNot \/ DelayOver \/ Tick \/ WatchdogWarns
  BY <1>2, <1>9 DEF NoEvent, KickOrNot, DelayOver, Tick, WatchdogWarns, mainVars
<1>10. ASSUME NEW e \in ButtonEvents, ButtonPress(e) PROVE FaultsAreMisses'
  <2>1. e \in EventTypes \ SensorEvents
    BY DEF EventTypes, ButtonEvents, SensorEvents
  <2>2. QED
    BY <1>3, <1>10, <2>1 DEF ButtonPress, mainVars
<1>11. CASE Reboot
  BY <1>11 DEF Reboot, Restart, FaultsAreMisses, Outstanding, Queued
<1>12. CASE UNCHANGED vars
  BY <1>2, <1>12 DEF vars, mainVars
<1>13. QED
  BY <1>4, <1>5, <1>6, <1>7, <1>8, <1>9, <1>10, <1>11, <1>12 DEF Next, MainStep, WatchdogFires

-----------------------------------------------------------------------------
(* The way out of BOOT and INIT. *)

(* An event posted is outstanding or counted as lost, and the others stay. *)
LEMMA PostIsOutstanding ==
  ASSUME SMTypeOK, NEW e \in EventTypes, EventPost(e), event' = event
  PROVE  /\ \A d : Outstanding(d) => Outstanding(d)'
         /\ e \in lost' \/ Outstanding(e)'
         /\ lost \ {e} \subseteq lost'
<1>1. Len(chan) \in Nat
  BY DEF SMTypeOK
<1>2. CASE chan' = chan /\ lost' = lost \union {e}
  BY <1>2 DEF Outstanding, Queued
<1>3. CASE /\ Len(chan') = Len(chan) + 1 /\ chan'[Len(chan) + 1] = e /\ lost' = lost \ {e}
           /\ \A i \in 1 .. Len(chan) : chan'[i] = chan[i]
  <2>1. Len(chan) + 1 \in 1 .. Len(chan') /\ \A i \in 1 .. Len(chan) : i \in 1 .. Len(chan')
    BY <1>1, <1>3
  <2>2. QED
    BY <1>3, <2>1 DEF Outstanding, Queued
<1>4. QED
  BY <1>2, <1>3, PostCases

(* A post keeps EVT_BOOT before INIT_DONE if it is not INIT_DONE that      *)
(* comes first.                                                            *)
LEMMA OrderAfterPost ==
  ASSUME SMTypeOK, BootInOrder, NEW e \in EventTypes, EventPost(e),
         UNCHANGED <<current_state, event>>, e \in BootEvents => e \notin lost,
         \/ e # "INIT_DONE"
         \/ current_state # "BOOT"
         \/ BootEvents \intersect lost # {}
         \/ Outstanding("EVT_BOOT")
  PROVE  BootInOrder'
<1> SUFFICES ASSUME current_state = "BOOT", BootEvents \intersect lost' = {}
             PROVE  /\ event # "INIT_DONE"
                    /\ \A i \in 1 .. Len(chan') : chan'[i] = "INIT_DONE" =>
                         event = "EVT_BOOT" \/ \E j \in 1 .. i - 1 : chan'[j] = "EVT_BOOT"
  BY DEF BootInOrder
<1>1. Len(chan) \in Nat /\ BootEvents \intersect lost = {}
  BY PostCases DEF SMTypeOK
<1>2. /\ event # "INIT_DONE"
      /\ \A i \in 1 .. Len(chan) : chan[i] = "INIT_DONE" =>
           event = "EVT_BOOT" \/ \E j \in 1 .. i - 1 : chan[j] = "EVT_BOOT"
  BY <1>1 DEF BootInOrder
<1>3. CASE chan' = chan
  BY <1>2, <1>3
<1>4. CASE /\ Len(chan') = Len(chan) + 1 /\ chan'[Len(chan) + 1] = e
           /\ \A i \in 1 .. Len(chan) : chan'[i] = chan[i]
  <2>1. ASSUME NEW i \in 1 .. Len(chan), chan'[i] = "INIT_DONE", event # "EVT_BOOT"
        PROVE  \E j \in 1 .. i - 1 : chan'[j] = "EVT_BOOT"
    <3>1. PICK j \in 1 .. i - 1 : chan[j] = "EVT_BOOT"
      BY <1>2, <1>4, <2>1
    <3>2. j \in 1 .. Len(chan)
      BY <1>1, <3>1
    <3>3. QED
      BY <1>4, <3>1, <3>2
  <2>2. ASSUME e = "INIT_DONE", event # "EVT_BOOT"
        PROVE  \E j \in 1 .. (Len(chan) + 1) - 1 : chan'[j] = "EVT_BOOT"
    <3>1. PICK j \in 1 .. Len(chan) : chan[j] = "EVT_BOOT"
      BY <1>1, <2>2 DEF Outstanding, Queued
    <3>2. j \in 1 .. (Len(chan) + 1) - 1
      BY <1>1, <3>1
    <3>3. QED
      BY <1>4, <3>1, <3>2
  <2>3. \A i \in 1 .. Len(chan') : i = Len(chan) + 1 \/ i \in 1 .. Len(chan)
    BY <1>1, <1>4
  <2>4. QED
    BY <1>2, <1>4, <2>1, <2>2, <2>3
<1>5. QED
  BY <1>3, <1>4, PostCases

LEMMA OrderAfterGet ==
  ASSUME SMTypeOK, BootInOrder, EventGet
  PROVE  BootInOrder'
<1> SUFFICES ASSUME current_state = "BOOT", BootEvents \intersect lost = {}
             PROVE  /\ event' # "INIT_DONE"
                    /\ \A i \in 1 .. Len(chan') : chan'[i] = "INIT_DONE" =>
                         event' = "EVT_BOOT" \/ \E j \in 1 .. i - 1 : chan'[j] = "EVT_BOOT"
  BY DEF BootInOrder, EventGet
<1>1. /\ Len(chan) \in Nat \ {0} /\ Len(chan') = Len(chan) - 1
      /\ event = "none" /\ event' = chan[1]
      /\ \A i \in 1 .. Len(chan') : chan'[i] = chan[i + 1]
  BY DEF SMTypeOK, EventGet
<1>2. \A i \in 1 .. Len(chan) : chan[i] = "INIT_DONE" => \E j \in 1 .. i - 1 : chan[j] = "EVT_BOOT"
  BY <1>1 DEF BootInOrder
<1>3. event' # "INIT_DONE"
  <2>1. 1 \in 1 .. Len(chan) /\ 1 .. 1 - 1 = {}
    BY <1>1
  <2>2. QED
    BY <1>1, <1>2, <2>1
<1>4. ASSUME NEW i \in 1 .. Len(chan'), chan'[i] = "INIT_DONE", event' # "EVT_BOOT"
      PROVE  \E j \in 1 .. i - 1 : chan'[j] = "EVT_BOOT"
  <2>1. i + 1 \in 1 .. Len(chan) /\ chan[i + 1] = "INIT_DONE" /\ i \in Nat
    BY <1>1, <1>4
  <2>2. PICK j \in 1 .. (i + 1) - 1 : chan[j] = "EVT_BOOT"
    BY <1>2, <2>1
  <2>3. j # 1
    BY <1>1, <1>4, <2>2
  <2>4. j - 1 \in 1 .. i - 1 /\ j - 1 \in 1 .. Len(chan') /\ (j - 1) + 1 = j
    BY <1>1, <2>1, <2>2, <2>3
  <2>5. QED
    BY <1>1, <2>2, <2>4
<1>5. QED
  BY <1>3, <1>4

(* What an event does to a node that is on its way out of BOOT and INIT.   *)
LEMMA HandleInStart ==
  ASSUME SMTypeOK, HandleEvent, current_state' \in {"BOOT", "INIT"}
  PROVE  /\ UNCHANGED <<chan, lost>> /\ event' = "none"
         /\ \/ current_state = "BOOT" /\ current_state' = "INIT" /\ event = "EVT_BOOT"
            \/ current_state = "BOOT" /\ current_state' = "BOOT" /\ event # "EVT_BOOT"
            \/ current_state = "INIT" /\ current_state' = "INIT" /\ event # "INIT_DONE"
<1>1. Ignore => UNCHANGED <<current_state, chan, lost>> /\ event \notin Expected
  BY DEF Ignore, Enter
<1>2. Boot => /\ current_state = "BOOT" /\ current_state' = "INIT" /\ event = "EVT_BOOT"
              /\ UNCHANGED <<chan, lost>>
  BY DEF Boot, On, Enter
<1>3. Ignore \/ Boot
  BY DEF HandleEvent, On, Enter, InitDone, StartProcessing, ProcessDone, FirstFault, NextFault,
         Recover, ForceSafeMode, Acknowledge
<1>4. event' = "none"
  BY DEF HandleEvent
<1>5. QED
  BY <1>1, <1>2, <1>3, <1>4 DEF Expected

LEMMA BootAfterHandle ==
  ASSUME SMTypeOK, BootInOrder, BootWillEnd, HandleEvent, pc = "handle"
  PROVE  BootInOrder' /\ BootWillEnd'
<1> SUFFICES ASSUME current_state' \in {"BOOT", "INIT"}
             PROVE  BootInOrder' /\ BootWillEnd'
  BY DEF BootInOrder, BootWillEnd
<1>1. /\ UNCHANGED <<chan, lost>> /\ event' = "none" /\ ~StartingUp
      /\ \/ current_state = "BOOT" /\ current_state' = "INIT" /\ event = "EVT_BOOT"
         \/ current_state = "BOOT" /\ current_state' = "BOOT" /\ event # "EVT_BOOT"
         \/ current_state = "INIT" /\ current_state' = "INIT" /\ event # "INIT_DONE"
  BY HandleInStart DEF StartingUp
<1>2. BootInOrder'
  BY <1>1 DEF BootInOrder
<1>3. BootWillEnd'
  BY <1>1 DEF BootWillEnd, BootInOrder, Outstanding, Queued
<1>4. QED
  BY <1>2, <1>3

(* Only the start-up posts its events. *)
LEMMA UnpostedNext ==
  ASSUME SMTypeOK, BootUnposted, [Next]_vars
  PROVE  BootUnposted'
<1> USE DEF BootUnposted, StartingUp, Goto
<1>1. ASSUME NEW e \in EventTypes, Arrive(e), e # "INIT_DONE", e # "EVT_BOOT"
      PROVE  \A d \in BootEvents : d \in lost' <=> d \in lost
  BY <1>1, PostCases DEF Arrive, BootEvents
<1>2. CASE SensorInit \/ WifiManagerInit
  BY <1>2 DEF SensorInit, WifiManagerInit, smVars
<1>3. CASE PostBoot
  <2>1. EventPost("EVT_BOOT") /\ "EVT_BOOT" \in EventTypes
    BY <1>3 DEF PostBoot, Arrive, EventTypes, BootEvents
  <2>2. "INIT_DONE" \in lost' <=> "INIT_DONE" \in lost
    BY <2>1, PostCases
  <2>3. QED
    BY <1>3, <2>2 DEF PostBoot
<1>4. CASE PostInitDone \/ CountTurn \/ StartSample \/ ReadSucceeds \/ ReadFails \/ Publish
  BY <1>4 DEF PostInitDone, CountTurn, StartSample, ReadSucceeds, ReadFails, Publish
<1>5. CASE TakeEvent \/ NoEvent \/ Handle \/ KickOrNot \/ DelayOver
  BY <1>5 DEF TakeEvent, NoEvent, Handle, KickOrNot, DelayOver
<1>6. ASSUME NEW e \in ButtonEvents, ButtonPress(e) PROVE BootUnposted'
  <2>1. e \in EventTypes /\ e # "INIT_DONE" /\ e # "EVT_BOOT" /\ Arrive(e) /\ pc' = pc
    BY <1>6 DEF ButtonPress, mainVars, EventTypes, ButtonEvents
  <2>2. QED
    BY <1>1, <2>1 DEF BootEvents
<1>7. CASE Tick \/ WatchdogWarns \/ UNCHANGED vars
  BY <1>7 DEF Tick, WatchdogWarns, vars, smVars, mainVars
<1>8. CASE Reboot
  BY <1>8 DEF Reboot, Restart
<1>9. QED
  BY <1>2, <1>3, <1>4, <1>5, <1>6, <1>7, <1>8 DEF Next, MainStep, WatchdogFires

LEMMA BootNext ==
  ASSUME SMTypeOK, BootInOrder, BootUnposted, BootWillEnd, LoopPosition, [Next]_vars
  PROVE  BootInOrder' /\ BootWillEnd'
<1> DEFINE AwaitsPost == pc \in {"sensor_init", "wifi_init", "post_boot"}
<1>1. ASSUME UNCHANGED smVars, AwaitsPost => AwaitsPost', StartingUp => StartingUp'
      PROVE  BootInOrder' /\ BootWillEnd'
  BY <1>1 DEF smVars, BootInOrder, BootWillEnd, Outstanding, Queued
<1>2. ASSUME NEW e \in EventTypes \ BootEvents, Arrive(e),
             AwaitsPost => AwaitsPost', StartingUp => StartingUp'
      PROVE  BootInOrder' /\ BootWillEnd'
  <2>1. EventPost(e) /\ UNCHANGED <<current_state, event>> /\ e # "INIT_DONE"
    BY <1>2 DEF Arrive, BootEvents
  <2>2. BootWillEnd'
    BY <1>2, <2>1, PostIsOutstanding DEF BootWillEnd
  <2>3. QED
    BY <2>1, <2>2, OrderAfterPost
<1>3. CASE SensorInit \/ WifiManagerInit
  BY <1>1, <1>3 DEF SensorInit, WifiManagerInit, Goto, StartingUp
<1>4. CASE PostBoot
  <2>1. /\ EventPost("EVT_BOOT") /\ UNCHANGED <<current_state, event>>
        /\ "EVT_BOOT" \in EventTypes /\ StartingUp' /\ "EVT_BOOT" \notin lost
    BY <1>4 DEF PostBoot, Arrive, Goto, BootUnposted, StartingUp, EventTypes, BootEvents
  <2>2. "EVT_BOOT" \in lost' \/ Outstanding("EVT_BOOT")'
    BY <2>1, PostIsOutstanding
  <2>3. BootWillEnd'
    BY <2>1, <2>2 DEF BootWillEnd, BootEvents
  <2>4. QED
    BY <2>1, <2>3, OrderAfterPost
<1>5. CASE PostInitDone
  <2>1. /\ EventPost("INIT_DONE") /\ UNCHANGED <<current_state, event>>
        /\ "INIT_DONE" \in EventTypes /\ pc = "post_init_done" /\ current_state = "BOOT"
        /\ "INIT_DONE" \notin lost
    BY <1>5 DEF PostInitDone, Arrive, Goto, LoopPosition, BootUnposted, StartingUp, EventTypes,
                BootEvents
  <2>2. BootEvents \intersect lost # {} \/ Outstanding("EVT_BOOT")
    BY <2>1 DEF BootWillEnd
  <2>3. "INIT_DONE" \in lost' \/ Outstanding("INIT_DONE")'
    BY <2>1, PostIsOutstanding
  <2>4. BootWillEnd'
    BY <2>1, <2>2, <2>3, PostIsOutstanding DEF BootWillEnd, BootEvents
  <2>5. QED
    BY <2>1, <2>2, <2>4, OrderAfterPost
<1>6. CASE CountTurn \/ StartSample \/ Publish \/ NoEvent \/ KickOrNot \/ DelayOver
  BY <1>1, <1>6
  DEF CountTurn, StartSample, Publish, NoEvent, KickOrNot, DelayOver, Goto, StartingUp
<1>7. CASE ReadSucceeds \/ ReadFails
  BY <1>2, <1>7 DEF ReadSucceeds, ReadFails, Goto, StartingUp, EventTypes, SensorEvents, BootEvents
<1>8. CASE TakeEvent
  <2>1. EventGet /\ UNCHANGED <<current_state, lost>> /\ ~StartingUp
    BY <1>8 DEF TakeEvent, EventGet, Goto, StartingUp
  <2>2. \A d \in BootEvents : Outstanding(d)' <=> Outstanding(d)
    BY <2>1, GetKeepsOutstanding DEF BootEvents
  <2>3. BootWillEnd'
    BY <2>1, <2>2 DEF BootWillEnd, StartingUp, BootEvents
  <2>4. QED
    BY <2>1, <2>3, OrderAfterGet
<1>9. CASE Handle
  BY <1>9, BootAfterHandle DEF Handle, Goto
<1>10. ASSUME NEW e \in ButtonEvents, ButtonPress(e) PROVE BootInOrder' /\ BootWillEnd'
  BY <1>2, <1>10 DEF ButtonPress, mainVars, StartingUp, EventTypes, ButtonEvents, BootEvents
<1>11. CASE Tick \/ WatchdogWarns
  BY <1>1, <1>11 DEF Tick, WatchdogWarns, mainVars, StartingUp
<1>12. CASE Reboot
  BY <1>12 DEF Reboot, Restart, BootInOrder, BootWillEnd, StartingUp
<1>13. CASE UNCHANGED vars
  BY <1>1, <1>13 DEF vars, mainVars, StartingUp
<1>14. QED
  BY <1>3, <1>4, <1>5, <1>6, <1>7, <1>8, <1>9, <1>10, <1>11, <1>12, <1>13
  DEF Next, MainStep, WatchdogFires

-----------------------------------------------------------------------------
(* A sensor that did not answer at boot. *)

(* ACTIVE is entered for a good sample only. *)
LEMMA ActiveNeedsSample ==
  ASSUME HandleEvent, current_state' = "ACTIVE"
  PROVE  current_state = "ACTIVE" \/ event = "SENSOR_READY"
BY DEF HandleEvent, On, Enter, Boot, InitDone, StartProcessing, ProcessDone, FirstFault, NextFault,
       Recover, ForceSafeMode, Acknowledge, Ignore

LEMMA DeadNext ==
  ASSUME SMTypeOK, DeadIsSilent, [Next]_vars
  PROVE  DeadIsSilent'
<1>1. ASSUME UNCHANGED <<smVars, initialized>>, pc' # "sensor_init" \/ pc' = pc
      PROVE  DeadIsSilent'
  BY <1>1 DEF smVars, DeadIsSilent, Outstanding, Queued
<1>2. ASSUME NEW e \in EventTypes, Arrive(e), initialized' = initialized,
             e # "SENSOR_READY" \/ initialized, pc' # "sensor_init" \/ pc' = pc
      PROVE  DeadIsSilent'
  <2>1. EventPost(e) /\ UNCHANGED <<current_state, event>>
    BY <1>2 DEF Arrive
  <2>2. ~initialized => (Queued("SENSOR_READY")' <=> Queued("SENSOR_READY"))
    BY <1>2, <2>1, QueuedAfterPost
  <2>3. QED
    BY <1>2, <2>1, <2>2 DEF DeadIsSilent, Outstanding
<1>3. CASE SensorInit
  BY <1>3 DEF SensorInit, Goto, smVars, DeadIsSilent, Outstanding, Queued
<1>4. CASE WifiManagerInit \/ CountTurn \/ StartSample \/ Publish
  BY <1>1, <1>4 DEF WifiManagerInit, CountTurn, StartSample, Publish, Goto
<1>5. CASE PostBoot \/ PostInitDone
  BY <1>2, <1>5 DEF PostBoot, PostInitDone, Goto, EventTypes, BootEvents
<1>6. CASE ReadSucceeds
  BY <1>2, <1>6 DEF ReadSucceeds, Goto, EventTypes, SensorEvents
<1>7. CASE ReadFails
  BY <1>2, <1>7 DEF ReadFails, Goto, EventTypes, SensorEvents
<1>8. CASE TakeEvent
  <2>1. Outstanding("SENSOR_READY")' <=> Outstanding("SENSOR_READY")
    BY <1>8, GetKeepsOutstanding DEF TakeEvent
  <2>2. QED
    BY <1>8, <2>1 DEF TakeEvent, EventGet, Goto, DeadIsSilent
<1>9. CASE Handle
  <2>1. HandleEvent /\ pc' # "sensor_init" /\ initialized' = initialized /\ event' = "none"
    BY <1>9, HandlePosts DEF Handle, Goto
  <2>2. Queued("SENSOR_READY")' <=> Queued("SENSOR_READY")
    BY <2>1, HandleKeepsSamples DEF SensorEvents
  <2>3. ~initialized => current_state' # "ACTIVE"
    BY <2>1, ActiveNeedsSample DEF DeadIsSilent, Outstanding
  <2>4. QED
    BY <2>1, <2>2, <2>3 DEF DeadIsSilent, Outstanding
<1>10. CASE NoEvent \/ KickOrNot \/ DelayOver \/ Tick \/ WatchdogWarns
  BY <1>1, <1>10 DEF NoEvent, KickOrNot, DelayOver, Tick, WatchdogWarns, mainVars, Goto
<1>11. ASSUME NEW e \in ButtonEvents, ButtonPress(e) PROVE DeadIsSilent'
  <2>1. e \in EventTypes /\ e # "SENSOR_READY"
    BY DEF EventTypes, ButtonEvents
  <2>2. QED
    BY <1>2, <1>11, <2>1 DEF ButtonPress, mainVars
<1>12. CASE Reboot
  BY <1>12 DEF Reboot, Restart, DeadIsSilent, Outstanding, Queued
<1>13. CASE UNCHANGED vars
  BY <1>1, <1>13 DEF vars, mainVars
<1>14. QED
  BY <1>3, <1>4, <1>5, <1>6, <1>7, <1>8, <1>9, <1>10, <1>11, <1>12, <1>13
  DEF Next, MainStep, WatchdogFires

-----------------------------------------------------------------------------
(* The inductive invariant of the node, whole. *)

NodeInv == MachineInv /\ LoopInv

LEMMA NodeInit == Init => NodeInv
<1> SUFFICES ASSUME Init PROVE NodeInv
  OBVIOUS
<1>1. MachineInv /\ LoopTypeOK /\ LoopPosition /\ KickedInTime
  BY MachineInit, TimingInit DEF Init, TimingInv
<1>2. EventInHand /\ SampleIsNear
  BY DEF Init, SMInit, EventInHand, SampleIsNear, SensorEvents
<1>3. FaultsAreMisses /\ DeadIsSilent
  BY DEF Init, SMInit, FaultsAreMisses, DeadIsSilent, Outstanding, Queued
<1>4. BootInOrder /\ BootUnposted /\ BootWillEnd
  BY DEF Init, SMInit, BootInOrder, BootUnposted, BootWillEnd, StartingUp
<1>5. QED
  BY <1>1, <1>2, <1>3, <1>4 DEF NodeInv, MachineInv, LoopInv, TypeOK

LEMMA NodeNext == NodeInv /\ [Next]_vars => NodeInv'
<1> SUFFICES ASSUME NodeInv, [Next]_vars PROVE NodeInv'
  OBVIOUS
<1>1. /\ MachineInv /\ FaultCountFitsState /\ EventInHand /\ LoopPosition /\ SampleIsNear
      /\ FaultsAreMisses /\ KickedInTime /\ BootInOrder /\ BootUnposted /\ BootWillEnd
      /\ DeadIsSilent /\ TypeOK /\ SMTypeOK /\ LoopTypeOK
  BY DEF NodeInv, LoopInv, TypeOK
<1>2. MachineInv'
  BY <1>1, StepFeedsMachine, MachineNext
<1>3. LoopTypeOK' /\ LoopPosition' /\ KickedInTime'
  BY <1>1, TimingNext DEF TimingInv
<1>4. EventInHand' /\ SampleIsNear' /\ FaultsAreMisses'
  BY <1>1, InHandNext, NearNext, MissesNext
<1>5. BootInOrder' /\ BootUnposted' /\ BootWillEnd' /\ DeadIsSilent'
  BY <1>1, BootNext, UnpostedNext, DeadNext
<1>6. QED
  BY <1>2, <1>3, <1>4, <1>5 DEF NodeInv, MachineInv, LoopInv, TypeOK

LEMMA LoopIsSound == Spec => []NodeInv
  BY NodeInit, NodeNext, PTL DEF Spec

(* Every sample's outcome is handled before the next sample is taken,      *)
(* however the button fills the queue, because the queue holds no more     *)
(* events than a period has turns.                                         *)
THEOREM OneSampleAtATime == Spec => []SampleSeenBeforeNext
<1>1. NodeInv => SampleSeenBeforeNext
  BY NoSampleWaits DEF NodeInv, LoopInv, SampleSeenBeforeNext
<1>2. QED
  BY <1>1, LoopIsSound, PTL

(* As long as the queue has refused neither of the two events of the       *)
(* start-up, a node in BOOT or INIT has what takes it out still coming,    *)
(* and in the order it needs.                                              *)
THEOREM WayOutOfBoot == Spec => []BootWillEnd
<1>1. NodeInv => BootWillEnd
  BY DEF NodeInv, LoopInv
<1>2. QED
  BY <1>1, LoopIsSound, PTL

LEMMA DeadStep ==
  NodeInv /\ [Next]_vars =>
    [ ~initialized /\ current_state \in {"FAULT", "SAFE_MODE"} =>
        \/ current_state' \in {"FAULT", "SAFE_MODE", "BOOT"}
        \/ event = "BUTTON_SHORT_PRESS" ]_vars
<1> SUFFICES ASSUME NodeInv, Next, ~initialized, current_state \in {"FAULT", "SAFE_MODE"}
             PROVE  \/ current_state' \in {"FAULT", "SAFE_MODE", "BOOT"}
                    \/ event = "BUTTON_SHORT_PRESS"
  OBVIOUS
<1>1. \/ current_state' = current_state \/ HandleEvent \/ current_state' = "BOOT"
  BY DEF Next, MainStep, SensorInit, WifiManagerInit, PostBoot, PostInitDone, CountTurn,
         StartSample, ReadSucceeds, ReadFails, Publish, TakeEvent, NoEvent, Handle, KickOrNot,
         DelayOver, ButtonPress, Tick, WatchdogFires, WatchdogWarns, Reboot, Arrive, EventGet,
         Restart, smVars
<1>2. event # "SENSOR_READY"
  BY DEF NodeInv, LoopInv, DeadIsSilent, Outstanding
<1>3. CASE HandleEvent
  BY <1>2, <1>3
  DEF HandleEvent, On, Enter, Boot, InitDone, StartProcessing, ProcessDone, FirstFault, NextFault,
      Recover, ForceSafeMode, Acknowledge, Ignore
<1>4. QED
  BY <1>1, <1>3

(* A node whose sensor did not answer at boot leaves FAULT and SAFE_MODE   *)
(* on a short press or by a reset, never by itself.                        *)
THEOREM DeadStaysOut == Spec => DeadStaysDown
  BY DeadStep, LoopIsSound, PTL DEF Spec, DeadStaysDown

LEMMA SafeModeStep ==
  NodeInv /\ [Next]_vars =>
    [ current_state # "SAFE_MODE" /\ current_state' = "SAFE_MODE" =>
        event = "BUTTON_LONG_PRESS" \/ misses >= MAX_FAULTS \/ "SENSOR_READY" \in lost ]_vars
<1> SUFFICES ASSUME NodeInv, Next, current_state # "SAFE_MODE", current_state' = "SAFE_MODE"
             PROVE  event = "BUTTON_LONG_PRESS" \/ misses >= MAX_FAULTS \/ "SENSOR_READY" \in lost
  OBVIOUS
<1>1. HandleEvent
  BY DEF Next, MainStep, SensorInit, WifiManagerInit, PostBoot, PostInitDone, CountTurn,
      StartSample, ReadSucceeds, ReadFails, Publish, TakeEvent, NoEvent, Handle, KickOrNot, DelayOver,
      ButtonPress, Tick, WatchdogFires, WatchdogWarns, Reboot, Arrive, EventGet, Restart, smVars
<1>2. \/ event = "BUTTON_LONG_PRESS"
      \/ event = "SENSOR_TIMEOUT" /\ fault_count + 1 >= MAX_FAULTS
  BY <1>1, HandleCounts DEF NodeInv, LoopInv
<1>3. ASSUME event = "SENSOR_TIMEOUT", fault_count + 1 >= MAX_FAULTS, "SENSOR_READY" \notin lost
      PROVE  misses >= MAX_FAULTS
  <2>1. ~Outstanding("SENSOR_READY") /\ Outstanding("SENSOR_TIMEOUT")
    BY <1>3, SampleInHandIsAlone DEF NodeInv, LoopInv, Outstanding, SensorEvents
  <2>2. fault_count + 1 <= misses
    BY <1>3, <2>1 DEF NodeInv, LoopInv, FaultsAreMisses
  <2>3. QED
    BY <1>3, <2>2, CountIsBounded DEF NodeInv, LoopInv
<1>4. QED
  BY <1>2, <1>3

(* A node enters SAFE_MODE only after MAX_FAULTS failed samples with no    *)
(* good one between them, or on a long press, or when a full queue has     *)
(* refused a good sample's event.                                          *)
THEOREM SafeModeNeedsMisses == Spec => SafeModeIsEarned
  BY SafeModeStep, LoopIsSound, PTL DEF Spec, SafeModeIsEarned

-----------------------------------------------------------------------------
(* Overlapping posts of the two tasks spoil the ring (EventQueue).  It may *)
(* then hold anything at any moment; the rest of the node is as it was.    *)

RingIsSpoiled == UNCHANGED <<current_state, fault_count, event, wdt, mainVars, quiet>>

SpoiledNext == Next \/ RingIsSpoiled

LEMMA SpoiledCountNext == EscalationInv /\ [SpoiledNext]_vars => EscalationInv'
<1> SUFFICES ASSUME EscalationInv, [SpoiledNext]_vars PROVE EscalationInv'
  OBVIOUS
<1>1. CASE [Next]_vars
  BY <1>1, StepFeedsMachine, EscalationNext
<1>2. CASE RingIsSpoiled
  BY <1>2 DEF RingIsSpoiled, EscalationInv, FaultCountFitsState
<1>3. QED
  BY <1>1, <1>2 DEF SpoiledNext

LEMMA SpoiledTimingNext == TimingInv /\ [SpoiledNext]_vars => TimingInv'
<1>1. TimingInv /\ RingIsSpoiled => TimingInv'
  BY DEF RingIsSpoiled, mainVars, TimingInv, LoopTypeOK, WdtTypeOK, WdtTimeout, MaxBlock,
         LoopPosition, StartingUp, KickedInTime
<1>2. QED
  BY <1>1, TimingNext DEF SpoiledNext

(* The node over a ring that its tasks' posts spoil again and again: the   *)
(* fault count still fits the state, and, within the timing budget, the    *)
(* loop still feeds the watchdog.  Neither rests on which events the loop  *)
(* is handed, or on how many.                                              *)
THEOREM TimingOutlivesRing ==
  ASSUME SAMPLE_PERIOD + MaxSensorBlock + MaxPublishBlock < WdtTimeout
  PROVE  Init /\ [][SpoiledNext]_vars => [](FaultCountFitsState /\ WatchdogFed)
<1>1. Init => EscalationInv /\ TimingInv
  BY EscalationInit, TimingInit DEF Init
<1>2. EscalationInv /\ TimingInv => FaultCountFitsState /\ WatchdogFed
  BY LoopBudget DEF EscalationInv
<1>3. QED
  BY <1>1, <1>2, SpoiledCountNext, SpoiledTimingNext, PTL
=============================================================================
