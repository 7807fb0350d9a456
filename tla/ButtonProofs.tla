---------------------------- MODULE ButtonProofs ----------------------------
(***************************************************************************)
(* Proofs about Button for every debounce time, length of a long press and *)
(* latency of the task.                                                    *)
(***************************************************************************)
EXTENDS Button, TLAPS

LEMMA Bounds ==
  /\ DEBOUNCE \in Nat \ {0} /\ LONG_PRESS \in Nat \ {0} /\ MaxLatency \in Nat
  /\ DEBOUNCE <= LONG_PRESS
  /\ Oldest = DEBOUNCE + DEBOUNCE + LONG_PRESS + MaxLatency
  /\ Oldest \in Nat /\ 0 \in Ages
  BY ButtonAssumption DEF ButtonAssumption, Oldest, Ages

(* An age stays an age, and ages keep their order. *)
LEMMA OlderAges ==
  /\ \A a \in Ages : Older(a) \in Ages /\ Older(a) = IF a < Oldest THEN a + 1 ELSE Oldest
  /\ \A a, b \in Ages : a <= b => Older(a) <= Older(b)
  BY Bounds DEF Ages, Older

(* The time of a press stays an age, and a gap that is no bounce ends it. *)
LEMMA HeldAges ==
  ASSUME held \in Ages, NEW gap \in Ages
  PROVE  HeldAfter(gap) \in Ages /\ (gap >= DEBOUNCE => HeldAfter(gap) = 0)
  BY Bounds DEF HeldAfter, Ages

-----------------------------------------------------------------------------
LEMMA TypeInit == Init => TypeOK
<1> SUFFICES ASSUME Init PROVE TypeOK
  OBVIOUS
<1>1. {last_edge, press_start, steady, held, quiet} \subseteq Ages /\ late \in 0 .. MaxLatency
  BY Bounds DEF Init, Ages
<1>2. QED
  BY <1>1 DEF Init, TypeOK

LEMMA TypeNext == ASSUME TypeOK, [Next]_vars PROVE TypeOK'
<1>1. /\ level \in {0, 1} /\ notified \in BOOLEAN /\ pc \in {"wait", "read"}
      /\ last_edge \in Ages /\ press_start \in Ages /\ steady \in Ages
      /\ held \in Ages /\ quiet \in Ages
      /\ currently_pressed \in BOOLEAN /\ bounces \in BOOLEAN /\ owed \in BOOLEAN
      /\ late \in 0 .. MaxLatency
  BY DEF TypeOK
<1> USE <1>1, Bounds DEF TypeOK
<1>2. CASE Edge
  <2>1. level' \in {0, 1} /\ held' \in Ages
    BY <1>2, HeldAges DEF Edge
  <2>2. owed' \in BOOLEAN
    BY <1>2, Zenon DEF Edge
  <2>3. UNCHANGED <<taskVars, bounces, late, quiet>> /\ notified' = TRUE /\ steady' = 0
    BY <1>2 DEF Edge
  <2>4. QED
    BY <2>1, <2>2, <2>3 DEF taskVars
<1>3. CASE IgnoreBounce \/ TakeEdge
  <2>1. last_edge' \in Ages /\ late' \in 0 .. MaxLatency
    BY <1>3 DEF IgnoreBounce, TakeEdge, TakeNotification, taskVars
  <2>2. /\ notified' = FALSE /\ pc' \in {"wait", "read"}
        /\ UNCHANGED <<level, press_start, currently_pressed, bounces, steady, held, owed, quiet>>
    BY <1>3 DEF IgnoreBounce, TakeEdge, TakeNotification, taskVars
  <2>3. QED
    BY <2>1, <2>2
<1>5. CASE PressStarts
  BY <1>5 DEF PressStarts, ReadLevel
<1>6. ASSUME NEW long \in BOOLEAN, Report(long) PROVE TypeOK'
  BY <1>6 DEF Report, ReadLevel
<1>7. CASE NothingNew
  BY <1>7 DEF NothingNew, ReadLevel
<1>8. CASE Tick
  <2>1. {last_edge', press_start', steady', held', quiet'} \subseteq Ages
    BY <1>8, OlderAges DEF Tick
  <2>2. late' \in 0 .. MaxLatency
    BY <1>8 DEF Tick
  <2>3. QED
    BY <1>8, <2>1, <2>2 DEF Tick
<1>9. CASE UNCHANGED vars
  BY <1>9 DEF vars, taskVars
<1>10. QED
  BY <1>2, <1>3, <1>5, <1>6, <1>7, <1>8, <1>9 DEF Next

(* Every variable keeps its type: the task never leaves its loop, and a    *)
(* notification is taken within the task's latency.                        *)
THEOREM TypeCorrect == Spec => []TypeOK
<1>1. TypeOK /\ [Next]_vars => TypeOK'
  BY TypeNext
<1>2. QED
  BY <1>1, TypeInit, PTL DEF Spec

-----------------------------------------------------------------------------
(* The distance of reports. *)

LEMMA SpacedInit == Init => EdgesAreSpaced
  BY Bounds DEF Init, EdgesAreSpaced

LEMMA SpacedNext == ASSUME TypeOK, EdgesAreSpaced, [Next]_vars PROVE EdgesAreSpaced'
<1>1. /\ last_edge \in Ages /\ press_start \in Ages /\ quiet \in Ages
      /\ pc \in {"wait", "read"}
  BY DEF TypeOK
<1> USE <1>1, Bounds DEF EdgesAreSpaced, Ages
<1>2. CASE Edge
  BY <1>2 DEF Edge, taskVars
<1>3. CASE IgnoreBounce
  BY <1>3 DEF IgnoreBounce, TakeNotification, taskVars
<1>4. CASE TakeEdge
  BY <1>4 DEF TakeEdge, TakeNotification
<1>5. CASE PressStarts
  BY <1>5 DEF PressStarts, ReadLevel
<1>6. ASSUME NEW long \in BOOLEAN, Report(long) PROVE EdgesAreSpaced'
  BY <1>6 DEF Report, ReadLevel
<1>7. CASE NothingNew
  BY <1>7 DEF NothingNew, ReadLevel
<1>8. CASE Tick
  <2>1. /\ last_edge' = IF last_edge < Oldest THEN last_edge + 1 ELSE Oldest
        /\ press_start' = IF press_start < Oldest THEN press_start + 1 ELSE Oldest
        /\ quiet' = IF quiet < Oldest THEN quiet + 1 ELSE Oldest
    BY <1>8, OlderAges DEF Tick
  <2>2. pc = "wait" /\ pc' = pc /\ currently_pressed' = currently_pressed
    BY <1>8 DEF Tick
  <2>3. QED
    BY <2>1, <2>2
<1>9. CASE UNCHANGED vars
  BY <1>9 DEF vars, taskVars
<1>10. QED
  BY <1>2, <1>3, <1>4, <1>5, <1>6, <1>7, <1>8, <1>9 DEF Next

LEMMA SpacedHolds == Spec => [](TypeOK /\ EdgesAreSpaced)
<1>1. TypeOK /\ EdgesAreSpaced /\ [Next]_vars => EdgesAreSpaced'
  BY SpacedNext
<1>2. QED
  BY <1>1, SpacedInit, TypeCorrect, PTL DEF Spec

LEMMA ReportIsAllowed ==
  ASSUME TypeOK, EdgesAreSpaced, NEW long \in BOOLEAN, Report(long)
  PROVE  Reports!Report(long)
<1>1. pc = "read" /\ currently_pressed /\ (long <=> press_start >= LONG_PRESS) /\ quiet' = 0
  BY DEF Report, ReadLevel
<1>2. press_start \in Nat /\ quiet \in Nat
  BY Bounds DEF TypeOK, Ages
<1>3. quiet >= DEBOUNCE + (IF long THEN LONG_PRESS ELSE DEBOUNCE)
  BY <1>1, <1>2, Bounds DEF EdgesAreSpaced
<1>4. QED
  BY <1>1, <1>2, <1>3, Bounds DEF Reports!Report

(* The button task, on any pin, is the one Runtime counts on: a step of    *)
(* PressReports for each report and each tick, and none for an edge, a     *)
(* bounce or a reading of the pin.  Two reports are two debounce times     *)
(* apart, and a long press its hold and one of them.                       *)
THEOREM ButtonImplementsReports == Spec => ImplementsReports
<1>1. Init => Reports!Begin
  BY Bounds DEF Init, Reports!Begin
<1>2. ASSUME TypeOK, EdgesAreSpaced, [Next]_vars
      PROVE  \/ Reports!Pass
             \/ \E long \in BOOLEAN : Reports!Report(long)
             \/ UNCHANGED quiet
  <2>1. CASE Edge \/ IgnoreBounce \/ TakeEdge \/ PressStarts \/ NothingNew \/ UNCHANGED vars
    BY <2>1 DEF Edge, IgnoreBounce, TakeEdge, PressStarts, NothingNew, vars
  <2>2. ASSUME NEW long \in BOOLEAN, Report(long) PROVE Reports!Report(long)
    BY <1>2, <2>2, ReportIsAllowed
  <2>3. CASE Tick
    <3>1. quiet \in 0 .. Oldest /\ quiet' = IF quiet < Oldest THEN quiet + 1 ELSE Oldest
      BY <1>2, <2>3, OlderAges DEF Tick, TypeOK, Ages
    <3>2. QED
      BY <3>1, Bounds DEF Reports!Pass
  <2>4. QED
    BY <1>2, <2>1, <2>2, <2>3 DEF Next
<1>3. TypeOK /\ EdgesAreSpaced /\ [Next]_vars
        => [Reports!Pass \/ \E long \in BOOLEAN : Reports!Report(long)]_
             (IF quiet < DEBOUNCE + LONG_PRESS THEN quiet ELSE DEBOUNCE + LONG_PRESS)
  BY <1>2
<1>4. TypeOK /\ EdgesAreSpaced => [\A long \in BOOLEAN : Report(long) => Reports!Report(long)]_vars
  BY ReportIsAllowed
<1>5. QED
  BY <1>1, <1>3, <1>4, SpacedHolds, PTL DEF Spec, ImplementsReports, Reports!Spec

-----------------------------------------------------------------------------
(* The task and a pin that does not bounce. *)

CleanInv == ~bounces => EdgeIsTaken /\ TaskInStep /\ HoldIsMeasured

LEMMA CleanInit == Init => CleanInv
  BY Bounds DEF Init, CleanInv, EdgeIsTaken, TaskInStep, HoldIsMeasured, AtRest

LEMMA CleanNext == ASSUME TypeOK, EdgesAreSpaced, CleanInv, [Next]_vars PROVE CleanInv'
<1> SUFFICES ASSUME ~bounces' PROVE EdgeIsTaken' /\ TaskInStep' /\ HoldIsMeasured'
  BY DEF CleanInv
<1>1. ~bounces /\ EdgeIsTaken /\ TaskInStep /\ HoldIsMeasured
  <2>1. bounces' = bounces
    BY DEF Next, Edge, IgnoreBounce, TakeEdge, PressStarts, Report, NothingNew, ReadLevel, Tick, vars
  <2>2. QED
    BY <2>1 DEF CleanInv
<1>2. /\ level \in {0, 1} /\ notified \in BOOLEAN /\ pc \in {"wait", "read"}
      /\ last_edge \in Ages /\ press_start \in Ages /\ steady \in Ages /\ held \in Ages
      /\ currently_pressed \in BOOLEAN /\ owed \in BOOLEAN
      /\ late \in 0 .. MaxLatency
  BY DEF TypeOK
<1> USE <1>1, <1>2, Bounds DEF EdgeIsTaken, TaskInStep, HoldIsMeasured, AtRest, Ages
<1>3. CASE Edge
  <2>1. AtRest
    BY <1>3 DEF Edge
  <2>2. held' = IF level = 0 THEN held ELSE 0
    BY <1>3, HeldAges DEF Edge
  <2>3. QED
    BY <1>3, <2>1, <2>2 DEF Edge, taskVars
<1>4. CASE IgnoreBounce
  BY <1>4 DEF IgnoreBounce, TakeNotification
<1>5. CASE TakeEdge
  BY <1>5 DEF TakeEdge, TakeNotification
<1>6. CASE PressStarts
  BY <1>6 DEF PressStarts, ReadLevel
<1>7. ASSUME NEW long \in BOOLEAN, Report(long)
      PROVE  EdgeIsTaken' /\ TaskInStep' /\ HoldIsMeasured'
  BY <1>7 DEF Report, ReadLevel
<1>8. CASE NothingNew
  BY <1>8 DEF NothingNew, ReadLevel
<1>9. CASE Tick
  <2>1. /\ last_edge' = IF last_edge < Oldest THEN last_edge + 1 ELSE Oldest
        /\ press_start' = IF press_start < Oldest THEN press_start + 1 ELSE Oldest
        /\ steady' = IF steady < Oldest THEN steady + 1 ELSE Oldest
    BY <1>9, OlderAges DEF Tick
  <2>2. /\ pc = "wait" /\ (notified => late < MaxLatency)
        /\ late' = IF notified THEN late + 1 ELSE late
        /\ UNCHANGED <<level, notified, pc, currently_pressed, owed>>
        /\ held' = IF level = 0 THEN Older(held) ELSE held
    BY <1>9 DEF Tick
  <2>3. EdgeIsTaken' /\ TaskInStep'
    BY <2>1, <2>2
  <2>4. HoldIsMeasured'
    <3>1. level' = 0 => held' = steady'
      BY <1>9, <2>2 DEF Tick
    <3>2. level = 1 => held' = held
      BY <2>2
    <3>3. QED
      BY <2>1, <2>2, <3>1, <3>2
  <2>5. QED
    BY <2>3, <2>4
<1>10. CASE UNCHANGED vars
  BY <1>10 DEF vars, taskVars
<1>11. QED
  BY <1>3, <1>4, <1>5, <1>6, <1>7, <1>8, <1>9, <1>10 DEF Next

LEMMA CleanHolds == Spec => [](TypeOK /\ CleanInv)
<1>1. TypeOK /\ EdgesAreSpaced /\ CleanInv /\ [Next]_vars => CleanInv'
  BY CleanNext
<1>2. QED
  BY <1>1, CleanInit, SpacedHolds, PTL DEF Spec

(* On a pin that does not bounce the task at rest is in step with the pin, *)
(* and no press that has ended is left unreported.                         *)
THEOREM InStep == Spec => []TaskInStep
<1>1. CleanInv => TaskInStep
  BY DEF CleanInv, TaskInStep
<1>2. QED
  BY <1>1, CleanHolds, PTL

(* ... and a press is reported as long or short according to how long it   *)
(* lasted at the pin, to within the task's latency.                        *)
THEOREM HoldIsReported == Spec => ReportsTheHold
<1> DEFINE Right == /\ Report(TRUE) => held + MaxLatency >= LONG_PRESS
                    /\ Report(FALSE) => held < LONG_PRESS + MaxLatency
<1>1. ASSUME TypeOK, CleanInv, ~bounces PROVE Right
  <2>1. press_start \in Nat /\ held \in Nat /\ steady \in Nat
    BY <1>1, Bounds DEF TypeOK, Ages
  <2>2. ASSUME NEW long \in BOOLEAN, Report(long)
        PROVE  /\ long <=> press_start >= LONG_PRESS
               /\ press_start <= held + MaxLatency /\ held <= press_start + MaxLatency
    <3>1. pc = "read" /\ currently_pressed /\ (long <=> press_start >= LONG_PRESS)
      BY <2>2 DEF Report, ReadLevel
    <3>2. QED
      BY <1>1, <2>1, <3>1, Bounds DEF CleanInv, EdgeIsTaken, HoldIsMeasured, AtRest
  <2>3. ASSUME Report(TRUE) PROVE held + MaxLatency >= LONG_PRESS
    <3>1. press_start >= LONG_PRESS /\ press_start <= held + MaxLatency
      BY <2>2, <2>3, Zenon
    <3>2. QED
      BY <2>1, <3>1, Bounds
  <2>4. ASSUME Report(FALSE) PROVE held < LONG_PRESS + MaxLatency
    <3>1. ~(press_start >= LONG_PRESS) /\ held <= press_start + MaxLatency
      BY <2>2, <2>4, Zenon
    <3>2. QED
      BY <2>1, <3>1, Bounds
  <2>5. QED
    BY <2>3, <2>4
<1>2. TypeOK /\ CleanInv =>
        [ ~bounces => /\ Report(TRUE) => held + MaxLatency >= LONG_PRESS
                      /\ Report(FALSE) => held < LONG_PRESS + MaxLatency ]_vars
  BY <1>1
<1>3. QED
  BY <1>2, CleanHolds, PTL DEF ReportsTheHold
=============================================================================
