------------------------------- MODULE Button -------------------------------
(***************************************************************************)
(* app/button.cpp: the interrupt on both edges of the button's pin wakes   *)
(* button_task, which drops edges too close to the last one it took, reads *)
(* the pin, and reports a press when it ends.  The notification is a flag, *)
(* so edges that come before the task runs are one wake-up; the pin is     *)
(* read after the wake-up and may have moved on.                           *)
(*                                                                         *)
(* Times are ages in ticks, counted up to Oldest, beyond which the code    *)
(* and the properties tell nothing apart.  What the task does from its     *)
(* wake-up on fits in a tick; the wake-up itself may be MaxLatency late.   *)
(***************************************************************************)
EXTENDS Naturals

CONSTANTS
  DEBOUNCE,     \* DEBOUNCE_US, in ticks
  LONG_PRESS,   \* LONG_PRESS_MS, in ticks
  MaxLatency    \* ticks from an edge to the task's wake-up, at most

ASSUME ButtonAssumption ==
  /\ DEBOUNCE \in Nat \ {0} /\ LONG_PRESS \in Nat /\ DEBOUNCE <= LONG_PRESS
  /\ MaxLatency \in Nat

VARIABLES
  level,              \* of the pin: 0 is pressed, 1 is released
  notified,           \* the task's notification value
  pc,                 \* "wait": blocked in ulTaskNotifyTake; "read": before gpio_get_level
  last_edge,          \* age of last_edge_time
  press_start,        \* age of press_start_time
  currently_pressed,
  bounces,            \* the contact bounces, or is tapped, faster than DEBOUNCE,
                      \* or is down when the task starts
  steady,             \* ticks since the pin changed
  late,               \* ticks the notification has been pending
  held,               \* history: how long the button has been down, or was when
                      \* it came up; a gap shorter than DEBOUNCE is a bounce in it
  owed,               \* history: a press has ended at the pin and is not reported
  quiet               \* history: ticks since the last report, or since two
                      \* debounce times before the task's start

taskVars == <<pc, last_edge, press_start, currently_pressed>>
vars == <<level, notified, taskVars, bounces, steady, late, held, owed, quiet>>

Oldest == DEBOUNCE + DEBOUNCE + LONG_PRESS + MaxLatency
Ages == 0 .. Oldest
Older(age) == IF age < Oldest THEN age + 1 ELSE age

(* The first edge counts.  Of a button that is down when the task starts   *)
(* the task will see the end only.                                         *)
Init ==
  /\ bounces \in BOOLEAN
  /\ level \in {0, 1} /\ (level = 0 => bounces)
  /\ notified = FALSE
  /\ pc = "wait"
  /\ last_edge = Oldest
  /\ press_start = Oldest
  /\ currently_pressed = FALSE
  /\ steady = Oldest
  /\ late = 0
  /\ held = 0
  /\ owed = FALSE
  /\ quiet = DEBOUNCE + DEBOUNCE

-----------------------------------------------------------------------------
(* What the time so far becomes for a button that goes down after a gap.   *)
HeldAfter(gap) ==
  IF gap >= DEBOUNCE THEN 0 ELSE IF held + gap < Oldest THEN held + gap ELSE Oldest

(* The pin changes and button_isr_handler gives the notification.  A pin   *)
(* that does not bounce keeps each level for the debounce time and the     *)
(* task's latency.                                                         *)
Edge ==
  /\ bounces \/ steady >= DEBOUNCE + MaxLatency
  /\ level' = 1 - level
  /\ notified' = TRUE
  /\ steady' = 0
  /\ held' = IF level = 0 THEN held ELSE HeldAfter(steady)
  /\ owed' = (owed \/ level = 0)
  /\ UNCHANGED <<taskVars, bounces, late, quiet>>

TakeNotification ==
  /\ pc = "wait"
  /\ notified
  /\ notified' = FALSE
  /\ late' = 0

(* Mutant: the task leaves its loop on a bounce. *)
IgnoreBounceAndEnd ==
  /\ pc = "wait" /\ notified
  /\ last_edge < DEBOUNCE
  /\ notified' = FALSE
  /\ late' = 0
  /\ pc' = "ended"
  /\ UNCHANGED <<level, last_edge, press_start, currently_pressed, bounces, steady, held, owed, quiet>>

(* Mutant: the edge at the end of the window is dropped. *)
IgnoreBounceLonger ==
  /\ TakeNotification
  /\ last_edge <= DEBOUNCE
  /\ UNCHANGED <<level, taskVars, bounces, steady, held, owed, quiet>>

(* Too soon after the last edge that was taken. *)
IgnoreBounce ==
  /\ TakeNotification
  /\ last_edge < DEBOUNCE
  /\ UNCHANGED <<level, taskVars, bounces, steady, held, owed, quiet>>

(* Mutant: every edge counts. *)
TakeAnyEdge ==
  /\ TakeNotification
  /\ pc' = "read"
  /\ last_edge' = 0
  /\ UNCHANGED <<level, press_start, currently_pressed, bounces, steady, held, owed, quiet>>

TakeEdge ==
  /\ TakeNotification
  /\ last_edge >= DEBOUNCE
  /\ pc' = "read"
  /\ last_edge' = 0
  /\ UNCHANGED <<level, press_start, currently_pressed, bounces, steady, held, owed, quiet>>

ReadLevel ==
  /\ pc = "read"
  /\ pc' = "wait"
  /\ UNCHANGED <<level, notified, last_edge, bounces, steady, late>>

(* Mutant: the hold is measured from an earlier press. *)
PressStartsUntimed ==
  /\ ReadLevel
  /\ level = 0 /\ ~currently_pressed
  /\ currently_pressed' = TRUE
  /\ UNCHANGED <<press_start, held, owed, quiet>>

PressStarts ==
  /\ ReadLevel
  /\ level = 0 /\ ~currently_pressed
  /\ currently_pressed' = TRUE
  /\ press_start' = 0
  /\ UNCHANGED <<held, owed, quiet>>

(* Posts BUTTON_LONG_PRESS or BUTTON_SHORT_PRESS. *)
Report(long) ==
  /\ ReadLevel
  /\ level = 1 /\ currently_pressed
  /\ long <=> press_start >= LONG_PRESS
  /\ currently_pressed' = FALSE
  /\ owed' = FALSE
  /\ quiet' = 0
  /\ UNCHANGED <<press_start, held>>

NothingNew ==
  /\ ReadLevel
  /\ (level = 0) <=> currently_pressed
  /\ UNCHANGED <<press_start, currently_pressed, held, owed, quiet>>

Tick ==
  /\ pc = "wait"
  /\ notified => late < MaxLatency
  /\ late' = IF notified THEN late + 1 ELSE late
  /\ last_edge' = Older(last_edge)
  /\ press_start' = Older(press_start)
  /\ steady' = Older(steady)
  /\ quiet' = Older(quiet)
  /\ held' = IF level = 0 THEN Older(held) ELSE held
  /\ UNCHANGED <<level, notified, pc, currently_pressed, bounces, owed>>

Next ==
  \/ Edge
  \/ IgnoreBounce
  \/ TakeEdge
  \/ PressStarts
  \/ \E long \in BOOLEAN : Report(long)
  \/ NothingNew
  \/ Tick

Spec == Init /\ [][Next]_vars

-----------------------------------------------------------------------------
(* Every variable has its type. *)
TypeOK ==
  /\ level \in {0, 1}
  /\ notified \in BOOLEAN
  /\ pc \in {"wait", "read"}
  /\ {last_edge, press_start, steady, held, quiet} \subseteq Ages
  /\ currently_pressed \in BOOLEAN
  /\ bounces \in BOOLEAN
  /\ late \in 0 .. MaxLatency
  /\ owed \in BOOLEAN

(* The reports as the main task sees them. *)
Reports == INSTANCE PressReports WITH
  ShortPressGap <- DEBOUNCE + DEBOUNCE,
  LongPressGap <- DEBOUNCE + LONG_PRESS,
  quiet <- IF quiet < DEBOUNCE + LONG_PRESS THEN quiet ELSE DEBOUNCE + LONG_PRESS

(* However the contact bounces, two reports are two taken edges apart, a   *)
(* long press is its hold longer still, and the first ones come no sooner  *)
(* after the start: the rate at which Runtime lets button_task post.  Each *)
(* report is a report there too: none hides in the tick of another.        *)
ImplementsReports ==
  /\ Reports!Spec
  /\ [][\A long \in BOOLEAN : Report(long) => Reports!Report(long)]_vars

(* On a pin that does not bounce, the task at rest is in step with the pin *)
(* and owes no report: no press is missed, however late the wake-ups.      *)
TaskInStep ==
  pc = "wait" /\ ~notified /\ ~bounces => ~owed /\ (currently_pressed <=> level = 0)

(* ... and what it reports is how long the button was held, to within the  *)
(* latency of its two wake-ups.                                            *)
ReportsTheHold ==
  [][ ~bounces =>
        /\ Report(TRUE) => held + MaxLatency >= LONG_PRESS
        /\ Report(FALSE) => held < LONG_PRESS + MaxLatency ]_vars

-----------------------------------------------------------------------------
(* The parts of the inductive invariant behind them. *)

(* At a taken edge the last report and the press that is on are a debounce *)
(* time old, and a press began that long after the last report.            *)
EdgesAreSpaced ==
  /\ quiet >= last_edge \/ quiet >= DEBOUNCE
  /\ pc = "read" => last_edge = 0 /\ quiet >= DEBOUNCE
  /\ currently_pressed =>
       /\ quiet >= press_start + DEBOUNCE \/ quiet = Oldest
       /\ press_start >= IF pc = "read" THEN DEBOUNCE ELSE last_edge

AtRest == pc = "wait" /\ ~notified

(* An edge of a pin that does not bounce is taken before the next one, and *)
(* until then the task lags behind the pin by this one edge.               *)
EdgeIsTaken ==
  /\ ~notified => late = 0
  /\ pc = "read" => ~notified /\ steady <= MaxLatency
  /\ notified => late = steady /\ last_edge >= DEBOUNCE
  /\ AtRest => last_edge + MaxLatency >= steady
  /\ ~AtRest => (owed <=> level = 1) /\ (currently_pressed <=> level = 1)

(* The task measures the hold from wake-up to wake-up.  Every gap of such  *)
(* a pin is longer than a bounce.                                          *)
HoldIsMeasured ==
  /\ level = 0 => held = steady
  /\ currently_pressed =>
       IF AtRest THEN press_start <= steady /\ steady <= press_start + MaxLatency
                 ELSE press_start <= held + steady /\ held <= press_start + MaxLatency

ButtonInv ==
  /\ TypeOK
  /\ EdgesAreSpaced
  /\ ~bounces => EdgeIsTaken /\ TaskInStep /\ HoldIsMeasured

-----------------------------------------------------------------------------
(* button.cpp:68 "genuine release - now we know the full hold duration": a *)
(* long press is reported only for a button that was held that long, the   *)
(* bounces of its contact included.                                        *)
LongPressWasHeld == [][ Report(TRUE) => held + MaxLatency >= LONG_PRESS ]_vars
=============================================================================
