---------------------------- MODULE PressReports ----------------------------
(***************************************************************************)
(* What the main task may count on of button_task (app/button.cpp): how    *)
(* close its reports can come.  Button, which has the edges of the pin,    *)
(* implements it; Runtime lets button_task post as it allows.              *)
(***************************************************************************)
EXTENDS Naturals

CONSTANTS
  ShortPressGap,   \* ticks from one report to a short press, at least
  LongPressGap     \* ... and to a long press

VARIABLE quiet     \* ticks since the last report, up to LongPressGap

(* The task starts with the pin released and a short press away from its   *)
(* first report at most.                                                   *)
Begin == quiet = ShortPressGap

Report(long) ==
  /\ quiet >= IF long THEN LongPressGap ELSE ShortPressGap
  /\ quiet' = 0

Pass == quiet' = IF quiet < LongPressGap THEN quiet + 1 ELSE quiet

Spec == Begin /\ [][Pass \/ \E long \in BOOLEAN : Report(long)]_quiet
=============================================================================
