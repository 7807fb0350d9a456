------------------------------ MODULE Restarts ------------------------------
(***************************************************************************)
(* core/boot.cpp: the node over its resets.  app_main logs the reason of   *)
(* the reset before it starts the runtime, and counts crashes in memory    *)
(* that a reset does not clear.  The resets are those of the watchdog and  *)
(* those that come from outside of Runtime: a panic of the code, a loss of *)
(* power, a brown-out.                                                     *)
(***************************************************************************)
EXTENDS Runtime

CONSTANTS
  MaxCount,    \* crashes counted; what is above cannot be told apart
  MaxOutages   \* resets from outside that a behaviour has, at most

ASSUME RestartsAssumption ==
  /\ MaxCount \in Nat /\ MaxCount >= 3
  /\ MaxOutages \in Nat

VARIABLES
  boot_magic,       \* BOOT_MAGIC, or what the memory held at power-on
  boot_fail_count,
  crashes,          \* history: crashes since that memory last lost its content
  outages

bootVars == <<boot_magic, boot_fail_count, crashes>>
allVars == <<vars, bootVars, outages>>

Magics == {"BOOT_MAGIC", "garbage"}
Counted(n) == IF n < MaxCount THEN n + 1 ELSE n

-----------------------------------------------------------------------------
(* boot_log_reset_reason, with what the memory holds after the reset.      *)

(* Mutant: the count is not started from zero. *)
LogCrashFromAnyCount(magic, count) ==
  /\ boot_magic' = "BOOT_MAGIC"
  /\ boot_fail_count' = Counted(count)

(* Mutant: every crash is the first. *)
LogCrashAfresh(magic, count) ==
  /\ boot_magic' = "BOOT_MAGIC"
  /\ boot_fail_count' = Counted(0)

(* ESP_RST_TASK_WDT or ESP_RST_PANIC *)
LogCrash(magic, count) ==
  /\ boot_magic' = "BOOT_MAGIC"
  /\ boot_fail_count' = Counted(IF magic = "BOOT_MAGIC" THEN count ELSE 0)

(* ESP_RST_POWERON *)
LogPowerOn(magic, count) ==
  /\ boot_magic' = "BOOT_MAGIC"
  /\ boot_fail_count' = IF magic = "BOOT_MAGIC" THEN count ELSE 0

(* Any other reason leaves the memory as it is. *)
LogOther(magic, count) ==
  /\ boot_magic' = magic
  /\ boot_fail_count' = count

-----------------------------------------------------------------------------
(* The node has been powered on for the first time. *)
RestartsInit ==
  /\ Init
  /\ boot_magic = "BOOT_MAGIC"
  /\ boot_fail_count = 0
  /\ crashes = 0
  /\ outages = 0

Crash ==
  /\ LogCrash(boot_magic, boot_fail_count)
  /\ crashes' = Counted(crashes)

WatchdogCrash ==
  /\ WatchdogFires
  /\ WdtPanics
  /\ Crash
  /\ UNCHANGED outages

Outage ==
  /\ outages < MaxOutages
  /\ outages' = outages + 1
  /\ Reboot

Panics ==
  /\ Outage
  /\ Crash

(* Power was off for so short that the memory kept its content, or it      *)
(* holds anything but the magic number.                                    *)
PowerReturns ==
  /\ Outage
  /\ \/ /\ LogPowerOn(boot_magic, boot_fail_count) \/ LogOther(boot_magic, boot_fail_count)
        /\ UNCHANGED crashes
     \/ /\ \E n \in 0 .. MaxCount : LogPowerOn("garbage", n) \/ LogOther("garbage", n)
        /\ crashes' = 0

Runs ==
  /\ \/ MainStep
     \/ \E e \in ButtonEvents : ButtonPress(e)
     \/ Tick
     \/ WatchdogFires /\ ~WdtPanics
  /\ UNCHANGED <<bootVars, outages>>

RestartsNext == Runs \/ WatchdogCrash \/ Panics \/ PowerReturns

RestartsSpec == RestartsInit /\ [][RestartsNext]_allVars

(* Runtime's fairness; nothing makes the resets from outside happen.       *)
RestartsFairness ==
  /\ WF_allVars(MainProceeds /\ UNCHANGED <<bootVars, outages>>)
  /\ WF_allVars(Tick /\ UNCHANGED <<bootVars, outages>>)
  /\ WF_allVars(WatchdogCrash \/ (WatchdogFires /\ ~WdtPanics /\ UNCHANGED <<bootVars, outages>>))

FairRestartsSpec == RestartsSpec /\ RestartsFairness

-----------------------------------------------------------------------------
(* Every variable has its type. *)
RestartsTypeOK ==
  /\ TypeOK
  /\ boot_magic \in Magics
  /\ boot_fail_count \in 0 .. MaxCount
  /\ crashes \in 0 .. MaxCount
  /\ outages \in 0 .. MaxOutages

(* Whatever resets of whatever reasons follow each other and whatever the  *)
(* memory held: where it holds the magic number, the count is that of the  *)
(* crashes since it last lost its content.                                 *)
CountIsCrashes == boot_magic = "BOOT_MAGIC" => boot_fail_count = crashes

(* boot.cpp:59 "boot_fail_count >= 3": a node whose sensor is gone for     *)
(* good gets there, unless somebody goes on acknowledging its SAFE_MODE,   *)
(* or it never left BOOT or INIT because a boot event was refused.         *)
CrashLoopIsNoticed ==
  <>[](~initialized) =>
    \/ <>(boot_magic = "BOOT_MAGIC" /\ boot_fail_count >= 3)
    \/ []<>(event = "BUTTON_SHORT_PRESS")
    \/ <>[](BootEvents \intersect lost # {})

(* sensor_init and the wait for Wi-Fi come one after the other with no     *)
(* kick, and the first may never return: a node that the watchdog resets   *)
(* again and again before it gets to its loop is a crash loop that the     *)
(* count shows, wherever in the start-up it was cut.                       *)
StartUpLoopIsNoticed ==
  <>[]StartingUp => <>(boot_magic = "BOOT_MAGIC" /\ boot_fail_count >= 3)
=============================================================================
