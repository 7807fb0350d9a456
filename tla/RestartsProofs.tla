--------------------------- MODULE RestartsProofs ---------------------------
(***************************************************************************)
(* Proofs about Restarts: the loop's safety properties hold over resets of *)
(* any reason at any moment, and the crash count is right after them.      *)
(***************************************************************************)
EXTENDS Restarts, RuntimeProofs

-----------------------------------------------------------------------------
(* A reset puts the node back where it began. *)
LEMMA RebootIsInit == Reboot => Init'
  BY DEF Reboot, Restart, Init, SMInit, WatchdogInit

(* Every step of the node over its resets is one of Runtime's or a reset.  *)
LEMMA StepRunsOrReboots == [RestartsNext]_allVars => [Next]_vars \/ Reboot
<1> SUFFICES ASSUME [RestartsNext]_allVars PROVE [Next]_vars \/ Reboot
  OBVIOUS
<1>1. CASE Runs
  BY <1>1 DEF Runs, Next
<1>2. CASE WatchdogCrash \/ Panics \/ PowerReturns
  BY <1>2 DEF WatchdogCrash, WatchdogFires, Panics, PowerReturns, Outage
<1>3. CASE UNCHANGED allVars
  BY <1>3 DEF allVars
<1>4. QED
  BY <1>1, <1>2, <1>3 DEF RestartsNext

LEMMA NodeHolds == RestartsSpec => []NodeInv
<1>1. RestartsInit => NodeInv
  BY NodeInit DEF RestartsInit
<1>2. Init' => NodeInv'
  BY NodeInit, PTL
<1>3. NodeInv /\ [RestartsNext]_allVars => NodeInv'
  BY <1>2, NodeNext, RebootIsInit, StepRunsOrReboots
<1>4. QED
  BY <1>1, <1>3, PTL DEF RestartsSpec

(* Over panics, losses of power and resets by the watchdog, whenever they  *)
(* come: the fault count fits the state, BOOT, INIT and ACTIVE are on      *)
(* their way out, and one sample is judged at a time.                      *)
THEOREM LoopSurvivesResets ==
  RestartsSpec => [](FaultCountFitsState /\ ActiveWillEnd /\ BootWillEnd /\ SampleSeenBeforeNext)
<1>1. NodeInv => FaultCountFitsState /\ ActiveWillEnd /\ BootWillEnd /\ SampleSeenBeforeNext
  BY NoSampleWaits DEF NodeInv, MachineInv, LoopInv, SampleSeenBeforeNext
<1>2. QED
  BY <1>1, NodeHolds, PTL

(* Within the timing budget the loop after every one of these starts keeps *)
(* the watchdog fed.                                                       *)
THEOREM FedOverResets ==
  ASSUME SAMPLE_PERIOD + MaxSensorBlock + MaxPublishBlock < WdtTimeout
  PROVE  RestartsSpec => []WatchdogFed
<1>1. NodeInv => TimingInv
  BY DEF NodeInv, LoopInv, TypeOK, TimingInv
<1>2. TimingInv => WatchdogFed
  BY LoopBudget
<1>3. QED
  BY <1>1, <1>2, NodeHolds, PTL

(* The node's own rules of escalation hold over every step of a life with  *)
(* resets: SAFE_MODE is earned since the last reset, and a node whose      *)
(* sensor did not answer at boot does not come back by itself.             *)
THEOREM EscalationSurvivesResets == RestartsSpec => SafeModeIsEarned /\ DeadStaysDown
<1>1. NodeInv /\ [RestartsNext]_allVars =>
        [ current_state # "SAFE_MODE" /\ current_state' = "SAFE_MODE" =>
            event = "BUTTON_LONG_PRESS" \/ misses >= MAX_FAULTS \/ "SENSOR_READY" \in lost ]_vars
  BY SafeModeStep, StepRunsOrReboots DEF Reboot, Restart
<1>2. NodeInv /\ [RestartsNext]_allVars =>
        [ ~initialized /\ current_state \in {"FAULT", "SAFE_MODE"} =>
            \/ current_state' \in {"FAULT", "SAFE_MODE", "BOOT"}
            \/ event = "BUTTON_SHORT_PRESS" ]_vars
  BY DeadStep, StepRunsOrReboots DEF Reboot, Restart
<1>3. QED
  BY <1>1, <1>2, NodeHolds, PTL DEF RestartsSpec, SafeModeIsEarned, DeadStaysDown

-----------------------------------------------------------------------------
(* The count. *)

BootTypeOK ==
  /\ boot_magic \in Magics
  /\ boot_fail_count \in 0 .. MaxCount
  /\ crashes \in 0 .. MaxCount
  /\ outages \in 0 .. MaxOutages

(* Memory that does not hold the magic number has seen no crash since. *)
CountInv ==
  /\ BootTypeOK
  /\ CountIsCrashes
  /\ boot_magic = "garbage" => crashes = 0

LEMMA CountedInRange == \A n \in 0 .. MaxCount : Counted(n) \in 0 .. MaxCount
  BY RestartsAssumption DEF RestartsAssumption, Counted

LEMMA CrashIsCounted ==
  ASSUME CountInv, Crash
  PROVE  /\ boot_magic' = "BOOT_MAGIC"
         /\ boot_fail_count' = crashes'
         /\ crashes' \in 0 .. MaxCount
<1>1. (IF boot_magic = "BOOT_MAGIC" THEN boot_fail_count ELSE 0) = crashes
  BY DEF CountInv, CountIsCrashes, BootTypeOK, Magics
<1>2. crashes \in 0 .. MaxCount
  BY DEF CountInv, BootTypeOK
<1>3. QED
  BY <1>1, <1>2, CountedInRange DEF Crash, LogCrash

LEMMA CountNext == ASSUME CountInv, [RestartsNext]_allVars PROVE CountInv'
<1>1. MaxOutages \in Nat /\ MaxCount \in Nat /\ outages \in 0 .. MaxOutages
  BY RestartsAssumption DEF RestartsAssumption, CountInv, BootTypeOK
<1>2. ASSUME Crash, outages' \in 0 .. MaxOutages PROVE CountInv'
  BY <1>2, CrashIsCounted DEF CountInv, CountIsCrashes, BootTypeOK, Magics
<1>3. ASSUME Outage PROVE outages' \in 0 .. MaxOutages
  BY <1>1, <1>3 DEF Outage
<1>4. CASE WatchdogCrash
  BY <1>1, <1>2, <1>4 DEF WatchdogCrash
<1>5. CASE Panics
  BY <1>2, <1>3, <1>5 DEF Panics
<1>6. CASE PowerReturns
  <2>1. outages' \in 0 .. MaxOutages
    BY <1>3, <1>6 DEF PowerReturns
  <2>2. CASE /\ LogPowerOn(boot_magic, boot_fail_count) \/ LogOther(boot_magic, boot_fail_count)
             /\ UNCHANGED crashes
    BY <1>1, <2>1, <2>2
    DEF CountInv, CountIsCrashes, BootTypeOK, Magics, LogPowerOn, LogOther
  <2>3. CASE /\ \E n \in 0 .. MaxCount : LogPowerOn("garbage", n) \/ LogOther("garbage", n)
             /\ crashes' = 0
    BY <1>1, <2>1, <2>3
    DEF CountInv, CountIsCrashes, BootTypeOK, Magics, LogPowerOn, LogOther
  <2>4. QED
    BY <1>6, <2>2, <2>3 DEF PowerReturns
<1>7. CASE Runs
  BY <1>7 DEF Runs, bootVars, CountInv, CountIsCrashes, BootTypeOK
<1>8. CASE UNCHANGED allVars
  BY <1>8 DEF allVars, bootVars, CountInv, CountIsCrashes, BootTypeOK
<1>9. QED
  BY <1>4, <1>5, <1>6, <1>7, <1>8 DEF RestartsNext

LEMMA CountHolds == RestartsSpec => []CountInv
<1>1. RestartsInit => CountInv
  BY RestartsAssumption
  DEF RestartsAssumption, RestartsInit, CountInv, CountIsCrashes, BootTypeOK, Magics
<1>2. CountInv /\ [RestartsNext]_allVars => CountInv'
  BY CountNext
<1>3. QED
  BY <1>1, <1>2, PTL DEF RestartsSpec

(* Every variable of the node and of its boot memory keeps its type over   *)
(* resets of any reason at any moment.                                     *)
THEOREM RestartsTypeCorrect == RestartsSpec => []RestartsTypeOK
<1>1. NodeInv /\ CountInv => RestartsTypeOK
  BY DEF NodeInv, LoopInv, CountInv, BootTypeOK, RestartsTypeOK
<1>2. QED
  BY <1>1, NodeHolds, CountHolds, PTL

(* Where the memory holds the magic number, boot_fail_count is the number  *)
(* of crashes since that memory last lost its content, whatever it held    *)
(* then and whatever resets came between.                                  *)
THEOREM CrashesAreCounted == RestartsSpec => []CountIsCrashes
<1>1. CountInv => CountIsCrashes
  BY DEF CountInv
<1>2. QED
  BY <1>1, CountHolds, PTL
=============================================================================
