------------------------------ MODULE Runtime -------------------------------
(***************************************************************************)
(* core/runtime.cpp: the main task brings the services up one after the    *)
(* other and then loops for ever, sampling the sensor (app/sensor.cpp)     *)
(* once in SAMPLE_PERIOD turns, feeding at most one event a turn to the    *)
(* state machine, and kicking the watchdog when the machine's state allows *)
(* it.  button_task (app/button.cpp) posts its events meanwhile.           *)
(*                                                                         *)
(* A tick is what vTaskDelay(pdMS_TO_TICKS(10)) waits for.  Time passes    *)
(* while the main task is blocked: in sensor_init, in wifi_manager_init,   *)
(* in bmp280_read_float, in esp_mqtt_client_publish and in that delay.     *)
(* sensor_init has no bound: bmp280_init polls the sensor's status until   *)
(* it answers.                                                             *)
(* The code between is taken to last no time, but button_task runs between *)
(* any two steps of it.                                                    *)
(***************************************************************************)
EXTENDS StateMachine, Watchdog

CONSTANTS
  SAMPLE_PERIOD,   \* turns of the loop between two samples
  MaxSensorBlock,  \* ticks a read lasts with the driver's retries, at most
  MaxPublishBlock, \* ticks a publish waits for the client or its socket, at most
  MaxWifiWait,     \* ticks wifi_manager_init waits for a connection
  ShortPressGap,   \* ticks from one button event to a short press, at least
  LongPressGap     \* ... and to a long press

ASSUME RuntimeAssumption ==
  /\ SAMPLE_PERIOD \in Nat \ {0, 1}
  /\ Capacity <= SAMPLE_PERIOD
  /\ MaxWifiWait \in Nat /\ MaxSensorBlock \in Nat /\ MaxPublishBlock \in Nat
  /\ ShortPressGap \in Nat /\ LongPressGap \in Nat
  /\ ShortPressGap <= LongPressGap

VARIABLES
  pc,           \* where the main task is in runtime_start
  counter,      \* turns since the last sample
  initialized,  \* sensor.cpp: the sensor answered at boot
  spent,        \* ticks of the bounded call the main task is blocked in
  quiet,        \* ticks since button_task last posted, up to LongPressGap
  misses        \* history: failed samples since the last good one, up to MAX_FAULTS

mainVars == <<pc, counter, initialized, spent, misses>>
vars == <<smVars, wdt, mainVars, quiet>>

(* What Button promises of the reports of button_task. *)
Presses == INSTANCE PressReports

Goto(from, to) == pc = from /\ pc' = to

(* The longest the main task stays blocked where it is, sensor_init apart. *)
MaxBlock ==
  CASE pc = "wifi_init" -> MaxWifiWait
    [] pc = "reading" -> MaxSensorBlock
    [] pc = "publishing" -> MaxPublishBlock
    [] pc = "delay" -> 1
    [] OTHER -> 0

Init ==
  /\ SMInit
  /\ WatchdogInit
  /\ pc = "sensor_init"
  /\ counter = 0
  /\ initialized = FALSE
  /\ spent = 0
  /\ quiet = 0
  /\ misses = 0

-----------------------------------------------------------------------------
(* runtime_start up to the loop *)

SensorInit ==
  /\ Goto("sensor_init", "wifi_init")
  /\ initialized' \in BOOLEAN
  /\ spent' = 0
  /\ quiet' = ShortPressGap
  /\ UNCHANGED <<smVars, wdt, counter, misses>>

(* Returns on a connection, on a failure or when its wait is over; the     *)
(* node goes on in each case.                                              *)
WifiManagerInit ==
  /\ Goto("wifi_init", "post_boot")
  /\ spent' = 0
  /\ UNCHANGED <<smVars, wdt, counter, initialized, misses, quiet>>

PostBoot ==
  /\ Goto("post_boot", "post_init_done")
  /\ Arrive("EVT_BOOT")
  /\ UNCHANGED <<wdt, counter, initialized, spent, misses, quiet>>

(* Mutant: the second event of the start-up is not posted. *)
PostInitDoneForgotten ==
  /\ Goto("post_init_done", "top")
  /\ UNCHANGED <<smVars, wdt, counter, initialized, spent, misses, quiet>>

PostInitDone ==
  /\ Goto("post_init_done", "top")
  /\ Arrive("INIT_DONE")
  /\ UNCHANGED <<wdt, counter, initialized, spent, misses, quiet>>

-----------------------------------------------------------------------------
(* One turn of the loop *)

SampleDue == counter + 1 >= SAMPLE_PERIOD

CountTurn ==
  /\ Goto("top", "get")
  /\ ~SampleDue
  /\ counter' = counter + 1
  /\ UNCHANGED <<smVars, wdt, initialized, spent, misses, quiet>>

(* Mutant: the counter is not reset, and every turn samples. *)
StartSampleWithoutReset ==
  /\ Goto("top", "reading")
  /\ SampleDue
  /\ UNCHANGED <<smVars, wdt, counter, initialized, spent, misses, quiet>>

StartSample ==
  /\ Goto("top", "reading")
  /\ SampleDue
  /\ counter' = 0
  /\ UNCHANGED <<smVars, wdt, initialized, spent, misses, quiet>>

ReadSucceeds ==
  /\ Goto("reading", "publishing")
  /\ initialized
  /\ WatchdogKick
  /\ Arrive("SENSOR_READY")
  /\ spent' = 0
  /\ misses' = 0
  /\ UNCHANGED <<counter, initialized, quiet>>

(* Mutant: the watchdog is kicked for a good reading only. *)
ReadFailsWithoutKick ==
  /\ Goto("reading", "publishing")
  /\ initialized \/ spent = 0
  /\ Arrive("SENSOR_TIMEOUT")
  /\ spent' = 0
  /\ misses' = IF misses < MAX_FAULTS THEN misses + 1 ELSE misses
  /\ UNCHANGED <<wdt, counter, initialized, quiet>>

(* sensor_read gives up at once, and without the kick, on a sensor that    *)
(* did not answer at boot.                                                 *)
ReadFails ==
  /\ Goto("reading", "publishing")
  /\ IF initialized THEN WatchdogKick ELSE spent = 0 /\ wdt' = wdt
  /\ Arrive("SENSOR_TIMEOUT")
  /\ spent' = 0
  /\ misses' = IF misses < MAX_FAULTS THEN misses + 1 ELSE misses
  /\ UNCHANGED <<counter, initialized, quiet>>

(* mqtt_publish_telemetry or mqtt_publish_fault.  It returns at once when  *)
(* the client is offline, and may wait for its lock and its socket when it *)
(* was online a moment ago.                                                *)
Publish ==
  /\ Goto("publishing", "get")
  /\ spent' = 0
  /\ UNCHANGED <<smVars, wdt, counter, initialized, misses, quiet>>

TakeEvent ==
  /\ Goto("get", "handle")
  /\ EventGet
  /\ UNCHANGED <<wdt, counter, initialized, spent, misses, quiet>>

NoEvent ==
  /\ Goto("get", "kick")
  /\ chan = <<>>
  /\ UNCHANGED <<smVars, wdt, counter, initialized, spent, misses, quiet>>

Handle ==
  /\ Goto("handle", "kick")
  /\ HandleEvent
  /\ UNCHANGED <<wdt, counter, initialized, spent, misses, quiet>>

ShouldKickWdt == current_state \in {"BOOT", "INIT", "IDLE", "ACTIVE"}

(* Mutant: every state kicks. *)
KickAlways ==
  /\ Goto("kick", "delay")
  /\ WatchdogKick
  /\ UNCHANGED <<smVars, counter, initialized, spent, misses, quiet>>

KickOrNot ==
  /\ Goto("kick", "delay")
  /\ IF ShouldKickWdt THEN WatchdogKick ELSE wdt' = wdt
  /\ UNCHANGED <<smVars, counter, initialized, spent, misses, quiet>>

DelayOver ==
  /\ Goto("delay", "top")
  /\ spent = 1
  /\ spent' = 0
  /\ UNCHANGED <<smVars, wdt, counter, initialized, misses, quiet>>

MainStep ==
  \/ SensorInit \/ WifiManagerInit \/ PostBoot \/ PostInitDone
  \/ CountTurn \/ StartSample \/ ReadSucceeds \/ ReadFails
  \/ Publish \/ TakeEvent \/ NoEvent \/ Handle \/ KickOrNot \/ DelayOver

-----------------------------------------------------------------------------
(* The other actors *)

(* button_task reports a press; it exists from button_init on.             *)
ButtonPress(e) ==
  /\ pc # "sensor_init"
  /\ Presses!Report(e = "BUTTON_LONG_PRESS")
  /\ Arrive(e)
  /\ UNCHANGED <<wdt, mainVars>>

(* A tick passes; the watchdog's interrupt, if due, comes first. *)
Tick ==
  /\ ~Starved
  /\ IF pc = "sensor_init" THEN spent' = spent
                           ELSE spent < MaxBlock /\ spent' = spent + 1
  /\ pc = "reading" => initialized
  /\ wdt' = wdt + 1
  /\ Presses!Pass
  /\ UNCHANGED <<smVars, pc, counter, initialized, misses>>

(* The chip resets: the tasks and their memory start over. *)
Reboot ==
  /\ Restart
  /\ wdt' = 0
  /\ pc' = "sensor_init"
  /\ counter' = 0
  /\ initialized' = FALSE
  /\ spent' = 0
  /\ quiet' = 0
  /\ misses' = 0

WatchdogWarns ==
  /\ wdt' = 0
  /\ UNCHANGED <<smVars, mainVars, quiet>>

(* The watchdog has not been reset in time: it panics and the chip resets, *)
(* or it complains and starts over.                                        *)
WatchdogFires ==
  /\ Starved
  /\ IF WdtPanics THEN Reboot ELSE WatchdogWarns

Next ==
  \/ MainStep
  \/ \E e \in ButtonEvents : ButtonPress(e)
  \/ Tick
  \/ WatchdogFires

Spec == Init /\ [][Next]_vars

(* The scheduler runs the main task whenever it is ready, and every        *)
(* blocking call it makes returns, except that sensor_init need not: when  *)
(* it does is Sensor's InitReturns.  Nobody has to press the button.       *)
MainProceeds == MainStep /\ pc # "sensor_init"

Fairness ==
  /\ WF_vars(MainProceeds)
  /\ WF_vars(Tick)
  /\ WF_vars(WatchdogFires)

FairSpec == Spec /\ Fairness

-----------------------------------------------------------------------------
Points ==
  {"sensor_init", "wifi_init", "post_boot", "post_init_done",
   "top", "reading", "publishing", "get", "handle", "kick", "delay"}

LoopTypeOK ==
  /\ WdtTypeOK
  /\ pc \in Points
  /\ counter \in 0 .. SAMPLE_PERIOD - 1
  /\ initialized \in BOOLEAN
  /\ spent \in 0 .. MaxBlock
  /\ quiet \in 0 .. LongPressGap
  /\ misses \in 0 .. MAX_FAULTS

(* Every variable has its type. *)
TypeOK == SMTypeOK /\ LoopTypeOK

(* No sample is taken while the outcome of an earlier one still waits: the *)
(* loop feeds one event a turn, and a queue filled by the button during a  *)
(* slow read drains before the next one.                                   *)
SampleSeenBeforeNext ==
  pc = "reading" =>
    event \notin SensorEvents /\ \A i \in 1 .. Len(chan) : chan[i] \notin SensorEvents

(* README.md:11 "3 consecutive sensor failures trigger SAFE_MODE": the     *)
(* node never enters SAFE_MODE for less, unless the user asked for it with *)
(* a long press or a good sample's event was refused by a full queue.      *)
SafeModeIsEarned ==
  [][ current_state # "SAFE_MODE" /\ current_state' = "SAFE_MODE" =>
        event = "BUTTON_LONG_PRESS" \/ misses >= MAX_FAULTS \/ "SENSOR_READY" \in lost ]_vars

(* sensor.cpp:73 "kick after potentially blocking I2C call": once the loop *)
(* runs, a node whose sensor answered at boot never starves the watchdog,  *)
(* whatever state it is in and however long the calls block, if the        *)
(* timeout exceeds a period, a read and a publish.                         *)
WatchdogFed == pc \in {"reading", "publishing", "delay"} /\ initialized => ~Starved

-----------------------------------------------------------------------------
(* The parts of the inductive invariant behind the safety properties.      *)

(* The loop handles an event right after it has taken it. *)
EventInHand == event # "none" <=> pc = "handle"

StartingUp == pc \in {"sensor_init", "wifi_init", "post_boot", "post_init_done"}

(* Nothing is handled before the loop, and a sample restarts the count. *)
LoopPosition ==
  /\ StartingUp => current_state = "BOOT"
  /\ StartingUp \/ pc = "reading" => counter = 0

Queued(e) == \E i \in 1 .. Len(chan) : chan[i] = e
Outstanding(e) == event = e \/ Queued(e)

(* The events the loop still takes before it posts the next sample's. *)
TurnsLeft ==
  CASE pc = "reading" -> 0
    [] pc \in {"publishing", "get"} -> SAMPLE_PERIOD - counter
    [] OTHER -> SAMPLE_PERIOD - 1 - counter

(* A sample's event is near enough to the front of the queue to be taken   *)
(* before the next one's is posted, and it is the only one.                *)
SampleIsNear ==
  /\ \A i \in 1 .. Len(chan) : chan[i] \in SensorEvents => i <= TurnsLeft
  /\ \A i, j \in 1 .. Len(chan) : chan[i] \in SensorEvents /\ chan[j] \in SensorEvents => i = j
  /\ event \in SensorEvents => \A i \in 1 .. Len(chan) : chan[i] \notin SensorEvents

(* Every fault counted, and the one under way, is a failed sample since    *)
(* the last good one.                                                      *)
FaultsAreMisses ==
  /\ Outstanding("SENSOR_TIMEOUT") => misses >= 1
  /\ current_state # "SAFE_MODE" /\ "SENSOR_READY" \notin lost =>
       \/ Outstanding("SENSOR_READY")
       \/ fault_count + (IF Outstanding("SENSOR_TIMEOUT") THEN 1 ELSE 0) <= misses

(* How long ago the last kick can be, at each point of the loop. *)
KickedInTime ==
  initialized =>
    /\ pc = "top" =>
         \/ wdt <= MaxPublishBlock + counter + 1
         \/ current_state = "BOOT" /\ counter = 0
    /\ pc \in {"get", "handle"} =>
         \/ wdt <= MaxPublishBlock + counter
         \/ current_state = "BOOT" /\ counter <= 1
    /\ pc = "kick" => wdt <= MaxPublishBlock + counter \/ current_state \in {"BOOT", "INIT"}
    /\ pc = "delay" => wdt <= MaxPublishBlock + counter + spent
    /\ pc = "reading" => wdt <= MaxPublishBlock + SAMPLE_PERIOD + spent
    /\ pc = "publishing" => wdt <= spent

(* INIT_DONE never comes to a node that is still in BOOT: EVT_BOOT is       *)
(* before it, in hand or in the queue, unless one of the two was refused.  *)
BootInOrder ==
  current_state = "BOOT" /\ BootEvents \intersect lost = {} =>
    /\ event # "INIT_DONE"
    /\ \A i \in 1 .. Len(chan) : chan[i] = "INIT_DONE" =>
         event = "EVT_BOOT" \/ \E j \in 1 .. i - 1 : chan[j] = "EVT_BOOT"

(* No event of the start-up is refused before it is posted. *)
BootUnposted ==
  /\ pc \in {"sensor_init", "wifi_init", "post_boot"} => "EVT_BOOT" \notin lost
  /\ StartingUp => "INIT_DONE" \notin lost

(* What takes the node out of BOOT and out of INIT is still to be posted,  *)
(* or queued, or in hand, unless the queue refused one of the two events.  *)
BootWillEnd ==
  BootEvents \intersect lost = {} =>
    /\ current_state = "BOOT" =>
         pc \in {"sensor_init", "wifi_init", "post_boot"} \/ Outstanding("EVT_BOOT")
    /\ current_state \in {"BOOT", "INIT"} => StartingUp \/ Outstanding("INIT_DONE")

(* A sensor that did not answer at boot has never delivered a sample. *)
DeadIsSilent ==
  /\ pc = "sensor_init" => ~initialized
  /\ ~initialized => ~Outstanding("SENSOR_READY") /\ current_state # "ACTIVE"

LoopInv ==
  /\ TypeOK
  /\ FaultCountFitsState
  /\ EventInHand
  /\ LoopPosition
  /\ SampleIsNear
  /\ FaultsAreMisses
  /\ KickedInTime
  /\ BootInOrder
  /\ BootUnposted
  /\ BootWillEnd
  /\ DeadIsSilent

(* sensor.cpp:65 `if (!initialized)': a node whose sensor did not answer   *)
(* at boot does not come back from FAULT or SAFE_MODE by itself: a short   *)
(* press or a reset gets it out, and nothing else.                         *)
DeadStaysDown ==
  [][ ~initialized /\ current_state \in {"FAULT", "SAFE_MODE"} =>
        \/ current_state' \in {"FAULT", "SAFE_MODE", "BOOT"}
        \/ event = "BUTTON_SHORT_PRESS" ]_vars

-----------------------------------------------------------------------------
(* core/runtime.cpp:51-52 posts the two events that take the node out of   *)
(* BOOT and INIT: once sensor_init has returned it gets out, unless a full *)
(* queue refused one of them.                                              *)
BootCompletes ==
  pc = "wifi_init" ~> \/ current_state \notin {"BOOT", "INIT"}
                      \/ BootEvents \intersect lost # {}

(* A sensor that did not answer at boot is never tried again: the node     *)
(* ends in SAFE_MODE, for the user to see, and does not sit in IDLE.       *)
DeadSensorEscalates ==
  current_state = "IDLE" /\ ~initialized ~> current_state = "SAFE_MODE"

(* README.md:24 "If the system can't recover within the watchdog window,   *)
(* the hardware forces a reboot": with the settings of watchdog_init, and  *)
(* for a sensor that never answered, a node in FAULT or SAFE_MODE comes    *)
(* back to IDLE or to BOOT.                                                *)
DeadNodeResets ==
  current_state \in {"FAULT", "SAFE_MODE"} /\ ~initialized
    ~> current_state \notin {"FAULT", "SAFE_MODE"}

(* The machine is a StateMachine that the tasks feed. *)
IsStateMachine == SMSpec

-----------------------------------------------------------------------------
(* What the documentation and the comments say, and the code does not do.  *)

(* README.md:24 "The watchdog is intentionally NOT kicked while in FAULT   *)
(* or SAFE_MODE": no step of the main task resets it there.                *)
NotKickedWhenFaulty ==
  [][ MainStep /\ current_state \in {"FAULT", "SAFE_MODE"} => wdt' >= wdt ]_vars

(* core/runtime.cpp:52 "signal INIT complete": the signal gets through, and *)
(* takes a node that has got to its loop out of INIT.                      *)
InitIsSignalled == pc = "top" ~> current_state \notin {"BOOT", "INIT"}
=============================================================================
