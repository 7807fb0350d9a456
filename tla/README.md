# A TLA+ model of headless_sensor_node

The node is an ESP32 firmware of some 1400 lines of C++ on ESP-IDF and
FreeRTOS: a main task that samples a BME280 once a second and drives a fault
state machine, a button task, a watchdog, and telemetry over MQTT. This
directory models what decides whether an unattended node recovers: the event
queue between the tasks, the state machine, the loop that feeds it, the
watchdog and the resets it causes, the button, the sensor with the retries of
its drivers, and the way to the broker over Wi-Fi and MQTT.

`tlc -config X.cfg M` checks a model, `tlapm M.tla` checks the proofs of a
`...Proofs` module.

## The system

| part | source | state | operations |
|---|---|---|---|
| event queue | `services/event_queue.cpp` | `queue`, `head`, `tail` | `event_post`, `event_get` |
| state machine | `app/state_machine.cpp` | `current_state`, `fault_count` | `state_machine_handle_event`, `transition_to` with `on_enter` and `on_exit`, `state_machine_should_kick_wdt` |
| runtime loop | `core/runtime.cpp` | `counter` | the start-up sequence, one turn of the loop |
| sensor | `app/sensor.cpp` | `initialized`, the driver's device | `sensor_init`, `sensor_read` |
| button | `app/button.cpp` | `last_edge_time`, `press_start_time`, `currently_pressed`, the task's notification | the interrupt handler, `button_task` |
| watchdog | `services/watchdog.cpp` | the task watchdog of ESP-IDF | `watchdog_init`, `watchdog_kick` |
| Wi-Fi manager | `services/wifi_manager.cpp` | `retry_count`, the connected flag, an event group | the event handler, `wifi_manager_init` |
| MQTT client | `services/mqtt_client_service.cpp` | `mqtt_connected`, `client` | the event handler, the two publish calls |
| I2C and BME280 drivers | `i2cdev.c`, `bmp280.c` under `managed_components` | bus and device handles, the device's mutex | `i2c_do_operation_with_retry`, `bmp280_init`, `bmp280_read_float` |
| boot counting | `core/boot.cpp` | `boot_magic`, `boot_fail_count` in RTC memory | `boot_log_reset_reason`, `boot_count` |
| configuration | `services/config_store.cpp` | `current_config` | `config_init`, `config_save` |
| crash log | `services/crash_log.cpp` | a record in NVS | `crash_log_init`, `crash_log_write` |
| logger | `services/logger.cpp` | none | printing |

How they interact:

- The **main task** runs `runtime_start`: it initialises every service in turn,
  posts `EVT_BOOT` and `EVT_INIT_DONE`, and loops. A turn of the loop takes at
  most one event off the queue, hands it to the state machine, kicks the
  watchdog if the state allows, and waits 10 ms. Every hundredth turn reads the
  sensor first and posts `SENSOR_READY` or `SENSOR_TIMEOUT`.
- **button_task** runs from `button_init` on, at a higher priority and on
  either core. The interrupt of the pin notifies it; it debounces, measures the
  press and posts a short or a long one.
- The **state machine** posts `PROCESS_DONE` to the queue it is fed from when it
  enters ACTIVE.
- The **event task** runs the Wi-Fi handler, which retries and sets the bits
  `wifi_manager_init` waits for; the **MQTT client's task** runs the other
  handler, which keeps the flag the publish calls of the main task test.
- The **sensor** is used by the main task alone, through two layers of drivers
  that retry, back off, and drop and add device handles.
- The **task watchdog** is kicked from two places: the loop, in the healthy
  states only, and `sensor_read`, in every state.

What is hard about it:

- *two tasks, one ring, no lock*: both call `event_post`; the accesses to
  `head`, `tail` and the slots interleave at will;
- *answers nobody reads*: a full queue refuses events, the boot events and
  `PROCESS_DONE` among them;
- *time*: `sensor_init`, `wifi_manager_init` and a failing read block the main
  task for seconds while nobody takes events off the queue and nobody kicks;
- *history in a counter*: `fault_count` must mean "failures in a row" whatever
  order of samples, presses and refusals led to it;
- *retries inside retries*: setup failures and attempt failures share a counter
  in the I2C driver, reconnections are counted in the Wi-Fi handler, failed
  samples in the state machine, crashes in memory that may or may not survive;
- *flags that lag*: whether the node is connected is told by events that are
  handled after what they tell of has changed again;
- *edges*: the notification is a flag, the pin is read after the wake-up, and
  edges inside the debounce window are dropped whichever way they go.

## The modules

| module | models | |
|---|---|---|
| `EventChannel` | what `event_queue.h` promises: a bounded FIFO | abstract specification |
| `EventQueue` | `event_queue.cpp`, one memory access a step | implements `EventChannel` for one posting task |
| `MCEventQueue` | a bound on the backlog, for TLC | |
| `StateMachine` | `state_machine.cpp` and the queue it is fed from, fed in any order | what `Runtime` implements |
| `Watchdog` | `watchdog.cpp` over the task watchdog | |
| `Runtime` | `runtime.cpp`, with `sensor.cpp`'s two calls and the reports of the button | extends `StateMachine` and `Watchdog` |
| `Restarts` | `boot.cpp` and `app_main`: the node over its resets | extends `Runtime` |
| `Button` | `button.cpp`: pin, interrupt, notification, task | implements `PressReports` |
| `PressReports` | how close the reports of `button_task` can come | abstract specification: what `Button` promises and `Runtime` counts on |
| `I2cDev` | `i2cdev.c`: an operation with its retries | establishes the bound on a read `Runtime` assumes |
| `Sensor` | `sensor.cpp` and the steps of `bmp280.c` | extends `I2cDev` |
| `WifiManager` | `wifi_manager.cpp`'s handler over driver, DHCP client and event loop | |
| `MqttService` | `mqtt_client_service.cpp`'s handler over the client | |
| `Network` | main task, event task and client task together | extends `WifiManager` and `MqttService` |
| `EventQueueProofs`, `StateMachineProofs`, `RuntimeProofs`, `RestartsProofs`, `ButtonProofs`, `SensorProofs`, `NetworkProofs` | theorems and proofs | |

**EventQueue.** The variables `queue`, `head` and `tail` are the code's; `pc`,
`at` and `event` are each task's place in its call and its locals. `BeginPost`
is the load of `head`, `FindFull` and `FindRoom` the test against `tail`,
`WriteSlot` the store of the event and `Publish` the store of `head`;
`FindEmpty`, `FindEvent`, `ReadSlot` and `Advance` are `event_get`. The
build's `-Og` may load `head` again for the slot index, so `WriteSlot` writes
to either. `chan` and `overlapped` are history variables: the events accepted
and not yet handed over, and whether two posts were ever in progress at once.

**StateMachine.** One action per branch of `state_machine_handle_event`,
including the `on_enter` of the state it leads to; `Ignore` is every event a
state drops. A post is one step here and the queue is `EventChannel`'s
sequence. `lost` is a history variable: the kinds of events that were refused
when they were last posted. The properties that excuse a refusal look at it; the
next event of the kind that is accepted ends the excuse.
The payload of an event is never set nor read and is left out. The event types
nobody posts are left out.

**Watchdog and Runtime.** A tick is what `vTaskDelay(pdMS_TO_TICKS(10))` waits
for. `pc` says where the main task is in `runtime_start`. Time passes in `Tick`,
and only where the code blocks: in `sensor_init`, `wifi_manager_init`, the read,
the publish after it and the delay, each for at most `MaxBlock`, except
`sensor_init`, which has no bound; the code between takes no time, but
`ButtonPress` may come between any two steps. `wdt` is the time since the last
kick. What happens when it reaches the timeout depends on the build: sdkconfig
sets `CONFIG_ESP_TASK_WDT_INIT` with 10 s and without
`CONFIG_ESP_TASK_WDT_PANIC`, so `esp_task_wdt_init` in `watchdog_init` fails
with `ESP_ERR_INVALID_STATE`, its 5 s and its panic are never in force, and an
expired watchdog prints a warning (`WatchdogWarns`); in a build without that
option it resets the chip (`Reboot`). The branch of `watchdog_init` for any
other error of `esp_task_wdt_init` is left out: nobody is watched then, and there
is nothing to say of the watchdog. `misses` is a history variable: failed
samples since the last good one. A publish returns at once when the client is
offline; otherwise it may wait for the client's lock and its socket
(`MaxPublishBlock`). `sensor_init` need not return here; `Sensor`'s
`InitReturns` says when it does.

**Restarts.** `app_main` calls `boot_log_reset_reason` before the runtime starts,
so every reset is a `Reboot` of `Runtime` together with one of its branches:
`LogCrash` (task watchdog or panic), `LogPowerOn`, `LogOther` (a brown-out, an
external reset). A panic and a loss of power come from outside, at any moment
and `MaxOutages` times at most; memory that lost its content holds any count
and not the magic number. `crashes` is a history variable.

**Button.** Times are ages, counted up to a value beyond which nothing tells
them apart. `bounces` is chosen at the start: a pin that bounces may change at
any moment, one that does not keeps each level for the debounce time and the
task's latency. A button that is down when the task starts counts among the
first: the task sees the end of that press only. `held` and `owed` are history
variables: how long the button has been down, or was when it last came up,
where a gap shorter than the debounce time is a bounce and part of the hold; and
whether a press has ended and is not reported. `quiet`
starts at two debounce times, as if a report had been made that long before the
task's start: the first edge counts, so the first report comes a debounce time
after the start at the earliest, and Runtime is told somewhat sooner.

**PressReports** is the interface between the two models of the button: a
report, which has to keep its gap to the one before, or a tick. `Runtime` lets
`ButtonPress` and `Tick` do what it allows (`Presses`); `Button` maps its ages
onto it (`Reports`).

**I2cDev and Sensor.** Time counts in units of the driver's base delay, 20 ms.
An operation is `StartOperation`, then `SetupDevice` and `Attempt` in turn until
`op` holds its answer. `bus` says what the bus does: it answers, is silent (a
missing acknowledgement or a timeout: `AttemptFails` keeps the handle), or its
driver is broken (`ESP_ERR_INVALID_STATE` or `_ARG`: `AttemptInvalid` drops the
handle, and the next attempt adds the device again). It changes at any moment.
`well` is a history variable: the bus has answered since the operation began.
The port's reference count is left out, because it decides nothing for a device
that is never deleted. `Sensor` walks through the register
operations of `bmp280_init` (`Step`), with its loop on the status register, and
through `sensor_read`, one operation under the mutex. `mode` is the BME280's: it
measures in NORMAL only and comes out of a reset or a loss of supply in SLEEP. A
write changes it when it is answered, before `bmp280_init` goes on, so that a
loss of supply (`Unplug`) may come right after the last one.
The sensor is a BME280; the branch for a BMP280, which has no humidity
registers, is left out.

**WifiManager, MqttService and Network.** `link` is the driver's state, `loop`
the event loop's queue, `wifi_event_group` the bits. The driver posts one event
at the end of each attempt and association; a call of `esp_wifi_connect` may be
refused, and no event follows it. The DHCP client goes on until the event task
has seen the disconnection, so that an address can come for an association
already over (`late`). `session` and `notice` are the MQTT client's: it opens a
session by itself while the link is up, and hands each change to the handler
before it makes the next. `Network` interleaves these with the main task's
start-up, its wait and its publish calls: `TestFlag` and `HandOver` are two
steps, because the flag may fall between them.

## The runs

| run | question | answer |
|---|---|---|
| `queue_race` | what survives two tasks posting at once? | the indices stay in the ring; the ring is a FIFO, and each access a step of its header's channel, until two posts overlap |
| `queue_lost` | `event_queue.cpp:37` "queue empty": is it? | no: two overlapping posts write the same slot, both answer true, one event is gone |
| `queue_spsc` | is the ring the channel of its header for one posting task? | yes, and every accepted event is handed over |
| `runtime_loop` | the node as built, sensor failing and button pressed at will | all of the safety and liveness properties below hold |
| `restarts` | the node over watchdog resets, panics and losses of power, with `watchdog_init`'s own settings in force | the crash count is right whatever the memory held; a node without a sensor does not stay in FAULT or SAFE_MODE, and its resets, or those of a start-up that never gets to its loop, add up to a crash loop |
| `runtime_kick` | `README.md:24` the watchdog is "NOT kicked while in FAULT or SAFE_MODE" | it is: `sensor_read` kicks in every state |
| `runtime_init_lost` | `runtime.cpp:52` "signal INIT complete" | a press during the start-up takes the last slot of the queue: `INIT_DONE` is refused, the node handles `EVT_BOOT` and stays in INIT. A queue that was full before refuses both, and the node stays in BOOT |
| `button_reports` | does the button task miss, invent or mistime presses? | not on a pin that keeps its levels for the debounce time; on any pin it implements the reports `Runtime` counts on |
| `network` | does the flag tell the link, are retries bounded, does the node settle, does a late link get used? | yes, except where a driver's call was refused or an address came too late, as the properties say |
| `sensor_driver` | does a failing bus leave the driver in a state it recovers from, and how long does a read take? | it recovers; four attempts and three backoffs at most |
| `sensor_replugged` | `README.md:3` "recover from sensor failures": is a reading measured? | not once the sensor has lost its supply: it is back in sleep mode, nothing configures it again, and reads succeed |
| `button_quick_tap` | `button.cpp:68` "now we know the full hold duration" | not after a tap shorter than the debounce time: the end of the next one is reported as a long press, though the button was never held |

The properties of `runtime_loop`, besides the types:

- `FaultCountFitsState`: the count is zero in every healthy state and below
  `MAX_FAULTS` in FAULT.
- `ActiveWillEnd`: in ACTIVE, `PROCESS_DONE` is on its way unless the queue
  refused it.
- `SampleSeenBeforeNext`: no read starts while the outcome of an earlier one
  waits, although only one event is handled a turn.
- `SafeModeIsEarned`: SAFE_MODE is entered after three failures in a row, on a
  long press, or when a good sample's event was refused.
- `WatchdogFed`: a node whose sensor answered at boot never starves the
  watchdog in its loop, in FAULT and SAFE_MODE neither, if the timeout exceeds a
  period, a read and a publish.
- `BootCompletes`: once `sensor_init` has returned, the node leaves BOOT and
  INIT unless one of the two events was refused; `BootWillEnd`, its safety half:
  until then the event that takes the node out is still to be posted, queued or
  in hand.
- `DeadSensorEscalates`: a sensor that did not answer at boot ends in SAFE_MODE;
  `DeadStaysDown`: such a node leaves FAULT and SAFE_MODE on a short press or by
  a reset, never by itself.

Of `queue_race`: `FifoUnlessOverlap`, the ring holds the accepted events in
order, and `ChannelUntilOverlap`, what each access does to them is what
`event_queue.h` promises, both until two posts have overlapped.

Of `button_reports`: `TaskInStep` and `ReportsTheHold`, on a pin that does not
bounce; `ImplementsReports`, on any pin. It has two parts, because a second
report in the tick of the first would look like no step at all to the refinement
alone.

Of `restarts`: `CountIsCrashes`, where the memory holds the magic number the
count is that of the crashes since the memory was last lost; `DeadNodeResets`;
`CrashLoopIsNoticed`, a sensor gone for good brings the count to three, unless
somebody keeps acknowledging SAFE_MODE or a boot event was refused;
`StartUpLoopIsNoticed`, so does a start-up that for ever hangs, or is reset by
the watchdog before it gets to its loop: `sensor_init` has no bound, and with
the wait for Wi-Fi after it nothing kicks for 4.28 s + 7 s on a hung bus, where
`watchdog.cpp` sets 5 s and sdkconfig 10 s. `boot.cpp:60` only prints there:
"Enter safe mode, erase NVS" is a comment.

Of `sensor_driver`: `OperationIsBounded`, the bound `Runtime` takes as
`MaxSensorBlock`; `MutexIsGivenBack` on every way out; `OneRetryMends`, on a bus
that answers a stale handle costs one attempt and the operation does not fail;
`OperationAdvances`, each step of an operation answers it or leaves fewer setups
and attempts (`StepsLeft`), handles dropped and added again included;
`ReadReturns` whatever the bus does; `InitReturns` and `ReadsRecover` if the bus
stays well in the end. `sensor_init` may hang for ever on a bus that does not:
the loop on the status register has no other way out.

Of `network`: `FlagTellsLink`, with no event on its way; `AttemptsAreBounded`;
`FailMeansOffline`, the failure bit, which nothing clears, is set only when the
station is idle for good; `Settles`, a node that is not connected connects or
sets that bit; `IdleIsReported`, its safety half: a station that is idle has a
disconnection to handle, or has set the bit, or was refused a call;
`GivenUpFallsSilent`, after which nothing is published any more, however late
the client notices, and `SilenceIsFinal`, which says that no late event of either
task brings the voice back; `LateLinkIsUsed`, a link that comes up after
the wait was over still carries telemetry.

Three more disagreements with the documentation are plain from the source:
`README.md:11` speaks of a "controlled reboot" in SAFE_MODE, but the restart at
`state_machine.cpp:185-188` is commented out; `README.md:12` of crash records,
but `crash_log_write` has no caller; `README.md:41` of a timeout of 30 seconds,
but sdkconfig says 10.

### Bounds

The constants of the configurations are scaled down with the relations between
them kept.

| constant | code | model | kept |
|---|---|---|---|
| `EVENT_QUEUE_SIZE` | 32 | 3 (4 in `queue_spsc`) | the ring wraps; `Capacity <= SAMPLE_PERIOD` |
| `MAX_FAULTS` | 3 | 3 | as it is |
| `SAMPLE_PERIOD` | 100 turns of 10 ms | 3 | more than one turn between samples |
| `MaxSensorBlock` | 4.28 s: four attempts of 1 s and 40, 80, 160 ms (`MaxOperation`) | 4 | period + read + publish below the timeout |
| `MaxPublishBlock` | the client's lock and socket, no bound in the code | 2 | |
| `MaxWifiWait` | 7 s | 6 | room for more presses than the queue has slots |
| `ShortPressGap`, `LongPressGap` | 100 ms, 650 ms: two debounce times, a debounce time and a long press (`ImplementsReports`) | 2, 4 | a wait for Wi-Fi, or a wait and a read, has room for more presses than the queue has slots |
| `TASK_WDT_TIMEOUT` | 10 s | 10 | period + read + publish stay below it |
| `WATCHDOG_TIMEOUT` | 5 s | 5 | read < timeout < period + read |
| `DEBOUNCE`, `LONG_PRESS` | 50 ms, 600 ms | 3, 7 | a tap fits in the window, two windows are shorter than a long press |
| `MaxLatency` | scheduling latency | 1 | late wake-ups |
| `MAX_RETRIES` | 2 | 2 | as it is |
| `LOOP_QUEUE_SIZE` | 32 | 4 | more than the events an association can leave behind |
| `I2CDEV_TIMEOUT` | 1000 ms: 50 | 8 | attempts last longer than any one backoff before them |
| `CALIBRATION_READS` | 12, and 6 of humidity | 2 | more than one operation of a kind in a row |
| `MaxCount` | a 32-bit count | 3 | the crash loop's threshold |
| `MaxOutages` | none | 1 | a panic, or memory kept or lost, anywhere among the resets of the watchdog |
| `MaxBacklog` | none | 4 | above the ring's size: enough for an event to be lost and for the ring to be overrun |

`restarts` has its own, smaller values (a count of two faults, a period of two
turns, reads of at most one tick, a wait for Wi-Fi of five and a watchdog of
four), because every reset doubles what the boot memory remembers; a dead sensor
needs no more to starve the watchdog and a crash loop needs three resets of it.
The wait for Wi-Fi stays above the watchdog's timeout, as 7 s is above 5 s.
`sensor_init` is not bounded in any run.

`MaxBacklog` bounds the history variable `chan` of `EventQueue`, in
`MCEventQueue` only. `quiet`, `misses` and the ages of `Button` saturate where
nothing distinguishes larger values. There is no state constraint and no
symmetry.

### Fairness

- `EventQueue`: weak fairness of `event_get` past the test for an empty queue.
  The loop polls for ever and a task in a call is scheduled again; nobody has
  to post.
- `Runtime`: weak fairness of the main task's steps except the return of
  `sensor_init` (`MainProceeds`), of `Tick`, and of the watchdog's interrupt. No
  task of a higher priority runs for long without blocking, and the other calls
  the main task blocks in have a timeout, the publish being assumed to have one.
  Nothing is assumed of the button, and nothing of the sensor: a read
  may fail every time.
- `Restarts`: the same; no reset from outside has to happen.
- `Sensor`: weak fairness of the main task. Strong fairness of the next step of
  `bmp280_init`: a sensor whose status register can be read again and again
  does not copy its calibration for ever. Nothing is assumed of the bus; where
  a property needs it well in the end it says so.
- `Network`: weak fairness of the tasks, of the end of an attempt to associate,
  of the client's opening of a session while it can, and of its noticing, by its
  keep-alive, that the link has gone. Nothing makes an association succeed or
  last; that DHCP leaves no association without an answer is a premise of
  `Settles`.
- `Button` needs no fairness; `MaxLatency` bounds how late a wake-up is.

`CHECK_DEADLOCK` is left on in every run: none of these parts may stop.

## The proofs

Each theorem holds for every value of the constants that the named assumptions
`SizeAssumption`, `EventsAssumption`, `MachineAssumption`, `WatchdogAssumption`,
`RuntimeAssumption`, `RestartsAssumption`, `ButtonAssumption`, `I2cAssumption`,
`CalibrationAssumption` and `WifiAssumption` allow.

**EventQueueProofs**, for any set of posting tasks:

- `TypeCorrect`: `Spec => []TypeOK`, whatever the tasks do to each other.
- `RingIsFifo`: `Spec => []FifoUnlessOverlap`. The property says nothing of
  calls in progress, so it is not inductive. `IInv` adds, while no two posts
  have overlapped: there is one post at most; it started from the present `head`,
  found room that is still there, and its slot holds what it wrote; a get past
  its test has something to get and what it read is still in the slot.
- `ChannelUntilPostsOverlap`: `Spec => ChannelUntilOverlap`. From `IInv`, each
  access is a step of the channel or a stutter while no two posts have
  overlapped (`StepImplements`): any number of tasks may post, and a lock around
  `event_post` is all the ring lacks.
- `OneProducerImplementsChannel`: for `Producers = {p}`, `Spec => Channel!Spec`:
  `overlapped` stays false, and `StepImplements` does the rest.

**StateMachineProofs**: `MachineIsSound`, `SMSpec` implies the types,
`FaultCountFitsState` and `ActiveWillEnd` always. They are inductive together
and need nothing of who posts what when.
`CountOutlivesRing`: the count fits the state even if the ring hands over
anything at all, as it may once two posts have overlapped. `ActiveWillEnd` does
rest on the ring: an overlapping post can lose `PROCESS_DONE`.

**RuntimeProofs**:

- `RuntimeFeedsMachine`: `Spec => SMSpec`. Every step of the tasks is a step of
  the machine or leaves it alone, so `FaultCountFits` and `ActiveEnds` follow
  from `MachineIsSound`.
- `TypeCorrect`. `LoopTypeOK`, the types of everything but the machine and its
  queue, is inductive without them.
- `WatchdogIsFed`, under `SAMPLE_PERIOD + MaxSensorBlock + MaxPublishBlock <
  WdtTimeout`: the timing budget. `KickedInTime` bounds `wdt` at each point of
  the loop by the turns since the last sample and the ticks spent there; the
  first turn, which may come after a long start-up, is excepted because the loop
  kicks in BOOT. For sdkconfig's 10 s the condition is 1 s + 4.28 s + publish,
  so it holds as long as no publish blocks for 4.72 s. For the 5 s of
  `watchdog.cpp` it does not hold.
  The bound on a publish is an assumption: the code has none. Of the start-up
  nothing of the kind can be proved, `sensor_init` having no bound.
- `TimingOutlivesRing`: `TimingInv`, the inductive invariant behind it (types,
  `LoopPosition`, `KickedInTime`), mentions no event. So under the budget
  `WatchdogFed` holds, and `FaultCountFitsState` with it, even if the queue's
  content is replaced by anything at any moment (`SpoiledNext`), as two
  overlapping posts may do.
- `WayOutOfBoot`: `BootWillEnd` is not inductive: an INIT_DONE handled in BOOT
  would be dropped. `BootInOrder` says that EVT_BOOT is always before it, in the
  queue or in hand, while the node is in BOOT and neither was refused;
  `BootUnposted`, that neither counts as refused before it is posted.
- `DeadStaysOut`: `DeadIsSilent` says that a sensor that did not answer at boot
  has no SENSOR_READY outstanding, in the queue or in hand, and that the node is
  not in ACTIVE; every other way out of FAULT and SAFE_MODE needs one.
- `OneSampleAtATime`: `SampleIsNear` says that a sample's event is alone of its
  kind and no farther from the front than the loop has turns left (`TurnsLeft`).
  `Capacity <= SAMPLE_PERIOD` (31 and 100 in the code) is what it needs.
- `SafeModeNeedsMisses`: `FaultsAreMisses` says that the count, plus one if a
  timeout is still queued or in hand, never exceeds the failures since the last
  good sample, unless that sample's event is itself still outstanding or was
  refused. It rests on `SampleIsNear` and `FaultCountFitsState`.

`NodeInv`, `LoopInv` with the machine's invariant, is inductive (`NodeInit`,
`NodeNext`) and holds in every state of `Runtime` (`LoopIsSound`).

**RestartsProofs**. Every step over the resets is a step of `Runtime`, which
keeps it (`NodeNext`), or a `Reboot`, which leads to a state that satisfies
`Init` (`RebootIsInit`).

- `LoopSurvivesResets`: the fault count, the ways out of BOOT, INIT and ACTIVE
  and the one sample at a time hold over resets of any reason at any moment.
- `FedOverResets`: so does `WatchdogFed` under its budget.
- `EscalationSurvivesResets`: so do `SafeModeIsEarned` and `DeadStaysDown`; a
  reset leads to BOOT and earns or loses nothing.
- `RestartsTypeCorrect`: the types of the node and of the boot memory.
- `CrashesAreCounted`: `CountIsCrashes` is inductive only with "memory without
  the magic number has seen no crash" (`CountInv`).

**ButtonProofs**:

- `TypeCorrect`.
- `ButtonImplementsReports`: `Spec => ImplementsReports`, for `ShortPressGap` two
  debounce times and `LongPressGap` a debounce time and a long press. `Runtime`'s
  theorems hold for every two gaps, so for these: with this one they hold of
  the node with its button, bouncing or not. `EdgesAreSpaced` relates the ages
  of the last report, the last taken edge and the press that is on, on any pin.
- `InStep` and `HoldIsReported`, on a pin that does not bounce: `EdgeIsTaken`
  says that each edge finds the debounce window over and is taken before the
  next, so that the task lags by one edge at most; `HoldIsMeasured` bounds the
  measured time by the true one.

**SensorProofs**: `TypeCorrect`, `OperationBound`, `MutexGivenBack` and
`StaleHandleIsMended`, parts of the inductive `SensorInv`. `OneRetryMends` is not
inductive: `WellRetries` adds which handle each retry begins with.
`OperationFits` bounds the time spent before each retry, `MutexFollowsCall` ties
the mutex to the call under way, and `OperationInCall` the operation.
`OperationEnds`: `Spec => OperationAdvances`. An operation's own steps lower
`StepsLeft` or answer (`OperationMoves`), and no other step touches it
(`OthersWait`, which needs `OperationInCall`).

**NetworkProofs**: `TypeCorrect`, `FlagIsTheLinks`, `RetriesAreBounded`,
`FailIsFinal`, `NoIdleUnsaid`, `FlagIsTheSessions`, `SilenceLasts`. The
station's part of `NetworkInv` comes first: one disconnection at most is in the
event loop's queue, and the station is idle until it has been handled
(`OneDisconnect`). `LastEventTells` says what the newest event tells of the
link, `AttemptsAreCounted` relates the attempts to `retry_count` while an
address that will reset it is still queued. `IdleIsReported` is inductive on top
of `OneDisconnect`: the disconnection that is taken was the only one, so what
follows it, an attempt, a refusal or the bit, decides. `SilenceIsFinal` follows
from `FailMeansOffline` (no session can be opened over an idle station) and
`FlagTellsSession` (none is left that could send an event).

`LoopInv`, `ButtonInv`, `SensorInv` and `NetworkInv`, the conjunctions of these
parts, were checked with TLC before they were proved.

Model-checked only: the liveness properties (`BootCompletes`,
`DeadSensorEscalates`, `DeadNodeResets`, `CrashLoopIsNoticed`,
`StartUpLoopIsNoticed`, `ReadReturns`,
`InitReturns`, `ReadsRecover`, `Settles`, `GivenUpFallsSilent`, `LateLinkIsUsed`,
the fair half of `ImplementsChannel`). They rest on fairness and so on ENABLED,
which the prover does not handle. What makes them true without fairness is
proved where it can be said as safety: `BootWillEnd` and `ActiveWillEnd` (the
event that must come is on its way), `DeadStaysDown`, `OperationAdvances` (a
measure that only falls), `IdleIsReported` and `SilenceIsFinal`.

## What is left out

- **Overlapping posts in `Runtime`.** `Runtime` posts in one step. What
  overlapping posts do to the ring is `EventQueue`'s subject. Of what a spoiled
  ring then does to the rest of the node `CountOutlivesRing` and
  `TimingOutlivesRing` are established; the properties about single events
  (`ActiveWillEnd`, `BootWillEnd`, `SampleSeenBeforeNext`, `SafeModeIsEarned`)
  do rest on the ring.
- **The network in `Runtime`.** `Runtime` takes any wait for Wi-Fi and any publish
  within their bounds, and `Network` has no clock: neither loses a behaviour of
  the other.
- **The time of code that does not block**, and **the delay of the loop**, which
  lasts one tick here and may be a fraction of it.
- **A watchdog that could not be set up** (`watchdog.cpp:27-31`): the node runs
  as before and nobody watches it.
- **Start-up before `watchdog_init`**: NVS, logger, crash log and configuration
  come before anything concurrent exists.
- **Readings, payloads and formats**: no property depends on their values.
- **Crash log**: `crash_log_write` has no caller, so the record `crash_log_init`
  prints is one of an older build. **Configuration store**: `config_init` sets
  constants nobody reads and `config_save` has no caller.
- **Driver calls the program does not make**: force measurement, is-measuring,
  the deletes of device and mutex, a second device on the port.
- **Logger** (prints), **anomaly detector** (the file is commented out),
  **collect.py** (a host-side script) and the other vendored components under
  `managed_components`, the TFLite runtime above all, which the program does not
  call.

## What could follow

1. `Runtime` over the ring of `EventQueue` with two posting tasks: which of the
   safety properties survive overlapping posts.
2. The crash log and the configuration store, when the program uses them: what
   NVS holds over resets and over writes that fail.
3. A second device on the I2C port, and with it the port's lock and the
   reference count.
