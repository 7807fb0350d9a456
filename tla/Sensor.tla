------------------------------- MODULE Sensor -------------------------------
(***************************************************************************)
(* app/sensor.cpp and the calls it makes of esp-idf-lib__bmp280/bmp280.c,  *)
(* over I2cDev: sensor_init once, then sensor_read whenever the loop asks. *)
(* The BME280 itself is modelled by what the driver relies on: it forgets  *)
(* its settings when it is reset or loses its supply, and measures only    *)
(* once its control register has been written.                             *)
(***************************************************************************)
EXTENDS I2cDev

CONSTANT CALIBRATION_READS  \* registers read_calibration_data and its like read

ASSUME CalibrationAssumption == CALIBRATION_READS \in Nat

VARIABLES
  main,         \* the call of sensor.cpp under way: init, read, or none once booted
  initialized,
  mutex,        \* the device's: NULL, free or taken
  at,           \* the step of bmp280_init under way
  outcome,      \* what the last sensor_read answered
  mode          \* the sensor's: SLEEP, or NORMAL, in which it measures

sensorVars == <<main, initialized, mutex, at, outcome>>
vars == <<i2cVars, sensorVars, mode>>

(* The register operations of bmp280_init, in their order. *)
LastStep == CALIBRATION_READS + 6

Step(i) ==
  CASE i = 1 -> "ID"
    [] i = 2 -> "RESET"
    [] i = 3 -> "STATUS"
    [] i = LastStep - 2 -> "CONFIG"
    [] i = LastStep - 1 -> "CTRL_HUM"
    [] i = LastStep -> "CTRL"
    [] OTHER -> "CALIB"

Init ==
  /\ I2cInit
  /\ main = "boot"
  /\ initialized = FALSE
  /\ mutex = "NULL"
  /\ at = 1
  /\ outcome = "none"
  /\ mode = "SLEEP"

-----------------------------------------------------------------------------
(* sensor_init *)

(* The device's mutex cannot be created. *)
NoMutex ==
  /\ main = "boot"
  /\ main' = "idle"
  /\ UNCHANGED <<i2cVars, initialized, mutex, at, outcome, mode>>

InitBegins ==
  /\ main = "boot"
  /\ main' = "init"
  /\ mutex' = "taken"
  /\ at' = 1
  /\ StartOperation
  /\ UNCHANGED <<bus, portVars, initialized, outcome, mode>>

InitStep ==
  /\ main = "init" /\ op = "ok"
  /\ at < LastStep
  /\ at' = at + 1
  /\ StartOperation
  /\ UNCHANGED <<bus, portVars, main, initialized, mutex, outcome, mode>>

(* The status register is read until a read succeeds and shows that the    *)
(* calibration has been copied; there is no other way out.                 *)
PollAgain ==
  /\ main = "init" /\ op \in {"ok", "failed"}
  /\ Step(at) = "STATUS"
  /\ StartOperation
  /\ UNCHANGED <<bus, portVars, sensorVars, mode>>

(* Mutant: the mutex is not given back on the way out. *)
InitFailsHolding ==
  /\ main = "init"
  /\ \/ op = "failed" /\ Step(at) # "STATUS"
     \/ op = "ok" /\ Step(at) = "ID"
  /\ main' = "idle"
  /\ op' = "none"
  /\ UNCHANGED <<bus, well, portVars, retry, spent, mutex, initialized, at, outcome, mode>>

(* CHECK_LOGE: the first operation that fails ends it, or an ID that is    *)
(* not a BME280's.                                                         *)
InitFails ==
  /\ main = "init"
  /\ \/ op = "failed" /\ Step(at) # "STATUS"
     \/ op = "ok" /\ Step(at) = "ID"
  /\ main' = "idle"
  /\ mutex' = "free"
  /\ op' = "none"
  /\ UNCHANGED <<bus, well, portVars, retry, spent, initialized, at, outcome, mode>>

InitDone ==
  /\ main = "init" /\ op = "ok"
  /\ at = LastStep
  /\ main' = "idle"
  /\ mutex' = "free"
  /\ initialized' = TRUE
  /\ op' = "none"
  /\ UNCHANGED <<bus, well, portVars, retry, spent, at, outcome, mode>>

-----------------------------------------------------------------------------
(* sensor_read *)

ReadUninitialized ==
  /\ main = "idle" /\ ~initialized
  /\ outcome' = "failed"
  /\ UNCHANGED <<i2cVars, main, initialized, mutex, at, mode>>

ReadBegins ==
  /\ main = "idle" /\ initialized
  /\ mutex = "free"
  /\ main' = "read"
  /\ mutex' = "taken"
  /\ StartOperation
  /\ UNCHANGED <<bus, portVars, initialized, at, outcome, mode>>

ReadEnds(answer) ==
  /\ main = "read" /\ op = answer
  /\ main' = "idle"
  /\ mutex' = "free"
  /\ op' = "none"
  /\ UNCHANGED <<bus, well, portVars, retry, spent, initialized, at, mode>>

ReadSucceeds == ReadEnds("ok") /\ outcome' = "reading"
ReadFails == ReadEnds("failed") /\ outcome' = "failed"

-----------------------------------------------------------------------------
SensorInit == NoMutex \/ InitBegins \/ InitStep \/ PollAgain \/ InitFails \/ InitDone
SensorRead == ReadUninitialized \/ ReadBegins \/ ReadSucceeds \/ ReadFails

(* What a write does to the sensor. *)
Written(step) ==
  CASE step = "RESET" -> "SLEEP"
    [] step = "CTRL" -> "NORMAL"
    [] OTHER -> mode

(* A write is done when it is answered, before bmp280_init goes on. *)
Operation ==
  /\ DoOperationWithRetry
  /\ mode' = IF main = "init" /\ op' = "ok" THEN Written(Step(at)) ELSE mode
  /\ UNCHANGED sensorVars

BusChange ==
  /\ \E b \in {"answers", "silent", "broken"} \ {bus} : BusChanges(b)
  /\ UNCHANGED <<sensorVars, mode>>

(* The sensor is pulled off; when it is back it starts from its reset.     *)
Unplug ==
  /\ BusChanges("silent")
  /\ mode' = "SLEEP"
  /\ UNCHANGED sensorVars

Next == SensorInit \/ SensorRead \/ Operation \/ BusChange \/ Unplug

Spec == Init /\ [][Next]_vars

(* The main task runs and asks for readings again and again; the sensor,   *)
(* as long as its registers can be read, does not copy for ever.           *)
Fairness ==
  /\ WF_vars(SensorInit \/ SensorRead \/ Operation)
  /\ SF_vars(InitStep)

FairSpec == Spec /\ Fairness

-----------------------------------------------------------------------------
(* Every variable has its type. *)
TypeOK ==
  /\ I2cTypeOK
  /\ main \in {"boot", "init", "idle", "read"}
  /\ initialized \in BOOLEAN
  /\ mutex \in {"NULL", "free", "taken"}
  /\ at \in 1 .. LastStep
  /\ outcome \in {"none", "reading", "failed"}
  /\ mode \in {"SLEEP", "NORMAL"}

(* app/sensor.cpp:71 "it retries up to 4 times, with a ~1 second i2c       *)
(* timeout per attempt": in whatever order setups fail and attempts time   *)
(* out, no operation takes longer than four attempts and three backoffs.   *)
(* A read is one operation; Runtime counts on it as MaxSensorBlock.        *)
OperationIsBounded == spent <= MaxOperation

(* Whichever way a driver call ends, it has given the mutex back: one that *)
(* kept it would make every later read time out on it.                     *)
MutexIsGivenBack == mutex = "taken" => main \in {"init", "read"}

(* i2cdev.c:673 "handle likely needs recreation": a handle left over from  *)
(* an earlier failure costs an operation one attempt and no more.  While   *)
(* the bus answers an operation from its start on, it never fails, nor is  *)
(* it tried a third time, whatever became of the port and of the handle    *)
(* before.                                                                 *)
OneRetryMends == well /\ op # "none" => op # "failed" /\ retry <= 1

(* The node never hangs in a read, whatever the bus does meanwhile.        *)
ReadReturns == main = "read" ~> main = "idle"

(* ... because every step the operation takes brings it nearer to its end, *)
(* whatever the handle goes through meanwhile: it answers, or is left with *)
(* fewer setups and attempts than before, down to none.                    *)
AnswersOrAdvances ==
  \/ op' \in {"ok", "failed"}
  \/ op' \in {"setup", "attempt"} /\ StepsLeft' \in 0 .. StepsLeft - 1

OperationAdvances ==
  [][opVars' # opVars /\ op \in {"setup", "attempt"} => AnswersOrAdvances]_vars

(* sensor_init comes to an end if the bus stays well in the end.           *)
InitReturns == <>[](bus = "answers") => <>(main = "idle")

(* src/README.md:3 "recover from sensor failures": once the bus is well    *)
(* for good, reads stop failing, with whatever handle it left behind.      *)
ReadsRecover ==
  <>[](bus = "answers") => <>[](initialized => outcome # "failed")

-----------------------------------------------------------------------------
(* The parts of the inductive invariant behind them. *)

(* What the backoffs before attempt r have cost at most. *)
BackoffsBefore(r) == <<0, 2, 6, 14>>[r + 1]

OperationFits ==
  /\ op \in {"setup", "attempt"} =>
       retry <= I2C_MAX_RETRIES /\ spent <= retry * I2CDEV_TIMEOUT + BackoffsBefore(retry)
  /\ op = "attempt" => dev_handle # "NULL"

MutexFollowsCall ==
  /\ main = "boot" => mutex = "NULL"
  /\ main \in {"init", "read"} <=> mutex = "taken"
  /\ main = "read" => initialized
  /\ main \in {"boot", "init"} => ~initialized
  /\ initialized => mutex # "NULL"

(* On a bus that answers only the handle can be at fault, and the attempt  *)
(* that finds it bad leaves none: the next setup adds the device again.    *)
WellRetries ==
  well /\ op # "none" =>
    /\ bus = "answers"
    /\ op # "failed"
    /\ op = "setup" => retry = 0 \/ (retry = 1 /\ dev_handle = "NULL")
    /\ op = "attempt" => retry = 0 \/ (retry = 1 /\ dev_handle = "good")
    /\ op = "ok" => retry <= 1

(* An operation is under way, or has just answered, in a call only. *)
OperationInCall == main \in {"init", "read"} <=> op # "none"

SensorInv ==
  /\ TypeOK
  /\ OperationIsBounded
  /\ OperationFits
  /\ MutexFollowsCall
  /\ WellRetries
  /\ OperationInCall

-----------------------------------------------------------------------------
(* src/README.md:3 "recover from sensor failures": the readings the node   *)
(* reports are measurements, after a failure as before.                    *)
ReadingsAreMeasured ==
  [][ main = "read" /\ op = "attempt" /\ op' = "ok" => mode = "NORMAL" ]_vars
=============================================================================
