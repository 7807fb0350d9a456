---------------------------- MODULE SensorProofs ----------------------------
(***************************************************************************)
(* The safety properties of Sensor, for every timeout of the bus and every *)
(* number of calibration registers.                                        *)
(***************************************************************************)
EXTENDS Sensor, TLAPS

(* bmp280_init ends with the write that sets the sensor to measure. *)
LEMMA InitStepsLast ==
  /\ LastStep \in Nat /\ LastStep >= 6
  /\ Step(LastStep) = "CTRL"
  BY CalibrationAssumption DEF LastStep, Step

(* The backoffs, and the worst case they add up to. *)
LEMMA BackoffFacts ==
  /\ Backoff(0) = 1 /\ Backoff(1) = 2 /\ Backoff(2) = 4 /\ Backoff(3) = 8
  /\ BackoffsBefore(0) = 0 /\ BackoffsBefore(1) = 2
  /\ BackoffsBefore(2) = 6 /\ BackoffsBefore(3) = 14
  /\ MaxOperation = 4 * I2CDEV_TIMEOUT + 14
  /\ I2CDEV_TIMEOUT \in Nat /\ I2CDEV_TIMEOUT >= 8
  BY I2cAssumption DEF Backoff, BackoffsBefore, MaxOperation

-----------------------------------------------------------------------------
LEMMA InitEstablishes == Init => SensorInv
<1> SUFFICES ASSUME Init PROVE SensorInv
  OBVIOUS
<1>1. TypeOK
  <2>1. I2cTypeOK
    <3>1. retry \in 0 .. I2C_MAX_RETRIES + 1 /\ spent \in Nat
      BY I2cAssumption DEF Init, I2cInit, I2C_MAX_RETRIES
    <3>2. installed \in BOOLEAN /\ well \in BOOLEAN
      BY DEF Init, I2cInit
    <3>3. /\ bus \in {"answers", "silent", "broken"}
          /\ dev_handle \in {"NULL", "good", "bad"}
          /\ op \in {"none", "setup", "attempt", "ok", "failed"}
      BY DEF Init, I2cInit
    <3> QED
      BY <3>1, <3>2, <3>3 DEF I2cTypeOK
  <2>2. at \in 1 .. LastStep
    BY InitStepsLast DEF Init
  <2>3. /\ main \in {"boot", "init", "idle", "read"}
        /\ mutex \in {"NULL", "free", "taken"}
        /\ outcome \in {"none", "reading", "failed"}
        /\ mode \in {"SLEEP", "NORMAL"}
    BY DEF Init
  <2>4. initialized \in BOOLEAN
    BY DEF Init
  <2> QED
    BY <2>1, <2>2, <2>3, <2>4 DEF TypeOK
<1>2. OperationIsBounded /\ OperationFits
  BY BackoffFacts DEF Init, I2cInit, OperationIsBounded, OperationFits
<1>3. MutexFollowsCall /\ WellRetries /\ OperationInCall
  BY DEF Init, I2cInit, MutexFollowsCall, WellRetries, OperationInCall
<1> QED
  BY <1>1, <1>2, <1>3 DEF SensorInv

(* A setup that fails costs less than the attempt it takes the place of. *)
LEMMA SetupRetryKeeps ==
  ASSUME SensorInv, SetupRetry(Backoff(retry)),
         UNCHANGED sensorVars, mode' \in {"SLEEP", "NORMAL"},
         bus = "broken", installed' \in BOOLEAN, UNCHANGED dev_handle
  PROVE  SensorInv'
<1> USE BackoffFacts, InitStepsLast, I2cAssumption
<1> USE DEF SensorInv, sensorVars
<1>1. /\ op = "setup" /\ retry \in 0 .. 3 /\ retry' = retry + 1
      /\ op' = IF retry < 3 THEN "setup" ELSE "failed"
      /\ spent' = spent + Backoff(retry) /\ UNCHANGED <<bus, well>>
  BY DEF SetupRetry, OperationFits, TypeOK, I2cTypeOK, I2C_MAX_RETRIES
<1>2. /\ spent \in Nat
      /\ spent <= retry * I2CDEV_TIMEOUT + BackoffsBefore(retry)
  BY <1>1 DEF OperationFits, TypeOK, I2cTypeOK
<1>3. /\ spent' \in Nat /\ spent' <= MaxOperation
      /\ retry < 3 => spent' <= (retry + 1) * I2CDEV_TIMEOUT + BackoffsBefore(retry + 1)
  <2>1. CASE retry = 0
    BY <1>1, <1>2, <2>1
  <2>2. CASE retry = 1
    BY <1>1, <1>2, <2>2
  <2>3. CASE retry = 2
    BY <1>1, <1>2, <2>3
  <2>4. CASE retry = 3
    BY <1>1, <1>2, <2>4
  <2> QED
    BY <1>1, <2>1, <2>2, <2>3, <2>4
<1>4. TypeOK'
  BY <1>1, <1>3 DEF TypeOK, I2cTypeOK, I2C_MAX_RETRIES
<1>5. OperationIsBounded' /\ OperationFits'
  BY <1>1, <1>3 DEF OperationIsBounded, OperationFits, I2C_MAX_RETRIES
<1>6. MutexFollowsCall' /\ WellRetries' /\ OperationInCall'
  BY <1>1 DEF MutexFollowsCall, WellRetries, OperationInCall
<1> QED
  BY <1>4, <1>5, <1>6

LEMMA SetupSucceedsKeeps ==
  ASSUME SensorInv, SetupSucceeds, UNCHANGED sensorVars, mode' \in {"SLEEP", "NORMAL"}
  PROVE  SensorInv'
<1> USE BackoffFacts, InitStepsLast, I2cAssumption
<1> USE DEF SensorInv, sensorVars
<1>1. TypeOK'
  BY DEF I2cAssumption, SetupSucceeds, TypeOK, I2cTypeOK, I2C_MAX_RETRIES
<1>2. OperationIsBounded' /\ OperationFits'
  BY DEF SetupSucceeds, OperationIsBounded, OperationFits, I2C_MAX_RETRIES
<1>3. WellRetries'
  BY DEF SetupSucceeds, WellRetries
<1>4. MutexFollowsCall' /\ OperationInCall'
  BY DEF SetupSucceeds, MutexFollowsCall, OperationInCall
<1> QED
  BY <1>1, <1>2, <1>3, <1>4

LEMMA AttemptSucceedsKeeps ==
  ASSUME SensorInv, AttemptSucceeds, UNCHANGED sensorVars, mode' \in {"SLEEP", "NORMAL"}
  PROVE  SensorInv'
<1> USE BackoffFacts, InitStepsLast, I2cAssumption
<1> USE DEF SensorInv, sensorVars
<1>1. PICK t \in 0 .. I2CDEV_TIMEOUT : spent' = spent + t
  BY DEF AttemptSucceeds
<1>2. /\ op = "attempt" /\ op' = "ok" /\ retry \in 0 .. 3
      /\ UNCHANGED <<bus, well, portVars, retry>>
      /\ spent \in Nat /\ spent <= retry * I2CDEV_TIMEOUT + BackoffsBefore(retry)
  BY DEF AttemptSucceeds, OperationFits, TypeOK, I2cTypeOK, I2C_MAX_RETRIES
<1>3. spent' \in Nat /\ spent' <= MaxOperation
  <2>1. CASE retry = 0
    BY <1>1, <1>2, <2>1
  <2>2. CASE retry = 1
    BY <1>1, <1>2, <2>2
  <2>3. CASE retry = 2
    BY <1>1, <1>2, <2>3
  <2>4. CASE retry = 3
    BY <1>1, <1>2, <2>4
  <2> QED
    BY <1>2, <2>1, <2>2, <2>3, <2>4
<1>4. TypeOK' /\ OperationIsBounded' /\ OperationFits'
  BY <1>2, <1>3 DEF TypeOK, I2cTypeOK, OperationIsBounded, OperationFits, portVars, I2C_MAX_RETRIES
<1>5. MutexFollowsCall' /\ WellRetries' /\ OperationInCall'
  BY <1>2 DEF MutexFollowsCall, WellRetries, OperationInCall, portVars
<1> QED
  BY <1>4, <1>5

(* The last attempt is not followed by a backoff. *)
LEMMA TryAgainKeeps ==
  ASSUME SensorInv, TryAgain, UNCHANGED sensorVars, mode' \in {"SLEEP", "NORMAL"},
         UNCHANGED installed, dev_handle' \in {dev_handle, "NULL"},
         bus = "answers" => dev_handle = "bad" /\ dev_handle' = "NULL"
  PROVE  SensorInv'
<1> USE BackoffFacts, InitStepsLast, I2cAssumption
<1> USE DEF SensorInv, sensorVars
<1>1. /\ op = "attempt" /\ retry \in 0 .. 3 /\ retry' = retry + 1 /\ UNCHANGED <<bus, well>>
      /\ spent \in Nat /\ spent <= retry * I2CDEV_TIMEOUT + BackoffsBefore(retry)
  BY DEF TryAgain, OperationFits, TypeOK, I2cTypeOK, I2C_MAX_RETRIES
<1>2. PICK t \in 0 .. I2CDEV_TIMEOUT :
        \/ /\ retry < 3 /\ op' = "setup"
           /\ spent' = spent + t + Backoff(retry + 1)
        \/ /\ retry >= 3 /\ op' = "failed"
           /\ spent' = spent + t
  BY DEF TryAgain, I2C_MAX_RETRIES
<1>3. /\ spent' \in Nat /\ spent' <= MaxOperation
      /\ op' = "setup" =>
           retry < 3 /\ spent' <= (retry + 1) * I2CDEV_TIMEOUT + BackoffsBefore(retry + 1)
      /\ op' \in {"setup", "failed"} /\ (op' = "failed" => retry = 3)
  <2>1. CASE retry = 0
    BY <1>1, <1>2, <2>1
  <2>2. CASE retry = 1
    BY <1>1, <1>2, <2>2
  <2>3. CASE retry = 2
    BY <1>1, <1>2, <2>3
  <2>4. CASE retry = 3
    BY <1>1, <1>2, <2>4
  <2> QED
    BY <1>1, <2>1, <2>2, <2>3, <2>4
<1>4. TypeOK'
  BY <1>1, <1>3 DEF TypeOK, I2cTypeOK, I2C_MAX_RETRIES
<1>5. OperationIsBounded' /\ OperationFits'
  BY <1>1, <1>3 DEF OperationIsBounded, OperationFits, I2C_MAX_RETRIES
<1>6. MutexFollowsCall' /\ WellRetries' /\ OperationInCall'
  BY <1>1, <1>3 DEF MutexFollowsCall, WellRetries, OperationInCall
<1> QED
  BY <1>4, <1>5, <1>6

LEMMA OperationKeeps == SensorInv /\ Operation => SensorInv'
<1> SUFFICES ASSUME SensorInv, Operation PROVE SensorInv'
  OBVIOUS
<1>0. UNCHANGED sensorVars /\ mode' \in {"SLEEP", "NORMAL"}
  BY DEF Operation, Written, SensorInv, TypeOK
<1>t. installed \in BOOLEAN
  BY DEF SensorInv, TypeOK, I2cTypeOK
<1>1. CASE PortSetupFails
  BY <1>0, <1>1, <1>t, SetupRetryKeeps DEF PortSetupFails, portVars
<1>2. CASE DeviceAddFails
  BY <1>0, <1>2, SetupRetryKeeps DEF DeviceAddFails
<1>3. CASE SetupSucceeds
  BY <1>0, <1>3, SetupSucceedsKeeps
<1>4. CASE AttemptSucceeds
  BY <1>0, <1>4, AttemptSucceedsKeeps
<1>5. CASE AttemptFails
  BY <1>0, <1>5, TryAgainKeeps DEF AttemptFails, portVars
<1>6. CASE AttemptInvalid
  BY <1>0, <1>6, TryAgainKeeps DEF AttemptInvalid
<1> QED
  BY <1>1, <1>2, <1>3, <1>4, <1>5, <1>6
  DEF Operation, DoOperationWithRetry, SetupDevice, Attempt

-----------------------------------------------------------------------------
LEMMA SensorInitKeeps == SensorInv /\ SensorInit => SensorInv'
<1> SUFFICES ASSUME SensorInv, SensorInit PROVE SensorInv'
  OBVIOUS
<1> USE BackoffFacts, InitStepsLast, I2cAssumption
<1> USE DEF SensorInv, sensorVars, portVars, opVars, i2cVars, StartOperation
<1>1. CASE NoMutex
  BY <1>1 DEF NoMutex, TypeOK, I2cTypeOK, OperationIsBounded, OperationFits, MutexFollowsCall,
       WellRetries, OperationInCall
<1>2. CASE InitBegins
  BY <1>2 DEF InitBegins, TypeOK, I2cTypeOK, OperationIsBounded, OperationFits, MutexFollowsCall,
       WellRetries, OperationInCall, I2C_MAX_RETRIES
<1>3. CASE InitStep
  <2>1. TypeOK' /\ OperationIsBounded' /\ OperationFits'
    BY <1>3 DEF InitStep, TypeOK, I2cTypeOK, OperationIsBounded, OperationFits, I2C_MAX_RETRIES
  <2>2. MutexFollowsCall' /\ WellRetries' /\ OperationInCall'
    BY <1>3 DEF InitStep, MutexFollowsCall, WellRetries, OperationInCall
  <2> QED
    BY <2>1, <2>2
<1>4. CASE PollAgain
  BY <1>4 DEF PollAgain, TypeOK, I2cTypeOK, OperationIsBounded, OperationFits, MutexFollowsCall,
       WellRetries, OperationInCall, I2C_MAX_RETRIES
<1>5. CASE InitFails
  BY <1>5 DEF InitFails, TypeOK, I2cTypeOK, OperationIsBounded, OperationFits, MutexFollowsCall,
       WellRetries, OperationInCall
<1>6. CASE InitDone
  BY <1>6 DEF InitDone, TypeOK, I2cTypeOK, OperationIsBounded, OperationFits, MutexFollowsCall,
       WellRetries, OperationInCall
<1> QED
  BY <1>1, <1>2, <1>3, <1>4, <1>5, <1>6 DEF SensorInit

LEMMA SensorReadKeeps == SensorInv /\ SensorRead => SensorInv'
<1> SUFFICES ASSUME SensorInv, SensorRead PROVE SensorInv'
  OBVIOUS
<1> USE BackoffFacts, InitStepsLast, I2cAssumption
<1> USE DEF SensorInv, sensorVars, portVars, opVars, i2cVars, StartOperation
<1>1. CASE ReadUninitialized
  BY <1>1 DEF ReadUninitialized, TypeOK, I2cTypeOK, OperationIsBounded, OperationFits, MutexFollowsCall,
       WellRetries, OperationInCall
<1>2. CASE ReadBegins
  <2>1. TypeOK' /\ OperationIsBounded' /\ OperationFits'
    BY <1>2 DEF ReadBegins, TypeOK, I2cTypeOK, OperationIsBounded, OperationFits, I2C_MAX_RETRIES
  <2>2. MutexFollowsCall' /\ WellRetries' /\ OperationInCall'
    BY <1>2 DEF ReadBegins, MutexFollowsCall, WellRetries, OperationInCall
  <2> QED
    BY <2>1, <2>2
<1>3. CASE ReadSucceeds \/ ReadFails
  BY <1>3 DEF ReadSucceeds, ReadFails, ReadEnds, TypeOK, I2cTypeOK, OperationIsBounded, OperationFits,
       MutexFollowsCall, WellRetries, OperationInCall
<1> QED
  BY <1>1, <1>2, <1>3 DEF SensorRead

(* Whatever the bus and the sensor do on their own. *)
LEMMA WorldKeeps == SensorInv /\ (BusChange \/ Unplug) => SensorInv'
<1> SUFFICES ASSUME SensorInv, BusChange \/ Unplug PROVE SensorInv'
  OBVIOUS
<1> USE InitStepsLast
<1> USE DEF SensorInv, sensorVars, portVars, opVars, BusChanges
<1>1. PICK b \in {"answers", "silent", "broken"} : BusChanges(b)
  BY DEF BusChange, Unplug
<1>2. UNCHANGED sensorVars /\ mode' \in {"SLEEP", "NORMAL"}
  BY DEF BusChange, Unplug, TypeOK
<1>3. TypeOK'
  BY <1>1, <1>2 DEF TypeOK, I2cTypeOK
<1>4. OperationIsBounded' /\ OperationFits'
  BY <1>1 DEF OperationIsBounded, OperationFits
<1>5. MutexFollowsCall' /\ OperationInCall'
  BY <1>1, <1>2 DEF MutexFollowsCall, OperationInCall
<1>6. WellRetries'
  BY <1>1 DEF WellRetries, TypeOK, I2cTypeOK
<1> QED
  BY <1>3, <1>4, <1>5, <1>6

LEMMA StutterKeeps == SensorInv /\ UNCHANGED vars => SensorInv'
  BY DEF vars, i2cVars, portVars, opVars, sensorVars, SensorInv, TypeOK, I2cTypeOK,
     OperationIsBounded, OperationFits, MutexFollowsCall, WellRetries,
     OperationInCall, LastStep

LEMMA SensorInvHolds == Spec => []SensorInv
<1>1. SensorInv /\ [Next]_vars => SensorInv'
  BY OperationKeeps, SensorInitKeeps, SensorReadKeeps, WorldKeeps, StutterKeeps DEF Next
<1> QED
  BY InitEstablishes, <1>1, PTL DEF Spec

-----------------------------------------------------------------------------
(* The variables keep their types, for any timeout and any number of       *)
(* calibration registers.                                                  *)
THEOREM TypeCorrect == Spec => []TypeOK
  BY SensorInvHolds, PTL DEF SensorInv

(* app/sensor.cpp:71: an operation takes four attempts and three backoffs  *)
(* at most, whatever mix of failures it meets, if an attempt may take as   *)
(* long as the last backoff.                                               *)
THEOREM OperationBound == Spec => []OperationIsBounded
  BY SensorInvHolds, PTL DEF SensorInv

(* The device's mutex is taken only inside a call of the driver. *)
THEOREM MutexGivenBack == Spec => []MutexIsGivenBack
<1>1. SensorInv => MutexIsGivenBack
  BY DEF SensorInv, MutexFollowsCall, MutexIsGivenBack
<1> QED
  BY SensorInvHolds, <1>1, PTL

(* A stale handle costs an operation one attempt at most: while the bus    *)
(* answers it from its start on, it does not fail, whatever the failures   *)
(* before it left behind.                                                  *)
THEOREM StaleHandleIsMended == Spec => []OneRetryMends
<1>1. SensorInv => OneRetryMends
  <2> SUFFICES ASSUME SensorInv, well, op # "none" PROVE op # "failed" /\ retry <= 1
    BY DEF OneRetryMends
  <2>1. op \in {"setup", "attempt", "ok"} /\ WellRetries
    BY DEF SensorInv, TypeOK, I2cTypeOK, WellRetries
  <2> QED
    BY <2>1 DEF WellRetries
<1> QED
  BY SensorInvHolds, <1>1, PTL

-----------------------------------------------------------------------------
(* Progress of an operation. *)

LEMMA OperationMoves ==
  ASSUME SensorInv, Operation, op \in {"setup", "attempt"}
  PROVE  AnswersOrAdvances
<1> USE DEF AnswersOrAdvances
<1>1. retry \in 0 .. 3 /\ I2C_MAX_RETRIES = 3
  BY DEF SensorInv, OperationFits, TypeOK, I2cTypeOK, I2C_MAX_RETRIES
<1>2. CASE PortSetupFails \/ DeviceAddFails
  BY <1>1, <1>2 DEF PortSetupFails, DeviceAddFails, SetupRetry, StepsLeft
<1>3. CASE SetupSucceeds
  BY <1>1, <1>3 DEF SetupSucceeds, StepsLeft
<1>4. CASE AttemptSucceeds
  BY <1>4 DEF AttemptSucceeds
<1>5. CASE AttemptFails \/ AttemptInvalid
  BY <1>1, <1>5 DEF AttemptFails, AttemptInvalid, TryAgain, StepsLeft
<1> QED
  BY <1>2, <1>3, <1>4, <1>5 DEF Operation, DoOperationWithRetry, SetupDevice, Attempt

(* No step but its own disturbs an operation under way. *)
LEMMA OthersWait ==
  ASSUME OperationInCall, op \in {"setup", "attempt"}, [Next]_vars, ~Operation
  PROVE  UNCHANGED opVars
<1>1. main \in {"init", "read"}
  BY DEF OperationInCall
<1>2. ~SensorInit /\ ~SensorRead
  BY <1>1
  DEF SensorInit, NoMutex, InitBegins, InitStep, PollAgain, InitFails, InitDone,
      SensorRead, ReadUninitialized, ReadBegins, ReadSucceeds, ReadFails, ReadEnds
<1>3. BusChange \/ Unplug => UNCHANGED opVars
  BY DEF BusChange, Unplug, BusChanges
<1>4. UNCHANGED vars => UNCHANGED opVars
  BY DEF vars, i2cVars
<1> QED
  BY <1>2, <1>3, <1>4 DEF Next

(* A driver call cannot go on for ever inside one operation: each step     *)
(* answers or leaves less to do, also when an invalid handle is dropped    *)
(* and added again in between.                                             *)
THEOREM OperationEnds == Spec => OperationAdvances
<1>1. ASSUME SensorInv, Next, op \in {"setup", "attempt"}, opVars' # opVars
      PROVE  AnswersOrAdvances
  <2>1. Operation
    BY <1>1, OthersWait DEF SensorInv
  <2> QED
    BY <1>1, <2>1, OperationMoves
<1>2. SensorInv /\ [Next]_vars
        => [opVars' # opVars /\ op \in {"setup", "attempt"} => AnswersOrAdvances]_vars
  BY <1>1
<1> QED
  BY <1>2, SensorInvHolds, PTL DEF Spec, OperationAdvances
=============================================================================
