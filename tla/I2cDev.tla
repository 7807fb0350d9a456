------------------------------ MODULE I2cDev --------------------------------
(***************************************************************************)
(* esp-idf-lib__i2cdev/i2cdev.c, as the node uses it: one device on one    *)
(* port, used by the main task alone, so that no one ever waits for the    *)
(* port's lock.  An operation on a register is attempted I2C_MAX_RETRIES   *)
(* times more when it fails, and each attempt puts the bus and the device  *)
(* handle in place first.                                                  *)
(*                                                                         *)
(* Time is counted in units of I2C_RETRY_BASE_DELAY_MS.                    *)
(***************************************************************************)
EXTENDS Naturals

CONSTANT I2CDEV_TIMEOUT  \* longest an attempt may wait for the bus

ASSUME I2cAssumption == I2CDEV_TIMEOUT \in Nat /\ I2CDEV_TIMEOUT >= 8

VARIABLES
  bus,         \* what the bus is like: it answers, is silent, or its driver is broken
  installed,   \* the port's bus has been created
  dev_handle,  \* NULL, good, or bad since the driver broke
  op,          \* none, setup or attempt; then the operation's answer, ok or failed
  retry,
  spent,       \* how long the operation has taken so far
  well         \* history: the bus has answered since the operation began

portVars == <<installed, dev_handle>>
opVars == <<op, retry, spent>>
i2cVars == <<bus, portVars, opVars, well>>

I2C_MAX_RETRIES == 3

I2cInit ==
  /\ bus \in {"answers", "silent", "broken"}
  /\ installed = FALSE
  /\ dev_handle = "NULL"
  /\ op = "none"
  /\ retry = 0
  /\ spent = 0
  /\ well = FALSE

(* I2C_RETRY_BASE_DELAY_MS * (1 << r) *)
Backoff(r) == <<1, 2, 4, 8, 16>>[r + 1]

StartOperation ==
  /\ op' = "setup" /\ retry' = 0 /\ spent' = 0
  /\ well' = (bus = "answers")

-----------------------------------------------------------------------------
(* i2c_setup_device *)

(* Mutant: one retry too many. *)
SetupRetryOnceMore(cost) ==
  /\ op = "setup"
  /\ spent' = spent + cost
  /\ retry' = retry + 1
  /\ op' = IF retry <= I2C_MAX_RETRIES THEN "setup" ELSE "failed"
  /\ UNCHANGED <<bus, well>>

(* The attempt is over before it reached the bus. *)
SetupRetry(cost) ==
  /\ op = "setup"
  /\ spent' = spent + cost
  /\ retry' = retry + 1
  /\ op' = IF retry < I2C_MAX_RETRIES THEN "setup" ELSE "failed"
  /\ UNCHANGED <<bus, well>>

PortSetupFails ==
  /\ ~installed /\ bus = "broken"
  /\ SetupRetry(Backoff(retry))
  /\ UNCHANGED portVars

DeviceAddFails ==
  /\ dev_handle = "NULL" /\ bus = "broken"
  /\ SetupRetry(Backoff(retry))
  /\ installed' = TRUE
  /\ UNCHANGED dev_handle

(* A handle that is there is taken as it is, good or bad. *)
SetupSucceeds ==
  /\ op = "setup"
  /\ op' = "attempt"
  /\ installed' = TRUE
  /\ dev_handle' = IF dev_handle = "NULL" THEN "good" ELSE dev_handle
  /\ UNCHANGED <<bus, well, retry, spent>>

SetupDevice == PortSetupFails \/ DeviceAddFails \/ SetupSucceeds

-----------------------------------------------------------------------------
(* The attempt itself, which may use up its time whatever comes of it.     *)

AttemptSucceeds ==
  /\ op = "attempt" /\ dev_handle = "good" /\ bus = "answers"
  /\ op' = "ok"
  /\ \E t \in 0 .. I2CDEV_TIMEOUT : spent' = spent + t
  /\ UNCHANGED <<bus, well, portVars, retry>>

(* Mutant: the backoff follows the last attempt too. *)
TryAgainAndWait ==
  /\ op = "attempt"
  /\ retry' = retry + 1
  /\ op' = IF retry < I2C_MAX_RETRIES THEN "setup" ELSE "failed"
  /\ \E t \in 0 .. I2CDEV_TIMEOUT : spent' = spent + t + Backoff(retry + 1)
  /\ UNCHANGED <<bus, well>>

(* The next attempt follows after a backoff, if there is one left. *)
TryAgain ==
  /\ op = "attempt"
  /\ retry' = retry + 1
  /\ \E t \in 0 .. I2CDEV_TIMEOUT :
       \/ /\ retry < I2C_MAX_RETRIES
          /\ op' = "setup"
          /\ spent' = spent + t + Backoff(retry + 1)
       \/ /\ retry >= I2C_MAX_RETRIES
          /\ op' = "failed"
          /\ spent' = spent + t
  /\ UNCHANGED <<bus, well>>

(* A timeout or a missing acknowledgement: the handle is kept. *)
AttemptFails ==
  /\ dev_handle = "good" /\ bus = "silent"
  /\ TryAgain
  /\ UNCHANGED portVars

(* Mutant: the handle is kept after any error. *)
AttemptInvalidKeeps ==
  /\ dev_handle = "bad" \/ bus = "broken"
  /\ TryAgain
  /\ dev_handle' = "bad"
  /\ UNCHANGED installed

(* Mutant: an invalid handle is no retry. *)
AttemptInvalidUncounted ==
  /\ op = "attempt"
  /\ dev_handle = "bad" \/ bus = "broken"
  /\ op' = "setup"
  /\ dev_handle' = "NULL"
  /\ UNCHANGED <<bus, well, installed, retry, spent>>

(* ESP_ERR_INVALID_ARG or ESP_ERR_INVALID_STATE: the handle is removed and *)
(* the next attempt adds the device again.                                 *)
AttemptInvalid ==
  /\ dev_handle = "bad" \/ bus = "broken"
  /\ TryAgain
  /\ dev_handle' = "NULL"
  /\ UNCHANGED installed

Attempt == AttemptSucceeds \/ AttemptFails \/ AttemptInvalid

DoOperationWithRetry == SetupDevice \/ Attempt

-----------------------------------------------------------------------------
(* The bus changes; a driver that breaks spoils the handle it gave out.    *)
BusChanges(b) ==
  /\ bus' = b
  /\ dev_handle' = IF b = "broken" /\ dev_handle = "good" THEN "bad" ELSE dev_handle
  /\ well' = (well /\ b = "answers")
  /\ UNCHANGED <<installed, opVars>>

-----------------------------------------------------------------------------
(* The longest an operation can take: four attempts and three backoffs.    *)
MaxOperation == 4 * I2CDEV_TIMEOUT + Backoff(1) + Backoff(2) + Backoff(3)

(* The setups and attempts an operation under way may still go through. *)
StepsLeft == 2 * (I2C_MAX_RETRIES + 1 - retry) - (IF op = "attempt" THEN 1 ELSE 0)

(* Every variable has its type. *)
I2cTypeOK ==
  /\ bus \in {"answers", "silent", "broken"}
  /\ installed \in BOOLEAN
  /\ dev_handle \in {"NULL", "good", "bad"}
  /\ op \in {"none", "setup", "attempt", "ok", "failed"}
  /\ retry \in 0 .. I2C_MAX_RETRIES + 1
  /\ spent \in Nat
  /\ well \in BOOLEAN
=============================================================================
