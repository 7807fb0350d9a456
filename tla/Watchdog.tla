------------------------------ MODULE Watchdog ------------------------------
(***************************************************************************)
(* services/watchdog.cpp over the task watchdog of ESP-IDF.  sdkconfig     *)
(* starts the task watchdog before app_main, and esp_task_wdt_init then    *)
(* answers ESP_ERR_INVALID_STATE: the settings of watchdog_init are used   *)
(* only in a build whose sdkconfig leaves the task watchdog off.           *)
(***************************************************************************)
EXTENDS Naturals

CONSTANTS
  TASK_WDT_INIT,       \* CONFIG_ESP_TASK_WDT_INIT: the system starts it
  TASK_WDT_TIMEOUT,    \* CONFIG_ESP_TASK_WDT_TIMEOUT_S, in ticks
  TASK_WDT_PANIC,      \* CONFIG_ESP_TASK_WDT_PANIC
  WATCHDOG_TIMEOUT     \* WATCHDOG_TIMEOUT_SEC, in ticks

ASSUME WatchdogAssumption ==
  /\ TASK_WDT_INIT \in BOOLEAN /\ TASK_WDT_PANIC \in BOOLEAN
  /\ TASK_WDT_TIMEOUT \in Nat \ {0} /\ WATCHDOG_TIMEOUT \in Nat \ {0}

VARIABLE wdt  \* ticks since the main task last reset the watchdog

(* What watchdog_init leaves in force. *)
WdtTimeout == IF TASK_WDT_INIT THEN TASK_WDT_TIMEOUT ELSE WATCHDOG_TIMEOUT
WdtPanics == TASK_WDT_INIT => TASK_WDT_PANIC

WatchdogInit == wdt = 0

WatchdogKick == wdt' = 0

Starved == wdt >= WdtTimeout

WdtTypeOK == wdt \in 0 .. WdtTimeout
=============================================================================
