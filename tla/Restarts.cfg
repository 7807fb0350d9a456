SPECIFICATION FairRestartsSpec
CONSTANTS
  EVENT_QUEUE_SIZE = 3
  MAX_FAULTS = 2
  SAMPLE_PERIOD = 2
  MaxSensorBlock = 1
  MaxPublishBlock = 0
  MaxWifiWait = 5
  ShortPressGap = 3
  LongPressGap = 3
  TASK_WDT_INIT = FALSE
  TASK_WDT_TIMEOUT = 10
  TASK_WDT_PANIC = FALSE
  WATCHDOG_TIMEOUT = 4
  MaxCount = 3
  MaxOutages = 1
INVARIANTS
  CountIsCrashes
PROPERTIES
  CrashLoopIsNoticed
  StartUpLoopIsNoticed
  DeadNodeResets
