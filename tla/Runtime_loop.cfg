SPECIFICATION FairSpec
CONSTANTS
  EVENT_QUEUE_SIZE = 3
  MAX_FAULTS = 3
  SAMPLE_PERIOD = 3
  MaxSensorBlock = 4
  MaxPublishBlock = 2
  MaxWifiWait = 6
  ShortPressGap = 2
  LongPressGap = 4
  TASK_WDT_INIT = TRUE
  TASK_WDT_TIMEOUT = 10
  TASK_WDT_PANIC = FALSE
  WATCHDOG_TIMEOUT = 5
INVARIANTS
  TypeOK
  FaultCountFitsState
  ActiveWillEnd
  SampleSeenBeforeNext
  WatchdogFed
  BootWillEnd
PROPERTIES
  SafeModeIsEarned
  DeadStaysDown
  BootCompletes
  DeadSensorEscalates
