SPECIFICATION MCSpec
CONSTANTS
  EVENT_QUEUE_SIZE = 3
  Events = {"SENSOR_TIMEOUT", "BUTTON_LONG_PRESS"}
  EVT_NONE = "NONE"
  Producers = {"main", "button"}
  Consumer = "main"
  MaxBacklog = 4
INVARIANT
  EmptyMeansEmpty
