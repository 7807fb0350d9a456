SPECIFICATION FairSpec
CONSTANTS
  EVENT_QUEUE_SIZE = 4
  Events = {"BUTTON_SHORT_PRESS", "BUTTON_LONG_PRESS"}
  EVT_NONE = "NONE"
  Producers = {"button"}
  Consumer = "main"
PROPERTY
  ImplementsChannel
