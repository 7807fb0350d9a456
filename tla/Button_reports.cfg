SPECIFICATION Spec
CONSTANTS
  DEBOUNCE = 3
  LONG_PRESS = 7
  MaxLatency = 1
INVARIANTS
  TypeOK
  TaskInStep
PROPERTIES
  ImplementsReports
  ReportsTheHold
