SPECIFICATION FairSpec
CONSTANTS
  I2CDEV_TIMEOUT = 8
  CALIBRATION_READS = 2
INVARIANTS
  TypeOK
  OperationIsBounded
  MutexIsGivenBack
  OneRetryMends
PROPERTIES
  OperationAdvances
  ReadReturns
  InitReturns
  ReadsRecover
