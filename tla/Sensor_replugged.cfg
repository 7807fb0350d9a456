SPECIFICATION Spec
CONSTANTS
  I2CDEV_TIMEOUT = 8
  CALIBRATION_READS = 2
PROPERTY
  ReadingsAreMeasured
