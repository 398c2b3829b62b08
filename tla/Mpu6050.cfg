SPECIFICATION FilterSpec
CONSTANTS
  Gyro <- MCGyro
  Accel <- MCAccel
  MaxRate = 1
  MaxAccel = 2
  MaxGap = 3
  N = 3
INVARIANT Bounded
PROPERTY OutageIsNotIntegrated
