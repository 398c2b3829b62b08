SPECIFICATION LoopSpec
CONSTANTS
  Devices = {d1}
  Reports <- LiveReports
  PidOut <- LivePidOut
PROPERTY ThrottleCutStopsMotors
