SPECIFICATION FairSpec
CONSTANTS
  Devices = {d1, d2}
  Reports <- MCReports
  PidOut <- MCPidOut
INVARIANTS
  TypeOK
  FailsafeWithinTwo
  TestIsGentle
  SilentMeansZero
PROPERTIES
  KeepsPromise
  LinkLossStopsMotors
  ThrottleCutStopsMotors
  RebootStopsMotors
