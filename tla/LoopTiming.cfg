SPECIFICATION FairSpec
CONSTANTS
  Modulus = 16
  MaxStall = 6
INVARIANTS
  OnSchedule
  OneTickApart
PROPERTY CatchesUp
