SPECIFICATION PidSpec
CONSTANTS
  Setpoints <- MCSetpoints
  Angles <- MCAngles
  MaxError = 3
  KP = 12
  KI = 0
  KD = 5
  ILimit = 5
  OutLimit = 400
INVARIANTS
  Limited
  ResetForgets
PROPERTY DerivativeDies
