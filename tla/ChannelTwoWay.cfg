SPECIFICATION Spec
CONSTANTS
  FilterWidth = 2
  RotationLimit = 2
  MaxFrames <- BothRotate
  MaxHeader = 0
INVARIANT StreamInSync
CHECK_DEADLOCK FALSE
