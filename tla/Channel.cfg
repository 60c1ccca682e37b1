SPECIFICATION FairSpec
CONSTANTS
  FilterWidth = 2
  RotationLimit = 3
  MaxFrames <- OneWayStream
  MaxHeader = 2
INVARIANTS
  TypeOK
  NonceUnique
  AcceptedOnce
  ReceiverNeverAhead
  StreamInSync
PROPERTY StreamDelivers
CHECK_DEADLOCK FALSE
