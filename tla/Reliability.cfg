SPECIFICATION FairSpec
CONSTANTS
  x = x
  y = y
  Payload = {x, y}
  Message <- Messages
  FilterWidth = 2
  WindowSize = 2
  AckWidth = 1
  MaxRetransmissions = 1
  MaxSent = 3
  MaxLost = 1
  MaxRepeated = 1
INVARIANTS
  TypeOK
  NoFreshFrameDropped
  BufferBounded
  AckedWasReceived
PROPERTIES
  DeliversInOrder
  EventuallyDelivered
CHECK_DEADLOCK FALSE
