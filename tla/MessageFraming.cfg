SPECIFICATION FairSpec
CONSTANTS
  short = short
  full = full
  longest = longest
  tooLong = tooLong
  Msg = {short, full, longest, tooLong}
  Size <- Sizes
  FragmentSize = 3
  MaxReassembledSize = 7
  LengthWidth = 4
  Expansion = 2
  Overhead = 1
  MaxSends = 2
INVARIANTS
  FailsOnlyOnOversize
PROPERTIES
  SessionIsFifo
  SentIsReceived
CHECK_DEADLOCK FALSE
