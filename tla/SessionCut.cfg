SPECIFICATION RFairSpec
CONSTANTS
  alice = alice
  mallory = mallory
  lan = lan
  Device = {alice, mallory}
  Kind <- Kinds
  MaxTries <- Tries
  Ip = {lan}
  IpOf <- Addresses
  RelayIp = lan
  MaxHandshakes = 1
  MaxAttempts = 1
  RateWindow = 2
  SessionTimeout = 2
  MaxBackoff = 2
  PollInterval = 1
  InitiatorTimeout = 1
  MaxIntents = 1
  MaxFaults = 1
PROPERTY EstablishedNotCut
CHECK_DEADLOCK FALSE
