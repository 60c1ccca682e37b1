SPECIFICATION Spec
CONSTANTS
  None = None
  i1 = i1
  d1 = d1
  d2 = d2
  t1 = t1
  t2 = t2
  a1 = a1
  a2 = a2
  p1 = p1
  Intent = {i1}
  Device = {d1, d2}
  Token = {t1, t2}
  Addr = {a1, a2}
  Ip = {p1}
  IpOf <- Ips
  Pair <- Pairs
  IdleTimeout = 1
  SessionExpiry = 3
  ExchangeTimeout = 1
  RateLimit = 2
  ByteCap = 3
  PacketLen = {1, 2}
  BlocklistThreshold = 2
  BlocklistWindow = 1
  MaxBlocklistEntries = 1
  MaxTime = 4
SYMMETRY TokenSymmetry
INVARIANTS
  TypeOK
  RateBounded
  CapOvershoot
  NeverResumes
  TokensMeet
  FailuresBounded
CHECK_DEADLOCK FALSE
