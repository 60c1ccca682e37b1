SPECIFICATION Spec
CONSTANTS
  None = None
  client = client
  server = server
  other = other
  i1 = i1
  i2 = i2
  t1 = t1
  t2 = t2
  a1 = a1
  Device = {client, server, other}
  Intent = {i1, i2}
  Token = {t1, t2}
  Addr = {a1}
  Pair <- Pairs
  MaxRegistrations = 2
  StaleRegistration = 1
  TimestampWindow = 1
  MaxIntents = 1
  IntentTimeout = 1
  IdleTimeout = 1
  SessionExpiry = 2
  RateLimit = 1
  MaxRestarts = 1
  MaxTime = 3
INVARIANT FullOnlyWhenBusy
CHECK_DEADLOCK FALSE
