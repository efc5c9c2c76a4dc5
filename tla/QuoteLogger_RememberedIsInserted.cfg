CONSTANTS
  NoTime = NoTime
  NoSnapshot = NoSnapshot
  NoExchange = NoExchange
  x1 = x1
  x2 = x2
  Exchanges = {x1}
  FixedCapable = {}
  FixedOnly = {}
  ChannelCap = 1
  LogInterval = 1
  MetaTtl = 2
  Minute = 2
  Retention = 0
  RetentionEvery = 1
  StaleWindow = 2
  MaxLag = 3
  MayFail = TRUE
  MaxTime = 4
SPECIFICATION Spec
CHECK_DEADLOCK FALSE
INVARIANTS
  RememberedIsInserted
