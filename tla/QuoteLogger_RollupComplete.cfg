CONSTANTS
  NoTime = NoTime
  NoSnapshot = NoSnapshot
  NoExchange = NoExchange
  x1 = x1
  x2 = x2
  Exchanges = {x1}
  FixedCapable = {}
  FixedOnly = {}
  ChannelCap = 2
  LogInterval = 1
  MetaTtl = 2
  Minute = 1
  Retention = 0
  RetentionEvery = 1
  StaleWindow = 4
  MaxLag = 2
  MayFail = FALSE
  MaxTime = 4
SPECIFICATION Spec
CHECK_DEADLOCK FALSE
INVARIANTS
  RollupComplete
