CONSTANTS
  NoTime = NoTime
  NoSnapshot = NoSnapshot
  NoExchange = NoExchange
  x1 = x1
  x2 = x2
  Exchanges = {x1}
  FixedCapable = {x1}
  FixedOnly = {}
  ChannelCap = 1
  LogInterval = 2
  MetaTtl = 2
  Minute = 1
  Retention = 2
  RetentionEvery = 2
  StaleWindow = 3
  MaxLag = 1
  MayFail = TRUE
  MaxTime = 4
SPECIFICATION FairSpec
CHECK_DEADLOCK FALSE
INVARIANTS
  TypeOK
  OneRowPerQuote
  CachedIsRegistered
  CacheMatchesRegistry
PROPERTIES
  BucketsNeverShrink
  ConsumerSurvives
