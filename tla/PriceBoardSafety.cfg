CONSTANTS
  NoPrice = NoPrice
  NoTime = NoTime
  NoRow = NoRow
  NoSnapshot = NoSnapshot
  SpreadNum = 1
  SpreadDen = 4
  MaxRows = 5
  Rows <- MCRows
  MinPrices <- MCMinPrices
  e1 = e1
  e2 = e2
  Exchanges = {e1}
  FixedCapable = {e1}
  FixedOnly = {}
  SellOnly = {}
  SellPrices = {4, 7}
  BuyPrices = {5, 8}
  StaleWindow = 2
  CycleTicks = 1
  MaxTime = 3
SPECIFICATION MCSpec
INVARIANTS
  MajorityGoverns
  RulesAgree
  HonestStamp
  StaleBound
  FixedRowsAreGenuine
PROPERTIES
  FloatRowsNeverFlap
  StampsNeverGoBack
