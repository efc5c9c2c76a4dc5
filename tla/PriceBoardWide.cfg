CONSTANTS
  NoPrice = NoPrice
  NoTime = NoTime
  NoRow = NoRow
  NoSnapshot = NoSnapshot
  SpreadNum = 2
  SpreadDen = 1
  e1 = e1
  e2 = e2
  Exchanges = {e1, e2}
  FixedCapable = {e1}
  FixedOnly = {e2}
  SellOnly = {}
  SellPrices = {4, 30}
  BuyPrices = {33}
  StaleWindow = 1
  CycleTicks = 0
  MaxTime = 1
SPECIFICATION FairSpec
PROPERTIES
  FloatRowsNeverFlap
  RefreshEnds
