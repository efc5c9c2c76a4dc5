CONSTANTS
  NoPrice = NoPrice
  NoTime = NoTime
  NoRow = NoRow
  NoSnapshot = NoSnapshot
  SpreadNum = 1
  SpreadDen = 4
  e1 = e1
  e2 = e2
  Exchanges = {e1}
  FixedCapable = {e1}
  FixedOnly = {}
  SellOnly = {}
  SellPrices = {4, 5}
  BuyPrices = {5}
  StaleWindow = 2
  CycleTicks = 1
  MaxTime = 2
SPECIFICATION Spec
INVARIANTS
  LandedSideIsStored
