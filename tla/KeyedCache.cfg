CONSTANTS
  NoKey = NoKey
  NoValue = NoValue
  Cancelled = Cancelled
  NoFrame = NoFrame
  sell = sell
  buy = buy
  currencies = currencies
  Callers = {c1, c2}
  Values = {v, w}
  Keys <- MCKeys
  Nested <- MCNested
SPECIFICATION FairSpec
INVARIANTS
  PermitMatchesHolder
PROPERTIES
  ImplementsSingleFlight
  EveryCallReturns
