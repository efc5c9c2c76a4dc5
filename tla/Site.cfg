CONSTANTS
  Rates = {"float", "fixed"}

  Exchanges = {1, 2, 3}
  MinPrice = 2
  NoPrice = NoPrice
  Nothing = Nothing
  Rows <- MCRows
  Answers <- MCAnswers
  SponsorLists <- MCSponsorLists
  SortKeys = {"sell", "spread"}
  TrendMax = 2
  MaxClicks = 1

  Typed = {0, 9, 19, 31}
  MarketPrices = {2, 3}
  Scale = 4
  QuoteMax = 2
  NoMarket = NoMarket

  Pairs = {"USD", "BTC"}
  Ranges = {1, 2}
  DefaultRange = 1
  Series = {"market"}
  NoChart = NoChart
  MaxLoads = 3
  ExchangeLoads = 2

  Cards = {"card"}
  Prices = {1, 2}
  NoQuote = NoQuote
  MaxPolls = 2

  FeeRanges = {1, 2, 3}
  FeeDefault = 1
  NoFeeChart = NoFeeChart
  MaxFeeLoads = 3

  Tiers = {"slow", "fast"}
  Fees = {1, 2}
  NoFee = NoFee
  MaxFeePolls = 2

  Days = {"week", "year"}
  Amounts = {1, 2}
  NoAmount = NoAmount
  MaxMmPolls = 2

  Names = {"a", "b", "c"}
  TierRanks = {1, 2}
  Expiries = {1, 2}
  NarrowSlots = 1
  WideSlots = 2
  MaxResizes = 2
SPECIFICATION SiteSpec
CHECK_DEADLOCK FALSE
INVARIANTS
  SiteTypeOK
  OneHeartbeat
  RowsAsBuilt
  OrderIsTotal
  PricesAgree
  AmountsAgree
  ChartIsTrue
  CardsAreTrue
  FeeChartIsTrue
  SaysWhatItShows
  BarShowsASet
PROPERTIES
  ArrowTellsTheMove
  ChartImplementsLatestWins
  FeeImplementsLatestWins
  OverlayClears
  EverySponsorIsShown
