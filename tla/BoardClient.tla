----------------------------- MODULE BoardClient -----------------------------
(***************************************************************************)
(* moneropricenow.js, the board: a chain of refreshes 15 seconds apart,    *)
(* refreshes beside the chain when the rate type is switched, a sponsor    *)
(* list that arrives whenever it does, a table that is patched rather than *)
(* rebuilt, and sort clicks in between.  A refresh takes no number: its    *)
(* answer is rendered whatever was rendered since it was asked for.        *)
(* Rows are named by their exchange, as data-ex and prev name them; an     *)
(* exchange that only quotes fixed rates may have two rows in one answer,  *)
(* which share a name: such answers are left out.                          *)
(***************************************************************************)
EXTENDS Integers, FiniteSets, FiniteSetsExt, Sequences

CONSTANTS
  Exchanges,     \* numbers, in the order of their names
  NoPrice,
  MinPrice,      \* MINP: a price below it is not shown, nor counted
  Rows,          \* the [buy, sell] pairs a row may carry
  Answers,       \* what /api/prices/two-way answers for one rate type: rows by exchange
  SponsorLists,  \* what /api/sponsors answers: [keys, links], the sponsors with a link
  SortKeys,      \* the headers clicked: "name", "buy", "sell", "spread"
  TrendMax,      \* TREND_MAX
  Nothing,       \* no answer yet; no count-up running; no headline of ours
  MaxClicks      \* bound: refreshes in flight beside the chain's

\* The feed carries positive prices only (IsSaneTwoWayRow).
ASSUME BoardClientAssumption ==
  /\ Rows \subseteq [buy : (Nat \ {0}) \cup {NoPrice}, sell : (Nat \ {0}) \cup {NoPrice}]
  /\ Exchanges \subseteq Int /\ IsFiniteSet(Exchanges)
  /\ MinPrice \in Nat
  /\ SortKeys \subseteq {"name", "buy", "sell", "spread"}
  /\ Answers \subseteq UNION {[D -> Rows] : D \in SUBSET Exchanges}
  /\ \A l \in SponsorLists : l.links \subseteq l.keys /\ l.keys \subseteq Exchanges
  /\ TrendMax \in Nat \ {0} /\ MaxClicks \in Nat

VARIABLES
  timer,        \* refreshTid is armed
  chained,      \* doRefresh's refresh is in flight (at boot: the first one)
  clicked,      \* refreshes started by the rate buttons, in flight
  lastStats,    \* the visible rows of the last answer that had any row
  cells,        \* the rows in the table
  order,        \* from top to bottom
  placeholder,  \* the "No prices available." row
  firstRender,  \* tableFirstRender
  baseline,     \* prev
  sortBy,       \* sortKey ("none" for the default order) and sortDir
  hero,         \* the headline: a mid price, NoPrice ("--"), Nothing (the server's text)
  heroFirst,    \* heroFirstRender
  counting,     \* the count-up animation's target
  market,       \* window.__MARKET_PRICE__
  session,      \* sessionStartPrice
  dots,         \* priceHistory, newest first
  sponsorsOut,  \* loadSponsors' request is out
  sponsorKeys, sponsorLinks,
  marked,       \* rows with the class is-sponsor
  linked        \* rows whose arrow leads to the sponsor's own link

refreshVars == <<timer, chained, clicked>>
tableVars == <<cells, order, placeholder, firstRender, baseline>>
heroVars == <<hero, heroFirst, counting, market, session, dots>>
sponsorVars == <<sponsorsOut, sponsorKeys, sponsorLinks, marked, linked>>
boardVars == <<refreshVars, lastStats, tableVars, sortBy, heroVars, sponsorVars>>

NoRows == [e \in {} |-> Nothing]
Boards == UNION {[D -> Rows] : D \in SUBSET Exchanges}
ASSUME NothingAssumption == Nothing \notin Boards

(***************************************************************************)
(* computeStats and sortedRows.                                            *)
(***************************************************************************)
Has(p) == p # NoPrice /\ p >= MinPrice
Visible(data) == [e \in {x \in DOMAIN data : Has(data[x].buy) \/ Has(data[x].sell)} |-> data[e]]

Sides(rows) == {s \in (DOMAIN rows) \X {"buy", "sell"} : Has(rows[s[1]][s[2]])}

\* The average of every price on the board, in sixtieths: exact for six prices.
Total(rows) ==
  LET price == [s \in Sides(rows) |-> rows[s[1]][s[2]]]
  IN  MapThenSumSet(LAMBDA s : price[s], Sides(rows))
MidPrice(rows) ==
  IF Sides(rows) = {} THEN NoPrice ELSE (60 * Total(rows)) \div Cardinality(Sides(rows))

\* No spread is known for a row without two prices that count, and no percentage for
\* one that buys below its sell price.
TwoSided(r) == Has(r.buy) /\ Has(r.sell)
HasSpread(r) == TwoSided(r) /\ r.buy >= r.sell
Narrower(x, y) == (x.buy - x.sell) * y.buy < (y.buy - y.sell) * x.buy

\* The default order: spreadPct, then spreadAbs, then the name.
AheadBySpread(rows, a, b) ==
  LET Pct(x, y) == HasSpread(x) /\ (HasSpread(y) => Narrower(x, y))
      Abs(x, y) == TwoSided(x) /\ (TwoSided(y) => x.buy - x.sell < y.buy - y.sell)
      x == rows[a]  y == rows[b]
  IN  \/ Pct(x, y)
      \/ ~Pct(y, x) /\ (Abs(x, y) \/ (~Abs(y, x) /\ a < b))

\* A column looks for null: a price below the minimum is sorted by its value.
Missing(key, r) ==
  IF key = "spread" THEN ~HasSpread(r) ELSE r[key] = NoPrice
Less(key, x, y) ==
  IF key = "spread" THEN Narrower(x, y) ELSE x[key] < y[key]

\* Faulty variant: a missing value puts the first of the two ahead.
AheadByColumnNaive(by, rows, a, b) ==
  LET x == rows[a]  y == rows[b] IN
    \/ Missing(by.key, x) \/ Missing(by.key, y)
    \/ IF by.dir > 0 THEN Less(by.key, x, y) ELSE Less(by.key, y, x)

\* A column's order: rows without a value last (first in the sell column),
\* ties as they came.
AheadByColumn(by, rows, a, b) ==
  LET Before(x, y) ==
        IF Missing(by.key, x) # Missing(by.key, y)
          THEN Missing(by.key, IF by.key = "sell" THEN x ELSE y)
        ELSE ~Missing(by.key, x) /\ IF by.dir > 0 THEN Less(by.key, x, y) ELSE Less(by.key, y, x)
  IN  Before(rows[a], rows[b]) \/ (~Before(rows[b], rows[a]) /\ a < b)

Ahead(by, rows, a, b) ==
  CASE by.key = "none" -> AheadBySpread(rows, a, b)
    [] by.key = "name" -> IF by.dir > 0 THEN a < b ELSE b < a
    [] OTHER -> AheadByColumn(by, rows, a, b)

Sorted(by, rows) ==
  CHOOSE s \in [1..Cardinality(DOMAIN rows) -> DOMAIN rows] :
    \A i, j \in DOMAIN s : i < j => Ahead(by, rows, s[i], s[j])

(***************************************************************************)
(* Rendering.                                                              *)
(***************************************************************************)
Merged(old, new) ==
  [e \in DOMAIN old \cup DOMAIN new |-> IF e \in DOMAIN new THEN new[e] ELSE old[e]]
Without(f, S) == [e \in DOMAIN f \ S |-> f[e]]

\* bodyEl.innerHTML is the placeholder.
ClearTable ==
  /\ cells' = NoRows /\ order' = <<>> /\ placeholder' = TRUE
  /\ marked' = {} /\ linked' = {}

\* Faulty variant: the first rendering leaves no baseline.
BuildTableUnprimed(rows, sorted) ==
  /\ cells' = rows /\ order' = sorted /\ placeholder' = FALSE
  /\ firstRender' = FALSE
  /\ marked' = DOMAIN rows \cap sponsorKeys
  /\ linked' = DOMAIN rows \cap sponsorLinks
  /\ UNCHANGED baseline

\* The table is built from nothing.
BuildTable(rows, sorted) ==
  /\ cells' = rows /\ order' = sorted /\ placeholder' = FALSE
  /\ firstRender' = FALSE
  /\ baseline' = Merged(baseline, rows)
  /\ marked' = DOMAIN rows \cap sponsorKeys
  /\ linked' = DOMAIN rows \cap sponsorLinks

\* Faulty variant: rows that left the answer stay in the table.
PatchTableKeeping(rows, sorted) ==
  /\ cells' = Merged(cells, rows)
  /\ order' = sorted
  /\ baseline' = Merged(baseline, rows)
  /\ marked' = DOMAIN rows \cap sponsorKeys
  /\ linked' = (linked \cap DOMAIN rows) \cup ((DOMAIN rows \ DOMAIN cells) \cap sponsorLinks)
  /\ UNCHANGED <<placeholder, firstRender>>

\* Rows are removed, updated, created and put in order; the placeholder is not
\* one of them, and an existing row keeps its name cell.
PatchTable(rows, sorted) ==
  /\ cells' = rows
  /\ order' = sorted
  /\ baseline' = Merged(Without(baseline, DOMAIN cells \ DOMAIN rows), rows)
  /\ marked' = DOMAIN rows \cap sponsorKeys
  /\ linked' = (linked \cap DOMAIN rows) \cup ((DOMAIN rows \ DOMAIN cells) \cap sponsorLinks)
  /\ UNCHANGED <<placeholder, firstRender>>

RenderTable(rows, sorted) ==
  IF rows = NoRows THEN ClearTable /\ firstRender' = TRUE /\ UNCHANGED baseline
  ELSE IF firstRender THEN BuildTable(rows, sorted) ELSE PatchTable(rows, sorted)

\* Faulty variant: every price counts up.
RenderHeroCounting(mid) ==
  /\ heroFirst' = FALSE
  /\ hero' = mid
  /\ counting' = IF mid # NoPrice THEN mid ELSE counting

\* renderHero: the first price counts up, later ones are written.
RenderHero(mid) ==
  /\ heroFirst' = FALSE
  /\ hero' = mid
  /\ counting' = IF heroFirst /\ mid # NoPrice THEN mid ELSE counting

\* Faulty variant: the dot is coloured by the session, not by the dot before it.
DotBySession(mid) ==
  IF session = Nothing \/ mid = session THEN "neutral" ELSE IF mid > session THEN "up" ELSE "down"

Dot(mid) ==
  IF dots = <<>> \/ mid = dots[1].price THEN "neutral"
  ELSE IF mid > dots[1].price THEN "up" ELSE "down"

\* Faulty variant: the oldest dot is not dropped.
RecordPriceUnbounded(mid) ==
  IF mid = NoPrice THEN UNCHANGED <<market, session, dots>>
  ELSE /\ market' = mid
       /\ session' = IF session = Nothing THEN mid ELSE session
       /\ dots' = <<[price |-> mid, dir |-> Dot(mid)]>> \o dots

\* recordPrice and window.__MARKET_PRICE__.
RecordPrice(mid) ==
  IF mid = NoPrice THEN UNCHANGED <<market, session, dots>>
  ELSE /\ market' = mid
       /\ session' = IF session = Nothing THEN mid ELSE session
       /\ dots' = LET d == <<[price |-> mid, dir |-> Dot(mid)]>> \o dots
                  IN  SubSeq(d, 1, IF Len(d) > TrendMax THEN TrendMax ELSE Len(d))

(***************************************************************************)
(* Actions.                                                                *)
(***************************************************************************)
BoardInit ==
  /\ timer = FALSE /\ chained = TRUE /\ clicked = 0
  /\ lastStats = Nothing
  /\ cells = NoRows /\ order = <<>> /\ placeholder = FALSE
  /\ firstRender = TRUE /\ baseline = NoRows
  /\ sortBy = [key |-> "none", dir |-> 1]
  /\ hero = Nothing /\ heroFirst = TRUE /\ counting = Nothing
  /\ market = NoPrice /\ session = Nothing /\ dots = <<>>
  /\ sponsorsOut = TRUE /\ sponsorKeys = {} /\ sponsorLinks = {}
  /\ marked = {} /\ linked = {}

TimerFires ==
  /\ timer /\ timer' = FALSE
  /\ chained' = TRUE
  /\ UNCHANGED <<clicked, lastStats, tableVars, sortBy, heroVars, sponsorVars>>

\* Faulty variant: every refresh schedules the next one.
RefreshEndsScheduling(chain) ==
  /\ IF chain THEN chained /\ chained' = FALSE /\ UNCHANGED clicked
     ELSE clicked > 0 /\ clicked' = clicked - 1 /\ UNCHANGED chained
  /\ timer' = TRUE

\* A refresh of the chain ends with scheduleNext, one of a click does not.
RefreshEnds(chain) ==
  IF chain THEN chained /\ chained' = FALSE /\ timer' = TRUE /\ UNCHANGED clicked
  ELSE clicked > 0 /\ clicked' = clicked - 1 /\ UNCHANGED <<timer, chained>>

\* An answer with rows of the rate type selected by now.
Refreshed(chain, data) ==
  /\ RefreshEnds(chain)
  /\ LET rows == Visible(data)  mid == MidPrice(rows) IN
       /\ lastStats' = rows
       /\ RenderHero(mid)
       /\ RecordPrice(mid)
       /\ RenderTable(rows, Sorted(sortBy, rows))
  /\ UNCHANGED <<sortBy, sponsorsOut, sponsorKeys, sponsorLinks>>

\* None of that rate type: the headline and the table are blanked here, not in
\* renderTable, and everything else stays as it was.
RefreshedEmpty(chain) ==
  /\ RefreshEnds(chain)
  /\ hero' = NoPrice
  /\ ClearTable
  /\ UNCHANGED <<lastStats, firstRender, baseline, sortBy, heroFirst,
                 counting, market, session, dots, sponsorsOut, sponsorKeys, sponsorLinks>>

RefreshFailed(chain) ==
  /\ RefreshEnds(chain)
  /\ UNCHANGED <<lastStats, tableVars, sortBy, heroVars, sponsorVars>>

CountUpFrame ==
  /\ counting # Nothing
  /\ hero' = counting
  /\ counting' = Nothing
  /\ UNCHANGED <<refreshVars, lastStats, tableVars, sortBy, heroFirst,
                 market, session, dots, sponsorVars>>

\* The rate buttons: the rate type is window.__RATE_TYPE__, in Page; here it
\* shows in the answers, which are filtered by it, and in one more refresh.
SwitchRate ==
  /\ clicked < MaxClicks /\ clicked' = clicked + 1
  /\ UNCHANGED <<timer, chained, lastStats, tableVars, sortBy, heroVars, sponsorVars>>

\* A header click: turn the direction round or start the column's own; the last
\* answer with rows is rendered again.
ClickSort(k) ==
  /\ LET by == [key |-> k, dir |-> IF sortBy.key = k THEN -sortBy.dir ELSE IF k = "sell" THEN -1 ELSE 1] IN
       /\ sortBy' = by
       /\ IF lastStats = Nothing THEN UNCHANGED <<tableVars, marked, linked>>
          ELSE RenderTable(lastStats, Sorted(by, lastStats))
  /\ UNCHANGED <<refreshVars, lastStats, heroVars, sponsorsOut, sponsorKeys, sponsorLinks>>

\* Faulty variant: the rows already in the table are not marked again.
SponsorsArriveLate(keys, links) ==
  /\ sponsorsOut /\ sponsorsOut' = FALSE
  /\ sponsorKeys' = keys /\ sponsorLinks' = links
  /\ UNCHANGED <<refreshVars, lastStats, tableVars, sortBy, heroVars, marked, linked>>

\* The sponsors, some with a link; the rows already there are marked and linked.
SponsorsArrive(keys, links) ==
  /\ sponsorsOut /\ sponsorsOut' = FALSE
  /\ sponsorKeys' = keys /\ sponsorLinks' = links
  /\ LET known == IF lastStats = Nothing THEN {} ELSE DOMAIN cells \cap DOMAIN lastStats IN
       /\ marked' = (marked \ known) \cup (known \cap keys)
       /\ linked' = (linked \ (known \cap keys)) \cup (known \cap keys \cap links)
  /\ UNCHANGED <<refreshVars, lastStats, tableVars, sortBy, heroVars>>

SponsorsFail ==
  /\ sponsorsOut /\ sponsorsOut' = FALSE
  /\ UNCHANGED <<refreshVars, lastStats, tableVars, sortBy, heroVars,
                 sponsorKeys, sponsorLinks, marked, linked>>

RefreshOver(chain) ==
  \/ \E data \in Answers : data # NoRows /\ Refreshed(chain, data)
  \/ RefreshedEmpty(chain)
  \/ RefreshFailed(chain)

BoardAlone ==
  \/ TimerFires
  \/ \E chain \in BOOLEAN : RefreshOver(chain)
  \/ CountUpFrame
  \/ \E k \in SortKeys : ClickSort(k)
  \/ \E l \in SponsorLists : SponsorsArrive(l.keys, l.links)
  \/ SponsorsFail

BoardNext == BoardAlone \/ SwitchRate

BoardSpec == BoardInit /\ [][BoardNext]_boardVars

(***************************************************************************)
(* Properties.                                                             *)
(***************************************************************************)
IsMid(h) == h \notin {NoPrice, Nothing}

\* Types of everything the board keeps.
BoardTypeOK ==
  /\ timer \in BOOLEAN /\ chained \in BOOLEAN /\ clicked \in 0..MaxClicks
  /\ lastStats \in Boards \cup {Nothing}
  /\ cells \in Boards /\ baseline \in Boards
  /\ order \in Seq(Exchanges)
  /\ placeholder \in BOOLEAN /\ firstRender \in BOOLEAN /\ heroFirst \in BOOLEAN
  /\ sortBy \in [key : SortKeys \cup {"none"}, dir : {1, -1}]
  /\ IsMid(hero) => hero \in Int
  /\ dots \in Seq([price : Int, dir : {"neutral", "up", "down"}]) /\ Len(dots) <= TrendMax
  /\ sponsorsOut \in BOOLEAN /\ sponsorLinks \subseteq sponsorKeys /\ sponsorKeys \subseteq Exchanges
  /\ marked \subseteq Exchanges /\ linked \subseteq Exchanges

\* The board has one heartbeat: either the next refresh is scheduled or the
\* chain's refresh is in flight, never both and never neither, whatever the rate
\* buttons refresh in between and however refreshes end.
OneHeartbeat == timer # chained

\* The rows of the table are those of the last answer that had any, all of them and
\* no other, in the order of the sort headers; or there is none, under the
\* placeholder.  Two things this does not say, for they are not so.  The placeholder
\* of an empty answer stays above the rows patched in after it.  And the rows need
\* not be of the rate type selected: a sort click after an empty answer renders
\* those of the other one again ("Show only exchanges matching the selected rate
\* type" holds of answers only).
TableShowsStats ==
  \/ cells = NoRows /\ order = <<>> /\ (placeholder \/ lastStats = Nothing)
  \/ /\ lastStats # Nothing
     /\ cells = lastStats
     /\ order = Sorted(sortBy, cells)

\* A row flashes by comparison with what it shows: the baseline of each row in
\* the table is its content.
BaselineIsTable == \A e \in DOMAIN cells : e \in DOMAIN baseline /\ baseline[e] = cells[e]

\* Whichever comes first, the sponsor list or the prices, every row of a sponsor
\* is marked and leads to the sponsor's own link, and no other row does.
SponsorRowsMarked ==
  /\ marked = DOMAIN cells \cap sponsorKeys
  /\ linked = DOMAIN cells \cap sponsorLinks

\* The headline is the price the converter uses, or else the first price of the
\* visit, which the count-up may write over a newer one.
HeroIsMarketOrFirst ==
  /\ IsMid(hero) => hero \in {market, session}
  /\ counting # Nothing => counting = session

\* Each trend dot tells the move from the dot before it, and the newest one is
\* the market price, across blanked boards and rate switches.
DotsAreChained ==
  /\ \A i \in 1..(Len(dots) - 1) :
       dots[i].dir = IF dots[i].price = dots[i + 1].price THEN "neutral"
                     ELSE IF dots[i].price > dots[i + 1].price THEN "up" ELSE "down"
  /\ market = IF dots = <<>> THEN NoPrice ELSE dots[1].price

\* Patched, emptied, sorted and marked late in any sequence, the rows are the ones
\* that building the table from nothing would give: contents, order, marks, links,
\* and what each row flashes against.  (A leftover placeholder is not a row.)
RowsAsBuilt == TableShowsStats /\ BaselineIsTable /\ SponsorRowsMarked

\* Headline, converter and trend speak of one sequence of prices, across count-ups,
\* blanked boards and rate switches.
PricesAgree == HeroIsMarketOrFirst /\ DotsAreChained

\* The comparator of every header and direction is a strict total order on every
\* answer, with ties, missing values, inverted spreads and prices below the minimum:
\* Array.sort is defined by it, although the difference of two missing values is NaN.
SortOrders == [key : {"none", "name", "buy", "sell", "spread"}, dir : {1, -1}]
OrderedByAll(rows) ==
  \A by \in SortOrders :
    /\ \A a, b \in DOMAIN rows : a # b => (Ahead(by, rows, a, b) # Ahead(by, rows, b, a))
    /\ \A a, b, c \in DOMAIN rows :
         Ahead(by, rows, a, b) /\ Ahead(by, rows, b, c) /\ a # c => Ahead(by, rows, a, c)
OrderIsTotal == lastStats # Nothing => OrderedByAll(lastStats)
==============================================================================
