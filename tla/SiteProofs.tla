------------------------------ MODULE SiteProofs ------------------------------
(***************************************************************************)
(* The board of moneropricenow.js for any exchanges, answers, sponsor      *)
(* lists and number of refreshes beside the chain; and then the scripts of *)
(* the whole site in one tab, of which the board is one.                   *)
(***************************************************************************)
EXTENDS SiteScripts, ScriptProofs, FiniteSums, FiniteSetTheorems, SequenceTheorems, TLAPS

\* Nobody is a sponsor before the list has come.
SponsorsUnknown == sponsorsOut => sponsorKeys = {} /\ sponsorLinks = {}

\* The visit's first price is the one that counts up.
FirstIsOfVisit == heroFirst => session = Nothing /\ counting = Nothing

\* The trend is a sequence; what its prices are does not matter.
DotsAreSequence == \E D : dots \in Seq(D)

BoardInv ==
  /\ OneHeartbeat /\ timer \in BOOLEAN /\ chained \in BOOLEAN
  /\ TableShowsStats /\ BaselineIsTable
  /\ SponsorRowsMarked /\ SponsorsUnknown
  /\ HeroIsMarketOrFirst /\ FirstIsOfVisit
  /\ DotsAreSequence /\ DotsAreChained

TableInv == TableShowsStats /\ BaselineIsTable /\ SponsorRowsMarked
HeroInv == HeroIsMarketOrFirst /\ FirstIsOfVisit /\ DotsAreSequence /\ DotsAreChained
HeartInv == OneHeartbeat /\ timer \in BOOLEAN /\ chained \in BOOLEAN

\* What is rendered again is a board or nothing yet.
StatsAreBoard == lastStats \in Boards \cup {Nothing}

LEMMA BoardParts == BoardInv <=> TableInv /\ HeroInv /\ HeartInv /\ SponsorsUnknown
BY DEF BoardInv, TableInv, HeroInv, HeartInv

-----------------------------------------------------------------------------
(***************************************************************************)
(* The three parts under the steps that leave them alone.                  *)
(***************************************************************************)
LEMMA TableStays ==
  ASSUME TableInv, UNCHANGED <<lastStats, tableVars, sortBy, sponsorVars>>
  PROVE  TableInv'
BY DEF TableInv, tableVars, sponsorVars, TableShowsStats, BaselineIsTable, SponsorRowsMarked

LEMMA HeroStays ==
  ASSUME HeroInv, UNCHANGED heroVars
  PROVE  HeroInv'
BY DEF HeroInv, heroVars, HeroIsMarketOrFirst, FirstIsOfVisit, DotsAreSequence, DotsAreChained, IsMid

LEMMA RefreshEndKeepsHeart ==
  ASSUME HeartInv, NEW chain \in BOOLEAN, RefreshEnds(chain)
  PROVE  HeartInv'
<1>1. CASE chain
  BY <1>1 DEF HeartInv, OneHeartbeat, RefreshEnds
<1>2. CASE ~chain
  BY <1>2 DEF HeartInv, OneHeartbeat, RefreshEnds
<1> QED BY <1>1, <1>2

-----------------------------------------------------------------------------
(***************************************************************************)
(* Rendering.                                                              *)
(***************************************************************************)
\* An emptied table has nothing to be wrong about.
LEMMA ClearedTable ==
  ASSUME ClearTable
  PROVE  /\ cells' = NoRows /\ order' = <<>> /\ placeholder' = TRUE
         /\ TableInv'
BY DEF ClearTable, TableInv, TableShowsStats, BaselineIsTable, SponsorRowsMarked, NoRows

\* Built or patched, from rows of the last answer or from nothing, the table
\* comes out the same.
LEMMA RenderedTable ==
  ASSUME TableInv, NEW rows, NEW by,
         rows = [e \in DOMAIN rows |-> rows[e]],
         RenderTable(rows, Sorted(by, rows)),
         lastStats' = rows, rows # Nothing, sortBy' = by,
         UNCHANGED <<sponsorKeys, sponsorLinks>>
  PROVE  TableInv'
<1>1. CASE rows = NoRows
  BY <1>1, ClearedTable DEF RenderTable
<1>2. CASE rows # NoRows
  <2>1. /\ cells' = rows /\ order' = Sorted(by, rows)
        /\ marked' = DOMAIN rows \cap sponsorKeys
    BY <1>2 DEF RenderTable, BuildTable, PatchTable
  <2>2. linked' = DOMAIN rows \cap sponsorLinks
    BY <1>2 DEF RenderTable, BuildTable, PatchTable, TableInv, SponsorRowsMarked
  <2>3. \A e \in DOMAIN rows : e \in DOMAIN baseline' /\ baseline'[e] = rows[e]
    BY <1>2 DEF RenderTable, BuildTable, PatchTable, Merged
  <2> QED BY <2>1, <2>2, <2>3 DEF TableInv, TableShowsStats, BaselineIsTable, SponsorRowsMarked
<1> QED BY <1>1, <1>2

\* A new dot in front of the ones that still fit.
LEMMA DotsAdvance ==
  ASSUME DotsAreSequence, DotsAreChained, NEW mid, RecordPrice(mid)
  PROVE  DotsAreSequence' /\ DotsAreChained'
<1>1. CASE mid = NoPrice
  BY <1>1 DEF RecordPrice, DotsAreSequence, DotsAreChained
<1>2. CASE mid # NoPrice
  <2> DEFINE new == [price |-> mid, dir |-> Dot(mid)]
             all == <<new>> \o dots
             n == IF Len(all) > TrendMax THEN TrendMax ELSE Len(all)
  <2>1. PICK D : dots \in Seq(D)
    BY DEF DotsAreSequence
  <2>2. /\ dots \in Seq(D \cup {new}) /\ <<new>> \in Seq(D \cup {new})
        /\ Len(dots) \in Nat /\ Len(<<new>>) = 1 /\ <<new>>[1] = new
    BY <2>1
  <2>3. /\ all \in Seq(D \cup {new}) /\ Len(all) = Len(dots) + 1
        /\ all[1] = new
        /\ \A i \in 1..Len(dots) : all[i + 1] = dots[i]
    BY <2>2
  <2>4. n \in Nat /\ 1 <= n /\ n <= Len(all)
    BY <2>2, <2>3, BoardClientAssumption DEF BoardClientAssumption
  <2>5. dots' = SubSeq(all, 1, n) /\ market' = mid
    BY <1>2 DEF RecordPrice
  <2> HIDE DEF all, n
  <2>6. /\ dots' \in Seq(D \cup {new}) /\ Len(dots') = n
        /\ \A i \in 1..n : dots'[i] = all[i]
    <3>1. /\ SubSeq(all, 1, n) \in Seq(D \cup {new}) /\ Len(SubSeq(all, 1, n)) = n
          /\ \A i \in 1..n : SubSeq(all, 1, n)[i] = all[i]
      BY <2>3, <2>4, SubSeqProperties
    <3> QED BY <2>5, <3>1
  <2>7. dots'[1] = new /\ new.price = mid /\ new.dir = Dot(mid)
    BY <2>3, <2>4, <2>6
  <2>8. ASSUME NEW i \in 1..(Len(dots') - 1)
        PROVE  dots'[i].dir = IF dots'[i].price = dots'[i + 1].price THEN "neutral"
                              ELSE IF dots'[i].price > dots'[i + 1].price THEN "up" ELSE "down"
    <3>1. CASE i = 1
      <4>1. dots # <<>> /\ dots'[2] = dots[1]
        BY <2>2, <2>3, <2>4, <2>6, <2>8, <3>1
      <4> HIDE DEF new
      <4>2. dots'[i].price = mid /\ dots'[i].dir = Dot(mid) /\ dots'[i + 1] = dots[1]
        BY <2>7, <3>1, <4>1
      <4> QED BY <4>1, <4>2 DEF Dot
    <3>2. CASE i # 1
      <4>1. i - 1 \in 1..(Len(dots) - 1) /\ dots'[i] = dots[i - 1] /\ dots'[i + 1] = dots[(i - 1) + 1]
        BY <2>2, <2>3, <2>4, <2>6, <2>8, <3>2
      <4> QED BY <4>1 DEF DotsAreChained
    <3> QED BY <3>1, <3>2
  <2>9. DotsAreSequence'
    BY <2>6 DEF DotsAreSequence
  <2>10. dots' # <<>> /\ market' = dots'[1].price
    BY <2>4, <2>5, <2>6, <2>7
  <2> QED BY <2>8, <2>9, <2>10 DEF DotsAreChained
<1> QED BY <1>1, <1>2

\* The headline and what the converter is told.
LEMMA HeroRendered ==
  ASSUME HeroInv, NEW mid, RenderHero(mid), RecordPrice(mid)
  PROVE  HeroInv'
<1>1. DotsAreSequence' /\ DotsAreChained'
  BY DotsAdvance DEF HeroInv
<1>2. FirstIsOfVisit'
  BY DEF RenderHero, FirstIsOfVisit
<1>3. HeroIsMarketOrFirst'
  BY DEF HeroInv, RenderHero, RecordPrice, HeroIsMarketOrFirst, FirstIsOfVisit, Has, IsMid
<1> QED BY <1>1, <1>2, <1>3 DEF HeroInv
-----------------------------------------------------------------------------
LEMMA BoardInitInv == BoardInit => BoardInv
<1> SUFFICES ASSUME BoardInit PROVE BoardInv
  OBVIOUS
<1>1. TableInv
  BY DEF BoardInit, TableInv, TableShowsStats, BaselineIsTable, SponsorRowsMarked, NoRows
<1>2. HeartInv /\ SponsorsUnknown
  BY DEF BoardInit, HeartInv, OneHeartbeat, SponsorsUnknown
<1>3. dots = <<>> /\ <<>> \in Seq({}) /\ Len(<<>>) = 0
  BY DEF BoardInit
<1>4. HeroInv
  BY <1>3 DEF BoardInit, HeroInv, HeroIsMarketOrFirst, FirstIsOfVisit, DotsAreSequence, DotsAreChained, IsMid
<1> QED BY <1>1, <1>2, <1>4, BoardParts

\* Dropping the rows without a price leaves rows of the same kind.
LEMMA VisibleIsBoard ==
  ASSUME NEW data \in Answers
  PROVE  Visible(data) \in Boards
<1>1. PICK S \in SUBSET Exchanges : data \in [S -> Rows]
  BY BoardClientAssumption DEF BoardClientAssumption
<1>2. Visible(data) \in [DOMAIN Visible(data) -> Rows] /\ DOMAIN Visible(data) \in SUBSET Exchanges
  BY <1>1 DEF Visible
<1> QED BY <1>2 DEF Boards

\* An answer with rows of the selected rate type.
LEMMA RefreshedPreserves ==
  ASSUME BoardInv, NEW chain \in BOOLEAN, NEW data \in Answers, Refreshed(chain, data)
  PROVE  BoardInv'
<1> DEFINE rows == Visible(data)  mid == MidPrice(rows)
<1>1. HeartInv'
  BY BoardParts, RefreshEndKeepsHeart DEF Refreshed
<1>2. HeroInv'
  BY BoardParts, HeroRendered DEF Refreshed
<1>3. TableInv'
  <2>1. rows = [e \in DOMAIN rows |-> rows[e]]
    BY DEF Visible
  <2>2. rows # Nothing
    BY VisibleIsBoard, NothingAssumption DEF NothingAssumption
  <2> QED BY <2>1, <2>2, BoardParts, RenderedTable DEF Refreshed
<1>4. SponsorsUnknown'
  BY DEF Refreshed, BoardInv, SponsorsUnknown
<1> QED BY <1>1, <1>2, <1>3, <1>4 DEF BoardInv, TableInv, HeroInv, HeartInv

\* An answer without such rows: headline and table are blanked.
LEMMA EmptyPreserves ==
  ASSUME BoardInv, NEW chain \in BOOLEAN, RefreshedEmpty(chain)
  PROVE  BoardInv'
<1>1. HeartInv'
  BY BoardParts, RefreshEndKeepsHeart DEF RefreshedEmpty
<1>2. TableInv' /\ SponsorsUnknown'
  BY ClearedTable DEF RefreshedEmpty, BoardInv, SponsorsUnknown
<1>3. HeroInv'
  BY DEF RefreshedEmpty, BoardInv, HeroInv, HeroIsMarketOrFirst, FirstIsOfVisit, DotsAreSequence, DotsAreChained, IsMid
<1> QED BY <1>1, <1>2, <1>3 DEF BoardInv, TableInv, HeroInv, HeartInv

\* No answer, and the steps around the refreshes.
LEMMA HeartPreserves ==
  ASSUME BoardInv, TimerFires \/ SwitchRate \/ \E chain \in BOOLEAN : RefreshFailed(chain)
  PROVE  BoardInv'
<1>1. UNCHANGED <<lastStats, tableVars, sortBy, heroVars, sponsorVars>>
  BY DEF TimerFires, SwitchRate, RefreshFailed
<1>2. HeartInv'
  <2>1. CASE TimerFires
    BY <2>1 DEF TimerFires, BoardInv, HeartInv, OneHeartbeat
  <2>2. CASE SwitchRate
    BY <2>2 DEF SwitchRate, BoardInv, HeartInv, OneHeartbeat
  <2>3. CASE \E chain \in BOOLEAN : RefreshFailed(chain)
    BY <2>3, BoardParts, RefreshEndKeepsHeart DEF RefreshFailed
  <2> QED BY <2>1, <2>2, <2>3
<1>3. TableInv' /\ HeroInv'
  BY <1>1, BoardParts, TableStays, HeroStays
<1>4. SponsorsUnknown'
  BY <1>1 DEF BoardInv, SponsorsUnknown, sponsorVars
<1> QED BY <1>2, <1>3, <1>4 DEF BoardInv, TableInv, HeroInv, HeartInv

\* The animation ends with the price it counted up to.
LEMMA CountUpPreserves ==
  ASSUME BoardInv, CountUpFrame
  PROVE  BoardInv'
<1>1. TableInv'
  BY BoardParts, TableStays DEF CountUpFrame
<1>2. HeartInv' /\ SponsorsUnknown'
  BY DEF CountUpFrame, BoardInv, HeartInv, OneHeartbeat, SponsorsUnknown, refreshVars, sponsorVars
<1>3. HeroInv'
  BY DEF CountUpFrame, BoardInv, HeroInv, HeroIsMarketOrFirst, FirstIsOfVisit, DotsAreSequence, DotsAreChained, IsMid
<1> QED BY <1>1, <1>2, <1>3 DEF BoardInv, TableInv, HeroInv, HeartInv

\* A header click renders the last answer again, or nothing if there is none.
LEMMA SortPreserves ==
  ASSUME BoardInv, StatsAreBoard, NEW k \in SortKeys, ClickSort(k)
  PROVE  BoardInv'
<1>1. UNCHANGED <<refreshVars, lastStats, heroVars, sponsorsOut, sponsorKeys, sponsorLinks>>
  BY DEF ClickSort
<1>2. HeroInv' /\ HeartInv' /\ SponsorsUnknown'
  BY <1>1, BoardParts, HeroStays DEF BoardInv, HeartInv, OneHeartbeat, SponsorsUnknown, refreshVars
<1>3. TableInv'
  <2>1. CASE lastStats = Nothing
    <3>1. cells = NoRows /\ order = <<>>
      BY <2>1, BoardParts DEF TableInv, TableShowsStats
    <3>2. UNCHANGED <<tableVars, marked, linked, lastStats, sponsorKeys, sponsorLinks>>
      BY <1>1, <2>1 DEF ClickSort
    <3> QED BY <2>1, <3>1, <3>2, BoardParts
            DEF TableInv, tableVars, TableShowsStats, BaselineIsTable, SponsorRowsMarked
  <2>2. CASE lastStats # Nothing
    <3>1. lastStats = [e \in DOMAIN lastStats |-> lastStats[e]]
      BY <2>2 DEF StatsAreBoard, Boards
    <3>2. RenderTable(lastStats, Sorted(sortBy', lastStats))
      BY <2>2 DEF ClickSort
    <3> DEFINE by == sortBy'
    <3>3. sortBy' = by
      OBVIOUS
    <3> HIDE DEF by
    <3> QED BY <1>1, <2>2, <3>1, <3>2, <3>3, BoardParts, RenderedTable
  <2> QED BY <2>1, <2>2
<1> QED BY <1>2, <1>3 DEF BoardInv, TableInv, HeroInv, HeartInv

\* The sponsor list, whether rows are there already or not.
LEMMA SponsorsPreserve ==
  ASSUME BoardInv, NEW l \in SponsorLists, SponsorsArrive(l.keys, l.links)
  PROVE  BoardInv'
<1>1. UNCHANGED <<refreshVars, lastStats, tableVars, sortBy, heroVars>>
  BY DEF SponsorsArrive
<1>2. HeroInv' /\ HeartInv' /\ SponsorsUnknown'
  BY <1>1, BoardParts, HeroStays DEF SponsorsArrive, BoardInv, HeartInv, OneHeartbeat, SponsorsUnknown, refreshVars
<1>3. TableShowsStats' /\ BaselineIsTable'
  BY <1>1 DEF BoardInv, TableShowsStats, BaselineIsTable, tableVars
<1>4. SponsorRowsMarked'
  <2> DEFINE known == IF lastStats = Nothing THEN {} ELSE DOMAIN cells \cap DOMAIN lastStats
  <2>1. known = DOMAIN cells
    BY DEF BoardInv, TableShowsStats, NoRows
  <2>2. /\ marked' = (marked \ known) \cup (known \cap l.keys)
        /\ linked' = (linked \ (known \cap l.keys)) \cup (known \cap l.keys \cap l.links)
        /\ sponsorKeys' = l.keys /\ sponsorLinks' = l.links /\ cells' = cells
    BY <1>1 DEF SponsorsArrive, tableVars
  <2>3. marked \subseteq DOMAIN cells /\ linked = {}
    BY DEF SponsorsArrive, BoardInv, SponsorRowsMarked, SponsorsUnknown
  <2>4. l.links \subseteq l.keys
    BY BoardClientAssumption DEF BoardClientAssumption
  <2> HIDE DEF known
  <2> QED BY <2>1, <2>2, <2>3, <2>4 DEF SponsorRowsMarked
<1> QED BY <1>2, <1>3, <1>4 DEF BoardInv, HeroInv, HeartInv

LEMMA NoSponsorsPreserve ==
  ASSUME BoardInv, SponsorsFail
  PROVE  BoardInv'
<1>1. UNCHANGED <<refreshVars, heroVars>> /\ SponsorsUnknown'
  BY DEF SponsorsFail, SponsorsUnknown
<1>2. HeroInv' /\ HeartInv'
  BY <1>1, BoardParts, HeroStays DEF HeartInv, OneHeartbeat, refreshVars
<1>3. TableInv'
  BY DEF SponsorsFail, BoardInv, TableInv, tableVars, TableShowsStats, BaselineIsTable, SponsorRowsMarked
<1> QED BY <1>1, <1>2, <1>3 DEF BoardInv, TableInv, HeroInv, HeartInv
-----------------------------------------------------------------------------
LEMMA BoardNextInv == BoardInv /\ StatsAreBoard /\ [BoardNext]_boardVars => BoardInv'
<1> SUFFICES ASSUME BoardInv, StatsAreBoard, [BoardNext]_boardVars PROVE BoardInv'
  OBVIOUS
<1>1. CASE TimerFires \/ SwitchRate
  BY <1>1, HeartPreserves
<1>2. CASE \E chain \in BOOLEAN : RefreshOver(chain)
  BY <1>2, RefreshedPreserves, EmptyPreserves, HeartPreserves DEF RefreshOver
<1>3. CASE CountUpFrame
  BY <1>3, CountUpPreserves
<1>4. CASE \E k \in SortKeys : ClickSort(k)
  BY <1>4, SortPreserves
<1>5. CASE SponsorsFail \/ \E l \in SponsorLists : SponsorsArrive(l.keys, l.links)
  BY <1>5, SponsorsPreserve, NoSponsorsPreserve
<1>6. CASE UNCHANGED boardVars
  <2>1. TableInv' /\ HeroInv'
    BY <1>6, BoardParts, TableStays, HeroStays DEF boardVars
  <2>2. HeartInv' /\ SponsorsUnknown'
    BY <1>6 DEF boardVars, refreshVars, sponsorVars, BoardInv, HeartInv, OneHeartbeat, SponsorsUnknown
  <2> QED BY <2>1, <2>2 DEF BoardInv, TableInv, HeroInv, HeartInv
<1> QED BY <1>1, <1>2, <1>3, <1>4, <1>5, <1>6 DEF BoardNext, BoardAlone

LEMMA BoardNextStats == StatsAreBoard /\ [BoardNext]_boardVars => StatsAreBoard'
<1> SUFFICES ASSUME StatsAreBoard, [BoardNext]_boardVars PROVE StatsAreBoard'
  OBVIOUS
<1>1. ASSUME NEW chain \in BOOLEAN, RefreshOver(chain) PROVE StatsAreBoard'
  <2>1. ASSUME NEW data \in Answers, Refreshed(chain, data) PROVE StatsAreBoard'
    <3>1. lastStats' = Visible(data)
      BY <2>1 DEF Refreshed
    <3> QED BY <3>1, VisibleIsBoard DEF StatsAreBoard
  <2>2. CASE RefreshedEmpty(chain) \/ RefreshFailed(chain)
    BY <2>2 DEF RefreshedEmpty, RefreshFailed, StatsAreBoard
  <2> QED BY <1>1, <2>1, <2>2 DEF RefreshOver
<1>2. CASE UNCHANGED lastStats
  BY <1>2 DEF StatsAreBoard
<1>3. TimerFires \/ SwitchRate \/ CountUpFrame \/ SponsorsFail => UNCHANGED lastStats
  BY DEF TimerFires, SwitchRate, CountUpFrame, SponsorsFail
<1>4. \A k \in SortKeys : ClickSort(k) => UNCHANGED lastStats
  BY DEF ClickSort
<1>5. \A l \in SponsorLists : SponsorsArrive(l.keys, l.links) => UNCHANGED lastStats
  BY DEF SponsorsArrive
<1>6. UNCHANGED boardVars => UNCHANGED lastStats
  BY DEF boardVars
<1> QED BY <1>1, <1>2, <1>3, <1>4, <1>5, <1>6 DEF BoardNext, BoardAlone

THEOREM BoardInvariant == BoardSpec => [](BoardInv /\ StatsAreBoard)
<1>1. BoardInit => StatsAreBoard
  BY DEF BoardInit, StatsAreBoard
<1> QED BY <1>1, BoardInitInv, BoardNextInv, BoardNextStats, PTL DEF BoardSpec

-----------------------------------------------------------------------------
\* However refreshes end and whatever is clicked, exactly one of the timer and the
\* chain's refresh is alive.
THEOREM HeartIsSingle == BoardSpec => []OneHeartbeat
<1>1. BoardInv => OneHeartbeat
  BY DEF BoardInv
<1> QED BY <1>1, BoardInvariant, PTL

\* Patched, emptied, sorted and marked late, the rows of the table are the ones that
\* building it from nothing would give; a leftover placeholder is not a row.
THEOREM RowsAreLastAnswer == BoardSpec => []RowsAsBuilt
<1>1. BoardInv => RowsAsBuilt
  BY DEF BoardInv, RowsAsBuilt
<1> QED BY <1>1, BoardInvariant, PTL

\* Headline, trend and converter agree on the prices of the visit.
THEOREM PricesOfTheVisitAgree == BoardSpec => []PricesAgree
<1>1. BoardInv => PricesAgree
  BY DEF BoardInv, PricesAgree
<1> QED BY <1>1, BoardInvariant, PTL

-----------------------------------------------------------------------------
(***************************************************************************)
(* The comparators of sortedRows.                                          *)
(***************************************************************************)
Price == (Nat \ {0}) \cup {NoPrice}
Row == [buy : Price, sell : Price]

PctAhead(x, y) == HasSpread(x) /\ (HasSpread(y) => Narrower(x, y))
AbsAhead(x, y) == TwoSided(x) /\ (TwoSided(y) => x.buy - x.sell < y.buy - y.sell)
ColumnAhead(by, x, y) ==
  IF Missing(by.key, x) # Missing(by.key, y)
    THEN Missing(by.key, IF by.key = "sell" THEN x ELSE y)
  ELSE ~Missing(by.key, x) /\ IF by.dir > 0 THEN Less(by.key, x, y) ELSE Less(by.key, y, x)

\* Fractions with positive denominators are ordered by their cross products.
LEMMA CrossTransitive ==
  ASSUME NEW a \in Int, NEW b \in Nat \ {0}, NEW c \in Int, NEW d \in Nat \ {0},
         NEW e \in Int, NEW f \in Nat \ {0},
         a * d <= c * b, c * f <= e * d
  PROVE  /\ a * f <= e * b
         /\ (a * d < c * b \/ c * f < e * d) => a * f < e * b
<1>1. (a * d) * f <= (c * b) * f /\ (c * f) * b <= (e * d) * b
  BY SMTT(30)
<1>2. (c * b) * f = (c * f) * b /\ (a * d) * f = (a * f) * d /\ (e * d) * b = (e * b) * d
  BY SMTT(30)
<1>3. (a * f) * d <= (e * b) * d
  BY <1>1, <1>2, SMTT(30)
<1>4. a * f <= e * b
  BY <1>3, SMTT(30)
<1>5. a * d < c * b => (a * d) * f < (c * b) * f
  BY SMTT(30)
<1>6. c * f < e * d => (c * f) * b < (e * d) * b
  BY SMTT(30)
<1>7. (a * d < c * b \/ c * f < e * d) => (a * f) * d < (e * b) * d
  BY <1>1, <1>2, <1>5, <1>6, SMTT(30)
<1> QED BY <1>4, <1>7, SMTT(30)

\* Spreads compare as fractions of the buy price.
LEMMA NarrowerIsWeak ==
  ASSUME NEW x \in Row, NEW y \in Row, NEW z \in Row, HasSpread(x), HasSpread(y), HasSpread(z)
  PROVE  /\ ~(Narrower(x, y) /\ Narrower(y, x))
         /\ ~Narrower(y, x) /\ ~Narrower(z, y) => ~Narrower(z, x)
<1> DEFINE a == x.buy - x.sell  c == y.buy - y.sell  e == z.buy - z.sell
<1>1. /\ x.buy \in Nat \ {0} /\ x.sell \in Nat \ {0}
      /\ y.buy \in Nat \ {0} /\ y.sell \in Nat \ {0}
      /\ z.buy \in Nat \ {0} /\ z.sell \in Nat \ {0}
  BY DEF Row, Price, HasSpread, TwoSided, Has
<1>2. a \in Int /\ c \in Int /\ e \in Int
  BY <1>1
<1>3. a * y.buy \in Int /\ c * x.buy \in Int /\ c * z.buy \in Int /\ e * y.buy \in Int
      /\ a * z.buy \in Int /\ e * x.buy \in Int
  BY <1>1, <1>2
<1>4. /\ Narrower(x, y) <=> a * y.buy < c * x.buy
      /\ Narrower(y, x) <=> c * x.buy < a * y.buy
      /\ Narrower(z, y) <=> e * y.buy < c * z.buy
      /\ Narrower(z, x) <=> e * x.buy < a * z.buy
  BY DEF Narrower
<1>5. a * y.buy <= c * x.buy /\ c * z.buy <= e * y.buy => a * z.buy <= e * x.buy
  BY <1>1, <1>2, CrossTransitive
<1> HIDE DEF a, c, e
<1> QED BY <1>3, <1>4, <1>5

\* Rows without a spread come after those with one.
LEMMA PctIsWeak ==
  ASSUME NEW x \in Row, NEW y \in Row, NEW z \in Row
  PROVE  /\ ~(PctAhead(x, y) /\ PctAhead(y, x))
         /\ ~PctAhead(y, x) /\ ~PctAhead(z, y) => ~PctAhead(z, x)
BY NarrowerIsWeak DEF PctAhead

\* So do rows without both prices.
LEMMA AbsIsWeak ==
  ASSUME NEW x \in Row, NEW y \in Row, NEW z \in Row
  PROVE  /\ ~(AbsAhead(x, y) /\ AbsAhead(y, x))
         /\ ~AbsAhead(y, x) /\ ~AbsAhead(z, y) => ~AbsAhead(z, x)
BY DEF AbsAhead, TwoSided, Has, Row, Price

\* Values of a column compare as numbers, or as spreads.
LEMMA LessIsWeak ==
  ASSUME NEW key \in {"buy", "sell", "spread"},
         NEW x \in Row, NEW y \in Row, NEW z \in Row,
         ~Missing(key, x), ~Missing(key, y), ~Missing(key, z)
  PROVE  /\ ~(Less(key, x, y) /\ Less(key, y, x))
         /\ ~Less(key, y, x) /\ ~Less(key, z, y) => ~Less(key, z, x)
<1>1. CASE key = "spread"
  BY <1>1, NarrowerIsWeak DEF Less, Missing
<1>2. CASE key = "buy"
  BY <1>2 DEF Less, Missing, Has, Row, Price
<1>3. CASE key = "sell"
  BY <1>3 DEF Less, Missing, Has, Row, Price
<1> QED BY <1>1, <1>2, <1>3

\* A column's order, missing values included.
LEMMA ColumnIsWeak ==
  ASSUME NEW by, by.key \in {"buy", "sell", "spread"},
         NEW x \in Row, NEW y \in Row, NEW z \in Row
  PROVE  /\ ~(ColumnAhead(by, x, y) /\ ColumnAhead(by, y, x))
         /\ ~ColumnAhead(by, y, x) /\ ~ColumnAhead(by, z, y) => ~ColumnAhead(by, z, x)
<1> DEFINE M(r) == Missing(by.key, r)
<1>1. \A r \in Row : M(r) \in BOOLEAN
  BY DEF Missing, HasSpread, TwoSided, Has
<1>2. ASSUME NEW u \in Row, NEW v \in Row
      PROVE  /\ M(u) # M(v) => (ColumnAhead(by, u, v) <=> IF by.key = "sell" THEN M(u) ELSE M(v))
             /\ M(u) /\ M(v) => ~ColumnAhead(by, u, v)
             /\ ~M(u) /\ ~M(v) => (ColumnAhead(by, u, v)
                  <=> IF by.dir > 0 THEN Less(by.key, u, v) ELSE Less(by.key, v, u))
  <2>1. ColumnAhead(by, u, v)
          <=> IF M(u) # M(v) THEN (IF by.key = "sell" THEN M(u) ELSE M(v))
              ELSE ~M(u) /\ (IF by.dir > 0 THEN Less(by.key, u, v) ELSE Less(by.key, v, u))
    BY DEF ColumnAhead
  <2> HIDE DEF M
  <2>2. M(u) \in BOOLEAN /\ M(v) \in BOOLEAN
    BY <1>1
  <2> QED BY <2>1, <2>2
<1>3. ~(ColumnAhead(by, x, y) /\ ColumnAhead(by, y, x))
  <2>1. CASE ~M(x) /\ ~M(y)
    BY <1>2, <2>1, LessIsWeak
  <2>2. CASE M(x) \/ M(y)
    <3> HIDE DEF M
    <3> QED BY <1>1, <1>2, <2>2
  <2> QED BY <2>1, <2>2
<1>4. ~ColumnAhead(by, y, x) /\ ~ColumnAhead(by, z, y) => ~ColumnAhead(by, z, x)
  <2>1. CASE ~M(x) /\ ~M(y) /\ ~M(z)
    BY <1>2, <2>1, LessIsWeak
  <2>2. CASE M(x) \/ M(y) \/ M(z)
    <3> HIDE DEF M
    <3> QED BY <1>1, <1>2, <2>2
  <2> QED BY <2>1, <2>2
<1> QED BY <1>3, <1>4

\* Every comparator is total, whatever the rows: ties are broken by the name.
LEMMA AheadIsTotal ==
  ASSUME NEW rows \in Boards, NEW by, by.key \in {"none", "name", "buy", "sell", "spread"},
         by.dir \in Int,
         NEW a \in DOMAIN rows, NEW b \in DOMAIN rows, NEW c \in DOMAIN rows
  PROVE  /\ Ahead(by, rows, a, b) \in BOOLEAN
         /\ a # b => (Ahead(by, rows, a, b) # Ahead(by, rows, b, a))
         /\ Ahead(by, rows, a, b) /\ Ahead(by, rows, b, c) /\ a # c => Ahead(by, rows, a, c)
<1>1. /\ rows[a] \in Row /\ rows[b] \in Row /\ rows[c] \in Row
      /\ a \in Int /\ b \in Int /\ c \in Int
  <2>1. PICK D \in SUBSET Exchanges : rows \in [D -> Rows]
    BY DEF Boards
  <2>2. \A u \in DOMAIN rows : u \in D /\ rows[u] \in Rows
    BY <2>1
  <2> QED BY <2>2, BoardClientAssumption DEF BoardClientAssumption, Row, Price
<1>2. CASE by.key = "name"
  <2>1. CASE by.dir > 0
    <3>1. \A u, v \in {a, b, c} : Ahead(by, rows, u, v) = (u < v)
      BY <1>2, <2>1 DEF Ahead
    <3> QED BY <1>1, <3>1
  <2>2. CASE ~(by.dir > 0)
    <3>1. \A u, v \in {a, b, c} : Ahead(by, rows, u, v) = (v < u)
      BY <1>2, <2>2 DEF Ahead
    <3> QED BY <1>1, <3>1
  <2> QED BY <2>1, <2>2
<1>3. CASE by.key = "none"
  <2> DEFINE P(u, v) == PctAhead(rows[u], rows[v])
             Q(u, v) == AbsAhead(rows[u], rows[v])
  <2>1. \A u, v \in {a, b, c} :
          Ahead(by, rows, u, v) <=> P(u, v) \/ (~P(v, u) /\ (Q(u, v) \/ (~Q(v, u) /\ u < v)))
    BY <1>3 DEF Ahead, AheadBySpread, PctAhead, AbsAhead
  <2>2. \A u, v, w \in {a, b, c} :
          /\ ~(P(u, v) /\ P(v, u)) /\ (~P(v, u) /\ ~P(w, v) => ~P(w, u))
          /\ ~(Q(u, v) /\ Q(v, u)) /\ (~Q(v, u) /\ ~Q(w, v) => ~Q(w, u))
    BY <1>1, PctIsWeak, AbsIsWeak
  <2>3. Ahead(by, rows, a, b) \in BOOLEAN
    BY <1>3 DEF Ahead, AheadBySpread
  <2> HIDE DEF P, Q
  <2> QED BY <1>1, <2>1, <2>2, <2>3
<1>4. CASE by.key \in {"buy", "sell", "spread"}
  <2> DEFINE P(u, v) == ColumnAhead(by, rows[u], rows[v])
  <2>1. \A u, v \in {a, b, c} :
          Ahead(by, rows, u, v) <=> P(u, v) \/ (~P(v, u) /\ u < v)
    BY <1>4 DEF Ahead, AheadByColumn, ColumnAhead
  <2>2. \A u, v, w \in {a, b, c} :
          ~(P(u, v) /\ P(v, u)) /\ (~P(v, u) /\ ~P(w, v) => ~P(w, u))
    BY <1>1, <1>4, ColumnIsWeak
  <2>3. Ahead(by, rows, a, b) \in BOOLEAN
    BY <1>4 DEF Ahead, AheadByColumn
  <2> HIDE DEF P
  <2> QED BY <1>1, <2>1, <2>2, <2>3
<1> QED BY <1>2, <1>3, <1>4

\* What the sort headers leave behind.
SortTypes == sortBy \in [key : SortKeys \cup {"none"}, dir : {1, -1}]

LEMMA SortTypesStay == SortTypes /\ [BoardNext]_boardVars => SortTypes'
<1> SUFFICES ASSUME SortTypes, [BoardNext]_boardVars PROVE SortTypes'
  OBVIOUS
<1>1. ASSUME NEW k \in SortKeys, ClickSort(k) PROVE SortTypes'
  <2>1. sortBy' = [key |-> k, dir |-> IF sortBy.key = k THEN -sortBy.dir ELSE IF k = "sell" THEN -1 ELSE 1]
    BY <1>1 DEF ClickSort
  <2>2. sortBy.dir \in {1, -1}
    BY DEF SortTypes
  <2>3. -sortBy.dir \in {1, -1}
    BY <2>2
  <2> QED BY <2>1, <2>3 DEF SortTypes
<1>2. CASE UNCHANGED sortBy
  BY <1>2 DEF SortTypes
<1>3. \A chain \in BOOLEAN : RefreshOver(chain) => UNCHANGED sortBy
  BY DEF RefreshOver, Refreshed, RefreshedEmpty, RefreshFailed
<1>4. TimerFires \/ SwitchRate \/ CountUpFrame \/ SponsorsFail => UNCHANGED sortBy
  BY DEF TimerFires, SwitchRate, CountUpFrame, SponsorsFail
<1>5. \A l \in SponsorLists : SponsorsArrive(l.keys, l.links) => UNCHANGED sortBy
  BY DEF SponsorsArrive
<1>6. UNCHANGED boardVars => UNCHANGED sortBy
  BY DEF boardVars
<1> QED BY <1>1, <1>2, <1>3, <1>4, <1>5, <1>6 DEF BoardNext, BoardAlone

LEMMA BoardsAreOrdered == \A rows \in Boards : OrderedByAll(rows)
<1> SUFFICES ASSUME NEW by \in SortOrders, NEW rows \in Boards
             PROVE  /\ \A a, b \in DOMAIN rows : a # b => (Ahead(by, rows, a, b) # Ahead(by, rows, b, a))
                    /\ \A a, b, c \in DOMAIN rows :
                         Ahead(by, rows, a, b) /\ Ahead(by, rows, b, c) /\ a # c => Ahead(by, rows, a, c)
  BY Zenon DEF OrderedByAll
<1>1. by.key \in {"none", "name", "buy", "sell", "spread"} /\ by.dir \in Int
  BY DEF SortOrders
<1>2. \A a, b \in DOMAIN rows : a # b => (Ahead(by, rows, a, b) # Ahead(by, rows, b, a))
  BY <1>1, AheadIsTotal
<1>3. \A a, b, c \in DOMAIN rows :
        Ahead(by, rows, a, b) /\ Ahead(by, rows, b, c) /\ a # c => Ahead(by, rows, a, c)
  BY <1>1, AheadIsTotal
<1> QED BY <1>2, <1>3, Zenon

\* Array.sort always has a defined result: whatever prices, gaps and inverted
\* spreads an answer holds, and whatever the minimum, the comparator of every header
\* and direction is a strict total order on it.
THEOREM SortIsDefined == BoardSpec => []OrderIsTotal
<1>1. StatsAreBoard => OrderIsTotal
  BY BoardsAreOrdered DEF StatsAreBoard, OrderIsTotal
<1> QED BY <1>1, BoardInvariant, PTL
-----------------------------------------------------------------------------
(***************************************************************************)
(* sortedRows has a result, and it is the rows of the answer in an order.  *)
(***************************************************************************)
Orderable(by, rows) ==
  /\ rows \in Boards
  /\ by.key \in {"none", "name", "buy", "sell", "spread"} /\ by.dir \in Int

InOrder(by, rows, S, s) ==
  /\ s \in [1..Cardinality(S) -> S]
  /\ \A i, j \in 1..Cardinality(S) : i < j => Ahead(by, rows, s[i], s[j])

LEMMA BoardsAreFinite ==
  ASSUME NEW rows \in Boards
  PROVE  IsFiniteSet(DOMAIN rows) /\ DOMAIN rows \subseteq Exchanges
<1>1. DOMAIN rows \subseteq Exchanges
  BY DEF Boards
<1>2. IsFiniteSet(Exchanges)
  BY BoardClientAssumption DEF BoardClientAssumption
<1> QED BY <1>1, <1>2, FS_Subset

\* Some row of a board comes last.
LEMMA SomeRowIsLast ==
  ASSUME NEW rows, NEW by, Orderable(by, rows), NEW S \in SUBSET DOMAIN rows, S # {}
  PROVE  \E m \in S : \A x \in S \ {m} : Ahead(by, rows, x, m)
<1> DEFINE A(u, v) == Ahead(by, rows, u, v)
           Last(T, m) == m \in T /\ \A x \in T \ {m} : A(x, m)
           Bad == {n \in Nat : \E T \in SUBSET DOMAIN rows :
                     T # {} /\ Cardinality(T) = n /\ ~ \E m \in T : Last(T, m)}
<1>1. \A a, b, c \in DOMAIN rows :
        /\ A(a, b) \in BOOLEAN
        /\ a # b => (A(a, b) # A(b, a))
        /\ A(a, b) /\ A(b, c) /\ a # c => A(a, c)
  BY AheadIsTotal DEF Orderable
<1> HIDE DEF A
<1>2. Bad = {}
  <2> SUFFICES ASSUME Bad # {} PROVE FALSE
    OBVIOUS
  <2>1. PICK n \in Bad : \A k \in Bad : n <= k
    BY LeastNat
  <2>2. PICK T \in SUBSET DOMAIN rows : T # {} /\ Cardinality(T) = n /\ ~ \E m \in T : Last(T, m)
    OBVIOUS
  <2>3. PICK x : x \in T
    BY <2>2
  <2> DEFINE U == T \ {x}
  <2>4. /\ IsFiniteSet(T) /\ U \in SUBSET DOMAIN rows /\ IsFiniteSet(U)
        /\ Cardinality(U) \in Nat /\ Cardinality(U) = n - 1 /\ n \in Nat
    <3>1. IsFiniteSet(T)
      BY BoardsAreFinite, FS_Subset DEF Orderable
    <3>2. IsFiniteSet(U) /\ Cardinality(U) = Cardinality(T) - 1
      BY <2>3, <3>1, FS_RemoveElement
    <3> QED BY <2>2, <3>1, <3>2, FS_CardinalityType
  <2>5. U # {}
    <3> SUFFICES ASSUME U = {} PROVE FALSE
      OBVIOUS
    <3>1. Last(T, x)
      BY <2>3
    <3> QED BY <2>2, <2>3, <3>1
  <2>6. \E m \in U : Last(U, m)
    <3>1. Cardinality(U) \notin Bad
      BY <2>1, <2>4
    <3> HIDE DEF Last, U
    <3> QED BY <2>4, <2>5, <3>1
  <2>7. PICK m \in U : Last(U, m)
    BY <2>6
  <2>8. A(x, m) \/ A(m, x)
    BY <1>1, <2>2, <2>3, <2>7
  <2>9. CASE A(x, m)
    <3>1. Last(T, m)
      BY <2>3, <2>7, <2>9
    <3> QED BY <2>2, <2>7, <3>1
  <2>10. CASE A(m, x)
    <3>1. Last(T, x)
      BY <1>1, <2>2, <2>3, <2>7, <2>10
    <3> QED BY <2>2, <2>3, <3>1
  <2> QED BY <2>8, <2>9, <2>10
<1>3. Cardinality(S) \in Nat
  BY BoardsAreFinite, FS_Subset, FS_CardinalityType DEF Orderable
<1>4. \E m \in S : Last(S, m)
  <2> HIDE DEF Last
  <2> QED BY <1>2, <1>3
<1> QED BY <1>4 DEF A

\* So the rows can be put in order, one after the other from the end.
LEMMA OrderExists ==
  ASSUME NEW rows, NEW by, Orderable(by, rows), NEW S \in SUBSET DOMAIN rows
  PROVE  \E s : InOrder(by, rows, S, s)
<1> DEFINE Bad == {n \in Nat : \E T \in SUBSET DOMAIN rows :
                     Cardinality(T) = n /\ ~ \E s : InOrder(by, rows, T, s)}
<1>1. Bad = {}
  <2> SUFFICES ASSUME Bad # {} PROVE FALSE
    OBVIOUS
  <2>1. PICK n \in Bad : \A k \in Bad : n <= k
    BY LeastNat
  <2>2. PICK T \in SUBSET DOMAIN rows : Cardinality(T) = n /\ ~ \E s : InOrder(by, rows, T, s)
    OBVIOUS
  <2>3. IsFiniteSet(T) /\ n \in Nat
    BY BoardsAreFinite, FS_Subset DEF Orderable
  <2>4. T # {}
    <3> SUFFICES ASSUME T = {} PROVE FALSE
      OBVIOUS
    <3>1. Cardinality(T) = 0
      BY FS_EmptySet
    <3>2. InOrder(by, rows, T, [i \in 1..0 |-> i])
      BY <3>1 DEF InOrder
    <3> QED BY <2>2, <3>2
  <2>5. PICK m \in T : \A x \in T \ {m} : Ahead(by, rows, x, m)
    BY <2>4, SomeRowIsLast
  <2> DEFINE U == T \ {m}
  <2>6. IsFiniteSet(U) /\ Cardinality(U) = n - 1 /\ Cardinality(U) \in Nat /\ U \in SUBSET DOMAIN rows
    BY <2>2, <2>3, FS_RemoveElement, FS_CardinalityType
  <2>7. \E s : InOrder(by, rows, U, s)
    <3>1. Cardinality(U) \notin Bad
      BY <2>1, <2>3, <2>6
    <3> HIDE DEF U
    <3> QED BY <2>6, <3>1
  <2>8. PICK s : InOrder(by, rows, U, s)
    BY <2>7
  <2> DEFINE t == [i \in 1..n |-> IF i = n THEN m ELSE s[i]]
  <2>9. \A i \in 1..n : i # n => i \in 1..(n - 1)
    BY <2>3
  <2>10. s \in [1..(n - 1) -> U]
    BY <2>6, <2>8 DEF InOrder
  <2>11. t \in [1..n -> T]
    BY <2>9, <2>10
  <2>12. ASSUME NEW i \in 1..n, NEW j \in 1..n, i < j PROVE Ahead(by, rows, t[i], t[j])
    <3>1. i # n /\ i \in 1..(n - 1) /\ t[i] = s[i] /\ s[i] \in U
      BY <2>3, <2>9, <2>10, <2>12
    <3>2. CASE j = n
      BY <2>5, <3>1, <3>2
    <3>3. CASE j # n
      <4>1. j \in 1..(n - 1) /\ t[j] = s[j]
        BY <2>9, <3>3
      <4> HIDE DEF U, t
      <4> QED BY <2>6, <2>8, <2>12, <3>1, <4>1 DEF InOrder
    <3> QED BY <3>2, <3>3
  <2> HIDE DEF t
  <2>13. InOrder(by, rows, T, t)
    BY <2>2, <2>11, <2>12 DEF InOrder
  <2> QED BY <2>2, <2>13
<1>2. Cardinality(S) \in Nat
  BY BoardsAreFinite, FS_Subset, FS_CardinalityType DEF Orderable
<1> QED BY <1>1, <1>2

\* The table shows every row of the answer once.
LEMMA SortedIsInOrder ==
  ASSUME NEW rows, NEW by, Orderable(by, rows)
  PROVE  InOrder(by, rows, DOMAIN rows, Sorted(by, rows))
<1> DEFINE n == Cardinality(DOMAIN rows)
           P(s) == \A i, j \in DOMAIN s : i < j => Ahead(by, rows, s[i], s[j])
<1>1. PICK s : InOrder(by, rows, DOMAIN rows, s)
  BY OrderExists
<1>2. s \in [1..n -> DOMAIN rows] /\ P(s)
  BY <1>1 DEF InOrder
<1> DEFINE r == CHOOSE r \in [1..n -> DOMAIN rows] : P(r)
<1> HIDE DEF P
<1>3. r \in [1..n -> DOMAIN rows] /\ P(r)
  BY <1>2
<1>4. Sorted(by, rows) = r
  BY DEF Sorted, P
<1> HIDE DEF r
<1>5. DOMAIN r = 1..n
  BY <1>3
<1> QED BY <1>3, <1>4, <1>5 DEF InOrder, P

-----------------------------------------------------------------------------
(***************************************************************************)
(* Types.                                                                  *)
(***************************************************************************)
\* The average of a board's prices is a number, or there is none.
LEMMA MidIsNumber ==
  ASSUME NEW rows \in Boards
  PROVE  MidPrice(rows) \in Int \/ MidPrice(rows) = NoPrice
<1> DEFINE S == Sides(rows)
           price == [s \in S |-> rows[s[1]][s[2]]]
<1>1. \A s \in S : price[s] \in Int
  <2> SUFFICES ASSUME NEW s \in S PROVE rows[s[1]][s[2]] \in Int
    OBVIOUS
  <2>1. s[1] \in DOMAIN rows /\ s[2] \in {"buy", "sell"} /\ rows[s[1]][s[2]] # NoPrice
    BY DEF Sides, Has
  <2>2. rows[s[1]] \in Row
    <3>1. PICK D \in SUBSET Exchanges : rows \in [D -> Rows]
      BY DEF Boards
    <3>2. rows[s[1]] \in Rows
      BY <2>1, <3>1
    <3> QED BY <3>2, BoardClientAssumption DEF BoardClientAssumption, Row, Price
  <2> QED BY <2>1, <2>2 DEF Row, Price
<1>2. IsFiniteSet(S)
  <2>1. IsFiniteSet({"buy", "sell"})
    <3>1. IsFiniteSet({"buy"} \cup {"sell"})
      BY FS_Singleton, FS_Union
    <3> QED BY <3>1
  <2>2. IsFiniteSet((DOMAIN rows) \X {"buy", "sell"})
    BY <2>1, BoardsAreFinite, FS_Product
  <2> QED BY <2>2, FS_Subset DEF Sides
<1>3. Total(rows) = Sum(price, S)
  BY DEF Total, Sum
<1> HIDE DEF price
<1>4. Total(rows) \in Int
  BY <1>1, <1>2, <1>3, SumInteger
<1>5. CASE S # {}
  <2>1. Cardinality(S) \in Nat \ {0}
    BY <1>2, <1>5, FS_CardinalityType, FS_EmptySet
  <2> QED BY <1>4, <1>5, <2>1 DEF MidPrice
<1>6. CASE S = {}
  BY <1>6 DEF MidPrice
<1> QED BY <1>5, <1>6

TableTypes ==
  /\ cells \in Boards /\ baseline \in Boards
  /\ order \in Seq(Exchanges)
  /\ placeholder \in BOOLEAN /\ firstRender \in BOOLEAN
  /\ marked \subseteq Exchanges /\ linked \subseteq Exchanges

Dots == [price : Int, dir : {"neutral", "up", "down"}]
HeroTypes ==
  /\ heroFirst \in BOOLEAN
  /\ IsMid(hero) => hero \in Int
  /\ counting # Nothing => counting \in Int
  /\ dots \in Seq(Dots) /\ Len(dots) <= TrendMax

SponsorTypes ==
  /\ sponsorsOut \in BOOLEAN /\ sponsorLinks \subseteq sponsorKeys /\ sponsorKeys \subseteq Exchanges

HeartTypes == timer \in BOOLEAN /\ chained \in BOOLEAN /\ clicked \in 0..MaxClicks

BoardTypes == HeartTypes /\ StatsAreBoard /\ TableTypes /\ SortTypes /\ HeroTypes /\ SponsorTypes

\* A row of one board over the rows of another, and rows left out.
LEMMA MergedIsBoard ==
  ASSUME NEW f \in Boards, NEW g \in Boards
  PROVE  Merged(f, g) \in Boards
<1>1. PICK D \in SUBSET Exchanges : f \in [D -> Rows]
  BY DEF Boards
<1>2. PICK G \in SUBSET Exchanges : g \in [G -> Rows]
  BY DEF Boards
<1>3. Merged(f, g) \in [D \cup G -> Rows]
  BY <1>1, <1>2 DEF Merged
<1> QED BY <1>3 DEF Boards

LEMMA WithoutIsBoard ==
  ASSUME NEW f \in Boards, NEW S
  PROVE  Without(f, S) \in Boards
<1>1. PICK D \in SUBSET Exchanges : f \in [D -> Rows]
  BY DEF Boards
<1>2. Without(f, S) \in [D \ S -> Rows]
  BY <1>1 DEF Without
<1> QED BY <1>2 DEF Boards

LEMMA EmptyIsBoard == NoRows \in Boards
<1>1. NoRows \in [{} -> Rows]
  BY DEF NoRows
<1> QED BY <1>1 DEF Boards

LEMMA RenderedTypes ==
  ASSUME TableTypes, NEW rows \in Boards, NEW by, Orderable(by, rows),
         RenderTable(rows, Sorted(by, rows)), sponsorLinks \subseteq Exchanges
  PROVE  TableTypes'
<1>1. DOMAIN rows \subseteq Exchanges
  BY BoardsAreFinite
<1>2. CASE rows = NoRows
  <2>1. /\ cells' = NoRows /\ order' = <<>> /\ placeholder' = TRUE /\ firstRender' = TRUE
        /\ baseline' = baseline /\ marked' = {} /\ linked' = {}
    BY <1>2 DEF RenderTable, ClearTable
  <2> QED BY <2>1, EmptyIsBoard DEF TableTypes
<1>3. CASE rows # NoRows
  <2>1. Sorted(by, rows) \in Seq(Exchanges)
    <3>1. /\ Sorted(by, rows) \in [1..Cardinality(DOMAIN rows) -> DOMAIN rows]
          /\ Cardinality(DOMAIN rows) \in Nat
      BY SortedIsInOrder, BoardsAreFinite, FS_CardinalityType DEF InOrder
    <3> QED BY <1>1, <3>1
  <2>2. /\ cells' = rows /\ order' = Sorted(by, rows)
        /\ marked' = DOMAIN rows \cap sponsorKeys
    BY <1>3 DEF RenderTable, BuildTable, PatchTable
  <2>3. CASE firstRender
    <3>1. /\ placeholder' = FALSE /\ firstRender' = FALSE /\ baseline' = Merged(baseline, rows)
          /\ linked' = DOMAIN rows \cap sponsorLinks
      BY <1>3, <2>3 DEF RenderTable, BuildTable
    <3> QED BY <1>1, <2>1, <2>2, <3>1, MergedIsBoard DEF TableTypes
  <2>4. CASE ~firstRender
    <3>1. /\ baseline' = Merged(Without(baseline, DOMAIN cells \ DOMAIN rows), rows)
          /\ linked' = (linked \cap DOMAIN rows) \cup ((DOMAIN rows \ DOMAIN cells) \cap sponsorLinks)
          /\ UNCHANGED <<placeholder, firstRender>>
      BY <1>3, <2>4 DEF RenderTable, PatchTable
    <3>2. baseline' \in Boards
      BY <3>1, MergedIsBoard, WithoutIsBoard DEF TableTypes
    <3> QED BY <1>1, <2>1, <2>2, <3>1, <3>2 DEF TableTypes
  <2> QED BY <2>3, <2>4
<1> QED BY <1>2, <1>3

LEMMA HeroTypesRendered ==
  ASSUME HeroTypes, NEW mid, mid \in Int \/ mid = NoPrice, RenderHero(mid), RecordPrice(mid)
  PROVE  HeroTypes'
<1>1. /\ heroFirst' = FALSE /\ hero' = mid
      /\ counting' \in {mid, counting} /\ (counting' # counting => mid # NoPrice)
  BY DEF RenderHero
<1>2. (IsMid(hero) => hero \in Int)' /\ (counting # Nothing => counting \in Int)'
  BY <1>1 DEF HeroTypes, IsMid, Has
<1>3. dots' \in Seq(Dots) /\ Len(dots') <= TrendMax
  <2>1. CASE mid = NoPrice
    BY <2>1 DEF RecordPrice, HeroTypes
  <2>2. CASE mid # NoPrice
    <3> DEFINE new == [price |-> mid, dir |-> Dot(mid)]
               all == <<new>> \o dots
               n == IF Len(all) > TrendMax THEN TrendMax ELSE Len(all)
    <3>1. new \in Dots
      BY <2>2 DEF Dots, Dot, Has
    <3> HIDE DEF new
    <3>2. <<new>> \in Seq(Dots) /\ dots \in Seq(Dots)
      BY <3>1 DEF HeroTypes
    <3>3. all \in Seq(Dots) /\ Len(all) \in Nat
      BY <3>2
    <3> HIDE DEF all
    <3>4. TrendMax \in Nat
      BY BoardClientAssumption DEF BoardClientAssumption
    <3>5. n \in 0..Len(all) /\ n <= TrendMax
      BY <3>3, <3>4
    <3> HIDE DEF n
    <3>6. dots' = SubSeq(all, 1, n)
      BY <2>2 DEF RecordPrice, new, all, n
    <3>7. SubSeq(all, 1, n) \in Seq(Dots) /\ Len(SubSeq(all, 1, n)) = n
      BY <3>3, <3>5, SubSeqProperties
    <3> QED BY <3>5, <3>6, <3>7
  <2> QED BY <2>1, <2>2
<1> QED BY <1>1, <1>2, <1>3 DEF HeroTypes

LEMMA HeartTypesStay ==
  ASSUME HeartTypes, NEW chain \in BOOLEAN, RefreshEnds(chain)
  PROVE  HeartTypes'
<1>1. MaxClicks \in Nat
  BY BoardClientAssumption DEF BoardClientAssumption
<1>2. CASE chain
  BY <1>2 DEF HeartTypes, RefreshEnds
<1>3. CASE ~chain
  BY <1>1, <1>3 DEF HeartTypes, RefreshEnds
<1> QED BY <1>2, <1>3

\* A refresh with rows, and one without.
LEMMA RefreshedTypes ==
  ASSUME BoardTypes, NEW chain \in BOOLEAN, NEW data \in Answers, Refreshed(chain, data)
  PROVE  BoardTypes'
<1> DEFINE rows == Visible(data)
<1>1. rows \in Boards /\ lastStats' = rows /\ sortBy' = sortBy
  BY VisibleIsBoard DEF Refreshed
<1>2. UNCHANGED <<sponsorsOut, sponsorKeys, sponsorLinks>>
  BY DEF Refreshed
<1>3. HeartTypes'
  BY HeartTypesStay DEF Refreshed, BoardTypes
<1>4. Orderable(sortBy, rows)
  <2>1. sortBy.key \in SortKeys \cup {"none"} /\ sortBy.dir \in {1, -1}
    BY DEF BoardTypes, SortTypes
  <2>2. SortKeys \subseteq {"name", "buy", "sell", "spread"}
    BY BoardClientAssumption DEF BoardClientAssumption
  <2>3. sortBy.dir \in Int
    BY <2>1
  <2>4. sortBy.key \in {"none", "name", "buy", "sell", "spread"}
    BY <2>1, <2>2
  <2> QED BY <1>1, <2>3, <2>4 DEF Orderable
<1>5. TableTypes'
  <2>1. RenderTable(rows, Sorted(sortBy, rows)) /\ sponsorLinks \subseteq Exchanges
    BY DEF Refreshed, BoardTypes, SponsorTypes
  <2> HIDE DEF rows
  <2> QED BY <1>1, <1>4, <2>1, RenderedTypes DEF BoardTypes
<1>6. HeroTypes'
  <2>1. RenderHero(MidPrice(rows)) /\ RecordPrice(MidPrice(rows))
    BY DEF Refreshed
  <2> HIDE DEF rows
  <2> QED BY <1>1, <2>1, MidIsNumber, HeroTypesRendered DEF BoardTypes
<1> HIDE DEF rows
<1> QED BY <1>1, <1>2, <1>3, <1>5, <1>6 DEF BoardTypes, StatsAreBoard, SortTypes, SponsorTypes

LEMMA EmptyTypes ==
  ASSUME BoardTypes, NEW chain \in BOOLEAN, RefreshedEmpty(chain)
  PROVE  BoardTypes'
<1>1. HeartTypes'
  BY HeartTypesStay DEF RefreshedEmpty, BoardTypes
<1>2. TableTypes'
  BY EmptyIsBoard DEF RefreshedEmpty, ClearTable, BoardTypes, TableTypes
<1>3. HeroTypes'
  BY DEF RefreshedEmpty, BoardTypes, HeroTypes, IsMid
<1>4. UNCHANGED <<lastStats, sortBy, sponsorsOut, sponsorKeys, sponsorLinks>>
  BY DEF RefreshedEmpty
<1> QED BY <1>1, <1>2, <1>3, <1>4 DEF BoardTypes, StatsAreBoard, SortTypes, SponsorTypes

LEMMA SortTypesPreserve ==
  ASSUME BoardTypes, NEW k \in SortKeys, ClickSort(k)
  PROVE  BoardTypes'
<1>1. SortTypes'
  BY SortTypesStay DEF BoardTypes, BoardNext, BoardAlone
<1>2. UNCHANGED <<refreshVars, lastStats, heroVars, sponsorsOut, sponsorKeys, sponsorLinks>>
  BY DEF ClickSort
<1>3. TableTypes'
  <2>1. CASE lastStats = Nothing
    BY <2>1 DEF ClickSort, tableVars, BoardTypes, TableTypes
  <2>2. CASE lastStats # Nothing
    <3> DEFINE by == sortBy'
    <3>1. by.key \in SortKeys \cup {"none"} /\ by.dir \in {1, -1}
      BY <1>1 DEF SortTypes
    <3>2. SortKeys \subseteq {"name", "buy", "sell", "spread"}
      BY BoardClientAssumption DEF BoardClientAssumption
    <3>3. lastStats \in Boards /\ sponsorLinks \subseteq Exchanges /\ TableTypes
      BY <2>2 DEF BoardTypes, StatsAreBoard, SponsorTypes
    <3>4. RenderTable(lastStats, Sorted(by, lastStats))
      BY <2>2 DEF ClickSort
    <3> HIDE DEF by
    <3>5. by.dir \in Int
      BY <3>1
    <3>6. by.key \in {"none", "name", "buy", "sell", "spread"}
      BY <3>1, <3>2
    <3>7. Orderable(by, lastStats)
      BY <3>3, <3>5, <3>6 DEF Orderable
    <3> QED BY <3>3, <3>4, <3>7, RenderedTypes
  <2> QED BY <2>1, <2>2
<1> QED BY <1>1, <1>2, <1>3
        DEF BoardTypes, HeartTypes, StatsAreBoard, HeroTypes, SponsorTypes, refreshVars, heroVars, IsMid

LEMMA SponsorTypesPreserve ==
  ASSUME BoardTypes, SponsorsFail \/ \E l \in SponsorLists : SponsorsArrive(l.keys, l.links)
  PROVE  BoardTypes'
<1>1. UNCHANGED <<refreshVars, lastStats, tableVars, sortBy, heroVars>> /\ sponsorsOut' = FALSE
  BY DEF SponsorsFail, SponsorsArrive
<1> DEFINE Marks == /\ marked \subseteq Exchanges /\ linked \subseteq Exchanges
                    /\ sponsorLinks \subseteq sponsorKeys /\ sponsorKeys \subseteq Exchanges
<1>2. Marks'
  <2>1. CASE SponsorsFail
    BY <2>1 DEF SponsorsFail, BoardTypes, TableTypes, SponsorTypes
  <2>2. ASSUME NEW l \in SponsorLists, SponsorsArrive(l.keys, l.links)
        PROVE  Marks'
    <3> DEFINE known == IF lastStats = Nothing THEN {} ELSE DOMAIN cells \cap DOMAIN lastStats
    <3>1. l.links \subseteq l.keys /\ l.keys \subseteq Exchanges
      BY BoardClientAssumption DEF BoardClientAssumption
    <3>2. /\ marked' = (marked \ known) \cup (known \cap l.keys)
          /\ linked' = (linked \ (known \cap l.keys)) \cup (known \cap l.keys \cap l.links)
          /\ sponsorKeys' = l.keys /\ sponsorLinks' = l.links
      BY <2>2 DEF SponsorsArrive
    <3> HIDE DEF known
    <3> QED BY <3>1, <3>2 DEF BoardTypes, TableTypes
  <2> QED BY <2>1, <2>2
<1>3. TableTypes'
  BY <1>1, <1>2 DEF BoardTypes, TableTypes, tableVars
<1> QED BY <1>1, <1>2, <1>3
        DEF BoardTypes, HeartTypes, StatsAreBoard, SortTypes, HeroTypes, SponsorTypes,
            refreshVars, heroVars, IsMid

\* Refreshes started or ended without an answer, and the count-up.
LEMMA QuietTypes ==
  ASSUME BoardTypes,
         \/ TimerFires \/ SwitchRate \/ CountUpFrame \/ UNCHANGED boardVars
         \/ \E chain \in BOOLEAN : RefreshFailed(chain)
  PROVE  BoardTypes'
<1>1. UNCHANGED <<lastStats, tableVars, sortBy, sponsorVars>>
  BY DEF TimerFires, SwitchRate, CountUpFrame, RefreshFailed, boardVars
<1>2. HeartTypes'
  <2>1. MaxClicks \in Nat
    BY BoardClientAssumption DEF BoardClientAssumption
  <2>2. CASE TimerFires \/ CountUpFrame \/ UNCHANGED boardVars
    BY <2>2 DEF TimerFires, CountUpFrame, boardVars, refreshVars, BoardTypes, HeartTypes
  <2>3. CASE SwitchRate
    BY <2>1, <2>3 DEF SwitchRate, BoardTypes, HeartTypes
  <2>4. CASE \E chain \in BOOLEAN : RefreshFailed(chain)
    BY <2>4, HeartTypesStay DEF RefreshFailed, BoardTypes
  <2> QED BY <2>2, <2>3, <2>4
<1>3. HeroTypes'
  <2>1. CASE CountUpFrame
    BY <2>1 DEF CountUpFrame, BoardTypes, HeroTypes, IsMid
  <2>2. CASE UNCHANGED heroVars
    BY <2>2 DEF BoardTypes, HeroTypes, heroVars, IsMid
  <2>3. CountUpFrame \/ UNCHANGED heroVars
    BY DEF TimerFires, SwitchRate, RefreshFailed, boardVars
  <2> QED BY <2>1, <2>2, <2>3
<1> QED BY <1>1, <1>2, <1>3
        DEF BoardTypes, StatsAreBoard, TableTypes, SortTypes, SponsorTypes, tableVars, sponsorVars

LEMMA BoardInitTypes == BoardInit => BoardTypes
<1> SUFFICES ASSUME BoardInit PROVE BoardTypes
  OBVIOUS
<1>1. TrendMax \in Nat /\ MaxClicks \in Nat
  BY BoardClientAssumption DEF BoardClientAssumption
<1>2. <<>> \in Seq(Dots) /\ <<>> \in Seq(Exchanges) /\ Len(<<>>) = 0
  OBVIOUS
<1>3. HeartTypes /\ StatsAreBoard /\ SortTypes /\ SponsorTypes
  <2>1. HeartTypes /\ StatsAreBoard
    <3>1. timer = FALSE /\ chained = TRUE /\ clicked = 0 /\ lastStats = Nothing
      BY DEF BoardInit
    <3>2. timer \in BOOLEAN /\ chained \in BOOLEAN
      BY <3>1
    <3>3. clicked \in 0..MaxClicks
      BY <1>1, <3>1
    <3> QED BY <3>1, <3>2, <3>3 DEF HeartTypes, StatsAreBoard
  <2>2. SortTypes /\ SponsorTypes
    BY DEF BoardInit, SortTypes, SponsorTypes
  <2> QED BY <2>1, <2>2
<1>4. TableTypes
  BY <1>2, EmptyIsBoard DEF BoardInit, TableTypes
<1>5. HeroTypes
  BY <1>1, <1>2 DEF BoardInit, HeroTypes, IsMid
<1> QED BY <1>3, <1>4, <1>5 DEF BoardTypes

LEMMA BoardNextTypes == BoardTypes /\ [BoardNext]_boardVars => BoardTypes'
<1> SUFFICES ASSUME BoardTypes, [BoardNext]_boardVars PROVE BoardTypes'
  OBVIOUS
<1>1. CASE \E chain \in BOOLEAN : RefreshOver(chain)
  BY <1>1, RefreshedTypes, EmptyTypes, QuietTypes DEF RefreshOver
<1>2. CASE \E k \in SortKeys : ClickSort(k)
  BY <1>2, SortTypesPreserve
<1> QED BY <1>1, <1>2, SponsorTypesPreserve, QuietTypes DEF BoardNext, BoardAlone

LEMMA BoardTypesNow == BoardTypes => BoardTypeOK
BY DEF BoardTypes, HeartTypes, StatsAreBoard, TableTypes, SortTypes, HeroTypes, SponsorTypes,
       Dots, BoardTypeOK

\* Rows, order, headline, trend and sponsors keep their types: the table's order
\* is defined, and the headline is a number, for any answers.
THEOREM BoardTypesCorrect == BoardSpec => []BoardTypeOK
BY BoardInitTypes, BoardNextTypes, BoardTypesNow, PTL DEF BoardSpec

(***************************************************************************)
(* The site: every script keeps its invariant in the tab it shares with    *)
(* the others.  A step of another part of the site leaves a script's own   *)
(* variables alone; what it may change is the tab's visibility and, where  *)
(* the rate selector is, the rate type.                                    *)
(***************************************************************************)
SiteInv ==
  /\ part \in Parts
  /\ BoardInv /\ BoardTypes /\ ConvInv
  /\ ChartInv /\ CardsInv
  /\ FeeInv /\ NetInv /\ MmInv /\ BarInv

-----------------------------------------------------------------------------
\* What each script keeps while another part of the site moves.
LEMMA BoardQuiet ==
  ASSUME BoardInv, BoardTypes, UNCHANGED boardOwn
  PROVE  BoardInv' /\ BoardTypes'
<1>1. UNCHANGED boardVars
  BY DEF boardOwn, boardVars
<1>2. StatsAreBoard
  BY DEF BoardTypes
<1> QED BY <1>1, <1>2, BoardNextInv, BoardNextTypes

LEMMA ConvQuiet ==
  ASSUME ConvInv, UNCHANGED convVars
  PROVE  ConvInv'
BY ConvNextInv

LEMMA ChartQuiet ==
  ASSUME ChartInv, UNCHANGED <<rateType, chartOwn>>, visible' \in BOOLEAN
  PROVE  ChartInv' /\ UNCHANGED LW!latestVars
<1>1. UNCHANGED <<rateType, pair, range, lit, offered, loads, loadSeq, overlay, chart,
                  hidden, everHadData, off>>
  BY DEF chartOwn
<1>2. RequestsInOrder'
  BY <1>1, ChartIdleKeepsOrder DEF ChartInv, Controls
<1>3. ChartInv'
  BY <1>1, <1>2 DEF ChartInv, ChartTypeOK, DrawnInOrder, ChartIsOfThePair, HiddenLinesSurvive,
                    DataWasSeen, LitUnlessDefault
<1> QED BY <1>1, <1>3 DEF LW!latestVars, Controls, Awaited, Newest

LEMMA CardsQuiet ==
  ASSUME CardsInv, UNCHANGED cardsOwn, rateType' \in Rates, visible' \in BOOLEAN
  PROVE  CardsInv'
<1>1. UNCHANGED <<currentRate, last, shown, flash, flashTimer, polls, checking, badge, outLink>>
  BY DEF cardsOwn
<1>2. CardsTypeOK'
  BY <1>1 DEF CardsInv, CardsTypeOK
<1> QED BY <1>1, <1>2 DEF CardsInv, StoreIsByRate, CellsShowTheStore, FlashIsTimed, SponsorNotAffiliate

LEMMA FeeQuiet ==
  ASSUME FeeInv, UNCHANGED feeOwn, visible' \in BOOLEAN
  PROVE  FeeInv' /\ UNCHANGED FW!latestVars
<1>1. UNCHANGED <<feeRange, feeLit, feeOffered, feeLoads, feeSeq, feeOverlay, feeChart,
                  feeNotice, feeHidden, feeHadData>>
  BY DEF feeOwn
<1>2. FeeTypeOK'
  BY <1>1 DEF FeeInv, FeeTypeOK
<1>3. NoticeMatchesLine' /\ FeeLitIsAsked'
  BY <1>1 DEF FeeInv, NoticeMatchesLine, FeeLitIsAsked, NewestFee
<1> QED BY <1>1, <1>2, <1>3 DEF FeeInv, FW!latestVars, FeeAwaited, NewestFee

LEMMA NetQuiet ==
  ASSUME NetInv, UNCHANGED netOwn
  PROVE  NetInv' /\ ArrowsTellTheMove
BY DEF netOwn, NetInv, NetTypeOK, ArrowsTellTheMove

LEMMA MmQuiet ==
  ASSUME MmInv, UNCHANGED mmOwn
  PROVE  MmInv'
BY DEF mmOwn, MmInv, MmTypeOK, SaysWhatItShows

LEMMA BarQuiet ==
  ASSUME BarInv, UNCHANGED barVars
  PROVE  BarInv'
BY BarNextInv
-----------------------------------------------------------------------------
LEMMA SiteInitInv == SiteInit => SiteInv
<1> SUFFICES ASSUME SiteInit PROVE SiteInv
  OBVIOUS
<1>1. /\ part \in Parts
      /\ BoardInit /\ ConvInit /\ ChartInit /\ CardsInit
      /\ FeeInit /\ NetInit /\ MmInit /\ BarInit
  BY DEF SiteInit
<1> QED BY <1>1, BoardInitInv, BoardInitTypes, ConvInitInv, ChartInitInv, CardsInitInv,
           FeeInitInv, NetInitInv, MmInitInv, BarInitInv DEF SiteInv

\* A step of the site is a step of the chart, or the chart's canvas, controls
\* and requests stay; likewise for the fee chart and the fee block.
SiteStep == SiteInv' /\ [LW!Next]_LW!latestVars /\ [FW!Next]_FW!latestVars /\ ArrowsTellTheMove

LEMMA SharedTypes ==
  ASSUME SiteInv
  PROVE  visible \in BOOLEAN /\ rateType \in Rates
BY DEF SiteInv, ChartInv, ChartTypeOK

LEMMA BoardPartStep ==
  ASSUME SiteInv, BoardPart
  PROVE  SiteStep
<1>1. BoardInv' /\ BoardTypes'
  <2>1. StatsAreBoard
    BY DEF SiteInv, BoardTypes
  <2> QED BY <2>1, BoardNextInv, BoardNextTypes DEF SiteInv, BoardPart
<1>2. /\ UNCHANGED part /\ UNCHANGED rateType /\ UNCHANGED visible
      /\ UNCHANGED convVars /\ UNCHANGED chartOwn /\ UNCHANGED cardsOwn /\ UNCHANGED feeOwn
      /\ UNCHANGED netOwn /\ UNCHANGED mmOwn /\ UNCHANGED barVars
  BY DEF BoardPart
<1> QED BY <1>1, <1>2, SharedTypes, ConvQuiet, ChartQuiet, CardsQuiet, FeeQuiet, NetQuiet, MmQuiet, BarQuiet
        DEF SiteInv, SiteStep

LEMMA ConverterPartStep ==
  ASSUME SiteInv, ConverterPart
  PROVE  SiteStep
<1>1. ConvInv'
  BY ConvNextInv DEF SiteInv, ConverterPart
<1>2. /\ UNCHANGED part /\ UNCHANGED rateType /\ UNCHANGED visible
      /\ UNCHANGED boardOwn /\ UNCHANGED chartOwn /\ UNCHANGED cardsOwn /\ UNCHANGED feeOwn
      /\ UNCHANGED netOwn /\ UNCHANGED mmOwn /\ UNCHANGED barVars
  BY DEF ConverterPart
<1> QED BY <1>1, <1>2, SharedTypes, BoardQuiet, ChartQuiet, CardsQuiet, FeeQuiet, NetQuiet, MmQuiet, BarQuiet
        DEF SiteInv, SiteStep

LEMMA ChartPartStep ==
  ASSUME SiteInv, ChartPart
  PROVE  SiteStep
<1>1. ChartInv'
  BY ChartStepInv DEF SiteInv, ChartPart
<1>2. [LW!Next]_LW!latestVars
  BY <1>1, ChartStepRefines DEF SiteInv, ChartPart
<1>3. visible' \in BOOLEAN /\ rateType' \in Rates
  BY <1>1 DEF ChartInv, ChartTypeOK
<1>4. /\ UNCHANGED part /\ UNCHANGED boardOwn /\ UNCHANGED convVars /\ UNCHANGED cardsOwn
      /\ UNCHANGED feeOwn /\ UNCHANGED netOwn /\ UNCHANGED mmOwn /\ UNCHANGED barVars
  BY DEF ChartPart
<1> QED BY <1>1, <1>2, <1>3, <1>4, BoardQuiet, ConvQuiet, CardsQuiet, FeeQuiet, NetQuiet, MmQuiet, BarQuiet
        DEF SiteInv, SiteStep

\* On an exchange page each step is one of the cards, one of the chart, or both
\* at once: the rate selector and the tab's visibility are seen by both.
LEMMA ExchangePageMoves ==
  ASSUME SiteInv, ExchangePage
  PROVE  /\ ChartInv' /\ [LW!Next]_LW!latestVars
         /\ CardsInv'
<1>1. ChartInv /\ CardsInv /\ UNCHANGED part
  BY DEF SiteInv, ExchangePage
<1>2. CASE ChartAlone /\ UNCHANGED cardsOwn
  <2>1. ChartInv' /\ [LW!Next]_LW!latestVars
    BY <1>1, <1>2, ChartStepInv, ChartStepRefines DEF ChartNext
  <2>2. visible' \in BOOLEAN /\ rateType' \in Rates
    BY <2>1 DEF ChartInv, ChartTypeOK
  <2> QED BY <1>1, <1>2, <2>1, <2>2, CardsQuiet
<1>3. CASE CardsAlone /\ UNCHANGED chartOwn
  <2>1. CardsInv'
    BY <1>1, <1>3, CardsNextInv DEF CardsNext
  <2>2. UNCHANGED rateType
    BY <1>3 DEF CardsAlone, CardsTimer, CardAnswered, CardUnanswered, FlashOver, SponsorFound, NoSponsor
  <2>3. visible' \in BOOLEAN
    BY <2>1 DEF CardsInv, CardsTypeOK
  <2> QED BY <1>1, <1>3, <2>1, <2>2, <2>3, ChartQuiet
<1>4. CASE \E r \in Rates : PickRate(r) /\ ChartRate(r)
  <2>1. ChartInv' /\ [LW!Next]_LW!latestVars
    BY <1>1, <1>4, ChartStepInv, ChartStepRefines DEF ChartNext
  <2>2. CardsInv'
    BY <1>1, <1>4, CardsNextInv DEF CardsNext
  <2> QED BY <2>1, <2>2
<1>5. CASE (CardsTabShown /\ ChartTabShown) \/ (CardsTabHidden /\ ChartHidesTab)
  <2>1. ChartInv' /\ [LW!Next]_LW!latestVars
    BY <1>1, <1>5, ChartStepInv, ChartStepRefines DEF ChartNext
  <2>2. CardsInv'
    BY <1>1, <1>5, CardsNextInv DEF CardsNext
  <2> QED BY <2>1, <2>2
<1> QED BY <1>2, <1>3, <1>4, <1>5 DEF ExchangePage

LEMMA ExchangePageStep ==
  ASSUME SiteInv, ExchangePage
  PROVE  SiteStep
<1>1. ChartInv' /\ [LW!Next]_LW!latestVars /\ CardsInv'
  BY ExchangePageMoves
<1>2. visible' \in BOOLEAN
  BY <1>1 DEF ChartInv, ChartTypeOK
<1>3. /\ UNCHANGED part /\ UNCHANGED boardOwn /\ UNCHANGED convVars
      /\ UNCHANGED feeOwn /\ UNCHANGED netOwn /\ UNCHANGED mmOwn /\ UNCHANGED barVars
  BY DEF ExchangePage
<1> QED BY <1>1, <1>2, <1>3, BoardQuiet, ConvQuiet, FeeQuiet, NetQuiet, MmQuiet, BarQuiet
        DEF SiteInv, SiteStep

LEMMA FeeChartPartStep ==
  ASSUME SiteInv, FeeChartPart
  PROVE  SiteStep
<1>1. FeeInv'
  BY FeeStepInv DEF SiteInv, FeeChartPart
<1>2. [FW!Next]_FW!latestVars
  BY <1>1, FeeStepRefines DEF SiteInv, FeeChartPart
<1>3. visible' \in BOOLEAN
  BY <1>1 DEF FeeInv, FeeTypeOK
<1>4. /\ UNCHANGED part /\ UNCHANGED rateType /\ UNCHANGED boardOwn /\ UNCHANGED convVars
      /\ UNCHANGED chartOwn /\ UNCHANGED cardsOwn /\ UNCHANGED netOwn /\ UNCHANGED mmOwn /\ UNCHANGED barVars
  BY DEF FeeChartPart
<1> QED BY <1>1, <1>2, <1>3, <1>4, SharedTypes, BoardQuiet, ConvQuiet, ChartQuiet, CardsQuiet, NetQuiet, MmQuiet,
           BarQuiet
        DEF SiteInv, SiteStep

LEMMA FeeBlockPartStep ==
  ASSUME SiteInv, FeeBlockPart
  PROVE  SiteStep
<1>1. NetInv' /\ ArrowsTellTheMove
  BY NetNextInv DEF SiteInv, FeeBlockPart
<1>2. visible' \in BOOLEAN
  BY SharedTypes
     DEF FeeBlockPart, NetNext, NetTimer, NetTabShown, NetTabHidden, NetAnswered, NetUnanswered, TabShown, TabHidden
<1>3. /\ UNCHANGED part /\ UNCHANGED rateType /\ UNCHANGED boardOwn /\ UNCHANGED convVars
      /\ UNCHANGED chartOwn /\ UNCHANGED cardsOwn /\ UNCHANGED feeOwn /\ UNCHANGED mmOwn /\ UNCHANGED barVars
  BY DEF FeeBlockPart
<1> QED BY <1>1, <1>2, <1>3, SharedTypes, BoardQuiet, ConvQuiet, ChartQuiet, CardsQuiet, FeeQuiet, MmQuiet,
           BarQuiet
        DEF SiteInv, SiteStep

LEMMA MillionaireStep ==
  ASSUME SiteInv, MillionairePage
  PROVE  SiteStep
<1>1. MmInv'
  BY MmNextInv DEF SiteInv, MillionairePage
<1>2. visible' \in BOOLEAN
  BY SharedTypes
     DEF MillionairePage, MmNext, MmTimer, MmTabShown, MmTabHidden, MmAnswered, MmUnanswered, TabShown, TabHidden
<1>3. /\ UNCHANGED part /\ UNCHANGED rateType /\ UNCHANGED boardOwn /\ UNCHANGED convVars
      /\ UNCHANGED chartOwn /\ UNCHANGED cardsOwn /\ UNCHANGED feeOwn /\ UNCHANGED netOwn /\ UNCHANGED barVars
  BY DEF MillionairePage
<1> QED BY <1>1, <1>2, <1>3, SharedTypes, BoardQuiet, ConvQuiet, ChartQuiet, CardsQuiet, FeeQuiet, NetQuiet,
           BarQuiet
        DEF SiteInv, SiteStep

LEMMA BarPartStep ==
  ASSUME SiteInv, BarPart
  PROVE  SiteStep
<1>1. BarInv'
  BY BarNextInv DEF SiteInv, BarPart
<1>2. /\ UNCHANGED part /\ UNCHANGED rateType /\ UNCHANGED visible /\ UNCHANGED boardOwn
      /\ UNCHANGED convVars /\ UNCHANGED chartOwn /\ UNCHANGED cardsOwn /\ UNCHANGED feeOwn
      /\ UNCHANGED netOwn /\ UNCHANGED mmOwn
  BY DEF BarPart
<1> QED BY <1>1, <1>2, SharedTypes, BoardQuiet, ConvQuiet, ChartQuiet, CardsQuiet, FeeQuiet, NetQuiet, MmQuiet
        DEF SiteInv, SiteStep

LEMMA SiteStandsStill ==
  ASSUME SiteInv, UNCHANGED siteVars
  PROVE  SiteStep
<1>1. /\ UNCHANGED part /\ UNCHANGED rateType /\ UNCHANGED visible /\ UNCHANGED boardOwn
      /\ UNCHANGED convVars /\ UNCHANGED chartOwn /\ UNCHANGED cardsOwn /\ UNCHANGED feeOwn
      /\ UNCHANGED netOwn /\ UNCHANGED mmOwn /\ UNCHANGED barVars
  BY DEF siteVars
<1> QED BY <1>1, SharedTypes, BoardQuiet, ConvQuiet, ChartQuiet, CardsQuiet, FeeQuiet, NetQuiet, MmQuiet,
           BarQuiet DEF SiteInv, SiteStep

LEMMA SiteNextInv == SiteInv /\ [SiteNext]_siteVars => SiteStep
BY BoardPartStep, ConverterPartStep, ChartPartStep, ExchangePageStep, FeeChartPartStep, FeeBlockPartStep,
   MillionaireStep, BarPartStep, SiteStandsStill DEF SiteNext

THEOREM SiteInvariant == SiteSpec => []SiteInv
<1>1. SiteInv /\ [SiteNext]_siteVars => SiteInv'
  BY SiteNextInv DEF SiteStep
<1> QED BY <1>1, SiteInitInv, PTL DEF SiteSpec
-----------------------------------------------------------------------------
\* Everything every script keeps has its type, whichever part is looked at.
THEOREM SiteTypeCorrect == SiteSpec => []SiteTypeOK
<1>1. SiteInv => BoardTypeOK
  BY BoardTypesNow DEF SiteInv
<1>2. SiteInv => /\ part \in Parts
                 /\ ConvTypeOK /\ ChartTypeOK /\ CardsTypeOK
                 /\ FeeTypeOK /\ NetTypeOK /\ MmTypeOK /\ BarTypeOK
  BY DEF SiteInv, ConvInv, ChartInv, CardsInv, FeeInv, NetInv, MmInv, BarInv
<1>3. SiteInv => SiteTypeOK
  BY <1>1, <1>2 DEF SiteTypeOK
<1> QED BY <1>3, SiteInvariant, PTL

\* The properties of the board's page, in the tab shared with the other scripts.
THEOREM BoardOfTheSite == SiteSpec => [](OneHeartbeat /\ RowsAsBuilt /\ OrderIsTotal /\ PricesAgree)
<1>1. SiteInv => BoardInv
  BY DEF SiteInv
<1>2. SiteInv => OneHeartbeat
  BY <1>1 DEF BoardInv
<1>3. SiteInv => RowsAsBuilt
  BY <1>1 DEF BoardInv, RowsAsBuilt
<1>4. SiteInv => PricesAgree
  BY <1>1 DEF BoardInv, PricesAgree
<1>5. SiteInv => OrderIsTotal
  BY BoardsAreOrdered DEF SiteInv, BoardTypes, StatsAreBoard, OrderIsTotal
<1> QED BY <1>2, <1>3, <1>4, <1>5, SiteInvariant, PTL

\* Converter, charts, cards, millionaire page and sponsor bar show what is true,
\* in a tab where the other scripts switch the rate type and hide the page.
THEOREM ScriptsOfTheSite ==
  SiteSpec => [](AmountsAgree /\ ChartIsTrue /\ CardsAreTrue /\ FeeChartIsTrue /\ SaysWhatItShows /\ BarShowsASet)
<1>1. SiteInv => ChartIsTrue /\ CardsAreTrue
  BY ChartTrueNow, CardsTrueNow DEF SiteInv
<1>2. SiteInv => AmountsAgree /\ FeeChartIsTrue /\ SaysWhatItShows /\ BarShowsASet
  BY DEF SiteInv, ConvInv, FeeInv, FeeChartIsTrue, MmInv, BarInv
<1> QED BY <1>1, <1>2, SiteInvariant, PTL

\* Next to the fee block's own steps, no step of another script moves an arrow.
THEOREM ArrowsOfTheSite == SiteSpec => ArrowTellsTheMove
<1>1. SiteInv /\ [SiteNext]_siteVars => SiteInv' /\ [ArrowsTellTheMove]_netVars
  BY SiteNextInv DEF SiteStep
<1> QED BY <1>1, SiteInitInv, PTL DEF SiteSpec, ArrowTellsTheMove

\* Both charts draw only the answer to their newest request, with the cards, the
\* rate selector and the tab moving beside them.
THEOREM ChartsOfTheSite == SiteSpec => ChartImplementsLatestWins /\ FeeImplementsLatestWins
<1>1. SiteInit => LW!Init /\ FW!Init
  BY ChartInitRefines, FeeInitRefines DEF SiteInit
<1>2. SiteInv /\ [SiteNext]_siteVars => SiteInv' /\ [LW!Next]_LW!latestVars /\ [FW!Next]_FW!latestVars
  BY SiteNextInv DEF SiteStep
<1> QED BY <1>1, <1>2, SiteInitInv, PTL
        DEF SiteSpec, ChartImplementsLatestWins, FeeImplementsLatestWins, LW!Spec, FW!Spec
================================================================================
