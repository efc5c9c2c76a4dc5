------------------------------ MODULE PriceChart ------------------------------
(***************************************************************************)
(* pricechart.js: the history chart of a pair page and of an exchange page.*)
(* Requests overlap (range, pair and rate clicks, a 30-second timer, the   *)
(* tab coming back); each takes a number, and an answer whose number is    *)
(* not the newest is dropped.  Rendering an answer may move the range and  *)
(* so start a request inside the handling of another.                      *)
(***************************************************************************)
EXTENDS Page, Integers

CONSTANTS
  Pairs,         \* the pair tabs (one pair on the pair pages)
  Ranges,        \* the range buttons, as numbers in their ascending order
  DefaultRange,  \* "1d"
  Series,        \* the lines: buy, sell, market
  NoChart,       \* no Chart object
  MaxLoads       \* bound: requests started

ASSUME PriceChartAssumption ==
  /\ Ranges \subseteq Int /\ DefaultRange \in Ranges
  /\ \A S \in SUBSET Ranges : S # {} => \E r \in S : \A s \in S : s <= r
  /\ MaxLoads \in Nat

VARIABLES
  pair,         \* PAIR
  range,        \* currentRange
  lit,          \* the range button with chart-range-active
  offered,      \* the range buttons not hidden
  loads,        \* requests in flight: their number and what they asked for
  loadSeq,      \* number of the newest request
  overlay,      \* the loading overlay is up
  chart,        \* what the Chart object shows
  hidden,       \* the whole section is hidden
  everHadData,
  off           \* hiddenSeries

chartVars == <<rateType, visible, pair, range, lit, offered, loads, loadSeq,
               overlay, chart, hidden, everHadData, off>>

Settings == [pair : Pairs, range : Ranges, rate : Rates]
Requests == [seq : Nat, of : Settings]
Pictures == [of : Settings, full : BOOLEAN, lines : SUBSET Series]

ASSUME NoChartAssumption == NoChart \notin Pictures

Controls == [pair |-> pair, range |-> range, rate |-> rateType]
Longest(S) == CHOOSE r \in S : \A s \in S : s <= r

Newest(l) == l.seq = loadSeq
Awaited == \E l \in loads : Newest(l)

\* load(showSpinner) up to its fetch, asking for c.
Load(c, inFlight, spinner) ==
  /\ loadSeq < MaxLoads
  /\ loadSeq' = loadSeq + 1
  /\ loads' = inFlight \cup {[seq |-> loadSeq + 1, of |-> c]}
  /\ overlay' = (overlay \/ spinner)

ChartInit ==
  /\ rateType \in Rates
  /\ visible = TRUE
  /\ pair \in Pairs
  /\ range = DefaultRange /\ lit = DefaultRange
  /\ offered = Ranges
  /\ loads = {[seq |-> 1, of |-> Controls]}
  /\ loadSeq = 1
  /\ overlay = FALSE
  /\ chart = NoChart
  /\ hidden \in BOOLEAN
  /\ everHadData = FALSE
  /\ off = {}

Drawn == <<chart, hidden, everHadData, off>>

\* The refresh timer, in a visible tab.
ChartTimer ==
  /\ visible
  /\ Load(Controls, loads, FALSE)
  /\ UNCHANGED <<rateType, visible, pair, range, lit, offered, Drawn>>

ChartTabShown ==
  /\ TabShown
  /\ Load(Controls, loads, FALSE)
  /\ UNCHANGED <<pair, range, lit, offered, Drawn>>

\* Faulty variant: the event comes before the rate type is set.
ChartRateEarly(r) ==
  /\ r # rateType
  /\ rateType' = r
  /\ Load(Controls, loads, TRUE)
  /\ UNCHANGED <<visible, pair, range, lit, offered, Drawn>>

\* ratetypechange, after window.__RATE_TYPE__ was set.
ChartRate(r) ==
  /\ r # rateType
  /\ rateType' = r
  /\ Load([Controls EXCEPT !.rate = r], loads, TRUE)
  /\ UNCHANGED <<visible, pair, range, lit, offered, Drawn>>

ClickRange(r) ==
  /\ ~hidden
  /\ r \in offered \ {range}
  /\ range' = r /\ lit' = r
  /\ Load([Controls EXCEPT !.range = r], loads, TRUE)
  /\ UNCHANGED <<rateType, visible, pair, offered, Drawn>>

\* Faulty variant: the chart is kept and re-pointed at the new pair.
ClickPairKeeping(p) ==
  /\ ~hidden
  /\ p # pair
  /\ pair' = p
  /\ range' = DefaultRange
  /\ everHadData' = FALSE
  /\ Load([pair |-> p, range |-> DefaultRange, rate |-> rateType], loads, TRUE)
  /\ UNCHANGED <<rateType, visible, lit, offered, chart, hidden, off>>

\* The chart is destroyed, so that the axis is built for the new pair.  The
\* range is reset without its buttons.
ClickPair(p) ==
  /\ ~hidden
  /\ p # pair
  /\ pair' = p
  /\ range' = DefaultRange
  /\ chart' = NoChart
  /\ everHadData' = FALSE
  /\ Load([pair |-> p, range |-> DefaultRange, rate |-> rateType], loads, TRUE)
  /\ UNCHANGED <<rateType, visible, lit, offered, hidden, off>>

\* toggleSeries, from the words under the chart or from the legend.
ToggleSeries(i) ==
  /\ ~hidden
  /\ off' = IF i \in off THEN off \ {i} ELSE off \cup {i}
  /\ chart' = IF chart = NoChart THEN NoChart
              ELSE [chart EXCEPT !.lines = IF i \in off THEN @ \cup {i} ELSE @ \ {i}]
  /\ UNCHANGED <<rateType, visible, pair, range, lit, offered, loads, loadSeq,
                 overlay, hidden, everHadData>>

\* Faulty variant: a rebuilt chart shows every line.
LinesOfAll == IF chart = NoChart THEN Series ELSE chart.lines

\* An existing chart keeps the visibility of its lines, a new one takes hiddenSeries.
Lines == IF chart = NoChart THEN Series \ off ELSE chart.lines

\* render, without applyAvailableRanges.
Render(l, full) ==
  /\ hidden' = FALSE
  /\ everHadData' = (everHadData \/ full)
  /\ chart' = [of |-> l.of, full |-> full, lines |-> Lines]

\* The newest request's answer, its range still available; the overlay goes.
Answered(l, full, available) ==
  /\ l \in loads /\ Newest(l)
  /\ available # {} => range \in available
  /\ offered' = IF available = {} THEN offered ELSE available
  /\ Render(l, full)
  /\ loads' = loads \ {l}
  /\ overlay' = FALSE
  /\ UNCHANGED <<rateType, visible, pair, range, lit, loadSeq, off>>

\* Faulty variant: the range moves, its button does not.
FallsBackUnlit(l, full, available) ==
  /\ l \in loads /\ Newest(l)
  /\ available # {} /\ range \notin available
  /\ offered' = available
  /\ range' = Longest(available)
  /\ Load([Controls EXCEPT !.range = Longest(available)], loads \ {l}, FALSE)
  /\ Render(l, full)
  /\ UNCHANGED <<rateType, visible, pair, lit, off>>

\* Its range is not available: fall back to the longest one and load() inside
\* render, which then draws the answer in hand.
FallsBack(l, full, available) ==
  /\ l \in loads /\ Newest(l)
  /\ available # {} /\ range \notin available
  /\ offered' = available
  /\ range' = Longest(available) /\ lit' = range'
  /\ Load([Controls EXCEPT !.range = Longest(available)], loads \ {l}, FALSE)
  /\ Render(l, full)
  /\ UNCHANGED <<rateType, visible, pair, off>>

\* Faulty variant: no sequence number.
SupersededDrawn(l) ==
  /\ l \in loads /\ ~Newest(l)
  /\ Render(l, TRUE)
  /\ loads' = loads \ {l}
  /\ UNCHANGED <<rateType, visible, pair, range, lit, offered, loadSeq, overlay, off>>

\* Any end of a request that is not the newest: dropped, and the overlay kept.
Superseded(l) ==
  /\ l \in loads /\ ~Newest(l)
  /\ loads' = loads \ {l}
  /\ UNCHANGED <<rateType, visible, pair, range, lit, offered, loadSeq, overlay, Drawn>>

\* Faulty variant: only a request that was answered clears the overlay.
FailedKeepingOverlay(l) ==
  /\ l \in loads /\ Newest(l)
  /\ loads' = loads \ {l}
  /\ UNCHANGED <<rateType, visible, pair, range, lit, offered, loadSeq, overlay, Drawn>>

\* An error status, no JSON, no network.
Failed(l) ==
  /\ l \in loads /\ Newest(l)
  /\ loads' = loads \ {l}
  /\ overlay' = FALSE
  /\ UNCHANGED <<rateType, visible, pair, range, lit, offered, loadSeq, Drawn>>

\* Faulty variant: a database outage hides the chart whatever it shows.
DisabledHiding(l) ==
  /\ l \in loads /\ Newest(l)
  /\ loads' = loads \ {l}
  /\ overlay' = FALSE
  /\ hidden' = TRUE
  /\ UNCHANGED <<rateType, visible, pair, range, lit, offered, loadSeq, chart, everHadData, off>>

\* { enabled: false }: no database.
Disabled(l) ==
  /\ l \in loads /\ Newest(l)
  /\ loads' = loads \ {l}
  /\ overlay' = FALSE
  /\ hidden' = (hidden \/ ~everHadData)
  /\ UNCHANGED <<rateType, visible, pair, range, lit, offered, loadSeq, chart, everHadData, off>>

ChartHidesTab ==
  /\ TabHidden
  /\ UNCHANGED <<pair, range, lit, offered, loads, loadSeq, overlay, Drawn>>

\* What happens to a request in the end.
RequestOver(l) ==
  \/ \E full \in BOOLEAN, available \in SUBSET Ranges :
       Answered(l, full, available) \/ FallsBack(l, full, available)
  \/ Superseded(l) \/ Failed(l) \/ Disabled(l)

\* What the script does by itself: nobody else moves with it.
ChartAlone ==
  \/ ChartTimer
  \/ \E r \in Ranges : ClickRange(r)
  \/ \E p \in Pairs : ClickPair(p)
  \/ \E i \in Series : ToggleSeries(i)
  \/ \E l \in loads : RequestOver(l)

ChartNext ==
  \/ ChartAlone
  \/ \E r \in Rates : ChartRate(r)
  \/ ChartTabShown \/ ChartHidesTab

ChartSpec == ChartInit /\ [][ChartNext]_chartVars

\* Every fetch ends: the browser resolves or rejects it.
ChartFairness == WF_chartVars(\E l \in loads : RequestOver(l))

(***************************************************************************)
(* Properties.                                                             *)
(***************************************************************************)
\* Types of everything pricechart.js keeps.
ChartTypeOK ==
  /\ rateType \in Rates /\ visible \in BOOLEAN
  /\ pair \in Pairs /\ range \in Ranges /\ lit \in Ranges
  /\ offered \subseteq Ranges
  /\ loads \subseteq Requests /\ loadSeq \in Nat
  /\ overlay \in BOOLEAN
  /\ chart \in Pictures \cup {NoChart}
  /\ hidden \in BOOLEAN /\ everHadData \in BOOLEAN
  /\ off \subseteq Series

\* The lines on the canvas always belong to the pair whose tab is selected and
\* whose symbol and decimals label the axis, however late an answer comes.
ChartIsOfThePair == chart # NoChart => chart.of.pair = pair

\* The loading overlay is up only while the newest request is in flight, although
\* the request that raised it may have been superseded by one that did not.
OverlayAwaitsNewest == overlay => Awaited

\* Request numbers are used once, and the newest request asks for what the
\* controls stand at: no control moves without a request.
NewestAsksForControls ==
  /\ \A l \in loads : l.seq <= loadSeq
  /\ \A l, m \in loads : l.seq = m.seq => l = m
  /\ \A l \in loads : Newest(l) => l.of = Controls

\* "Hidden lines survive refreshes and chart rebuilds (pair switch)".
HiddenLinesSurvive == chart # NoChart => chart.lines = Series \ off

\* Once a chart shows data, an outage of the database does not take it away.
DataIsNeverHidden == (chart # NoChart /\ chart.full) => ~hidden

\* The highlighted range button is the range shown, except that it may lag
\* behind while the range is the default one, which the pair tabs set.
LitUnlessDefault == lit = range \/ range = DefaultRange

\* What stands on and around the canvas is of the controls as they are, however
\* answers, clicks and outages follow one another, and a redraw takes back nothing.
ChartIsTrue ==
  /\ ChartIsOfThePair /\ OverlayAwaitsNewest /\ NewestAsksForControls
  /\ HiddenLinesSurvive /\ DataIsNeverHidden /\ LitUnlessDefault

LW == INSTANCE LatestWins
  WITH Selections <- Settings, Nothing <- NoChart, selection <- Controls,
       picture <- IF chart = NoChart THEN NoChart ELSE chart.of,
       awaited <- Awaited

\* The chart draws only the answer to its newest request, and that is the
\* history of what the controls stand at when it is drawn.
ChartImplementsLatestWins == LW!Spec

\* The spinner a click raised goes away again, whether its request succeeds,
\* fails, is superseded, or falls back to another range.
OverlayClears == overlay ~> ~overlay
===============================================================================
