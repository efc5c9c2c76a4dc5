----------------------------- MODULE ScriptProofs -----------------------------
(***************************************************************************)
(* The scripts beside the board, each for any values of its constants: the *)
(* two history charts, which both implement LatestWins, the cards of an    *)
(* exchange page, the converter with the invoice builder, the fee block,   *)
(* the millionaire page and the sponsor bar.                               *)
(***************************************************************************)
EXTENDS PriceChart, FeeChart, ExchangeCards, Converter, NetFee, Millionaire, SponsorBar,
        FiniteSums, FiniteSetTheorems, SequenceTheorems, TLAPS

(***************************************************************************)
(* pricechart.js.                                                          *)
(***************************************************************************)
\* What an outage may not hide, and why it does not: data on the canvas has been
\* seen since the chart was created.
DataWasSeen == (chart # NoChart /\ chart.full) => (everHadData /\ ~hidden)

\* The requests in flight, apart from what is drawn.
RequestsInOrder == NewestAsksForControls /\ OverlayAwaitsNewest

\* What is drawn, apart from the requests.
DrawnInOrder == ChartIsOfThePair /\ HiddenLinesSurvive /\ DataWasSeen

ChartInv == ChartTypeOK /\ RequestsInOrder /\ DrawnInOrder /\ LitUnlessDefault

-----------------------------------------------------------------------------
\* The last visible range button exists and is one of those offered.
LEMMA ChartLongestIsOffered ==
  ASSUME NEW S \in SUBSET Ranges, S # {}
  PROVE  Longest(S) \in S
<1>1. \E r \in S : \A s \in S : s <= r
  BY PriceChartAssumption DEF PriceChartAssumption
<1> QED BY <1>1 DEF Longest

LEMMA ControlsAreSettings ==
  ASSUME ChartTypeOK
  PROVE  Controls \in Settings
BY DEF ChartTypeOK, Controls, Settings

\* load(): whoever calls it has moved the controls to what it asks for.
LEMMA ChartLoadKeepsOrder ==
  ASSUME ChartTypeOK, RequestsInOrder, NEW c \in Settings, NEW inFlight \in SUBSET loads,
         NEW spinner \in BOOLEAN, Load(c, inFlight, spinner), Controls' = c
  PROVE  /\ RequestsInOrder'
         /\ loads' \subseteq Requests /\ loadSeq' \in Nat /\ overlay' \in BOOLEAN
         /\ Awaited'
<1> DEFINE new == [seq |-> loadSeq + 1, of |-> c]
<1>1. /\ loadSeq \in Nat /\ loadSeq' = loadSeq + 1
      /\ loads' = inFlight \cup {new} /\ overlay' = (overlay \/ spinner)
  BY DEF ChartTypeOK, Load
<1>2. new \in Requests /\ new.seq = loadSeq + 1 /\ new.of = c
  BY <1>1 DEF Requests
<1>3. \A l \in inFlight : l \in Requests /\ l.seq \in Nat /\ l.seq <= loadSeq
  BY DEF ChartTypeOK, RequestsInOrder, NewestAsksForControls, Requests
<1>4. \A l, m \in inFlight : l.seq = m.seq => l = m
  BY DEF RequestsInOrder, NewestAsksForControls
<1> HIDE DEF new
<1>5. loads' \subseteq Requests /\ loadSeq' \in Nat /\ overlay' \in BOOLEAN
  BY <1>1, <1>2, <1>3 DEF ChartTypeOK
<1>6. Awaited'
  BY <1>1, <1>2 DEF Awaited, Newest
<1>7. \A l \in loads' : l.seq <= loadSeq'
  BY <1>1, <1>2, <1>3
<1>8. \A l, m \in loads' : l.seq = m.seq => l = m
  BY <1>1, <1>2, <1>3, <1>4
<1>9. \A l \in loads' : l.seq = loadSeq' => l = new
  BY <1>1, <1>2, <1>3
<1>10. NewestAsksForControls'
  BY <1>2, <1>7, <1>8, <1>9 DEF NewestAsksForControls, Newest
<1> QED BY <1>5, <1>6, <1>10 DEF RequestsInOrder, OverlayAwaitsNewest

\* The end of a request: the newest one takes the overlay with it.
LEMMA ChartEndKeepsOrder ==
  ASSUME ChartTypeOK, RequestsInOrder, NEW l \in loads,
         loads' = loads \ {l}, loadSeq' = loadSeq, Controls' = Controls,
         overlay' = FALSE \/ (overlay' = overlay /\ ~Newest(l))
  PROVE  RequestsInOrder' /\ loads' \subseteq Requests /\ overlay' \in BOOLEAN
<1>1. NewestAsksForControls'
  BY DEF RequestsInOrder, NewestAsksForControls, Newest
<1>2. OverlayAwaitsNewest'
  BY DEF RequestsInOrder, OverlayAwaitsNewest, Awaited, Newest
<1> QED BY <1>1, <1>2 DEF RequestsInOrder, ChartTypeOK

\* A step that leaves requests and controls alone.
LEMMA ChartIdleKeepsOrder ==
  ASSUME RequestsInOrder, UNCHANGED <<loads, loadSeq, overlay>>, Controls' = Controls
  PROVE  RequestsInOrder'
BY DEF RequestsInOrder, NewestAsksForControls, OverlayAwaitsNewest, Awaited, Newest

-----------------------------------------------------------------------------
\* Clicks, the timer, the tab and the event of the rate buttons.
LEMMA ChartAskPreserves ==
  ASSUME ChartInv,
         \/ ChartTimer \/ ChartTabShown
         \/ \E r \in Rates : ChartRate(r)
         \/ \E r \in Ranges : ClickRange(r)
  PROVE  ChartInv'
<1>1. ChartTypeOK /\ RequestsInOrder /\ Controls \in Settings
  BY ControlsAreSettings DEF ChartInv
<1>2. CASE ChartTimer \/ ChartTabShown
  <2>1. Load(Controls, loads, FALSE) /\ Controls' = Controls
    BY <1>2 DEF ChartTimer, ChartTabShown, TabShown, Controls
  <2>2. RequestsInOrder' /\ loads' \subseteq Requests /\ loadSeq' \in Nat /\ overlay' \in BOOLEAN
    BY <1>1, <2>1, ChartLoadKeepsOrder
  <2>3. /\ UNCHANGED <<rateType, pair, range, lit, offered, chart, hidden, everHadData, off>>
        /\ visible' \in BOOLEAN
    BY <1>1, <1>2 DEF ChartTimer, ChartTabShown, TabShown, Drawn, ChartTypeOK
  <2> QED
    BY <1>1, <2>2, <2>3 DEF ChartInv, ChartTypeOK, DrawnInOrder, ChartIsOfThePair,
                            HiddenLinesSurvive, DataWasSeen, LitUnlessDefault
<1>3. ASSUME NEW r \in Rates, ChartRate(r) PROVE ChartInv'
  <2>1. /\ Controls' = [Controls EXCEPT !.rate = r]
        /\ [Controls EXCEPT !.rate = r] \in Settings
    BY <1>3, <1>1 DEF ChartRate, Controls, Settings
  <2>2. RequestsInOrder' /\ loads' \subseteq Requests /\ loadSeq' \in Nat /\ overlay' \in BOOLEAN
    BY <1>1, <1>3, <2>1, ChartLoadKeepsOrder DEF ChartRate
  <2> QED
    BY <1>3, <2>2 DEF ChartRate, Drawn, ChartInv, ChartTypeOK, DrawnInOrder,
                      ChartIsOfThePair, HiddenLinesSurvive, DataWasSeen, LitUnlessDefault
<1>4. ASSUME NEW r \in Ranges, ClickRange(r) PROVE ChartInv'
  <2>1. /\ Controls' = [Controls EXCEPT !.range = r]
        /\ [Controls EXCEPT !.range = r] \in Settings
    BY <1>4, <1>1 DEF ClickRange, Controls, Settings
  <2>2. RequestsInOrder' /\ loads' \subseteq Requests /\ loadSeq' \in Nat /\ overlay' \in BOOLEAN
    BY <1>1, <1>4, <2>1, ChartLoadKeepsOrder DEF ClickRange
  <2> QED
    BY <1>4, <2>2 DEF ClickRange, Drawn, ChartInv, ChartTypeOK, DrawnInOrder,
                      ChartIsOfThePair, HiddenLinesSurvive, DataWasSeen, LitUnlessDefault
<1> QED BY <1>2, <1>3, <1>4

\* A pair tab destroys the chart of the pair it leaves.
LEMMA ChartPairPreserves ==
  ASSUME ChartInv, NEW p \in Pairs, ClickPair(p)
  PROVE  ChartInv'
<1>1. ChartTypeOK /\ RequestsInOrder /\ DefaultRange \in Ranges
  BY PriceChartAssumption DEF ChartInv, PriceChartAssumption
<1> DEFINE c == [pair |-> p, range |-> DefaultRange, rate |-> rateType]
<1>2. Controls' = c /\ c \in Settings
  BY <1>1 DEF ClickPair, Controls, Settings, ChartTypeOK
<1>3. Load(c, loads, TRUE)
  BY DEF ClickPair
<1> HIDE DEF c
<1>4. RequestsInOrder' /\ loads' \subseteq Requests /\ loadSeq' \in Nat /\ overlay' \in BOOLEAN
  BY <1>1, <1>2, <1>3, ChartLoadKeepsOrder
<1>5. /\ UNCHANGED <<rateType, visible, lit, offered, hidden, off>>
      /\ pair' = p /\ range' = DefaultRange /\ chart' = NoChart /\ everHadData' = FALSE
  BY DEF ClickPair
<1>6. ChartTypeOK'
  BY <1>1, <1>4, <1>5 DEF ChartTypeOK
<1>7. DrawnInOrder' /\ LitUnlessDefault'
  BY <1>5 DEF DrawnInOrder, ChartIsOfThePair, HiddenLinesSurvive, DataWasSeen, LitUnlessDefault
<1> QED BY <1>4, <1>6, <1>7 DEF ChartInv

\* A line is switched in hiddenSeries and on the canvas together.
LEMMA ChartSeriesPreserves ==
  ASSUME ChartInv, NEW i \in Series, ToggleSeries(i)
  PROVE  ChartInv'
<1>1. /\ UNCHANGED <<rateType, visible, pair, range, lit, offered, loads, loadSeq,
                     overlay, hidden, everHadData>>
      /\ off' = IF i \in off THEN off \ {i} ELSE off \cup {i}
  BY DEF ToggleSeries
<1>2. RequestsInOrder'
  BY <1>1, ChartIdleKeepsOrder DEF ChartInv, Controls
<1>3. CASE chart = NoChart
  BY <1>1, <1>2, <1>3 DEF ToggleSeries, ChartInv, ChartTypeOK, DrawnInOrder, ChartIsOfThePair,
                          HiddenLinesSurvive, DataWasSeen, LitUnlessDefault
<1>4. CASE chart # NoChart
  <2> DEFINE lines == IF i \in off THEN chart.lines \cup {i} ELSE chart.lines \ {i}
  <2>1. /\ chart \in Pictures /\ chart.lines = Series \ off /\ off \subseteq Series
    BY <1>4 DEF ChartInv, ChartTypeOK, DrawnInOrder, HiddenLinesSurvive
  <2>2. chart' = [chart EXCEPT !.lines = lines]
    BY <1>4 DEF ToggleSeries
  <2>3. lines = Series \ off'
    BY <1>1, <2>1
  <2> HIDE DEF lines
  <2>4. /\ chart' \in Pictures /\ chart'.lines = Series \ off'
        /\ chart'.of = chart.of /\ chart'.full = chart.full
    BY <2>1, <2>2, <2>3 DEF Pictures
  <2> QED BY <1>1, <1>2, <1>4, <2>4 DEF ChartInv, ChartTypeOK, DrawnInOrder, ChartIsOfThePair,
                     HiddenLinesSurvive, DataWasSeen, LitUnlessDefault
<1> QED BY <1>3, <1>4

-----------------------------------------------------------------------------
\* What render() draws of the newest answer.
LEMMA ChartRenderKeepsOrder ==
  ASSUME ChartInv, NEW l \in loads, Newest(l), NEW full \in BOOLEAN, Render(l, full),
         pair' = pair, off' = off
  PROVE  /\ DrawnInOrder'
         /\ chart' \in Pictures /\ chart' # NoChart /\ chart'.of = Controls
         /\ hidden' \in BOOLEAN /\ everHadData' \in BOOLEAN
<1> DEFINE lines == Lines
<1>1. l.of = Controls /\ Controls \in Settings /\ Controls.pair = pair
  BY ControlsAreSettings DEF ChartInv, RequestsInOrder, NewestAsksForControls, Controls
<1>2. lines = Series \ off
  BY DEF Lines, ChartInv, DrawnInOrder, HiddenLinesSurvive
<1>3. /\ chart' = [of |-> l.of, full |-> full, lines |-> lines]
      /\ hidden' = FALSE /\ everHadData' = (everHadData \/ full)
  BY DEF Render
<1> HIDE DEF lines
<1>4. /\ chart' \in Pictures /\ chart'.of = Controls /\ chart'.full = full
      /\ chart'.lines = Series \ off
  BY <1>1, <1>2, <1>3 DEF Pictures
<1>5. chart' # NoChart
  BY <1>4, NoChartAssumption DEF NoChartAssumption
<1>6. DrawnInOrder'
  BY <1>1, <1>3, <1>4 DEF DrawnInOrder, ChartIsOfThePair, HiddenLinesSurvive, DataWasSeen
<1> QED BY <1>3, <1>4, <1>5, <1>6 DEF ChartInv, ChartTypeOK

LEMMA ChartAnswerPreserves ==
  ASSUME ChartInv, NEW l \in loads, NEW full \in BOOLEAN, NEW available \in SUBSET Ranges,
         Answered(l, full, available)
  PROVE  ChartInv'
<1>1. /\ UNCHANGED <<rateType, visible, pair, range, lit, loadSeq, off>>
      /\ loads' = loads \ {l} /\ overlay' = FALSE /\ Newest(l) /\ Render(l, full)
      /\ offered' = IF available = {} THEN offered ELSE available
  BY DEF Answered
<1>2. Controls' = Controls
  BY <1>1 DEF Controls
<1>3. RequestsInOrder' /\ loads' \subseteq Requests /\ overlay' \in BOOLEAN
  BY <1>1, <1>2, ChartEndKeepsOrder DEF ChartInv
<1>4. /\ DrawnInOrder' /\ chart' \in Pictures
      /\ hidden' \in BOOLEAN /\ everHadData' \in BOOLEAN
  BY <1>1, ChartRenderKeepsOrder
<1> QED BY <1>1, <1>3, <1>4 DEF ChartInv, ChartTypeOK, LitUnlessDefault

\* The range falls back: load() inside render().
LEMMA ChartFallBackPreserves ==
  ASSUME ChartInv, NEW l \in loads, NEW full \in BOOLEAN, NEW available \in SUBSET Ranges,
         FallsBack(l, full, available)
  PROVE  ChartInv' /\ Awaited'
<1> DEFINE r == Longest(available)
           c == [Controls EXCEPT !.range = r]
<1>1. /\ UNCHANGED <<rateType, visible, pair, off>>
      /\ range' = r /\ lit' = r /\ offered' = available
      /\ Load(c, loads \ {l}, FALSE) /\ Newest(l) /\ Render(l, full)
  BY DEF FallsBack
<1>2. r \in Ranges
  BY ChartLongestIsOffered DEF FallsBack
<1>3. Controls' = c /\ c \in Settings
  BY <1>1, <1>2, ControlsAreSettings DEF Controls, Settings, ChartInv
<1> HIDE DEF r, c
<1>4. /\ RequestsInOrder' /\ Awaited'
      /\ loads' \subseteq Requests /\ loadSeq' \in Nat /\ overlay' \in BOOLEAN
  BY <1>1, <1>3, ChartLoadKeepsOrder DEF ChartInv
<1>5. /\ DrawnInOrder' /\ chart' \in Pictures
      /\ hidden' \in BOOLEAN /\ everHadData' \in BOOLEAN
  BY <1>1, ChartRenderKeepsOrder
<1> QED BY <1>1, <1>2, <1>4, <1>5 DEF ChartInv, ChartTypeOK, LitUnlessDefault

\* Answers that are dropped, errors and outages.
LEMMA ChartNothingDrawnPreserves ==
  ASSUME ChartInv, NEW l \in loads, Superseded(l) \/ Failed(l) \/ Disabled(l)
  PROVE  ChartInv'
<1>1. /\ UNCHANGED <<rateType, visible, pair, range, lit, offered, loadSeq, chart, everHadData, off>>
      /\ loads' = loads \ {l}
      /\ overlay' = FALSE \/ (overlay' = overlay /\ ~Newest(l))
      /\ hidden' = hidden \/ hidden' = (hidden \/ ~everHadData)
  BY DEF Superseded, Failed, Disabled, Drawn
<1>2. Controls' = Controls
  BY <1>1 DEF Controls
<1>3. RequestsInOrder' /\ loads' \subseteq Requests /\ overlay' \in BOOLEAN
  BY <1>1, <1>2, ChartEndKeepsOrder DEF ChartInv
<1>4. ChartIsOfThePair' /\ HiddenLinesSurvive'
  BY <1>1 DEF ChartInv, DrawnInOrder, ChartIsOfThePair, HiddenLinesSurvive
<1>5. hidden \in BOOLEAN /\ everHadData \in BOOLEAN /\ DataWasSeen
  BY DEF ChartInv, ChartTypeOK, DrawnInOrder
<1>6. hidden' \in BOOLEAN /\ (everHadData /\ ~hidden => ~hidden')
  <2>1. CASE hidden' = hidden
    BY <1>5, <2>1
  <2>2. CASE hidden' = (hidden \/ ~everHadData)
    BY <1>5, <2>2
  <2> QED BY <1>1, <2>1, <2>2
<1>7. DataWasSeen'
  BY <1>1, <1>5, <1>6 DEF DataWasSeen
<1> QED BY <1>1, <1>3, <1>4, <1>6, <1>7 DEF ChartInv, ChartTypeOK, DrawnInOrder, LitUnlessDefault

LEMMA ChartInitInv == ChartInit => ChartInv
<1> SUFFICES ASSUME ChartInit PROVE ChartInv
  OBVIOUS
<1>1. DefaultRange \in Ranges
  BY PriceChartAssumption DEF PriceChartAssumption
<1>2. Controls \in Settings
  BY <1>1 DEF ChartInit, Controls, Settings
<1>3. [seq |-> 1, of |-> Controls] \in Requests
  BY <1>2 DEF Requests
<1>4. ChartTypeOK
  BY <1>1, <1>3 DEF ChartInit, ChartTypeOK
<1>5. RequestsInOrder
  BY DEF ChartInit, RequestsInOrder, NewestAsksForControls, OverlayAwaitsNewest, Newest
<1> QED BY <1>4, <1>5 DEF ChartInit, ChartInv, DrawnInOrder, ChartIsOfThePair, HiddenLinesSurvive,
                          DataWasSeen, LitUnlessDefault

LEMMA ChartStepInv == ChartInv /\ [ChartNext]_chartVars => ChartInv'
<1> SUFFICES ASSUME ChartInv, [ChartNext]_chartVars PROVE ChartInv'
  OBVIOUS
<1>1. CASE UNCHANGED chartVars \/ ChartHidesTab
  <2>1. /\ UNCHANGED <<rateType, pair, range, lit, offered, loads, loadSeq, overlay, chart,
                       hidden, everHadData, off>>
        /\ visible' \in BOOLEAN
    BY <1>1 DEF chartVars, ChartHidesTab, TabHidden, Drawn, ChartInv, ChartTypeOK
  <2>2. RequestsInOrder'
    BY <2>1, ChartIdleKeepsOrder DEF ChartInv, Controls
  <2> QED BY <2>1, <2>2 DEF ChartInv, ChartTypeOK, DrawnInOrder, ChartIsOfThePair, HiddenLinesSurvive,
                            DataWasSeen, LitUnlessDefault
<1>2. ASSUME NEW l \in loads, RequestOver(l) PROVE ChartInv'
  BY <1>2, ChartAnswerPreserves, ChartFallBackPreserves, ChartNothingDrawnPreserves DEF RequestOver
<1>3. CASE ChartNext
  BY <1>1, <1>2, <1>3, ChartAskPreserves, ChartPairPreserves, ChartSeriesPreserves DEF ChartNext, ChartAlone
<1> QED BY <1>1, <1>3

THEOREM ChartInvariant == ChartSpec => []ChartInv
BY ChartInitInv, ChartStepInv, PTL DEF ChartSpec
-----------------------------------------------------------------------------
\* Pair, range, buttons, requests and chart keep their types.
THEOREM ChartTypeCorrect == ChartSpec => []ChartTypeOK
<1>1. ChartInv => ChartTypeOK
  BY DEF ChartInv
<1> QED BY <1>1, ChartInvariant, PTL

\* What the invariant says of the canvas and what stands around it.
LEMMA ChartTrueNow == ChartInv => ChartIsTrue
<1>1. ChartInv => ChartIsOfThePair /\ HiddenLinesSurvive
  BY DEF ChartInv, DrawnInOrder
<1>2. ChartInv => OverlayAwaitsNewest /\ NewestAsksForControls
  BY DEF ChartInv, RequestsInOrder
<1>3. ChartInv => DataIsNeverHidden
  BY DEF ChartInv, DrawnInOrder, DataWasSeen, DataIsNeverHidden
<1>4. ChartInv => LitUnlessDefault
  BY DEF ChartInv
<1> QED BY <1>1, <1>2, <1>3, <1>4 DEF ChartIsTrue

\* Any number of overlapping requests, with or without a spinner, any clicks and
\* outages: pair, overlay, newest request, hidden lines, data and button stay true.
THEOREM ChartStaysTrue == ChartSpec => []ChartIsTrue
BY ChartTrueNow, ChartInvariant, PTL

-----------------------------------------------------------------------------
\* ChartRefinement.
ChartPicture == IF chart = NoChart THEN NoChart ELSE chart.of

\* A request that changes the controls, or asks again for the same.
LEMMA ChartAskRefines ==
  ASSUME ChartInv, ChartInv', Awaited', ChartPicture' \in {ChartPicture, NoChart}
  PROVE  LW!Ask
<1>1. Controls' \in Settings
  BY DEF ChartInv, ChartTypeOK, Controls, Settings
<1> QED BY <1>1 DEF LW!Ask, ChartPicture

\* load() always leaves its request awaited.
LEMMA ChartLoadAwaits ==
  ASSUME ChartInv, NEW c, NEW inFlight, NEW spinner, Load(c, inFlight, spinner)
  PROVE  Awaited'
<1> DEFINE new == [seq |-> loadSeq + 1, of |-> c]
<1>1. new \in loads' /\ new.seq = loadSeq'
  BY DEF Load
<1> QED BY <1>1 DEF Awaited, Newest

LEMMA ChartInitRefines == ChartInit => LW!Init
<1> SUFFICES ASSUME ChartInit PROVE LW!Init
  OBVIOUS
<1>1. Controls \in Settings
  BY ChartInitInv, ControlsAreSettings DEF ChartInv
<1>2. Awaited
  BY DEF ChartInit, Awaited, Newest
<1> QED BY <1>1, <1>2 DEF ChartInit, LW!Init

LEMMA ChartStepRefines == ChartInv /\ ChartInv' /\ [ChartNext]_chartVars => [LW!Next]_LW!latestVars
<1> SUFFICES ASSUME ChartInv, ChartInv', [ChartNext]_chartVars PROVE LW!Next \/ UNCHANGED LW!latestVars
  OBVIOUS
<1>1. CASE \/ ChartTimer \/ ChartTabShown
           \/ \E r \in Rates : ChartRate(r)
           \/ \E r \in Ranges : ClickRange(r)
           \/ \E p \in Pairs : ClickPair(p)
  <2>1. Awaited'
    BY <1>1, ChartLoadAwaits DEF ChartTimer, ChartTabShown, ChartRate, ClickRange, ClickPair
  <2>2. ChartPicture' \in {ChartPicture, NoChart}
    BY <1>1 DEF ChartTimer, ChartTabShown, ChartRate, ClickRange, ClickPair, Drawn, ChartPicture
  <2> QED BY <2>1, <2>2, ChartAskRefines DEF LW!Next
<1>2. ASSUME NEW l \in loads, NEW full \in BOOLEAN, NEW available \in SUBSET Ranges,
             Answered(l, full, available) \/ FallsBack(l, full, available)
      PROVE  LW!Draw
  <2>1. Newest(l) /\ Render(l, full) /\ pair' = pair /\ off' = off
    BY <1>2 DEF Answered, FallsBack
  <2>2. Awaited /\ ChartPicture' = Controls
    BY <2>1, ChartRenderKeepsOrder DEF Awaited, ChartPicture
  <2>3. Controls' \in Settings
    BY DEF ChartInv, ChartTypeOK, Controls, Settings
  <2>4. ~Awaited' => Controls' = Controls
    BY <1>2, ChartFallBackPreserves DEF Answered, Controls
  <2> QED BY <2>2, <2>3, <2>4 DEF LW!Draw, ChartPicture, Awaited
<1>3. ASSUME NEW l \in loads, Failed(l) \/ Disabled(l)
      PROVE  LW!GiveUp
  <2>1. /\ Newest(l) /\ loads' = loads \ {l}
        /\ UNCHANGED <<loadSeq, chart, pair, range, rateType>>
    BY <1>3 DEF Failed, Disabled, Drawn
  <2>2. Awaited /\ ~Awaited'
    BY <2>1 DEF Awaited, Newest, ChartInv, RequestsInOrder, NewestAsksForControls
  <2> QED BY <2>1, <2>2 DEF LW!GiveUp, Controls
<1>4. ASSUME NEW l \in loads, Superseded(l)
      PROVE  UNCHANGED LW!latestVars
  <2>1. /\ ~Newest(l) /\ loads' = loads \ {l}
        /\ UNCHANGED <<loadSeq, chart, pair, range, rateType>>
    BY <1>4 DEF Superseded, Drawn
  <2>2. Awaited' = Awaited
    BY <2>1 DEF Awaited, Newest
  <2> QED BY <2>1, <2>2 DEF LW!latestVars, Controls
<1>5. ASSUME NEW i \in Series, ToggleSeries(i)
      PROVE  UNCHANGED LW!latestVars
  <2>1. UNCHANGED <<rateType, pair, range, loads, loadSeq>>
    BY <1>5 DEF ToggleSeries
  <2>2. ChartPicture' = ChartPicture
    <3>1. CASE chart = NoChart
      BY <1>5, <3>1 DEF ToggleSeries, ChartPicture
    <3>2. CASE chart # NoChart
      <4>1. chart \in Pictures /\ chart' \in Pictures \cup {NoChart}
        BY <3>2 DEF ChartInv, ChartTypeOK
      <4>2. chart' # NoChart /\ chart'.of = chart.of
        BY <1>5, <3>2, <4>1, NoChartAssumption DEF ToggleSeries, Pictures, NoChartAssumption
      <4> QED BY <3>2, <4>2 DEF ChartPicture
    <3> QED BY <3>1, <3>2
  <2> QED BY <2>1, <2>2 DEF LW!latestVars, Controls, ChartPicture, Awaited, Newest
<1>6. CASE ChartHidesTab \/ UNCHANGED chartVars
  BY <1>6 DEF ChartHidesTab, TabHidden, Drawn, chartVars, LW!latestVars, Controls, Awaited, Newest
<1>7. ASSUME NEW l \in loads, RequestOver(l)
      PROVE  LW!Next \/ UNCHANGED LW!latestVars
  BY <1>2, <1>3, <1>4, <1>7 DEF RequestOver, LW!Next
<1> QED BY <1>1, <1>5, <1>6, <1>7 DEF ChartNext, ChartAlone

\* The sequence number makes pricechart.js a latest-wins chart, for any overlap of
\* any number of requests and any answers.
THEOREM ChartRefinement == ChartSpec => ChartImplementsLatestWins
BY ChartInvariant, ChartInitRefines, ChartStepRefines, PTL
   DEF ChartSpec, ChartImplementsLatestWins, LW!Spec

(***************************************************************************)
(* feechart.js.                                                            *)
(***************************************************************************)
FeeInv == FeeTypeOK /\ NoticeMatchesLine /\ FeeLitIsAsked

\* The longest range offered is one of those offered.
LEMMA FeeLongestIsOffered ==
  ASSUME NEW S \in SUBSET FeeRanges, S # {}
  PROVE  LongestFee(S) \in S
<1>1. \E r \in S : \A s \in S : s <= r
  BY FeeChartAssumption DEF FeeChartAssumption
<1> QED BY <1>1 DEF LongestFee

\* load(): the button and the request follow the range together.
LEMMA FeeLoadKeeps ==
  ASSUME FeeInv, NEW r \in FeeRanges, NEW inFlight \in SUBSET feeLoads, NEW spinner \in BOOLEAN,
         FeeLoad(r, inFlight, spinner), feeRange' = r, feeLit' = r
  PROVE  /\ FeeLitIsAsked' /\ FeeAwaited'
         /\ feeLoads' \subseteq FeeRequests /\ feeSeq' \in Nat /\ feeOverlay' \in BOOLEAN
<1> DEFINE new == [seq |-> feeSeq + 1, of |-> r]
<1>1. /\ feeSeq \in Nat /\ feeSeq' = feeSeq + 1
      /\ feeLoads' = inFlight \cup {new} /\ feeOverlay' = (feeOverlay \/ spinner)
  BY DEF FeeInv, FeeTypeOK, FeeLoad
<1>2. new \in FeeRequests /\ new.seq = feeSeq + 1 /\ new.of = r
  BY <1>1 DEF FeeRequests
<1>3. \A l \in inFlight : l \in FeeRequests /\ l.seq \in Nat /\ l.seq <= feeSeq
  BY DEF FeeInv, FeeTypeOK, FeeLitIsAsked, FeeRequests
<1> HIDE DEF new
<1>4. feeLoads' \subseteq FeeRequests /\ feeSeq' \in Nat /\ feeOverlay' \in BOOLEAN
  BY <1>1, <1>2, <1>3 DEF FeeInv, FeeTypeOK
<1>5. FeeAwaited'
  BY <1>1, <1>2 DEF FeeAwaited, NewestFee
<1>6. \A l \in feeLoads' : l.seq <= feeSeq' /\ (l.seq = feeSeq' => l = new)
  BY <1>1, <1>2, <1>3
<1> QED BY <1>2, <1>4, <1>5, <1>6 DEF FeeLitIsAsked, NewestFee

\* The end of a request that moves nothing.
LEMMA FeeEndKeeps ==
  ASSUME FeeInv, NEW l \in feeLoads, feeLoads' = feeLoads \ {l},
         UNCHANGED <<feeSeq, feeRange, feeLit>>
  PROVE  FeeLitIsAsked' /\ feeLoads' \subseteq FeeRequests
BY DEF FeeInv, FeeTypeOK, FeeLitIsAsked, NewestFee

-----------------------------------------------------------------------------
\* The timer, the tab and the range buttons.
LEMMA FeeAskPreserves ==
  ASSUME FeeInv, FeeTimer \/ FeeTabShown \/ \E r \in FeeRanges : ClickFeeRange(r)
  PROVE  FeeInv' /\ FeeAwaited'
<1>1. \E r \in FeeRanges, spinner \in BOOLEAN :
        FeeLoad(r, feeLoads, spinner) /\ feeRange' = r /\ feeLit' = r
  BY DEF FeeTimer, FeeTabShown, ClickFeeRange, FeeInv, FeeTypeOK, FeeLitIsAsked
<1>2. /\ FeeLitIsAsked' /\ FeeAwaited' /\ feeRange' \in FeeRanges /\ feeLit' \in FeeRanges
      /\ feeLoads' \subseteq FeeRequests /\ feeSeq' \in Nat /\ feeOverlay' \in BOOLEAN
  BY <1>1, FeeLoadKeeps
<1>3. UNCHANGED <<feeOffered, feeChart, feeNotice, feeHidden, feeHadData>> /\ visible' \in BOOLEAN
  BY DEF FeeTimer, FeeTabShown, TabShown, ClickFeeRange, FeeDrawn, FeeInv, FeeTypeOK
<1> QED BY <1>2, <1>3 DEF FeeInv, FeeTypeOK, NoticeMatchesLine

\* render(): the notice and the canvas are set from one answer.
LEMMA FeeRenderKeeps ==
  ASSUME FeeInv, NEW l \in feeLoads, NEW points \in Points, RenderFee(l, points)
  PROVE  /\ NoticeMatchesLine' /\ feeChart' \in FeePictures /\ feeChart' # NoFeeChart
         /\ feeChart'.of = l.of /\ feeNotice' \in Points
         /\ feeHidden' \in BOOLEAN /\ feeHadData' \in BOOLEAN
<1>1. l.of \in FeeRanges
  BY DEF FeeInv, FeeTypeOK, FeeRequests
<1>2. /\ feeChart' = [of |-> l.of, points |-> points] /\ feeNotice' = points
      /\ feeHidden' = FALSE /\ feeHadData' = (feeHadData \/ points = 2)
  BY DEF RenderFee
<1>3. feeChart' \in FeePictures /\ feeChart'.of = l.of /\ feeChart'.points = points
  BY <1>1, <1>2 DEF FeePictures
<1>4. feeChart' # NoFeeChart
  BY <1>3, NoFeeChartAssumption DEF NoFeeChartAssumption
<1>5. feeHidden' \in BOOLEAN /\ feeHadData' \in BOOLEAN
  BY <1>2 DEF FeeInv, FeeTypeOK
<1> QED BY <1>2, <1>3, <1>4, <1>5 DEF NoticeMatchesLine

LEMMA FeeAnswerPreserves ==
  ASSUME FeeInv, NEW l \in feeLoads, NEW points \in Points, NEW available \in SUBSET FeeRanges,
         FeeAnswered(l, points, available)
  PROVE  FeeInv'
<1>1. /\ UNCHANGED <<visible, feeRange, feeLit, feeSeq>> /\ RenderFee(l, points)
      /\ feeLoads' = feeLoads \ {l} /\ feeOverlay' = FALSE
      /\ feeOffered' = IF available = {} THEN feeOffered ELSE available
  BY DEF FeeAnswered
<1>2. FeeLitIsAsked' /\ feeLoads' \subseteq FeeRequests
  BY <1>1, FeeEndKeeps
<1>3. /\ NoticeMatchesLine' /\ feeChart' \in FeePictures /\ feeNotice' \in Points
      /\ feeHidden' \in BOOLEAN /\ feeHadData' \in BOOLEAN
  BY <1>1, FeeRenderKeeps
<1> QED BY <1>1, <1>2, <1>3 DEF FeeInv, FeeTypeOK

\* The range falls back: load() inside render().
LEMMA FeeFallBackPreserves ==
  ASSUME FeeInv, NEW l \in feeLoads, NEW points \in Points, NEW available \in SUBSET FeeRanges,
         FeeFallsBack(l, points, available)
  PROVE  FeeInv' /\ FeeAwaited'
<1> DEFINE r == LongestFee(available)
<1>1. /\ UNCHANGED visible /\ RenderFee(l, points) /\ feeOffered' = available
      /\ feeRange' = r /\ feeLit' = r /\ FeeLoad(r, feeLoads \ {l}, FALSE)
  BY DEF FeeFallsBack
<1>2. r \in FeeRanges
  BY FeeLongestIsOffered DEF FeeFallsBack
<1> HIDE DEF r
<1>3. /\ FeeLitIsAsked' /\ FeeAwaited'
      /\ feeLoads' \subseteq FeeRequests /\ feeSeq' \in Nat /\ feeOverlay' \in BOOLEAN
  BY <1>1, <1>2, FeeLoadKeeps
<1>4. /\ NoticeMatchesLine' /\ feeChart' \in FeePictures /\ feeNotice' \in Points
      /\ feeHidden' \in BOOLEAN /\ feeHadData' \in BOOLEAN
  BY <1>1, FeeRenderKeeps
<1> QED BY <1>1, <1>2, <1>3, <1>4 DEF FeeInv, FeeTypeOK

\* Answers that are dropped, errors and outages.
LEMMA FeeNothingDrawnPreserves ==
  ASSUME FeeInv, NEW l \in feeLoads, FeeSuperseded(l) \/ FeeFailed(l) \/ FeeDisabled(l)
  PROVE  FeeInv'
<1>1. /\ UNCHANGED <<visible, feeRange, feeLit, feeOffered, feeSeq, feeChart, feeNotice, feeHadData>>
      /\ feeLoads' = feeLoads \ {l} /\ feeOverlay' \in BOOLEAN /\ feeHidden' \in BOOLEAN
  BY DEF FeeSuperseded, FeeFailed, FeeDisabled, FeeDrawn, FeeInv, FeeTypeOK
<1>2. FeeLitIsAsked' /\ feeLoads' \subseteq FeeRequests
  BY <1>1, FeeEndKeeps
<1> QED BY <1>1, <1>2 DEF FeeInv, FeeTypeOK, NoticeMatchesLine

LEMMA FeeInitInv == FeeInit => FeeInv
<1> SUFFICES ASSUME FeeInit PROVE FeeInv
  OBVIOUS
<1>1. FeeDefault \in FeeRanges /\ 2 \in Points
  BY FeeChartAssumption DEF FeeChartAssumption, Points
<1>2. [seq |-> 1, of |-> FeeDefault] \in FeeRequests
  BY <1>1 DEF FeeRequests
<1>3. FeeTypeOK
  BY <1>1, <1>2 DEF FeeInit, FeeTypeOK
<1> QED BY <1>3 DEF FeeInit, FeeInv, NoticeMatchesLine, FeeLitIsAsked, NewestFee

LEMMA FeeStepInv == FeeInv /\ [FeeNext]_feeVars => FeeInv'
<1> SUFFICES ASSUME FeeInv, [FeeNext]_feeVars PROVE FeeInv'
  OBVIOUS
<1>1. CASE UNCHANGED feeVars \/ FeeTabHidden
  BY <1>1 DEF feeVars, FeeTabHidden, TabHidden, FeeDrawn, FeeInv, FeeTypeOK, NoticeMatchesLine,
              FeeLitIsAsked, NewestFee
<1>2. ASSUME NEW l \in feeLoads, FeeRequestOver(l) PROVE FeeInv'
  BY <1>2, FeeAnswerPreserves, FeeFallBackPreserves, FeeNothingDrawnPreserves DEF FeeRequestOver
<1> QED BY <1>1, <1>2, FeeAskPreserves DEF FeeNext, FeeAlone

THEOREM FeeInvariant == FeeSpec => []FeeInv
BY FeeInitInv, FeeStepInv, PTL DEF FeeSpec

-----------------------------------------------------------------------------
\* Range, buttons, requests, chart and notice keep their types.
THEOREM FeeTypeCorrect == FeeSpec => []FeeTypeOK
<1>1. FeeInv => FeeTypeOK
  BY DEF FeeInv
<1> QED BY <1>1, FeeInvariant, PTL

\* Nobody sees a fee line under "still collecting", nor an empty chart without it,
\* nor a button that is not the range asked for.
THEOREM FeeChartStaysTrue == FeeSpec => []FeeChartIsTrue
<1>1. FeeInv => FeeChartIsTrue
  BY DEF FeeInv, FeeChartIsTrue
<1> QED BY <1>1, FeeInvariant, PTL

-----------------------------------------------------------------------------
\* FeeRefinement.
FeePicture == IF feeChart = NoFeeChart THEN NoFeeChart ELSE feeChart.of

LEMMA FeeInitRefines == FeeInit => FW!Init
BY FeeChartAssumption DEF FeeInit, FW!Init, FeeAwaited, NewestFee, FeeChartAssumption

LEMMA FeeStepRefines == FeeInv /\ FeeInv' /\ [FeeNext]_feeVars => [FW!Next]_FW!latestVars
<1> SUFFICES ASSUME FeeInv, FeeInv', [FeeNext]_feeVars PROVE FW!Next \/ UNCHANGED FW!latestVars
  OBVIOUS
<1>1. feeRange \in FeeRanges /\ feeRange' \in FeeRanges
  BY DEF FeeInv, FeeTypeOK
<1>2. CASE FeeTimer \/ FeeTabShown \/ \E r \in FeeRanges : ClickFeeRange(r)
  <2>1. FeeAwaited' /\ FeePicture' = FeePicture
    BY <1>2, FeeAskPreserves DEF FeeTimer, FeeTabShown, ClickFeeRange, FeeDrawn, FeePicture
  <2> QED BY <1>1, <2>1 DEF FW!Next, FW!Ask, FeePicture
<1>3. ASSUME NEW l \in feeLoads, NEW points \in Points, NEW available \in SUBSET FeeRanges,
             FeeAnswered(l, points, available) \/ FeeFallsBack(l, points, available)
      PROVE  FW!Draw
  <2>1. NewestFee(l) /\ RenderFee(l, points)
    BY <1>3 DEF FeeAnswered, FeeFallsBack
  <2>2. FeeAwaited /\ l.of = feeRange
    BY <2>1 DEF FeeAwaited, FeeInv, FeeLitIsAsked
  <2>3. FeePicture' = feeRange
    BY <2>1, <2>2, FeeRenderKeeps DEF FeePicture
  <2>4. ~FeeAwaited' => feeRange' = feeRange
    BY <1>3, FeeFallBackPreserves DEF FeeAnswered
  <2> QED BY <1>1, <2>2, <2>3, <2>4 DEF FW!Draw, FeePicture, FeeAwaited
<1>4. ASSUME NEW l \in feeLoads, FeeFailed(l) \/ FeeDisabled(l)
      PROVE  FW!GiveUp
  <2>1. /\ NewestFee(l) /\ feeLoads' = feeLoads \ {l}
        /\ UNCHANGED <<feeSeq, feeChart, feeRange>>
    BY <1>4 DEF FeeFailed, FeeDisabled, FeeDrawn
  <2>2. ASSUME NEW m \in feeLoads, NewestFee(m) PROVE m = l
    <3>1. m \in FeeRequests /\ l \in FeeRequests /\ m.of = l.of /\ m.seq = l.seq
      BY <2>1, <2>2 DEF FeeInv, FeeTypeOK, FeeLitIsAsked, NewestFee
    <3> QED BY <3>1 DEF FeeRequests
  <2>3. FeeAwaited /\ ~FeeAwaited'
    BY <2>1, <2>2 DEF FeeAwaited, NewestFee
  <2> QED BY <2>1, <2>3 DEF FW!GiveUp
<1>5. ASSUME NEW l \in feeLoads, FeeSuperseded(l)
      PROVE  UNCHANGED FW!latestVars
  <2>1. /\ ~NewestFee(l) /\ feeLoads' = feeLoads \ {l}
        /\ UNCHANGED <<feeSeq, feeChart, feeRange>>
    BY <1>5 DEF FeeSuperseded, FeeDrawn
  <2>2. FeeAwaited' = FeeAwaited
    BY <2>1 DEF FeeAwaited, NewestFee
  <2> QED BY <2>1, <2>2 DEF FW!latestVars
<1>6. CASE FeeTabHidden \/ UNCHANGED feeVars
  BY <1>6 DEF FeeTabHidden, TabHidden, FeeDrawn, feeVars, FW!latestVars, FeeAwaited, NewestFee
<1>7. ASSUME NEW l \in feeLoads, FeeRequestOver(l)
      PROVE  FW!Next \/ UNCHANGED FW!latestVars
  BY <1>3, <1>4, <1>5, <1>7 DEF FeeRequestOver, FW!Next
<1> QED BY <1>2, <1>6, <1>7 DEF FeeNext, FeeAlone

\* feechart.js is a latest-wins chart for any ranges, answers and overlaps.
THEOREM FeeRefinement == FeeSpec => FeeImplementsLatestWins
BY FeeInvariant, FeeInitRefines, FeeStepRefines, PTL
   DEF FeeSpec, FeeImplementsLatestWins, FW!Spec

(***************************************************************************)
(* exchangepage.js.                                                        *)
(***************************************************************************)
\* What is stored for a rate type is a quote of that rate type.
StoreIsByRate == \A c \in Cards, r \in Rates : last[c][r] # NoQuote => last[c][r].rate = r

CardsInv ==
  /\ CardsTypeOK
  /\ StoreIsByRate /\ CellsShowTheStore
  /\ FlashIsTimed /\ SponsorNotAffiliate

CardsDisplay == <<rateType, currentRate, last, shown, flash, flashTimer>>

\* A step that leaves the cells, their colours and the store alone.
LEMMA CardsDisplayKeeps ==
  ASSUME CardsInv, UNCHANGED CardsDisplay
  PROVE  /\ currentRate' \in Rates /\ rateType' \in Rates
         /\ last' \in [Cards -> [Rates -> Quotes \cup {NoQuote}]]
         /\ shown' \in [Cards -> Quotes \cup {NoQuote}]
         /\ flash' \in [Cards -> SUBSET Classes]
         /\ flashTimer' \in [Cards -> Classes \cup {"none"}]
         /\ StoreIsByRate' /\ CellsShowTheStore' /\ FlashIsTimed'
BY DEF CardsInv, CardsDisplay, CardsTypeOK, StoreIsByRate, CellsShowTheStore, FlashIsTimed

\* A move flashes with one of the two classes, or not at all.
LEMMA CardsMoveIsClass ==
  ASSUME NEW old, NEW new
  PROVE  Move(old, new) \in Classes \cup {"none"}
BY DEF Move, Classes

-----------------------------------------------------------------------------
LEMMA CardsInitInv == CardsInit => CardsInv
<1> SUFFICES ASSUME CardsInit PROVE CardsInv
  OBVIOUS
<1>1. CardsTypeOK
  <2>1. rateType \in Rates /\ last \in [Cards -> [Rates -> Quotes \cup {NoQuote}]]
    BY DEF CardsInit
  <2>2. shown \in [Cards -> Quotes \cup {NoQuote}]
    BY <2>1 DEF CardsInit
  <2>3. polls \in [Cards -> 0..MaxPolls]
    BY ExchangeCardsAssumption DEF ExchangeCardsAssumption, CardsInit
  <2>4. flash \in [Cards -> SUBSET Classes] /\ flashTimer \in [Cards -> Classes \cup {"none"}]
    BY DEF CardsInit
  <2> QED BY <2>1, <2>2, <2>3, <2>4 DEF CardsInit, CardsTypeOK
<1>2. StoreIsByRate /\ CellsShowTheStore
  BY DEF CardsInit, StoreIsByRate, CellsShowTheStore
<1>3. FlashIsTimed
  BY DEF CardsInit, FlashIsTimed
<1> QED BY <1>1, <1>2, <1>3 DEF CardsInit, CardsInv, SponsorNotAffiliate

\* The timer and the tab: one more request for each card.
LEMMA CardsPollsPreserve ==
  ASSUME CardsInv, CardsTimer \/ CardsTabShown \/ CardsTabHidden
  PROVE  CardsInv'
<1>1. UNCHANGED CardsDisplay /\ UNCHANGED Sponsorship
  BY DEF CardsTimer, CardsTabShown, CardsTabHidden, TabShown, TabHidden, CardsDisplay
<1>2. visible' \in BOOLEAN
  BY DEF CardsTimer, CardsTabShown, CardsTabHidden, TabShown, TabHidden, CardsInv, CardsTypeOK
<1>3. polls' \in [Cards -> 0..MaxPolls]
  BY ExchangeCardsAssumption
     DEF ExchangeCardsAssumption, CardsTimer, CardsTabShown, CardsTabHidden, TickAll, CardsInv, CardsTypeOK
<1> QED BY <1>1, <1>2, <1>3, CardsDisplayKeeps DEF CardsDisplay, Sponsorship, CardsInv, CardsTypeOK, SponsorNotAffiliate

\* One card's request ends without a row.
LEMMA CardsUnansweredPreserves ==
  ASSUME CardsInv, NEW c \in Cards, CardUnanswered(c)
  PROVE  CardsInv'
<1>1. UNCHANGED CardsDisplay /\ UNCHANGED Sponsorship /\ UNCHANGED visible
  BY DEF CardUnanswered, CardsDisplay
<1>2. polls' \in [Cards -> 0..MaxPolls]
  BY ExchangeCardsAssumption DEF ExchangeCardsAssumption, CardUnanswered, CardsInv, CardsTypeOK
<1> QED BY <1>1, <1>2, CardsDisplayKeeps DEF CardsDisplay, Sponsorship, CardsInv, CardsTypeOK, SponsorNotAffiliate

\* One card's answer: the store takes each row under its own rate type, the cell
\* is drawn from the store, and a running flash gives way to the new one.
LEMMA CardsAnswerPreserves ==
  ASSUME CardsInv, NEW c \in Cards, NEW rows \in OwnRows, CardAnswered(c, rows)
  PROVE  CardsInv'
<1> DEFINE move == Move(shown[c], shown'[c])
           kept == [r \in Rates |-> IF r \in DOMAIN rows THEN rows[r] ELSE last[c][r]]
<1>1. /\ \A r \in Rates : kept[r] \in Quotes \cup {NoQuote}
      /\ \A r \in Rates : kept[r] # NoQuote => kept[r].rate = r
  BY DEF OwnRows, CardsInv, CardsTypeOK, StoreIsByRate
<1>2. last' = [last EXCEPT ![c] = kept]
  BY DEF CardAnswered, Stored, CardsInv, CardsTypeOK
<1>3. /\ last' \in [Cards -> [Rates -> Quotes \cup {NoQuote}]]
      /\ StoreIsByRate'
  BY <1>1, <1>2 DEF CardsInv, CardsTypeOK, StoreIsByRate
<1>4. /\ currentRate' = currentRate /\ currentRate \in Rates /\ rateType' = rateType
      /\ shown' = [shown EXCEPT ![c] = last'[c][currentRate]]
  BY DEF CardAnswered, CardsInv, CardsTypeOK
<1>5. shown' \in [Cards -> Quotes \cup {NoQuote}] /\ CellsShowTheStore'
  BY <1>2, <1>3, <1>4 DEF CardsInv, CardsTypeOK, CellsShowTheStore
<1>6. /\ flash' \in [Cards -> SUBSET Classes]
      /\ flashTimer' \in [Cards -> Classes \cup {"none"}]
      /\ FlashIsTimed'
  <2>1. CASE move = "none"
    BY <2>1 DEF CardAnswered, CardsInv, CardsTypeOK, FlashIsTimed
  <2>2. CASE move # "none"
    <3>1. move \in Classes /\ Flashed(c, move)
      BY <2>2, CardsMoveIsClass DEF CardAnswered
    <3> HIDE DEF move
    <3>2. /\ flash' = [flash EXCEPT ![c] = {move}]
          /\ flashTimer' = [flashTimer EXCEPT ![c] = move]
          /\ move \in Classes
          /\ \A d \in Cards : flash[d] = {flashTimer[d]} \ {"none"}
      BY <3>1 DEF Flashed, CardsInv, FlashIsTimed
    <3>3. /\ flash' \in [Cards -> SUBSET Classes]
          /\ flashTimer' \in [Cards -> Classes \cup {"none"}]
      BY <3>2 DEF CardsInv, CardsTypeOK
    <3>4. \A d \in Cards : flash'[d] = {flashTimer'[d]} \ {"none"}
      BY <2>2, <3>2 DEF CardsInv, CardsTypeOK
    <3> QED BY <3>3, <3>4 DEF FlashIsTimed
  <2> QED BY <2>1, <2>2
<1>7. polls' \in [Cards -> 0..MaxPolls]
  BY ExchangeCardsAssumption DEF ExchangeCardsAssumption, CardAnswered, CardsInv, CardsTypeOK
<1>8. UNCHANGED <<visible, checking, badge, outLink>>
  BY DEF CardAnswered, Sponsorship
<1> QED BY <1>3, <1>4, <1>5, <1>6, <1>7, <1>8 DEF CardsInv, CardsTypeOK, SponsorNotAffiliate

\* The timer of a flash takes away the one class it was started for.
LEMMA CardsFlashOverPreserves ==
  ASSUME CardsInv, NEW c \in Cards, FlashOver(c)
  PROVE  CardsInv'
<1>1. /\ flash' = [flash EXCEPT ![c] = @ \ {flashTimer[c]}]
      /\ flashTimer' = [flashTimer EXCEPT ![c] = "none"]
      /\ UNCHANGED <<rateType, visible, currentRate, last, shown, polls, checking, badge, outLink>>
  BY DEF FlashOver, Sponsorship
<1>2. /\ flash' \in [Cards -> SUBSET Classes]
      /\ flashTimer' \in [Cards -> Classes \cup {"none"}]
  BY <1>1 DEF CardsInv, CardsTypeOK
<1>3. \A d \in Cards : flash'[d] = {flashTimer'[d]} \ {"none"}
  BY <1>1 DEF CardsInv, CardsTypeOK, FlashIsTimed
<1> QED BY <1>1, <1>2, <1>3
        DEF CardsInv, CardsTypeOK, StoreIsByRate, CellsShowTheStore, FlashIsTimed, SponsorNotAffiliate

\* The rate selector draws every cell from the store.
LEMMA CardsPickPreserves ==
  ASSUME CardsInv, NEW r \in Rates, PickRate(r)
  PROVE  CardsInv'
<1>1. /\ currentRate' = r /\ rateType' = r
      /\ shown' = [c \in Cards |-> last[c][r]]
      /\ UNCHANGED <<visible, last, flash, flashTimer, polls, checking, badge, outLink>>
  BY DEF PickRate, Sponsorship
<1>2. shown' \in [Cards -> Quotes \cup {NoQuote}] /\ CellsShowTheStore'
  BY <1>1 DEF CardsInv, CardsTypeOK, CellsShowTheStore
<1> QED BY <1>1, <1>2 DEF CardsInv, CardsTypeOK, StoreIsByRate, FlashIsTimed, SponsorNotAffiliate

\* checkSponsor: the badge comes with the sponsor's link, or with none.
LEMMA CardsSponsorPreserves ==
  ASSUME CardsInv, NoSponsor \/ \E link \in BOOLEAN : SponsorFound(link)
  PROVE  CardsInv'
<1>1. UNCHANGED CardsDisplay /\ UNCHANGED <<visible, polls>> /\ checking' = FALSE
  BY DEF NoSponsor, SponsorFound, CardsDisplay
<1>2. SponsorNotAffiliate' /\ badge' \in BOOLEAN /\ outLink' \in {"affiliate", "sponsor", "removed"}
  <2>1. CASE NoSponsor
    BY <2>1 DEF NoSponsor, CardsInv, CardsTypeOK, SponsorNotAffiliate
  <2>2. ASSUME NEW link \in BOOLEAN, SponsorFound(link)
        PROVE  badge' = TRUE /\ outLink' \in {"sponsor", "removed"}
    BY <2>2 DEF SponsorFound
  <2> QED BY <2>1, <2>2 DEF SponsorNotAffiliate
<1>3. visible' \in BOOLEAN /\ polls' \in [Cards -> 0..MaxPolls] /\ currentRate' \in Rates
  BY <1>1 DEF CardsDisplay, CardsInv, CardsTypeOK
<1>4. checking' \in BOOLEAN
  BY <1>1
<1> QED BY <1>1, <1>2, <1>3, <1>4, CardsDisplayKeeps DEF CardsInv, CardsTypeOK

LEMMA CardsNextInv == CardsInv /\ [CardsNext]_cardVars => CardsInv'
<1> SUFFICES ASSUME CardsInv, [CardsNext]_cardVars PROVE CardsInv'
  OBVIOUS
<1>1. CASE CardsTimer \/ CardsTabShown \/ CardsTabHidden
  BY <1>1, CardsPollsPreserve
<1>2. CASE NoSponsor \/ \E link \in BOOLEAN : SponsorFound(link)
  BY <1>2, CardsSponsorPreserves
<1>3. CASE \E c \in Cards : (\E rows \in OwnRows : CardAnswered(c, rows)) \/ CardUnanswered(c) \/ FlashOver(c)
  BY <1>3, CardsAnswerPreserves, CardsUnansweredPreserves, CardsFlashOverPreserves
<1>4. CASE \E r \in Rates : PickRate(r)
  BY <1>4, CardsPickPreserves
<1>5. CASE UNCHANGED cardVars
  BY <1>5 DEF cardVars, CardsInv, CardsTypeOK, StoreIsByRate, CellsShowTheStore, FlashIsTimed, SponsorNotAffiliate
<1> QED BY <1>1, <1>2, <1>3, <1>4, <1>5 DEF CardsNext, CardsAlone

THEOREM CardsInvariant == CardsSpec => []CardsInv
BY CardsInitInv, CardsNextInv, PTL DEF CardsSpec

-----------------------------------------------------------------------------
\* Everything exchangepage.js keeps has its type.
THEOREM CardsTypeCorrect == CardsSpec => []CardsTypeOK
<1>1. CardsInv => CardsTypeOK
  BY DEF CardsInv
<1> QED BY <1>1, CardsInvariant, PTL

\* A cell shows what is stored for the rate, which is a quote of that rate.
LEMMA CardsTrueNow == CardsInv => CardsAreTrue
<1>1. CardsInv => CellsShowTheRate
  BY DEF CardsInv, CardsTypeOK, StoreIsByRate, CellsShowTheStore, CellsShowTheRate
<1> QED BY <1>1 DEF CardsInv, CardsAreTrue

\* Cells, flashes and the outbound link are true for any cards, prices and polls.
THEOREM CardsStayTrue == CardsSpec => []CardsAreTrue
BY CardsTrueNow, CardsInvariant, PTL

(***************************************************************************)
(* moneropricenow.js, the converter and the invoice builder.               *)
(***************************************************************************)
ConvInv == ConvTypeOK /\ AmountsAgree

\* A rounded quotient is a natural number, and not zero once a is worth a whole unit of b.
LEMMA RoundedIsNat ==
  ASSUME NEW a \in Nat, NEW b \in Nat \ {0}
  PROVE  /\ Rounded(a, b) \in Nat
         /\ a >= b => Rounded(a, b) > 0
<1> DEFINE q == (2 * a + b) \div (2 * b)
           r == (2 * a + b) % (2 * b)
<1>1. /\ q \in Int /\ r \in 0..(2 * b - 1)
      /\ 2 * a + b = (2 * b) * q + r
  OBVIOUS
<1>2. q >= 0
  <2>1. SUFFICES ASSUME q < 0 PROVE FALSE
    BY <1>1
  <2>2. (2 * b) * q <= (2 * b) * (-1)
    BY <1>1, <2>1
  <2> HIDE DEF q, r
  <2> QED BY <1>1, <2>2
<1>3. ASSUME a >= b PROVE q > 0
  <2>1. SUFFICES ASSUME q = 0 PROVE FALSE
    BY <1>1, <1>2
  <2>2. (2 * b) * q = 0
    BY <1>1, <2>1
  <2> HIDE DEF q, r
  <2> QED BY <1>1, <1>3, <2>2
<1> QED BY <1>1, <1>2, <1>3 DEF Rounded

\* What is typed stays an amount once digits too many are cut off.
LEMMA ClampIsAmount ==
  ASSUME NEW v \in Typed
  PROVE  ClampPiconero(v) \in Nat /\ ClampQuote(v) \in Nat
<1>1. v \in Nat /\ QuoteMax \in Nat
  BY ConverterAssumption DEF ConverterAssumption
<1> QED BY <1>1 DEF ClampPiconero, ClampQuote

\* The quote of an amount of XMR, and the XMR of an amount of the quote, is an
\* amount; XMR is never nothing for something.
LEMMA RecalcIsAmount ==
  ASSUME NEW n \in Nat, NEW p \in MarketPrices
  PROVE  /\ Rounded(n * Scale, p) \in Nat /\ Rounded(n * p, Scale) \in Nat
         /\ n > 0 => Rounded(n * Scale, p) > 0
<1>1. Scale \in Nat \ {0} /\ p \in Nat \ {0} /\ p <= Scale
  BY ConverterAssumption DEF ConverterAssumption
<1>2. n * Scale \in Nat /\ n * p \in Nat
  BY <1>1
<1>3. n > 0 => n * Scale >= p
  BY <1>1
<1> QED BY <1>1, <1>2, <1>3, RoundedIsNat

LEMMA ConvInitInv == ConvInit => ConvInv
<1> SUFFICES ASSUME ConvInit PROVE ConvInv
  OBVIOUS
<1>1. /\ quote \in MarketPrices \cup {NoMarket} /\ Scale \in Nat
      /\ quote \in MarketPrices => quote \in Nat \ {0} /\ Scale > 0
  BY ConverterAssumption DEF ConverterAssumption, ConvInit
<1>2. quote # NoMarket => Rounded(0 * Scale, quote) = 0
  <2> SUFFICES ASSUME quote # NoMarket PROVE Rounded(0 * Scale, quote) = 0
    OBVIOUS
  <2>1. 0 * Scale = 0 /\ quote \in Nat \ {0}
    BY <1>1
  <2>2. (2 * 0 + quote) \div (2 * quote) = 0
    <3> DEFINE q == quote \div (2 * quote)
               r == quote % (2 * quote)
    <3>1. q \in Int /\ r \in 0..(2 * quote - 1) /\ quote = (2 * quote) * q + r
      BY <2>1
    <3>2. q < 1
      <4>1. q >= 1 => (2 * quote) * q >= 2 * quote
        BY <2>1, <3>1
      <4> HIDE DEF q, r
      <4> QED BY <2>1, <3>1, <4>1
    <3>3. q > -1
      <4>1. q <= -1 => (2 * quote) * q <= -(2 * quote)
        BY <2>1, <3>1
      <4> HIDE DEF q, r
      <4> QED BY <2>1, <3>1, <4>1
    <3>4. q = 0
      <4> HIDE DEF q
      <4> QED BY <3>1, <3>2, <3>3
    <3> QED BY <2>1, <3>4
  <2> QED BY <2>1, <2>2 DEF Rounded
<1> QED BY <1>1, <1>2 DEF ConvInit, ConvInv, ConvTypeOK, AmountsAgree, FieldsAgree, BuilderHasAmount

\* The fields after recalc: both are amounts, and they agree.
LEMMA RecalcAgrees ==
  ASSUME NEW u \in Nat, NEW x \in Nat, NEW e \in {"usd", "xmr"},
         NEW p \in MarketPrices \cup {NoMarket},
         Recalc(e, u, x, p), edited' = e, quote' = p
  PROVE  /\ usd' \in Nat /\ xmr' \in Nat /\ FieldsAgree'
         /\ e = "usd" => usd' = u
         /\ e = "xmr" => xmr' = x
         /\ e = "usd" /\ p # NoMarket /\ u > 0 => xmr' > 0
<1>1. CASE p = NoMarket
  BY <1>1 DEF Recalc, FieldsAgree
<1>2. CASE p # NoMarket /\ e = "usd"
  <2>1. usd' = u /\ xmr' = Rounded(u * Scale, p)
    BY <1>2 DEF Recalc
  <2>2. xmr' \in Nat /\ (u > 0 => xmr' > 0)
    BY <1>2, <2>1, RecalcIsAmount
  <2> QED BY <1>2, <2>1, <2>2 DEF FieldsAgree
<1>3. CASE p # NoMarket /\ e = "xmr"
  <2>1. xmr' = x /\ usd' = Rounded(x * p, Scale)
    BY <1>3 DEF Recalc
  <2>2. usd' \in Nat
    BY <1>3, <2>1, RecalcIsAmount
  <2> QED BY <1>3, <2>1, <2>2 DEF FieldsAgree
<1> QED BY <1>1, <1>2, <1>3

\* A key: the field typed in takes what is left of the text, the other follows.
LEMMA TypingPreserves ==
  ASSUME ConvInv, NEW v \in Typed, TypeUsd(v) \/ TypeXmr(v)
  PROVE  ConvInv'
<1>1. /\ usd \in Nat /\ xmr \in Nat /\ quote \in MarketPrices \cup {NoMarket}
      /\ {builder, togglePending, imgPending, resultUp, errorUp} \subseteq BOOLEAN
      /\ building \in Nat
  BY DEF ConvInv, ConvTypeOK
<1>2. ClampPiconero(v) \in Nat /\ ClampQuote(v) \in Nat
  BY ClampIsAmount
<1>3. CASE TypeUsd(v)
  <2>1. /\ Recalc("usd", ClampQuote(v), xmr, quote) /\ edited' = "usd" /\ quote' = quote
        /\ togglePending' = TRUE
        /\ UNCHANGED <<builder, building, imgPending, resultUp, errorUp>>
    BY <1>3 DEF TypeUsd
  <2>2. usd' \in Nat /\ xmr' \in Nat /\ FieldsAgree'
    BY <1>1, <1>2, <2>1, RecalcAgrees
  <2>3. ConvTypeOK'
    BY <1>1, <2>1, <2>2 DEF ConvTypeOK
  <2> QED BY <2>1, <2>2, <2>3 DEF ConvInv, AmountsAgree, BuilderHasAmount
<1>4. CASE TypeXmr(v)
  <2>1. /\ Recalc("xmr", usd, ClampPiconero(v), quote) /\ edited' = "xmr" /\ quote' = quote
        /\ Toggle(ClampPiconero(v))
        /\ UNCHANGED <<togglePending, building, imgPending>>
    BY <1>4 DEF TypeXmr
  <2>2. usd' \in Nat /\ xmr' = ClampPiconero(v) /\ FieldsAgree'
    BY <1>1, <1>2, <2>1, RecalcAgrees
  <2>3. /\ builder' = (xmr' > 0) /\ builder' \in BOOLEAN
        /\ resultUp' \in BOOLEAN /\ errorUp' \in BOOLEAN
    BY <1>2, <2>1, <2>2 DEF Toggle
  <2>4. ConvTypeOK'
    BY <1>1, <1>2, <2>1, <2>2, <2>3 DEF ConvTypeOK
  <2> QED BY <2>2, <2>3, <2>4 DEF ConvInv, AmountsAgree, BuilderHasAmount
<1> QED BY <1>3, <1>4

\* A price: an amount of XMR that was typed stays, and one that follows from
\* the quote is nothing only if the quote is.
LEMMA PricePreserves ==
  ASSUME ConvInv, NEW p \in MarketPrices, PriceArrives(p)
  PROVE  ConvInv'
<1>1. /\ usd \in Nat /\ xmr \in Nat /\ edited \in {"usd", "xmr"}
      /\ {builder, togglePending, imgPending, resultUp, errorUp} \subseteq BOOLEAN
      /\ building \in Nat
  BY DEF ConvInv, ConvTypeOK
<1>2. /\ Recalc(edited, usd, xmr, p) /\ edited' = edited /\ quote' = p
      /\ UNCHANGED <<builder, togglePending, building, imgPending, resultUp, errorUp>>
  BY DEF PriceArrives, invoiceVars
<1>3. /\ usd' \in Nat /\ xmr' \in Nat /\ FieldsAgree'
      /\ edited = "usd" => usd' = usd
      /\ edited = "xmr" => xmr' = xmr
      /\ edited = "usd" /\ p # NoMarket /\ usd > 0 => xmr' > 0
  BY <1>1, <1>2, RecalcAgrees
<1>4. ConvTypeOK'
  BY <1>1, <1>2, <1>3 DEF ConvTypeOK
<1>5. BuilderHasAmount'
  <2>1. CASE p = NoMarket
    BY <1>2, <2>1 DEF Recalc, ConvInv, AmountsAgree, BuilderHasAmount
  <2>2. CASE p # NoMarket /\ edited = "usd"
    BY <1>1, <1>2, <1>3, <2>2 DEF BuilderHasAmount
  <2>3. CASE p # NoMarket /\ edited = "xmr"
    BY <1>1, <1>2, <1>3, <2>3 DEF ConvInv, AmountsAgree, BuilderHasAmount
  <2> QED BY <1>1, <2>1, <2>2, <2>3
<1> QED BY <1>3, <1>4, <1>5 DEF ConvInv, AmountsAgree

\* The builder's own steps leave the fields alone.
LEMMA InvoicePreserves ==
  ASSUME ConvInv,
         \/ ToggleLater \/ Refuse \/ Build \/ Estimated
         \/ \E ok \in BOOLEAN : ImageLoads(ok)
         \/ UNCHANGED convVars
  PROVE  ConvInv'
<1>1. UNCHANGED <<usd, xmr, edited, quote>>
  BY DEF ToggleLater, Refuse, Build, Estimated, ImageLoads, convVars
<1>2. /\ usd \in Nat /\ xmr \in Nat /\ building \in Nat
      /\ builder \in BOOLEAN /\ togglePending \in BOOLEAN /\ imgPending \in BOOLEAN
      /\ resultUp \in BOOLEAN /\ errorUp \in BOOLEAN
  BY DEF ConvInv, ConvTypeOK
<1>3. /\ builder' \in BOOLEAN /\ togglePending' \in BOOLEAN /\ imgPending' \in BOOLEAN
      /\ resultUp' \in BOOLEAN /\ errorUp' \in BOOLEAN
      /\ building' \in Nat
  <2>1. CASE ToggleLater
    <3>1. /\ builder' = (xmr > 0) /\ togglePending' = FALSE
          /\ resultUp' = (resultUp /\ xmr > 0) /\ errorUp' = (errorUp /\ xmr > 0)
          /\ UNCHANGED <<building, imgPending>>
      BY <2>1 DEF ToggleLater, Toggle
    <3>2. builder' \in BOOLEAN /\ resultUp' \in BOOLEAN /\ errorUp' \in BOOLEAN
      BY <3>1
    <3> QED BY <1>2, <3>1, <3>2
  <2>2. CASE Refuse \/ Build \/ Estimated
    <3>1. CASE Refuse
      BY <1>2, <3>1 DEF Refuse
    <3>2. CASE Build
      BY <1>2, <3>2 DEF Build
    <3>3. CASE Estimated
      BY <1>2, <3>3 DEF Estimated
    <3> QED BY <2>2, <3>1, <3>2, <3>3
  <2>3. CASE \E ok \in BOOLEAN : ImageLoads(ok)
    BY <1>2, <2>3 DEF ImageLoads
  <2>4. CASE UNCHANGED convVars
    BY <1>2, <2>4 DEF convVars
  <2> QED BY <2>1, <2>2, <2>3, <2>4
<1>4. BuilderHasAmount'
  <2>1. CASE ToggleLater
    <3>1. builder' = (xmr > 0)
      BY <2>1 DEF ToggleLater, Toggle
    <3>2. builder' => xmr' > 0
      BY <1>1, <1>3, <3>1
    <3> QED BY <3>2 DEF BuilderHasAmount
  <2>2. CASE UNCHANGED <<builder, togglePending>>
    <3>1. builder' = builder /\ togglePending' = togglePending
      BY <2>2
    <3>2. BuilderHasAmount
      BY DEF ConvInv, AmountsAgree
    <3> QED BY <1>1, <3>1, <3>2 DEF BuilderHasAmount
  <2> QED BY <2>1, <2>2 DEF Refuse, Build, Estimated, ImageLoads, convVars
<1> QED BY <1>1, <1>3, <1>4 DEF ConvInv, ConvTypeOK, AmountsAgree, FieldsAgree

LEMMA ConvNextInv == ConvInv /\ [ConvNext]_convVars => ConvInv'
BY TypingPreserves, PricePreserves, InvoicePreserves DEF ConvNext

\* For any prices up to Scale and any texts, the two fields and the newest price
\* are of one amount, and the invoice builder is open over one.
THEOREM AmountsStayTrue == ConvSpec => [](ConvTypeOK /\ AmountsAgree)
<1>1. ConvInv => ConvTypeOK /\ AmountsAgree
  BY DEF ConvInv
<1> QED BY <1>1, ConvInitInv, ConvNextInv, PTL DEF ConvSpec

(***************************************************************************)
(* netfee.js.                                                              *)
(***************************************************************************)
NetInv == NetTypeOK /\ prev = grid

LEMMA DirectionIsArrow ==
  ASSUME NEW p, NEW t
  PROVE  Direction(p, t) \in Arrows
BY DEF Direction, Arrows

LEMMA NetInitInv == NetInit => NetInv
<1> SUFFICES ASSUME NetInit PROVE NetInv
  OBVIOUS
<1>1. grid \in Grids /\ prev = grid /\ stamped = grid
  BY DEF NetInit, Grids
<1>2. arrow \in [Tiers -> Arrows]
  BY DEF NetInit, Arrows
<1>3. feePolls \in 0..MaxFeePolls
  BY NetFeeAssumption DEF NetFeeAssumption, NetInit
<1> QED BY <1>1, <1>2, <1>3 DEF NetInv, NetTypeOK

\* An answer is compared with what is on screen: the baseline is the grid.
LEMMA NetAnswerPreserves ==
  ASSUME NetInv, NEW g \in Grids, NetAnswered(g)
  PROVE  NetInv' /\ \A t \in Tiers : arrow'[t] = Direction(grid[t], grid'[t])
<1>1. /\ grid' = g /\ prev' = g /\ stamped' = g
      /\ arrow' = [t \in Tiers |-> Direction(prev[t], g[t])]
      /\ feePolls' = feePolls - 1 /\ feePolls > 0
  BY DEF NetAnswered, Baseline
<1>2. arrow' \in [Tiers -> Arrows]
  BY <1>1, DirectionIsArrow
<1>3. feePolls' \in 0..MaxFeePolls
  BY <1>1, NetFeeAssumption DEF NetFeeAssumption, NetInv, NetTypeOK
<1> QED BY <1>1, <1>2, <1>3 DEF NetInv, NetTypeOK

LEMMA NetQuietPreserves ==
  ASSUME NetInv, NetTimer \/ NetTabShown \/ NetTabHidden \/ NetUnanswered \/ UNCHANGED netVars
  PROVE  NetInv' /\ UNCHANGED <<grid, arrow>>
<1>1. UNCHANGED <<grid, arrow, prev, stamped>>
  BY DEF NetTimer, NetTabShown, NetTabHidden, NetUnanswered, netVars
<1>2. feePolls' \in 0..MaxFeePolls
  BY NetFeeAssumption
     DEF NetFeeAssumption, NetInv, NetTypeOK, NetTimer, NetTabShown, NetTabHidden, NetUnanswered, NetPoll, netVars
<1> QED BY <1>1, <1>2 DEF NetInv, NetTypeOK

LEMMA NetNextInv == NetInv /\ [NetNext]_netVars => NetInv' /\ ArrowsTellTheMove
<1> SUFFICES ASSUME NetInv, [NetNext]_netVars PROVE NetInv' /\ ArrowsTellTheMove
  OBVIOUS
<1>1. CASE \E g \in Grids : NetAnswered(g)
  <2>1. NetInv' /\ \A t \in Tiers : arrow'[t] = Direction(grid[t], grid'[t])
    BY <1>1, NetAnswerPreserves
  <2>2. \A t \in Tiers : grid'[t] = grid[t] => arrow'[t] = "none"
    BY <2>1 DEF Direction
  <2> QED BY <2>1, <2>2 DEF ArrowsTellTheMove
<1> QED BY <1>1, NetQuietPreserves DEF NetNext, ArrowsTellTheMove

\* Everything netfee.js keeps has its type.
THEOREM NetTypeCorrect == NetSpec => []NetTypeOK
<1>1. NetInv => NetTypeOK
  BY DEF NetInv
<1> QED BY <1>1, NetInitInv, NetNextInv, PTL DEF NetSpec

\* For any tiers and amounts, and answers in any order, the arrow of an amount that
\* moves compares it with what was on screen before it.
THEOREM ArrowsStayTrue == NetSpec => ArrowTellsTheMove
<1>1. NetInv /\ [NetNext]_netVars => NetInv' /\ [ArrowsTellTheMove]_netVars
  BY NetNextInv
<1> QED BY <1>1, NetInitInv, PTL DEF NetSpec, ArrowTellsTheMove

(***************************************************************************)
(* millionaire.js.                                                         *)
(***************************************************************************)
MmInv == MmTypeOK /\ SaysWhatItShows

\* The words of a card are one of four.
LEMMA CompareIsWord ==
  ASSUME NEW x, NEW p
  PROVE  Compare(x, p) \in {"none", "more", "fewer", "same"}
BY DEF Compare

LEMMA MmInitInv == MmInit => MmInv
<1> SUFFICES ASSUME MmInit PROVE MmInv
  OBVIOUS
<1>1. PICK d \in Snapshots : /\ needed = d.xmr /\ lastPoint = d.xmr /\ then = d.past
                             /\ change = [k \in Days |-> Compare(d.xmr, d.past[k])]
  BY DEF MmInit
<1>2. d.xmr \in Amounts \cup {NoAmount} /\ d.past \in [Days -> Amounts \cup {NoAmount}]
  BY DEF Snapshots
<1>3. change \in [Days -> {"none", "more", "fewer", "same"}]
  BY <1>1, CompareIsWord
<1>4. mmPolls \in 0..MaxMmPolls
  BY MillionaireAssumption DEF MmInit, MillionaireAssumption
<1> QED BY <1>1, <1>2, <1>3, <1>4 DEF MmInv, MmTypeOK, SaysWhatItShows

\* An answer is painted whole.  Without a live price the headline keeps its
\* number, and nothing else on the page speaks of one.
LEMMA MmAnswerPreserves ==
  ASSUME MmInv, NEW d \in Snapshots, MmAnswered(d)
  PROVE  MmInv'
<1>1. d.xmr \in Amounts \cup {NoAmount} /\ d.past \in [Days -> Amounts \cup {NoAmount}]
  BY DEF Snapshots
<1>2. /\ needed' = IF d.xmr = NoAmount THEN needed ELSE d.xmr
      /\ then' = d.past /\ lastPoint' = d.xmr
      /\ change' = [k \in Days |-> Compare(d.xmr, d.past[k])]
      /\ mmPolls' = mmPolls - 1 /\ mmPolls > 0
  BY DEF MmAnswered, Paint
<1>3. change' \in [Days -> {"none", "more", "fewer", "same"}]
  BY <1>2, CompareIsWord
<1>4. mmPolls' \in 0..MaxMmPolls
  BY <1>2, MillionaireAssumption DEF MmInv, MmTypeOK, MillionaireAssumption
<1>5. MmTypeOK'
  BY <1>1, <1>2, <1>3, <1>4 DEF MmInv, MmTypeOK
<1>6. SaysWhatItShows'
  <2>1. CASE d.xmr = NoAmount
    BY <1>2, <2>1 DEF SaysWhatItShows, Compare
  <2>2. CASE d.xmr # NoAmount
    BY <1>2, <2>2 DEF SaysWhatItShows
  <2> QED BY <2>1, <2>2
<1> QED BY <1>5, <1>6 DEF MmInv

\* The timer, the tab and requests that bring nothing leave the page as it is.
LEMMA MmQuietPreserves ==
  ASSUME MmInv, MmTimer \/ MmTabShown \/ MmTabHidden \/ MmUnanswered \/ UNCHANGED mmVars
  PROVE  MmInv'
<1>1. UNCHANGED <<needed, then, change, lastPoint>>
  BY DEF MmTimer, MmTabShown, MmTabHidden, MmUnanswered, mmVars
<1>2. mmPolls' \in 0..MaxMmPolls
  BY MillionaireAssumption
     DEF MillionaireAssumption, MmInv, MmTypeOK, MmTimer, MmTabShown, MmTabHidden, MmUnanswered, MmPoll, mmVars
<1> QED BY <1>1, <1>2 DEF MmInv, MmTypeOK, SaysWhatItShows

LEMMA MmNextInv == MmInv /\ [MmNext]_mmVars => MmInv'
BY MmAnswerPreserves, MmQuietPreserves DEF MmNext

\* Everything millionaire.js shows has its type.
THEOREM MillionaireTypeCorrect == MmSpec => []MmTypeOK
<1>1. MmInv => MmTypeOK
  BY DEF MmInv
<1> QED BY <1>1, MmInitInv, MmNextInv, PTL DEF MmSpec

\* For any amounts and days, whichever answers lacked a live price or a past one.
THEOREM MillionaireStaysTrue == MmSpec => []SaysWhatItShows
<1>1. MmInv => SaysWhatItShows
  BY DEF MmInv
<1> QED BY <1>1, MmInitInv, MmNextInv, PTL DEF MmSpec

(***************************************************************************)
(* sponsorbar.js.                                                          *)
(***************************************************************************)
\* Array.prototype.filter over positions that stand together.
LEMMA FilterOfStretch ==
  ASSUME NEW S, NEW arr \in Seq(S), NEW a \in 1..(Len(arr) + 1), NEW b \in (a - 1)..Len(arr)
  PROVE  Filter(arr, a..b) = SubSeq(arr, a, b)
<1> DEFINE n == b - a + 1
           Rank(i) == Cardinality({j \in a..b : j <= i})
           Nth(k) == CHOOSE i \in a..b : Rank(i) = k
<1>1. n \in Nat /\ a \in Int /\ b \in Int /\ Len(arr) \in Nat
  <2>1. Len(arr) \in Nat
    BY LenProperties
  <2>2. a \in Int /\ b \in Int
    BY <2>1
  <2>3. b >= a - 1
    BY <2>1, <2>2
  <2> QED BY <2>1, <2>2, <2>3
<1>2. Cardinality(a..b) = n
  <2>1. Cardinality(a..b) = IF a > b THEN 0 ELSE b - a + 1
    BY <1>1, FS_Interval
  <2> QED BY <1>1, <2>1
<1>3. \A i \in a..b : Rank(i) = i - a + 1
  <2> TAKE i \in a..b
  <2>1. {j \in a..b : j <= i} = a..i
    BY <1>1
  <2>2. Cardinality(a..i) = i - a + 1
    BY <1>1, FS_Interval
  <2> QED BY <2>1, <2>2
<1>4. \A k \in 1..n : Nth(k) = a + k - 1
  <2> TAKE k \in 1..n
  <2> HIDE DEF Rank
  <2>1. a + k - 1 \in a..b
    BY <1>1
  <2>2. Rank(a + k - 1) = k
    BY <1>1, <1>3, <2>1
  <2>3. \A i \in a..b : Rank(i) = k => i = a + k - 1
    BY <1>1, <1>3
  <2> QED BY <2>1, <2>2, <2>3
<1>5. \A i \in a..b : arr[i] \in S
  BY <1>1, ElementOfSeq
<1>6. /\ SubSeq(arr, a, b) \in Seq(S) /\ Len(SubSeq(arr, a, b)) = n
      /\ \A k \in 1..n : SubSeq(arr, a, b)[k] = arr[a + k - 1]
  <2>1. /\ SubSeq(arr, a, b) \in Seq(S)
        /\ Len(SubSeq(arr, a, b)) = IF a <= b THEN b - a + 1 ELSE 0
        /\ \A k \in 1..(b - a + 1) : SubSeq(arr, a, b)[k] = arr[a + k - 1]
    BY <1>1, <1>5, SubSeqProperties
  <2> QED BY <1>1, <2>1
<1>7. Filter(arr, a..b) = [k \in 1..n |-> arr[Nth(k)]]
  BY <1>2 DEF Filter
<1>8. Filter(arr, a..b) = [k \in 1..n |-> arr[a + k - 1]]
  <2> HIDE DEF Nth
  <2> QED BY <1>4, <1>7
<1>9. \A k \in 1..n : arr[a + k - 1] \in S
  BY <1>1, <1>5
<1>10. /\ Filter(arr, a..b) \in Seq(S) /\ Len(Filter(arr, a..b)) = n
       /\ \A k \in 1..n : Filter(arr, a..b)[k] = arr[a + k - 1]
  <2> DEFINE f == Filter(arr, a..b)
  <2>1. f = [k \in 1..n |-> arr[a + k - 1]]
    BY <1>8
  <2> HIDE DEF n, f
  <2>2. f \in [1..n -> S] /\ \A k \in 1..n : f[k] = arr[a + k - 1]
    BY <1>9, <2>1
  <2>3. f \in Seq(S) /\ Len(f) = n
    BY <1>1, <2>2
  <2> QED BY <2>2, <2>3 DEF f
<1> HIDE DEF n
<1> QED BY <1>6, <1>10, SeqEqual

\* chunkArr cuts a list at edges no further than size apart, the last one its end.
EdgesOf(arr, size, chunks, edge) ==
  /\ edge \in [0..Len(chunks) -> 0..Len(arr)]
  /\ edge[0] = 0 /\ edge[Len(chunks)] = Len(arr)
  /\ \A i \in 1..Len(chunks) :
       /\ edge[i - 1] < edge[i] /\ edge[i] - edge[i - 1] <= size
       /\ chunks[i] = SubSeq(arr, edge[i - 1] + 1, edge[i])

LEMMA ChunksHaveEdges ==
  ASSUME NEW S, NEW arr \in Seq(S), NEW size \in Nat \ {0}
  PROVE  /\ ChunkArr(arr, size) \in Seq(Seq(S))
         /\ Len(ChunkArr(arr, size)) > 0 <=> Len(arr) > 0
         /\ \E edge : EdgesOf(arr, size, ChunkArr(arr, size), edge)
<1> DEFINE n == Len(arr)
           q == (n + size - 1) \div size
           r == (n + size - 1) % size
           at(i) == IF i * size < n THEN i * size ELSE n
           edge == [i \in 0..q |-> at(i)]
           cs == ChunkArr(arr, size)
<1>1. n \in Nat
  OBVIOUS
<1>2. q \in Int /\ r \in 0..(size - 1) /\ n + size - 1 = size * q + r
  BY <1>1
<1>3. q \in Nat /\ (q > 0 <=> n > 0)
  <2>1. q < 0 => size * q <= size * (-1)
    BY <1>2
  <2>2. q = 0 => size * q = 0
    BY <1>2
  <2>3. q > 0 => size * q >= size
    BY <1>2
  <2> HIDE DEF q, r, n
  <2> QED BY <1>1, <1>2, <2>1, <2>2, <2>3
<1>4. \A i \in 1..q : (i - 1) * size < n /\ (i < q => i * size < n) /\ i * size = (i - 1) * size + size
  <2> TAKE i \in 1..q
  <2>1. (i - 1) * size <= (q - 1) * size /\ i * size = (i - 1) * size + size
    BY <1>2, <1>3
  <2>2. i < q => i * size <= (q - 1) * size
    BY <1>2, <1>3
  <2>3. (q - 1) * size = size * q - size
    BY <1>2, <1>3
  <2> QED BY <1>1, <1>2, <2>1, <2>2, <2>3
<1>5. q * size >= n
  <2>1. q * size = size * q
    BY <1>2
  <2> QED BY <1>1, <1>2, <2>1
<1>6. \A i \in 0..q : i * size \in Nat /\ at(i) \in 0..n
  BY <1>1, <1>3
<1>7. /\ edge \in [0..q -> 0..n]
      /\ at(0) = 0 /\ at(q) = n
      /\ \A i \in 1..q : at(i - 1) < at(i) /\ at(i) - at(i - 1) <= size /\ at(i - 1) = (i - 1) * size
  <2>1. edge \in [0..q -> 0..n]
    BY <1>6
  <2>2. at(0) = 0 /\ at(q) = n
    <3>1. 0 * size = 0
      OBVIOUS
    <3> QED BY <1>1, <1>3, <1>5, <1>6, <3>1
  <2>3. \A i \in 1..q : at(i - 1) < at(i) /\ at(i) - at(i - 1) <= size /\ at(i - 1) = (i - 1) * size
    <3> TAKE i \in 1..q
    <3>1. (i - 1) * size \in Nat /\ i * size \in Nat
      BY <1>3, <1>6
    <3> QED BY <1>1, <1>4, <3>1
  <2> QED BY <2>1, <2>2, <2>3
<1>8. cs = [i \in 1..q |-> SubSeq(arr, at(i - 1) + 1, at(i))]
  <2>1. cs = [i \in 1..q |-> SubSeq(arr, (i - 1) * size + 1, at(i))]
    BY DEF ChunkArr
  <2> HIDE DEF cs, at, q
  <2> QED BY <1>7, <2>1
<1>9. \A i \in 1..q : SubSeq(arr, at(i - 1) + 1, at(i)) \in Seq(S)
  <2> TAKE i \in 1..q
  <2>1. at(i - 1) \in 0..n /\ at(i) \in 0..n
    BY <1>3, <1>6
  <2> HIDE DEF at
  <2>2. \A j \in (at(i - 1) + 1)..at(i) : arr[j] \in S
    BY <1>1, <2>1, ElementOfSeq
  <2> QED BY <1>1, <2>1, <2>2, SubSeqProperties
<1>10. cs \in Seq(Seq(S)) /\ Len(cs) = q
  <2> HIDE DEF cs, at, q
  <2> QED BY <1>3, <1>8, <1>9
<1>11. EdgesOf(arr, size, cs, edge)
  <2>1. \A i \in 0..q : edge[i] = at(i)
    OBVIOUS
  <2>2. \A i \in 1..q : i - 1 \in 0..q /\ i \in 0..q
    BY <1>3
  <2>3. 0 \in 0..q /\ q \in 0..q
    BY <1>3
  <2>4. \A i \in 1..q : cs[i] = SubSeq(arr, edge[i - 1] + 1, edge[i])
    <3> HIDE DEF edge, cs, at, q
    <3> QED BY <1>8, <2>1, <2>2
  <2> HIDE DEF edge, cs, at, q
  <2> QED BY <1>7, <1>10, <2>1, <2>2, <2>3, <2>4 DEF EdgesOf
<1> QED BY <1>3, <1>10, <1>11

\* A list sorted by tier: no main sponsor after one of a lower tier.
MainsAhead(data) == \A i, j \in DOMAIN data : i < j /\ IsMain(data[j]) => IsMain(data[i])

\* The mains of such a list are its first ones.
LEMMA MainsAreFirst ==
  ASSUME NEW data \in Seq(Sponsors), MainsAhead(data)
  PROVE  \E n \in 0..Len(data) : {i \in DOMAIN data : IsMain(data[i])} = 1..n
<1> DEFINE mains == {i \in DOMAIN data : IsMain(data[i])}
           Ok(n) == \A i \in 1..n : i \in mains
<1>1. Len(data) \in Nat /\ DOMAIN data = 1..Len(data)
  BY LenProperties
<1>2. CASE \A i \in 1..Len(data) : i \in mains
  <2>1. mains = 1..Len(data)
    BY <1>1, <1>2
  <2> QED BY <1>1, <2>1
<1>3. CASE \E i \in 1..Len(data) : i \notin mains
  <2> DEFINE others == (1..Len(data)) \ mains
  <2>1. others \in SUBSET Nat /\ others # {}
    BY <1>1, <1>3
  <2>2. PICK m \in others : \A i \in others : m <= i
    BY <2>1, LeastNat
  <2>3. m \in 1..Len(data) /\ m \notin mains
    BY <2>2
  <2>4. \A i \in 1..(m - 1) : i \in mains
    BY <1>1, <2>2, <2>3
  <2>5. \A i \in m..Len(data) : i \notin mains
    BY <1>1, <2>3 DEF MainsAhead
  <2>6. mains = 1..(m - 1)
    BY <1>1, <2>3, <2>4, <2>5
  <2>7. m - 1 \in 0..Len(data)
    BY <1>1, <2>3
  <2> QED BY <2>6, <2>7
<1> QED BY <1>2, <1>3

\* startBanner's sets of a sorted list.
SetsOf(data, size, pages) ==
  /\ pages \in Seq(Seq(Sponsors)) /\ pages # <<>>
  /\ \E from \in [DOMAIN pages -> 0..Len(data)] :
       /\ from[1] = 0
       /\ \A i \in DOMAIN pages :
            LET next == IF i < Len(pages) THEN from[i + 1] ELSE Len(data)
            IN  pages[i] = SubSeq(data, from[i] + 1, next)
  /\ \A i \in DOMAIN pages :
       /\ Len(pages[i]) \in 1..size
       /\ \A s, t \in DOMAIN pages[i] : IsMain(pages[i][s]) = IsMain(pages[i][t])
       /\ \A j \in 1..i : IsMain(pages[i][1]) => IsMain(pages[j][1])

\* A stretch of a list, in the list's own terms.
LEMMA StretchOf ==
  ASSUME NEW data \in Seq(Sponsors), NEW a \in 0..Len(data), NEW b \in a..Len(data)
  PROVE  /\ SubSeq(data, a + 1, b) \in Seq(Sponsors) /\ Len(SubSeq(data, a + 1, b)) = b - a
         /\ \A k \in 1..(b - a) : SubSeq(data, a + 1, b)[k] = data[a + k]
<1>1. Len(data) \in Nat
  BY LenProperties
<1>2. a \in Nat /\ b \in Nat /\ a <= b /\ b <= Len(data)
  BY <1>1
<1>3. \A i \in (a + 1)..b : data[i] \in Sponsors
  BY <1>1, <1>2, ElementOfSeq
<1>4. /\ SubSeq(data, a + 1, b) \in Seq(Sponsors)
      /\ Len(SubSeq(data, a + 1, b)) = IF a + 1 <= b THEN b - (a + 1) + 1 ELSE 0
      /\ \A k \in 1..(b - (a + 1) + 1) : SubSeq(data, a + 1, b)[k] = data[a + 1 + k - 1]
  <2>1. a + 1 \in Int /\ b \in Int
    BY <1>2
  <2> QED BY <1>3, <2>1, SubSeqProperties
<1> QED BY <1>2, <1>4

\* A stretch of a stretch.
LEMMA StretchInStretch ==
  ASSUME NEW data \in Seq(Sponsors), NEW m \in 0..Len(data), NEW n \in m..Len(data),
         NEW a \in 0..(n - m), NEW b \in a..(n - m)
  PROVE  SubSeq(SubSeq(data, m + 1, n), a + 1, b) = SubSeq(data, m + a + 1, m + b)
<1> DEFINE whole == SubSeq(data, m + 1, n)
           x == SubSeq(whole, a + 1, b)
           y == SubSeq(data, m + a + 1, m + b)
<1>1. Len(data) \in Nat
  BY LenProperties
<1>2. /\ m \in Nat /\ n \in Nat /\ a \in Nat /\ b \in Nat
      /\ m <= n /\ n <= Len(data) /\ a <= b /\ b <= n - m
  <2>1. m \in Nat /\ n \in Nat /\ m <= n /\ n <= Len(data)
    BY <1>1
  <2> QED BY <2>1
<1>3. /\ whole \in Seq(Sponsors) /\ Len(whole) = n - m
      /\ \A k \in 1..(n - m) : whole[k] = data[m + k]
  BY StretchOf
<1>4. /\ x \in Seq(Sponsors) /\ Len(x) = b - a
      /\ \A k \in 1..(b - a) : x[k] = whole[a + k]
  <2> HIDE DEF whole
  <2>1. a \in 0..Len(whole) /\ b \in a..Len(whole)
    BY <1>3
  <2> QED BY <1>3, <2>1, StretchOf
<1>5. /\ y \in Seq(Sponsors) /\ Len(y) = b - a
      /\ \A k \in 1..(b - a) : y[k] = data[m + a + k]
  <2>1. m + a \in 0..Len(data) /\ m + b \in (m + a)..Len(data)
    BY <1>1, <1>2
  <2>2. /\ y \in Seq(Sponsors) /\ Len(y) = (m + b) - (m + a)
        /\ \A k \in 1..((m + b) - (m + a)) : y[k] = data[m + a + k]
    BY <2>1, StretchOf
  <2>3. (m + b) - (m + a) = b - a
    BY <1>2
  <2> HIDE DEF y
  <2> QED BY <2>2, <2>3
<1>6. \A k \in 1..(b - a) : x[k] = y[k]
  <2> TAKE k \in 1..(b - a)
  <2> HIDE DEF x, y, whole
  <2>1. a + k \in 1..(n - m) /\ m + (a + k) = m + a + k
    BY <1>2
  <2> QED BY <1>3, <1>4, <1>5, <2>1
<1> HIDE DEF x, y
<1>7. x = y
  BY <1>4, <1>5, <1>6, SeqEqual
<1> QED BY <1>7 DEF x, y
LEMMA PagesAreSets ==
  ASSUME NEW data \in Seq(Sponsors), data # <<>>, MainsAhead(data), NEW size \in Nat \ {0}
  PROVE  SetsOf(data, size, PagesOf(data, size))
<1> DEFINE L == Len(data)
           pages == PagesOf(data, size)
<1>1. L \in Nat \ {0} /\ DOMAIN data = 1..L
  BY LenProperties, EmptySeq
<1>2. PICK n \in 0..L : {i \in DOMAIN data : IsMain(data[i])} = 1..n
  BY MainsAreFirst
<1>3. \A i \in 1..L : IsMain(data[i]) <=> i <= n
  BY <1>1, <1>2
<1>0. n \in Nat /\ n <= L
  BY <1>1
<1> DEFINE upper == SubSeq(data, 1, n)
           lower == SubSeq(data, n + 1, L)
           A == ChunkArr(upper, size)
           B == ChunkArr(lower, size)
           p == Len(A)
           q == Len(B)
<1>4. /\ upper \in Seq(Sponsors) /\ Len(upper) = n
      /\ lower \in Seq(Sponsors) /\ Len(lower) = L - n
  <2>1. 0 \in 0..L /\ n \in 0..L /\ L \in n..L /\ 0 + 1 = 1 /\ n - 0 = n
    BY <1>1
  <2> QED BY <2>1, StretchOf
<1>5. pages = A \o B
  <2>1. (1..L) \ (1..n) = (n + 1)..L
    BY <1>1
  <2>2. Filter(data, 1..n) = upper
    <3>1. 1 \in 1..(L + 1) /\ n \in (1 - 1)..L
      BY <1>1
    <3> QED BY <3>1, FilterOfStretch
  <2>3. Filter(data, (n + 1)..L) = lower
    <3> DEFINE m == n + 1
    <3>1. m \in 1..(L + 1) /\ L \in (m - 1)..L
      BY <1>1
    <3> HIDE DEF m
    <3>2. Filter(data, m..L) = SubSeq(data, m, L)
      BY <3>1, FilterOfStretch
    <3> QED BY <3>2 DEF m
  <2> QED BY <1>1, <1>2, <2>1, <2>2, <2>3 DEF PagesOf
<1>6. /\ A \in Seq(Seq(Sponsors)) /\ (p > 0 <=> n > 0)
      /\ \E edge : EdgesOf(upper, size, A, edge)
  <2> HIDE DEF upper
  <2> QED BY <1>4, ChunksHaveEdges
<1>7. /\ B \in Seq(Seq(Sponsors)) /\ (q > 0 <=> L - n > 0)
      /\ \E edge : EdgesOf(lower, size, B, edge)
  <2> HIDE DEF lower
  <2> QED BY <1>4, ChunksHaveEdges
<1>8. PICK ea : EdgesOf(upper, size, A, ea)
  BY <1>6
<1>9. PICK eb : EdgesOf(lower, size, B, eb)
  BY <1>7
<1>10. p \in Nat /\ q \in Nat /\ p + q > 0
  <2>1. p \in Nat /\ q \in Nat
    BY <1>6, <1>7, LenProperties
  <2> QED BY <1>1, <1>6, <1>7, <2>1
<1>11. /\ pages \in Seq(Seq(Sponsors)) /\ Len(pages) = p + q /\ DOMAIN pages = 1..(p + q)
       /\ \A i \in 1..(p + q) : pages[i] = IF i <= p THEN A[i] ELSE B[i - p]
  <2> HIDE DEF A, B, pages
  <2>1. /\ pages \in Seq(Seq(Sponsors)) /\ Len(pages) = p + q
        /\ \A i \in 1..(p + q) : pages[i] = IF i <= p THEN A[i] ELSE B[i - p]
    BY <1>5, <1>6, <1>7, ConcatProperties
  <2> QED BY <2>1, LenProperties
<1>12. /\ \A i \in 0..p : ea[i] \in 0..n
       /\ ea[0] = 0 /\ ea[p] = n
       /\ \A i \in 1..p : /\ ea[i - 1] < ea[i] /\ ea[i] - ea[i - 1] <= size
                          /\ A[i] = SubSeq(upper, ea[i - 1] + 1, ea[i])
  <2> HIDE DEF upper, A
  <2> QED BY <1>4, <1>8 DEF EdgesOf
<1>13. /\ \A i \in 0..q : eb[i] \in 0..(L - n)
       /\ eb[0] = 0 /\ eb[q] = L - n
       /\ \A i \in 1..q : /\ eb[i - 1] < eb[i] /\ eb[i] - eb[i - 1] <= size
                          /\ B[i] = SubSeq(lower, eb[i - 1] + 1, eb[i])
  <2> HIDE DEF lower, B
  <2> QED BY <1>4, <1>9 DEF EdgesOf
<1> DEFINE From(i) == IF i <= p THEN ea[i - 1] ELSE n + eb[i - p - 1]
           Next(i) == IF i <= p THEN ea[i] ELSE n + eb[i - p]
<1>14. \A i \in 1..(p + q) :
         /\ From(i) \in 0..L /\ Next(i) \in 0..L
         /\ From(i) < Next(i) /\ Next(i) - From(i) <= size
         /\ i <= p => Next(i) <= n
         /\ i > p => From(i) >= n
         /\ pages[i] = SubSeq(data, From(i) + 1, Next(i))
  <2> TAKE i \in 1..(p + q)
  <2>1. CASE i <= p
    <3>1. i \in 1..p /\ i - 1 \in 0..p /\ i \in 0..p
      BY <1>10, <2>1
    <3>2. /\ ea[i - 1] \in 0..n /\ ea[i] \in 0..n /\ ea[i - 1] < ea[i] /\ ea[i] - ea[i - 1] <= size
          /\ A[i] = SubSeq(upper, ea[i - 1] + 1, ea[i])
      <4> HIDE DEF A, upper, p
      <4> QED BY <1>12, <3>1
    <3>3. A[i] = SubSeq(data, ea[i - 1] + 1, ea[i])
      <4>1. /\ 0 \in 0..L /\ n \in 0..L /\ ea[i - 1] \in 0..(n - 0) /\ ea[i] \in ea[i - 1]..(n - 0)
        BY <1>1, <3>2
      <4>2. SubSeq(SubSeq(data, 0 + 1, n), ea[i - 1] + 1, ea[i])
              = SubSeq(data, 0 + ea[i - 1] + 1, 0 + ea[i])
        BY <4>1, StretchInStretch
      <4>3. 0 + 1 = 1 /\ 0 + ea[i - 1] + 1 = ea[i - 1] + 1 /\ 0 + ea[i] = ea[i]
        BY <3>2
      <4> QED BY <3>2, <4>2, <4>3
    <3>4. pages[i] = A[i]
      <4> HIDE DEF pages, A, B
      <4> QED BY <1>11, <2>1
    <3>5. From(i) = ea[i - 1] /\ Next(i) = ea[i]
      BY <2>1
    <3>6. ~(i > p)
      BY <1>10, <2>1
    <3> HIDE DEF pages, A, B, p, q, From, Next
    <3>7. pages[i] = SubSeq(data, From(i) + 1, Next(i))
      BY <3>3, <3>4, <3>5
    <3> QED BY <1>1, <3>2, <3>5, <3>6, <3>7
  <2>2. CASE i > p
    <3> DEFINE j == i - p
    <3>1. j \in 1..q /\ j - 1 \in 0..q /\ j \in 0..q /\ i - p - 1 = j - 1
      BY <1>10, <2>2
    <3>2. /\ eb[j - 1] \in 0..(L - n) /\ eb[j] \in 0..(L - n) /\ eb[j - 1] < eb[j] /\ eb[j] - eb[j - 1] <= size
          /\ B[j] = SubSeq(lower, eb[j - 1] + 1, eb[j])
      <4> HIDE DEF B, lower, q, j
      <4> QED BY <1>13, <3>1
    <3>3. B[j] = SubSeq(data, n + eb[j - 1] + 1, n + eb[j])
      <4> HIDE DEF j
      <4>1. /\ n \in 0..L /\ L \in n..L /\ eb[j - 1] \in 0..(L - n) /\ eb[j] \in eb[j - 1]..(L - n)
        BY <1>1, <3>2
      <4>2. SubSeq(SubSeq(data, n + 1, L), eb[j - 1] + 1, eb[j])
              = SubSeq(data, n + eb[j - 1] + 1, n + eb[j])
        BY <4>1, StretchInStretch
      <4> QED BY <3>2, <4>2
    <3>4. pages[i] = B[j]
      <4> HIDE DEF pages, A, B
      <4> QED BY <1>10, <1>11, <2>2
    <3>5. ~(i <= p)
      BY <1>10, <2>2
    <3>6. From(i) = n + eb[j - 1] /\ Next(i) = n + eb[j]
      <4> HIDE DEF A, B, p, q
      <4> QED BY <3>1, <3>5
    <3> HIDE DEF pages, A, B, p, q, j, From, Next
    <3>7. pages[i] = SubSeq(data, From(i) + 1, Next(i))
      BY <3>3, <3>4, <3>6
    <3>8. /\ From(i) \in 0..L /\ Next(i) \in 0..L
          /\ From(i) < Next(i) /\ Next(i) - From(i) <= size /\ From(i) >= n
      <4> DEFINE x == eb[j - 1]
                 y == eb[j]
      <4>1. /\ x \in 0..(L - n) /\ y \in 0..(L - n) /\ x < y /\ y - x <= size
            /\ From(i) = n + x /\ Next(i) = n + y
        BY <3>2, <3>6
      <4> HIDE DEF x, y, L
      <4> QED BY <1>0, <1>1, <4>1
    <3> QED BY <3>5, <3>7, <3>8
  <2> QED BY <1>10, <2>1, <2>2
<1>15. /\ From(1) = 0 /\ Next(p + q) = L
       /\ \A i \in 1..(p + q) : i < p + q => Next(i) = From(i + 1)
  <2>1. From(1) = 0
    <3>1. CASE p = 0
      <4>1. n = 0
        BY <1>6, <3>1
      <4> HIDE DEF A, B, p, q
      <4> QED BY <1>13, <3>1, <4>1
    <3>2. CASE p # 0
      <4> HIDE DEF A, B, p, q
      <4> QED BY <1>10, <1>12, <3>2
    <3> QED BY <3>1, <3>2
  <2>2. Next(p + q) = L
    <3>1. CASE q = 0
      <4>1. n = L
        <5>1. ~(L - n > 0)
          BY <1>7, <3>1
        <5> HIDE DEF L
        <5> QED BY <1>0, <1>1, <5>1
      <4> HIDE DEF A, B, p, q
      <4> QED BY <1>10, <1>12, <3>1, <4>1
    <3>2. CASE q # 0
      <4> HIDE DEF A, B, p, q
      <4>1. ~(p + q <= p) /\ (p + q) - p = q
        BY <1>10, <3>2
      <4> QED BY <1>1, <1>13, <4>1
    <3> QED BY <3>1, <3>2
  <2>3. ASSUME NEW i \in 1..(p + q), i < p + q PROVE Next(i) = From(i + 1)
    <3> HIDE DEF A, B, p, q
    <3>1. CASE i < p
      <4>1. i <= p /\ i + 1 <= p /\ (i + 1) - 1 = i
        BY <1>10, <3>1
      <4> QED BY <4>1
    <3>2. CASE i = p
      <4>1. i <= p /\ ~(i + 1 <= p) /\ (i + 1) - p - 1 = 0
        BY <1>10, <3>2
      <4> QED BY <1>1, <1>12, <1>13, <3>2, <4>1
    <3>3. CASE i > p
      <4>1. ~(i <= p) /\ ~(i + 1 <= p) /\ (i + 1) - p - 1 = i - p
        BY <1>10, <3>3
      <4> QED BY <4>1
    <3> QED BY <1>10, <3>1, <3>2, <3>3
  <2> QED BY <2>1, <2>2, <2>3
<1> HIDE DEF From, Next, A, B, p, q, pages, upper, lower
<1>16. \E from \in [DOMAIN pages -> 0..L] :
         /\ from[1] = 0
         /\ \A i \in DOMAIN pages :
              LET next == IF i < Len(pages) THEN from[i + 1] ELSE L
              IN  pages[i] = SubSeq(data, from[i] + 1, next)
  <2> DEFINE from == [i \in 1..(p + q) |-> From(i)]
  <2>1. from \in [DOMAIN pages -> 0..L]
    BY <1>11, <1>14
  <2>2. from[1] = 0
    BY <1>10, <1>15
  <2>3. ASSUME NEW i \in 1..(p + q)
        PROVE  (IF i < Len(pages) THEN from[i + 1] ELSE L) = Next(i) /\ from[i] = From(i)
    <3>1. i < p + q => i + 1 \in 1..(p + q)
      BY <1>10
    <3>2. ~(i < p + q) => i = p + q
      BY <1>10
    <3> QED BY <1>11, <1>15, <3>1, <3>2
  <2> HIDE DEF from
  <2> QED BY <1>11, <1>14, <2>1, <2>2, <2>3
<1>17. ASSUME NEW i \in DOMAIN pages
       PROVE  /\ Len(pages[i]) \in 1..size /\ DOMAIN pages[i] = 1..Len(pages[i])
              /\ \A s \in DOMAIN pages[i] : IsMain(pages[i][s]) <=> i <= p
  <2>1. /\ From(i) \in 0..L /\ Next(i) \in From(i)..L /\ From(i) < Next(i) /\ Next(i) - From(i) <= size
        /\ i <= p => Next(i) <= n
        /\ i > p => From(i) >= n
        /\ pages[i] = SubSeq(data, From(i) + 1, Next(i))
    BY <1>1, <1>11, <1>14
  <2>2. /\ pages[i] \in Seq(Sponsors) /\ Len(pages[i]) = Next(i) - From(i)
        /\ \A k \in 1..(Next(i) - From(i)) : pages[i][k] = data[From(i) + k]
    BY <2>1, StretchOf
  <2>3. DOMAIN pages[i] = 1..(Next(i) - From(i)) /\ Next(i) - From(i) \in 1..size
    <3>1. DOMAIN pages[i] = 1..Len(pages[i])
      BY <2>2, LenProperties
    <3> QED BY <1>1, <2>1, <2>2, <3>1
  <2>4. ASSUME NEW s \in 1..(Next(i) - From(i))
        PROVE  IsMain(pages[i][s]) <=> i <= p
    <3>1. From(i) + s \in 1..L
      BY <1>1, <2>1
    <3>2. CASE i <= p
      <4>1. From(i) + s <= n
        BY <1>1, <2>1, <3>2
      <4> QED BY <1>3, <2>2, <3>1, <3>2, <4>1
    <3>3. CASE ~(i <= p)
      <4>1. i > p
        BY <1>10, <1>11, <3>3
      <4>2. ~(From(i) + s <= n)
        BY <1>1, <2>1, <4>1
      <4> QED BY <1>3, <2>2, <3>1, <3>3, <4>2
    <3> QED BY <3>2, <3>3
  <2> QED BY <2>2, <2>3, <2>4
<1>18. ASSUME NEW i \in DOMAIN pages, NEW j \in 1..i
       PROVE  IsMain(pages[i][1]) => IsMain(pages[j][1])
  <2>1. j \in DOMAIN pages /\ (i <= p => j <= p)
    BY <1>10, <1>11
  <2>2. 1 \in DOMAIN pages[i] /\ 1 \in DOMAIN pages[j]
    BY <1>17, <2>1
  <2> QED BY <1>17, <2>1, <2>2
<1>19. pages # <<>>
  BY <1>10, <1>11
<1>20. ASSUME NEW i \in DOMAIN pages, NEW s \in DOMAIN pages[i], NEW t \in DOMAIN pages[i]
       PROVE  IsMain(pages[i][s]) = IsMain(pages[i][t])
  <2>1. IsMain(pages[i][s]) <=> IsMain(pages[i][t])
    BY <1>17
  <2> QED BY <2>1 DEF IsMain
<1>21. SetsOf(data, size, pages)
  BY <1>11, <1>16, <1>17, <1>18, <1>19, <1>20 DEF SetsOf
<1> QED BY <1>21 DEF pages
-----------------------------------------------------------------------------
\* A timer runs only over sets, and the list that made them is sorted.
TimersHaveSets == (rotating \/ fadePending) => bannerPages # <<>>

BarInv ==
  /\ BarTypeOK /\ BarShowsASet
  /\ MainsAhead(sponsorData) /\ TimersHaveSets
  /\ asked => sponsorData = <<>>

\* Any listing the sort may leave is a list of sponsors with the mains ahead.
LEMMA ListingsAreSorted ==
  ASSUME NEW live \in LiveLists, NEW s \in Listings(live)
  PROVE  s \in Seq(Sponsors) /\ MainsAhead(s)
<1>1. live \subseteq Sponsors /\ IsFiniteSet(live)
  BY DEF LiveLists
<1>2. Cardinality(live) \in Nat
  BY <1>1, FS_CardinalityType
<1>3. /\ s \in [1..Cardinality(live) -> live]
      /\ \A i, j \in DOMAIN s : i < j => s[i] # s[j] /\ ~ShownEarlier(s[j], s[i])
  BY DEF Listings
<1>4. s \in Seq(Sponsors)
  BY <1>1, <1>2, <1>3
<1>5. ASSUME NEW i \in DOMAIN s, NEW j \in DOMAIN s, i < j, IsMain(s[j])
      PROVE  IsMain(s[i])
  <2>1. ~ShownEarlier(s[j], s[i]) /\ s[i] \in Sponsors /\ s[j] \in Sponsors
    BY <1>1, <1>3, <1>5
  <2>2. s[i].tier \in Nat \ {0} /\ s[j].tier = 1
    BY <1>5, <2>1, SponsorBarAssumption DEF SponsorBarAssumption, Sponsors, IsMain
  <2> QED BY <2>1, <2>2 DEF ShownEarlier, IsMain
<1> QED BY <1>4, <1>5 DEF MainsAhead

\* startBanner shows the first of the new sets, and leaves a pending fade pending.
LEMMA StartBannerShows ==
  ASSUME BarInv, NEW size \in Nat \ {0},
         sponsorData' \in Seq(Sponsors), MainsAhead(sponsorData'),
         sponsorData' = <<>> => bannerPages = <<>>,
         slots' = size, StartBanner(sponsorData', size)
  PROVE  /\ BarShowsASet' /\ TimersHaveSets'
         /\ track' \in Seq(Sponsors) /\ bannerPages' \in Seq(Seq(Sponsors)) /\ bannerIdx' \in Nat
         /\ rotating' \in BOOLEAN /\ fadePending' \in BOOLEAN /\ fading' \in BOOLEAN
<1>1. /\ bannerIdx' = 0
      /\ rotating' = (sponsorData' # <<>> /\ Len(bannerPages') > 1)
      /\ fadePending' = fadePending /\ fading' = fading
  BY DEF StartBanner
<1>2. FadeIsTimed' /\ fadePending' \in BOOLEAN /\ fading' \in BOOLEAN /\ rotating' \in BOOLEAN
  BY <1>1 DEF BarInv, BarTypeOK, BarShowsASet, FadeIsTimed
<1>3. CASE sponsorData' = <<>>
  <2>1. bannerPages = <<>> /\ bannerPages' = <<>> /\ track' = <<>>
    BY <1>3 DEF StartBanner
  <2>2. TrackIsCurrentSet'
    BY <2>1 DEF TrackIsCurrentSet
  <2>3. SetsAreByTier'
    <3>1. DOMAIN (bannerPages') = {}
      BY <2>1
    <3> QED BY <1>3, <2>1, <3>1 DEF SetsAreByTier, SetsAreConsecutive
  <2>4. TimersHaveSets'
    <3>1. ~fadePending
      BY <2>1 DEF BarInv, TimersHaveSets
    <3> QED BY <1>1, <1>3, <3>1 DEF TimersHaveSets
  <2>5. track' \in Seq(Sponsors) /\ bannerPages' \in Seq(Seq(Sponsors)) /\ bannerIdx' \in Nat
    BY <1>1, <2>1
  <2> QED BY <1>2, <2>2, <2>3, <2>4, <2>5 DEF BarShowsASet
<1>4. CASE sponsorData' # <<>>
  <2>1. SetsOf(sponsorData', size, bannerPages')
    <3>1. bannerPages' = PagesOf(sponsorData', size)
      BY <1>4 DEF StartBanner
    <3> QED BY <1>4, <3>1, PagesAreSets
  <2>2. track' = bannerPages'[1]
    BY <1>4 DEF StartBanner
  <2>3. bannerPages' \in Seq(Seq(Sponsors)) /\ bannerPages' # <<>> /\ Len(bannerPages') \in Nat \ {0}
    BY <2>1, EmptySeq DEF SetsOf
  <2>4. track' \in Seq(Sponsors)
    BY <2>2, <2>3, ElementOfSeq
  <2>5. TrackIsCurrentSet'
    BY <1>1, <2>2, <2>3 DEF TrackIsCurrentSet
  <2>6. SetsAreByTier'
    BY <1>4, <2>1 DEF SetsOf, SetsAreByTier, SetsAreConsecutive
  <2>7. TimersHaveSets'
    BY <2>3 DEF TimersHaveSets
  <2> QED BY <1>1, <1>2, <2>3, <2>4, <2>5, <2>6, <2>7 DEF BarShowsASet
<1> QED BY <1>3, <1>4

LEMMA SlotsArePositive == NarrowSlots \in Nat \ {0} /\ WideSlots \in Nat \ {0}
BY SponsorBarAssumption DEF SponsorBarAssumption

LEMMA BarInitInv == BarInit => BarInv
<1> SUFFICES ASSUME BarInit PROVE BarInv
  OBVIOUS
<1>1. DOMAIN sponsorData = {} /\ DOMAIN bannerPages = {} /\ sponsorData = <<>> /\ bannerPages = <<>>
  BY DEF BarInit
<1>2. BarTypeOK
  <2>1. <<>> \in Seq(Sponsors) /\ <<>> \in Seq(Seq(Sponsors))
    BY EmptySeq
  <2>2. /\ slots \in {NarrowSlots, WideSlots} /\ bannerIdx = 0 /\ track = <<>>
        /\ rotating \in BOOLEAN /\ fadePending \in BOOLEAN /\ fading \in BOOLEAN /\ asked \in BOOLEAN
    BY DEF BarInit
  <2> QED BY <1>1, <2>1, <2>2 DEF BarTypeOK
<1>3. BarShowsASet
  BY <1>1 DEF BarInit, BarShowsASet, TrackIsCurrentSet, FadeIsTimed, SetsAreByTier, SetsAreConsecutive
<1>4. MainsAhead(sponsorData) /\ TimersHaveSets
  BY <1>1 DEF BarInit, MainsAhead, TimersHaveSets
<1> QED BY <1>1, <1>2, <1>3, <1>4 DEF BarInv

\* The answer.
LEMMA LoadedPreserves ==
  ASSUME BarInv, NEW live \in LiveLists, SponsorsLoaded(live)
  PROVE  BarInv'
<1>1. /\ asked /\ asked' = FALSE /\ sponsorData' \in Listings(live)
      /\ StartBanner(sponsorData', slots) /\ slots' = slots
  BY DEF SponsorsLoaded
<1>2. sponsorData' \in Seq(Sponsors) /\ MainsAhead(sponsorData')
  BY <1>1, ListingsAreSorted
<1>3. slots \in Nat \ {0} /\ slots \in {NarrowSlots, WideSlots}
  BY SlotsArePositive DEF BarInv, BarTypeOK
<1>4. bannerPages = <<>>
  <2>1. sponsorData = <<>>
    BY <1>1 DEF BarInv
  <2> QED BY <2>1 DEF BarInv, BarShowsASet, SetsAreByTier
<1>5. /\ BarShowsASet' /\ TimersHaveSets'
      /\ track' \in Seq(Sponsors) /\ bannerPages' \in Seq(Seq(Sponsors)) /\ bannerIdx' \in Nat
      /\ rotating' \in BOOLEAN /\ fadePending' \in BOOLEAN /\ fading' \in BOOLEAN
  BY <1>1, <1>2, <1>3, <1>4, StartBannerShows
<1> QED BY <1>1, <1>2, <1>3, <1>5 DEF BarInv, BarTypeOK

\* The breakpoint, with a fade pending or not.
LEMMA ResizePreserves ==
  ASSUME BarInv, Resize
  PROVE  BarInv'
<1>1. /\ slots' \in {NarrowSlots, WideSlots}
      /\ StartBanner(sponsorData, slots') /\ sponsorData' = sponsorData /\ asked' = asked
  BY DEF Resize
<1>2. /\ sponsorData' \in Seq(Sponsors) /\ MainsAhead(sponsorData')
      /\ sponsorData' = <<>> => bannerPages = <<>>
      /\ asked' \in BOOLEAN /\ (asked' => sponsorData' = <<>>)
  BY <1>1 DEF BarInv, BarTypeOK, BarShowsASet, SetsAreByTier
<1>3. slots' \in Nat \ {0}
  BY <1>1, SlotsArePositive
<1>4. /\ BarShowsASet' /\ TimersHaveSets'
      /\ track' \in Seq(Sponsors) /\ bannerPages' \in Seq(Seq(Sponsors)) /\ bannerIdx' \in Nat
      /\ rotating' \in BOOLEAN /\ fadePending' \in BOOLEAN /\ fading' \in BOOLEAN
  BY <1>1, <1>2, <1>3, StartBannerShows
<1> QED BY <1>1, <1>2, <1>4 DEF BarInv, BarTypeOK

\* The next set, of whatever sets there are when the fade ends.
LEMMA FadePreserves ==
  ASSUME BarInv, FadeOver
  PROVE  BarInv'
<1>1. /\ fadePending /\ fadePending' = FALSE /\ fading' = FALSE
      /\ bannerIdx' = (bannerIdx + 1) % Len(bannerPages) /\ track' = bannerPages[bannerIdx' + 1]
      /\ UNCHANGED <<sponsorData, bannerPages, slots, rotating, asked, resizes>>
  BY DEF FadeOver
<1>2. bannerPages \in Seq(Seq(Sponsors)) /\ Len(bannerPages) \in Nat \ {0} /\ bannerIdx \in Nat
  BY <1>1, EmptySeq DEF BarInv, BarTypeOK, TimersHaveSets
<1>3. bannerIdx' \in Nat /\ bannerIdx' < Len(bannerPages)
  BY <1>1, <1>2
<1>4. track' \in Seq(Sponsors)
  BY <1>1, <1>2, <1>3, ElementOfSeq
<1>5. SetsAreByTier'
  BY <1>1 DEF BarInv, BarShowsASet, SetsAreByTier, SetsAreConsecutive
<1>6. TrackIsCurrentSet' /\ FadeIsTimed'
  BY <1>1, <1>3 DEF TrackIsCurrentSet, FadeIsTimed
<1>7. BarTypeOK'
  BY <1>1, <1>3, <1>4 DEF BarInv, BarTypeOK
<1> QED BY <1>1, <1>5, <1>6, <1>7 DEF BarInv, BarShowsASet, TimersHaveSets

LEMMA BarNextInv == BarInv /\ [BarNext]_barVars => BarInv'
<1> SUFFICES ASSUME BarInv, [BarNext]_barVars PROVE BarInv'
  OBVIOUS
<1>1. CASE Rotate \/ SponsorsFailed \/ UNCHANGED barVars
  <2>1. /\ UNCHANGED <<sponsorData, bannerPages, bannerIdx, track, slots, rotating>>
        /\ fadePending' \in BOOLEAN /\ fading' \in BOOLEAN /\ asked' \in BOOLEAN
        /\ (asked' => asked) /\ (fading' => fadePending') /\ (fadePending' => fadePending \/ rotating)
    <3>1. CASE Rotate
      BY <3>1 DEF Rotate, BarInv, BarTypeOK
    <3>2. CASE SponsorsFailed
      BY <3>2 DEF SponsorsFailed, BarInv, BarTypeOK, BarShowsASet, FadeIsTimed
    <3>3. CASE UNCHANGED barVars
      BY <3>3 DEF barVars, BarInv, BarTypeOK, BarShowsASet, FadeIsTimed
    <3> QED BY <1>1, <3>1, <3>2, <3>3
  <2>2. SetsAreByTier'
    BY <2>1 DEF BarInv, BarShowsASet, SetsAreByTier, SetsAreConsecutive
  <2>3. TrackIsCurrentSet' /\ FadeIsTimed' /\ TimersHaveSets'
    BY <2>1 DEF BarInv, BarShowsASet, TrackIsCurrentSet, FadeIsTimed, TimersHaveSets
  <2>4. BarTypeOK'
    BY <2>1 DEF BarInv, BarTypeOK
  <2>5. MainsAhead(sponsorData') /\ (asked' => sponsorData' = <<>>)
    BY <2>1 DEF BarInv
  <2> QED BY <2>2, <2>3, <2>4, <2>5 DEF BarInv, BarShowsASet
<1>2. CASE \E live \in LiveLists : SponsorsLoaded(live)
  BY <1>2, LoadedPreserves
<1>3. CASE Resize
  BY <1>3, ResizePreserves
<1>4. CASE FadeOver
  BY <1>4, FadePreserves
<1> QED BY <1>1, <1>2, <1>3, <1>4 DEF BarNext
THEOREM BarInvariant == BarSpec => []BarInv
BY BarInitInv, BarNextInv, PTL DEF BarSpec

\* Everything sponsorbar.js keeps has its type.
THEOREM BarTypeCorrect == BarSpec => []BarTypeOK
<1>1. BarInv => BarTypeOK
  BY DEF BarInv
<1> QED BY <1>1, BarInvariant, PTL

\* For any sponsors, tiers, sizes of a set and number of resizes: the bar shows a
\* set, a fade ends, and the sets are the sorted list cut by tier.
THEOREM BarStaysTrue == BarSpec => []BarShowsASet
<1>1. BarInv => BarShowsASet
  BY DEF BarInv
<1> QED BY <1>1, BarInvariant, PTL
===============================================================================
