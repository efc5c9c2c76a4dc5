------------------------------- MODULE FeeChart -------------------------------
(***************************************************************************)
(* feechart.js: the fee history of a coin page.  Built like the price      *)
(* chart, with one selection (the range) and another idea of "no data":    *)
(* fewer than two points draw no line and show a notice instead.           *)
(***************************************************************************)
EXTENDS Page, Integers

CONSTANTS
  FeeRanges,     \* the range buttons, as numbers in their ascending order
  FeeDefault,    \* "1d"
  NoFeeChart,
  MaxFeeLoads    \* bound: requests started

ASSUME FeeChartAssumption ==
  /\ FeeRanges \subseteq Int /\ FeeDefault \in FeeRanges
  /\ \A S \in SUBSET FeeRanges : S # {} => \E r \in S : \A s \in S : s <= r
  /\ MaxFeeLoads \in Nat

VARIABLES
  feeRange,      \* currentRange
  feeLit,        \* the range button with chart-range-active
  feeOffered,    \* the range buttons not hidden
  feeLoads,      \* requests in flight
  feeSeq,        \* loadSeq
  feeOverlay,    \* the loading overlay is up
  feeChart,      \* what the Chart object shows
  feeNotice,     \* the points the "still collecting" notice counts, 2 when it is hidden
  feeHidden,     \* the whole section is hidden
  feeHadData     \* everHadData

feeVars == <<visible, feeRange, feeLit, feeOffered, feeLoads, feeSeq, feeOverlay,
             feeChart, feeNotice, feeHidden, feeHadData>>

Points == 0..2   \* none, one, two or more
FeeRequests == [seq : Nat, of : FeeRanges]
FeePictures == [of : FeeRanges, points : Points]

ASSUME NoFeeChartAssumption == NoFeeChart \notin FeePictures

NewestFee(l) == l.seq = feeSeq
FeeAwaited == \E l \in feeLoads : NewestFee(l)
LongestFee(S) == CHOOSE r \in S : \A s \in S : s <= r

\* load(showSpinner) up to its fetch, asking for range r.
FeeLoad(r, inFlight, spinner) ==
  /\ feeSeq < MaxFeeLoads
  /\ feeSeq' = feeSeq + 1
  /\ feeLoads' = inFlight \cup {[seq |-> feeSeq + 1, of |-> r]}
  /\ feeOverlay' = (feeOverlay \/ spinner)

FeeDrawn == <<feeChart, feeNotice, feeHidden, feeHadData>>

FeeInit ==
  /\ visible = TRUE
  /\ feeRange = FeeDefault /\ feeLit = FeeDefault
  /\ feeOffered = FeeRanges
  /\ feeLoads = {[seq |-> 1, of |-> FeeDefault]} /\ feeSeq = 1
  /\ feeOverlay = FALSE
  /\ feeChart = NoFeeChart /\ feeNotice = 2
  /\ feeHidden = TRUE /\ feeHadData = FALSE

FeeTimer ==
  /\ visible
  /\ FeeLoad(feeRange, feeLoads, FALSE)
  /\ UNCHANGED <<visible, feeRange, feeLit, feeOffered, FeeDrawn>>

FeeTabShown ==
  /\ TabShown
  /\ FeeLoad(feeRange, feeLoads, FALSE)
  /\ UNCHANGED <<feeRange, feeLit, feeOffered, FeeDrawn>>

FeeTabHidden ==
  /\ TabHidden
  /\ UNCHANGED <<feeRange, feeLit, feeOffered, feeLoads, feeSeq, feeOverlay, FeeDrawn>>

ClickFeeRange(r) ==
  /\ ~feeHidden
  /\ r \in feeOffered \ {feeRange}
  /\ feeRange' = r /\ feeLit' = r
  /\ FeeLoad(r, feeLoads, TRUE)
  /\ UNCHANGED <<visible, feeOffered, FeeDrawn>>

\* Faulty variant: any point at all hides the notice for good.
RenderFeeOnce(l, points) ==
  /\ feeHidden' = FALSE
  /\ feeHadData' = (feeHadData \/ points = 2)
  /\ feeNotice' = IF points > 0 THEN 2 ELSE feeNotice
  /\ feeChart' = [of |-> l.of, points |-> points]

\* render, without applyAvailableRanges.
RenderFee(l, points) ==
  /\ feeHidden' = FALSE
  /\ feeHadData' = (feeHadData \/ points = 2)
  /\ feeNotice' = points
  /\ feeChart' = [of |-> l.of, points |-> points]

\* The newest request's answer, its range still available.
FeeAnswered(l, points, available) ==
  /\ l \in feeLoads /\ NewestFee(l)
  /\ available # {} => feeRange \in available
  /\ feeOffered' = IF available = {} THEN feeOffered ELSE available
  /\ RenderFee(l, points)
  /\ feeLoads' = feeLoads \ {l}
  /\ feeOverlay' = FALSE
  /\ UNCHANGED <<visible, feeRange, feeLit, feeSeq>>

\* Faulty variant: the range moves without a request for it.
FeeFallsBackQuietly(l, points, available) ==
  /\ l \in feeLoads /\ NewestFee(l)
  /\ available # {} /\ feeRange \notin available
  /\ feeOffered' = available
  /\ feeRange' = LongestFee(available) /\ feeLit' = feeRange'
  /\ feeLoads' = feeLoads \ {l}
  /\ feeOverlay' = FALSE
  /\ RenderFee(l, points)
  /\ UNCHANGED <<visible, feeSeq>>

\* Faulty variant: the range moves, its button does not.
FeeFallsBackUnlit(l, points, available) ==
  /\ l \in feeLoads /\ NewestFee(l)
  /\ available # {} /\ feeRange \notin available
  /\ feeOffered' = available
  /\ feeRange' = LongestFee(available)
  /\ FeeLoad(LongestFee(available), feeLoads \ {l}, FALSE)
  /\ RenderFee(l, points)
  /\ UNCHANGED <<visible, feeLit>>

\* Its range is gone: the longest one is asked for, inside render.
FeeFallsBack(l, points, available) ==
  /\ l \in feeLoads /\ NewestFee(l)
  /\ available # {} /\ feeRange \notin available
  /\ feeOffered' = available
  /\ feeRange' = LongestFee(available) /\ feeLit' = feeRange'
  /\ FeeLoad(LongestFee(available), feeLoads \ {l}, FALSE)
  /\ RenderFee(l, points)
  /\ UNCHANGED visible

\* A request that is not the newest, however it ends.
FeeSuperseded(l) ==
  /\ l \in feeLoads /\ ~NewestFee(l)
  /\ feeLoads' = feeLoads \ {l}
  /\ UNCHANGED <<visible, feeRange, feeLit, feeOffered, feeSeq, feeOverlay, FeeDrawn>>

FeeFailed(l) ==
  /\ l \in feeLoads /\ NewestFee(l)
  /\ feeLoads' = feeLoads \ {l}
  /\ feeOverlay' = FALSE
  /\ UNCHANGED <<visible, feeRange, feeLit, feeOffered, feeSeq, FeeDrawn>>

\* { enabled: false }: no database.
FeeDisabled(l) ==
  /\ l \in feeLoads /\ NewestFee(l)
  /\ feeLoads' = feeLoads \ {l}
  /\ feeOverlay' = FALSE
  /\ feeHidden' = (feeHidden \/ ~feeHadData)
  /\ UNCHANGED <<visible, feeRange, feeLit, feeOffered, feeSeq, feeChart, feeNotice, feeHadData>>

FeeRequestOver(l) ==
  \/ \E points \in Points, available \in SUBSET FeeRanges :
       FeeAnswered(l, points, available) \/ FeeFallsBack(l, points, available)
  \/ FeeSuperseded(l) \/ FeeFailed(l) \/ FeeDisabled(l)

FeeAlone ==
  \/ FeeTimer
  \/ \E r \in FeeRanges : ClickFeeRange(r)
  \/ \E l \in feeLoads : FeeRequestOver(l)

FeeNext == FeeAlone \/ FeeTabShown \/ FeeTabHidden

FeeSpec == FeeInit /\ [][FeeNext]_feeVars

(***************************************************************************)
(* Properties.                                                             *)
(***************************************************************************)
\* Types of everything feechart.js keeps.
FeeTypeOK ==
  /\ visible \in BOOLEAN
  /\ feeRange \in FeeRanges /\ feeLit \in FeeRanges /\ feeOffered \subseteq FeeRanges
  /\ feeLoads \subseteq FeeRequests /\ feeSeq \in Nat
  /\ feeOverlay \in BOOLEAN
  /\ feeChart \in FeePictures \cup {NoFeeChart}
  /\ feeNotice \in Points
  /\ feeHidden \in BOOLEAN /\ feeHadData \in BOOLEAN

\* The "still collecting" notice and the canvas speak of the same answer, through
\* refreshes, range changes and outages: a line of two points never lies under
\* the notice, and a chart without one never stands without it.
NoticeMatchesLine == feeChart # NoFeeChart => feeNotice = feeChart.points

\* The highlighted range is always the one asked for: no pair tabs reset it here.
FeeLitIsAsked ==
  /\ feeLit = feeRange
  /\ \A l \in feeLoads : NewestFee(l) => l.of = feeRange
  /\ \A l \in feeLoads : l.seq <= feeSeq

\* Notice, line, button and newest request of the fee chart fit together.
FeeChartIsTrue == NoticeMatchesLine /\ FeeLitIsAsked

FW == INSTANCE LatestWins
  WITH Selections <- FeeRanges, Nothing <- NoFeeChart, selection <- feeRange,
       picture <- IF feeChart = NoFeeChart THEN NoFeeChart ELSE feeChart.of,
       awaited <- FeeAwaited

\* The fee chart keeps the price chart's promise: it draws only the answer to
\* its newest request, for the range its controls stand at.
FeeImplementsLatestWins == FW!Spec
===============================================================================
