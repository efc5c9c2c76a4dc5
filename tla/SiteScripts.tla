----------------------------- MODULE SiteScripts -----------------------------
(***************************************************************************)
(* The scripts of the site, in one open tab.  A behaviour looks at one     *)
(* part of one page.  On an exchange page the price cards and the chart    *)
(* move together: the rate selector announces itself to the chart, and     *)
(* both listen to the tab's visibility.  The other parts meet only at a    *)
(* value another script hands over (the rate type, the market price),      *)
(* which their own modules let change at any moment.                       *)
(***************************************************************************)
EXTENDS Page, BoardClient, Converter, PriceChart, ExchangeCards, FeeChart, NetFee, Millionaire, SponsorBar

CONSTANT ExchangeLoads  \* bound: the chart's requests on an exchange page

VARIABLE part  \* what is looked at

Parts == {"board", "converter", "chart", "exchange", "fee chart", "fee block", "millionaire", "bar"}

boardOwn == <<refreshVars, lastStats, tableVars, sortBy, heroVars, sponsorVars>>
chartOwn == <<pair, range, lit, offered, loads, loadSeq, overlay, chart,
              hidden, everHadData, off>>
cardsOwn == <<currentRate, last, shown, flash, flashTimer, polls, checking, badge, outLink>>
feeOwn == <<feeRange, feeLit, feeOffered, feeLoads, feeSeq, feeOverlay, feeChart,
            feeNotice, feeHidden, feeHadData>>
netOwn == <<grid, arrow, prev, stamped, feePolls>>
mmOwn == <<needed, then, change, lastPoint, mmPolls>>

siteVars == <<part, rateType, visible, boardOwn, convVars, chartOwn, cardsOwn,
              feeOwn, netOwn, mmOwn, barVars>>

AnyOf(S) == CHOOSE x \in S : TRUE

\* What the visitor finds differs only in the part that is looked at.
SiteInit ==
  /\ part \in Parts
  /\ BoardInit /\ ConvInit /\ ChartInit /\ CardsInit
  /\ FeeInit /\ NetInit /\ MmInit /\ BarInit
  /\ part # "chart" => pair = AnyOf(Pairs) /\ ~hidden
  /\ part \notin {"chart", "exchange"} => rateType = AnyOf(Rates)
  /\ part # "exchange" => last = [c \in Cards |-> [r \in Rates |-> NoQuote]]
  /\ part # "converter" => quote = NoMarket
  /\ part # "fee block" => grid = [t \in Tiers |-> AnyOf(Fees)]
  /\ part # "millionaire" => needed = NoAmount /\ then = [k \in Days |-> NoAmount]
  /\ part # "bar" => slots = NarrowSlots

BoardPart ==
  /\ part = "board" /\ BoardNext
  /\ UNCHANGED <<part, rateType, visible, convVars, chartOwn, cardsOwn, feeOwn, netOwn, mmOwn, barVars>>

ConverterPart ==
  /\ part = "converter" /\ ConvNext
  /\ UNCHANGED <<part, rateType, visible, boardOwn, chartOwn, cardsOwn, feeOwn, netOwn, mmOwn, barVars>>

ChartPart ==
  /\ part = "chart" /\ ChartNext
  /\ UNCHANGED <<part, boardOwn, convVars, cardsOwn, feeOwn, netOwn, mmOwn, barVars>>

\* exchangepage.js and pricechart.js; the chart's legend, which meets nothing of
\* the cards, is left to ChartPart.
ExchangePage ==
  /\ part = "exchange"
  /\ \/ ChartAlone /\ UNCHANGED cardsOwn
     \/ CardsAlone /\ UNCHANGED chartOwn
     \/ \E r \in Rates : PickRate(r) /\ ChartRate(r)
     \/ CardsTabShown /\ ChartTabShown
     \/ CardsTabHidden /\ ChartHidesTab
  /\ loadSeq' <= ExchangeLoads /\ off' = off
  /\ UNCHANGED <<part, boardOwn, convVars, feeOwn, netOwn, mmOwn, barVars>>

FeeChartPart ==
  /\ part = "fee chart" /\ FeeNext
  /\ UNCHANGED <<part, rateType, boardOwn, convVars, chartOwn, cardsOwn, netOwn, mmOwn, barVars>>

FeeBlockPart ==
  /\ part = "fee block" /\ NetNext
  /\ UNCHANGED <<part, rateType, boardOwn, convVars, chartOwn, cardsOwn, feeOwn, mmOwn, barVars>>

MillionairePage ==
  /\ part = "millionaire" /\ MmNext
  /\ UNCHANGED <<part, rateType, boardOwn, convVars, chartOwn, cardsOwn, feeOwn, netOwn, barVars>>

BarPart ==
  /\ part = "bar" /\ BarNext
  /\ UNCHANGED <<part, rateType, visible, boardOwn, convVars, chartOwn, cardsOwn, feeOwn, netOwn, mmOwn>>

SiteNext ==
  \/ BoardPart \/ ConverterPart \/ ChartPart \/ ExchangePage
  \/ FeeChartPart \/ FeeBlockPart \/ MillionairePage \/ BarPart

\* The browser ends every fetch and fires every timer of the part looked at.
SiteFairness ==
  /\ WF_chartVars(part \in {"chart", "exchange"} /\ \E l \in loads : RequestOver(l))
  /\ WF_barVars(part = "bar" /\ Rotate)
  /\ WF_barVars(part = "bar" /\ FadeOver)

SiteSpec == SiteInit /\ [][SiteNext]_siteVars /\ SiteFairness

(***************************************************************************)
(* Properties.                                                             *)
(***************************************************************************)
\* Types of everything the scripts keep.
SiteTypeOK ==
  /\ part \in Parts
  /\ BoardTypeOK /\ ConvTypeOK /\ ChartTypeOK /\ CardsTypeOK
  /\ FeeTypeOK /\ NetTypeOK /\ MmTypeOK /\ BarTypeOK
==============================================================================
