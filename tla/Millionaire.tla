----------------------------- MODULE Millionaire -----------------------------
(***************************************************************************)
(* millionaire.js: the XMR needed for 1,000,000 USDT, the cards that       *)
(* compare it with earlier days, and the 90-day chart.  An answer without  *)
(* a live price keeps the number on screen and updates the rest.           *)
(***************************************************************************)
EXTENDS Page, Integers

CONSTANTS
  Days,       \* the comparison cards
  Amounts,    \* XMR amounts
  NoAmount,   \* null: no live price, or no history that far back
  MaxMmPolls  \* bound: requests in flight

ASSUME MillionaireAssumption == Amounts \subseteq Int /\ MaxMmPolls \in Nat

VARIABLES
  needed,    \* the headline number, in the tab's title too
  then,      \* what each card says was needed
  change,    \* what each card says of the difference
  lastPoint, \* the live point at the end of the chart
  mmPolls

mmVars == <<visible, needed, then, change, lastPoint, mmPolls>>

\* A snapshot of MillionaireService: every card, its past amount or none.
Snapshots == [xmr : Amounts \cup {NoAmount}, past : [Days -> Amounts \cup {NoAmount}]]

\* Faulty variant: a card is compared with the answer although it has no live price.
CompareAlways(x, p) ==
  IF p = NoAmount THEN "none"
  ELSE IF x # NoAmount /\ x = p THEN "same"
  ELSE IF x # NoAmount /\ x > p THEN "more" ELSE "fewer"

\* The words of a card: nothing unless both amounts are known.
Compare(x, p) ==
  IF x = NoAmount \/ p = NoAmount THEN "none"
  ELSE IF x > p THEN "more" ELSE IF x < p THEN "fewer" ELSE "same"

\* render and drawChart.
Paint(d) ==
  /\ needed' = IF d.xmr = NoAmount THEN needed ELSE d.xmr
  /\ then' = d.past
  /\ change' = [k \in Days |-> Compare(d.xmr, d.past[k])]
  /\ lastPoint' = d.xmr

\* The first paint, from the snapshot in the page.
MmInit ==
  /\ visible = TRUE
  /\ \E d \in Snapshots :
       /\ needed = d.xmr /\ lastPoint = d.xmr
       /\ then = d.past
       /\ change = [k \in Days |-> Compare(d.xmr, d.past[k])]
  /\ mmPolls = 0

MmPoll ==
  /\ mmPolls < MaxMmPolls
  /\ mmPolls' = mmPolls + 1

MmTimer ==
  /\ visible
  /\ MmPoll
  /\ UNCHANGED <<visible, needed, then, change, lastPoint>>

MmTabShown ==
  /\ TabShown
  /\ MmPoll
  /\ UNCHANGED <<needed, then, change, lastPoint>>

MmTabHidden ==
  /\ TabHidden
  /\ UNCHANGED <<needed, then, change, lastPoint, mmPolls>>

MmAnswered(d) ==
  /\ mmPolls > 0
  /\ mmPolls' = mmPolls - 1
  /\ Paint(d)
  /\ UNCHANGED visible

\* "Keep showing the last values."
MmUnanswered ==
  /\ mmPolls > 0
  /\ mmPolls' = mmPolls - 1
  /\ UNCHANGED <<visible, needed, then, change, lastPoint>>

MmNext ==
  \/ MmTimer \/ MmTabShown \/ MmTabHidden
  \/ \E d \in Snapshots : MmAnswered(d)
  \/ MmUnanswered

MmSpec == MmInit /\ [][MmNext]_mmVars

(***************************************************************************)
(* Properties.                                                             *)
(***************************************************************************)
\* Types of everything millionaire.js shows.
MmTypeOK ==
  /\ needed \in Amounts \cup {NoAmount} /\ lastPoint \in Amounts \cup {NoAmount}
  /\ then \in [Days -> Amounts \cup {NoAmount}]
  /\ change \in [Days -> {"none", "more", "fewer", "same"}]
  /\ mmPolls \in 0..MaxMmPolls

\* Whatever mix of answers with and without a live price and with and without
\* history has arrived: what a card says of "now" and the last point of the
\* chart are true of the number on screen.
SaysWhatItShows ==
  /\ \A k \in Days : change[k] # "none" => change[k] = Compare(needed, then[k])
  /\ lastPoint # NoAmount => lastPoint = needed
==============================================================================
