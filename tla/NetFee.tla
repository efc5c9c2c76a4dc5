-------------------------------- MODULE NetFee --------------------------------
(***************************************************************************)
(* netfee.js: the fee block of a coin page.  Polls overlap and carry no    *)
(* number, so an answer may be rendered after a newer one was; each tier   *)
(* is compared with the answer rendered before it.                         *)
(***************************************************************************)
EXTENDS Page, Integers

CONSTANTS
  Tiers,        \* the labels the page was rendered with
  Fees,         \* amounts
  NoFee,        \* the tier is not on the page
  MaxFeePolls   \* bound: requests in flight

ASSUME NetFeeAssumption == Fees \subseteq Int /\ MaxFeePolls \in Nat \ {0}

VARIABLES
  grid,      \* the amount each tier shows
  arrow,     \* the arrow beside it
  prev,      \* the baseline of the next comparison
  stamped,   \* the grid lastUpdatedMs belongs to
  feePolls   \* requests in flight

netVars == <<visible, grid, arrow, prev, stamped, feePolls>>

Grids == [Tiers -> Fees \cup {NoFee}]
Arrows == {"none", "up", "down"}

\* The script seeds its baseline from the server-rendered values.
NetInit ==
  /\ visible = TRUE
  /\ grid \in [Tiers -> Fees] /\ prev = grid /\ stamped = grid
  /\ arrow = [t \in Tiers |-> "none"]
  /\ feePolls = 1

NetPoll ==
  /\ feePolls < MaxFeePolls
  /\ feePolls' = feePolls + 1

NetTimer ==
  /\ visible
  /\ NetPoll
  /\ UNCHANGED <<visible, grid, arrow, prev, stamped>>

NetTabShown ==
  /\ TabShown
  /\ NetPoll
  /\ UNCHANGED <<grid, arrow, prev, stamped>>

NetTabHidden ==
  /\ TabHidden
  /\ UNCHANGED <<grid, arrow, prev, stamped, feePolls>>

\* direction: without a baseline, or without a change, no arrow.
Direction(p, t) ==
  IF p = NoFee \/ t = NoFee \/ p = t THEN "none" ELSE IF t > p THEN "up" ELSE "down"

\* Faulty variant: the baseline of a tier that left is kept.
BaselineMerged(g) == [t \in Tiers |-> IF g[t] = NoFee THEN prev[t] ELSE g[t]]

\* prev after a rendering: exactly the tiers of the answer.
Baseline(g) == g

\* A usable answer: the whole block is rebuilt.
NetAnswered(g) ==
  /\ feePolls > 0
  /\ feePolls' = feePolls - 1
  /\ grid' = g
  /\ arrow' = [t \in Tiers |-> Direction(prev[t], g[t])]
  /\ prev' = Baseline(g)
  /\ stamped' = g
  /\ UNCHANGED visible

\* An error, ok: false, or an answer without tiers.
NetUnanswered ==
  /\ feePolls > 0
  /\ feePolls' = feePolls - 1
  /\ UNCHANGED <<visible, grid, arrow, prev, stamped>>

\* The blocks an answer can bring: at least one tier.
NetNext ==
  \/ NetTimer \/ NetTabShown \/ NetTabHidden
  \/ \E g \in Grids : (\E t \in Tiers : g[t] # NoFee) /\ NetAnswered(g)
  \/ NetUnanswered

NetSpec == NetInit /\ [][NetNext]_netVars

(***************************************************************************)
(* Properties.                                                             *)
(***************************************************************************)
\* Types of everything netfee.js keeps.
NetTypeOK ==
  /\ grid \in Grids /\ prev \in Grids /\ stamped \in Grids
  /\ arrow \in [Tiers -> Arrows]
  /\ feePolls \in 0..MaxFeePolls

\* "So it's obvious when fees move": the arrow of an amount that moves tells how it
\* differs from the one it replaces on screen, never from an answer the visitor did
\* not see last; a tier that comes back after being away has none, and an amount
\* that stands never gets one.
ArrowsTellTheMove ==
  \A t \in Tiers :
    IF grid'[t] # grid[t] THEN arrow'[t] = Direction(grid[t], grid'[t])
    ELSE arrow'[t] \in {arrow[t], "none"}
ArrowTellsTheMove == [][ArrowsTellTheMove]_netVars

(***************************************************************************)
(* A statement of the code's comments that the code does not keep.         *)
(***************************************************************************)
\* "Leaves a small arrow until the next change": the arrow of an amount stays for
\* as long as the amount does.
ArrowsStay ==
  \A t \in Tiers : grid'[t] = grid[t] => arrow'[t] = arrow[t]
ArrowStaysUntilNextChange == [][ArrowsStay]_netVars
===============================================================================
