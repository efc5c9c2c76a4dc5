------------------------------ MODULE LatestWins ------------------------------
(***************************************************************************)
(* What a chart of the site promises while requests overlap: whatever it   *)
(* draws is, at the moment it is drawn, the history of the selection the   *)
(* visitor is looking at.  Older requests are never seen again.            *)
(* pricechart.js and feechart.js keep the promise with a sequence number;  *)
(* PriceChart and FeeChart are shown to implement this module.             *)
(***************************************************************************)
CONSTANTS
  Selections,   \* what can be asked for: a range, or a pair, range and rate type
  Nothing       \* an empty canvas

VARIABLES
  selection,    \* what the controls stand at
  picture,      \* the selection whose history is drawn, or Nothing
  awaited       \* the newest request is still out

latestVars == <<selection, picture, awaited>>

Init ==
  /\ selection \in Selections
  /\ picture = Nothing
  /\ awaited = TRUE

\* A control moves or the timer fires; moving to another pair clears the canvas.
Ask ==
  /\ selection' \in Selections
  /\ picture' \in {picture, Nothing}
  /\ awaited' = TRUE

\* The newest answer is drawn; it may move the controls to a range the server
\* can fill, which asks again.
Draw ==
  /\ awaited
  /\ picture' = selection
  /\ selection' \in Selections
  /\ awaited' \in BOOLEAN
  /\ ~awaited' => selection' = selection

\* The newest request fails, or the server has no history to offer.
GiveUp ==
  /\ awaited
  /\ awaited' = FALSE
  /\ UNCHANGED <<selection, picture>>

Next == Ask \/ Draw \/ GiveUp

Spec == Init /\ [][Next]_latestVars
===============================================================================
