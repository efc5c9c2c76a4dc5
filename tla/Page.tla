-------------------------------- MODULE Page --------------------------------
(***************************************************************************)
(* What the scripts of one page share: one event loop, the tab's           *)
(* visibility, and the rate type in window.__RATE_TYPE__ (set by the       *)
(* float / fixed buttons, announced with a "ratetypechange" event).        *)
(***************************************************************************)
CONSTANT
  Rates      \* the rate types: "float" and "fixed"

VARIABLES
  rateType,   \* window.__RATE_TYPE__
  visible     \* document.visibilityState = "visible"

\* The visitor switches to another tab: the handlers look at the state and return.
TabHidden ==
  /\ visible
  /\ visible' = FALSE
  /\ UNCHANGED rateType

TabShown ==
  /\ ~visible
  /\ visible' = TRUE
  /\ UNCHANGED rateType
=============================================================================
