---------------------------- MODULE ExchangeCards ----------------------------
(***************************************************************************)
(* exchangepage.js: the price cards of /exchange/{name}.  Every 15 seconds *)
(* each card asks for its pair on its own; answers come in any order and   *)
(* may carry one rate type only.  The rate selector switches every card    *)
(* and, through ratetypechange, the chart.  A price that moved flashes.    *)
(* A card's buy and sell cells behave alike and are one cell here.         *)
(***************************************************************************)
EXTENDS Page, Integers

CONSTANTS
  Cards,      \* the pairs with a card
  Prices,     \* numbers a quote may be
  NoQuote,    \* null: the cell shows a dash
  MaxPolls    \* bound: requests of one card in flight

ASSUME ExchangeCardsAssumption == Prices \subseteq Int /\ MaxPolls \in Nat \ {0}

VARIABLES
  currentRate,
  last,        \* last[card][rate]: the stored quote
  shown,       \* the quote whose text is in the cell
  flash,       \* the flash classes on the cell
  flashTimer,  \* the class the cell's pending timer will remove
  polls,       \* tickOne requests in flight
  checking,    \* checkSponsor's request is out
  badge,       \* the sponsor badge is shown
  outLink      \* the outbound link: affiliate, sponsor or removed

cardVars == <<rateType, visible, currentRate, last, shown, flash, flashTimer,
              polls, checking, badge, outLink>>

Quotes == [rate : Rates, price : Prices]
Classes == {"flash-good", "flash-bad"}

CardsInit ==
  /\ rateType \in Rates /\ currentRate = rateType
  /\ visible = TRUE
  /\ last \in {f \in [Cards -> [Rates -> Quotes \cup {NoQuote}]] :
                 \A c \in Cards, r \in Rates : f[c][r] # NoQuote => f[c][r].rate = r}
  /\ shown = [c \in Cards |-> last[c][rateType]]
  /\ flash = [c \in Cards |-> {}]
  /\ flashTimer = [c \in Cards |-> "none"]
  /\ polls = [c \in Cards |-> 1]
  /\ checking = TRUE /\ badge = FALSE
  /\ outLink = "affiliate"

Sponsorship == <<checking, badge, outLink>>

\* tickAll.
TickAll ==
  /\ \A c \in Cards : polls[c] < MaxPolls
  /\ polls' = [c \in Cards |-> polls[c] + 1]

CardsTimer ==
  /\ visible
  /\ TickAll
  /\ UNCHANGED <<rateType, visible, currentRate, last, shown, flash, flashTimer, Sponsorship>>

CardsTabShown ==
  /\ TabShown
  /\ TickAll
  /\ UNCHANGED <<currentRate, last, shown, flash, flashTimer, Sponsorship>>

CardsTabHidden ==
  /\ TabHidden
  /\ UNCHANGED <<currentRate, last, shown, flash, flashTimer, polls, Sponsorship>>

\* The class a cell going from one quote to another flashes with, if any.
Move(old, new) ==
  IF old = NoQuote \/ new = NoQuote THEN "none"
  ELSE IF new.price > old.price THEN "flash-good"
  ELSE IF new.price < old.price THEN "flash-bad" ELSE "none"

\* Faulty variant: the running flash keeps its class when its timer is cancelled.
FlashedOver(c, move) ==
  /\ flash' = [flash EXCEPT ![c] = @ \cup {move}]
  /\ flashTimer' = [flashTimer EXCEPT ![c] = move]

\* setCell's flash: cancel the running timer, drop both classes, start anew.
Flashed(c, move) ==
  /\ flash' = [flash EXCEPT ![c] = {move}]
  /\ flashTimer' = [flashTimer EXCEPT ![c] = move]

\* Faulty variant: every row is taken for the rate the page shows.
StoredAsShown(c, rows) == [last EXCEPT ![c][currentRate] = rows[CHOOSE r \in DOMAIN rows : TRUE]]

\* The store after an answer: the rate types in it are replaced, the others kept.
Stored(c, rows) ==
  [last EXCEPT ![c] = [r \in Rates |-> IF r \in DOMAIN rows THEN rows[r] ELSE @[r]]]

\* tickOne's answer: renderCard(card, true).
CardAnswered(c, rows) ==
  /\ polls[c] > 0
  /\ polls' = [polls EXCEPT ![c] = @ - 1]
  /\ last' = Stored(c, rows)
  /\ shown' = [shown EXCEPT ![c] = last'[c][currentRate]]
  /\ LET move == Move(shown[c], shown'[c]) IN
       IF move = "none" THEN UNCHANGED <<flash, flashTimer>> ELSE Flashed(c, move)
  /\ UNCHANGED <<rateType, visible, currentRate, Sponsorship>>

\* An error, or an answer without a row of this exchange.
CardUnanswered(c) ==
  /\ polls[c] > 0
  /\ polls' = [polls EXCEPT ![c] = @ - 1]
  /\ UNCHANGED <<rateType, visible, currentRate, last, shown, flash, flashTimer, Sponsorship>>

FlashOver(c) ==
  /\ flashTimer[c] # "none"
  /\ flash' = [flash EXCEPT ![c] = @ \ {flashTimer[c]}]
  /\ flashTimer' = [flashTimer EXCEPT ![c] = "none"]
  /\ UNCHANGED <<rateType, visible, currentRate, last, shown, polls, Sponsorship>>

\* Faulty variant: the cells wait for their next answer.
PickRateLazily(r) ==
  /\ r # currentRate
  /\ currentRate' = r /\ rateType' = r
  /\ UNCHANGED <<visible, last, shown, flash, flashTimer, polls, Sponsorship>>

\* The rate selector: every card at once, without a flash.
PickRate(r) ==
  /\ r # currentRate
  /\ currentRate' = r /\ rateType' = r
  /\ shown' = [c \in Cards |-> last[c][r]]
  /\ UNCHANGED <<visible, last, flash, flashTimer, polls, Sponsorship>>

\* Faulty variant: a sponsor without a link keeps the affiliate link.
SponsorFoundLinked(link) ==
  /\ checking /\ checking' = FALSE
  /\ badge' = TRUE
  /\ outLink' = IF link THEN "sponsor" ELSE outLink
  /\ UNCHANGED <<rateType, visible, currentRate, last, shown, flash, flashTimer, polls>>

\* checkSponsor finds the exchange, unexpired, with a link or without one.
SponsorFound(link) ==
  /\ checking /\ checking' = FALSE
  /\ badge' = TRUE
  /\ outLink' = IF link THEN "sponsor" ELSE "removed"
  /\ UNCHANGED <<rateType, visible, currentRate, last, shown, flash, flashTimer, polls>>

\* Not a sponsor, expired, or no answer.
NoSponsor ==
  /\ checking /\ checking' = FALSE
  /\ UNCHANGED <<rateType, visible, currentRate, last, shown, flash, flashTimer, polls, badge, outLink>>

\* The rows of this exchange in an answer: one or both rate types, with a price
\* or without.
OwnRows == {f \in UNION {[D -> Quotes \cup {NoQuote}] : D \in SUBSET Rates \ {{}}} :
           \A r \in DOMAIN f : f[r] # NoQuote => f[r].rate = r}

CardsAlone ==
  \/ CardsTimer
  \/ \E c \in Cards : (\E rows \in OwnRows : CardAnswered(c, rows)) \/ CardUnanswered(c) \/ FlashOver(c)
  \/ \E link \in BOOLEAN : SponsorFound(link)
  \/ NoSponsor

CardsNext == CardsAlone \/ CardsTabShown \/ CardsTabHidden \/ \E r \in Rates : PickRate(r)

CardsSpec == CardsInit /\ [][CardsNext]_cardVars

(***************************************************************************)
(* Properties.                                                             *)
(***************************************************************************)
\* Types of everything exchangepage.js keeps.
CardsTypeOK ==
  /\ rateType \in Rates /\ visible \in BOOLEAN /\ currentRate \in Rates
  /\ last \in [Cards -> [Rates -> Quotes \cup {NoQuote}]]
  /\ shown \in [Cards -> Quotes \cup {NoQuote}]
  /\ flash \in [Cards -> SUBSET Classes]
  /\ flashTimer \in [Cards -> Classes \cup {"none"}]
  /\ polls \in [Cards -> 0..MaxPolls]
  /\ checking \in BOOLEAN /\ badge \in BOOLEAN
  /\ outLink \in {"affiliate", "sponsor", "removed"}

\* "Keeps floating and fixed rates SEPARATE": a cell shows a quote of the rate
\* type the selector stands at.
CellsShowTheRate == \A c \in Cards : shown[c] # NoQuote => shown[c].rate = currentRate

\* Every cell shows what is stored for it, whichever of polls and clicks was last.
CellsShowTheStore == \A c \in Cards : shown[c] = last[c][currentRate]

\* A cell has a flash class only while the timer that removes that class is
\* pending, so no cell stays coloured, whatever moves follow one another.
FlashIsTimed ==
  \A c \in Cards : flash[c] = {flashTimer[c]} \ {"none"}

\* "A paid sponsor must not be sent through an affiliate URL": with the badge
\* up, the outbound link is the sponsor's own or gone.
SponsorNotAffiliate == badge => outLink # "affiliate"

\* What an exchange page shows of the exchange is true, whatever polls, clicks,
\* flashes and the sponsor check overlap.
CardsAreTrue == CellsShowTheRate /\ CellsShowTheStore /\ FlashIsTimed /\ SponsorNotAffiliate
==============================================================================
