------------------------------- MODULE Converter -------------------------------
(***************************************************************************)
(* moneropricenow.js, the converter and the invoice builder under it.  The *)
(* field typed in last is the amount; the other one is rewritten at each   *)
(* key and each market price.  The builder listens to the same fields: at  *)
(* once to the XMR field, in a timeout to the other, and not at all to     *)
(* prices.  Amounts are numbers of the smallest unit a field holds, and 0  *)
(* is an empty field; prices are those of one XMR.                         *)
(***************************************************************************)
EXTENDS Integers

CONSTANTS
  Typed,        \* what is typed, in tenths of the smallest unit: one digit too many
  MarketPrices, \* quote units per XMR
  Scale,        \* units per XMR (10^12 in the code)
  QuoteMax,     \* QUOTE_MAX
  NoMarket      \* no market price yet, neither in the page nor in its headline

\* A unit of the quote is worth a unit of XMR: a price is far below 10^12 cents.
ASSUME ConverterAssumption ==
  /\ Typed \subseteq Nat /\ QuoteMax \in Nat /\ Scale \in Nat
  /\ MarketPrices \subseteq 1..Scale

VARIABLES
  usd, xmr,      \* the fields
  edited,        \* lastEdited
  quote,         \* getMarketPrice
  builder,       \* the invoice builder is shown
  togglePending, \* the timeout that toggles it
  building,      \* the amount usdEstimate is awaited for, or 0
  imgPending,    \* the invoice's image is loading
  resultUp, errorUp

convVars == <<usd, xmr, edited, quote, builder, togglePending, building, imgPending, resultUp, errorUp>>
invoiceVars == <<builder, togglePending, building, imgPending, resultUp, errorUp>>

\* toFixed of a / b.
Rounded(a, b) == (2 * a + b) \div (2 * b)

\* Digits too many are cut off, never rounded; the quote is capped.
ClampPiconero(v) == v \div 10
ClampQuote(v) == IF v \div 10 > QuoteMax THEN QuoteMax ELSE v \div 10

\* recalc over the values in the fields: e was edited last, p is the price.
Recalc(e, u, x, p) ==
  IF p = NoMarket THEN usd' = u /\ xmr' = x
  ELSE IF e = "usd" THEN usd' = u /\ xmr' = Rounded(u * Scale, p)
  ELSE xmr' = x /\ usd' = Rounded(x * p, Scale)

\* toggle, over the amount in the XMR field.
Toggle(x) ==
  /\ builder' = (x > 0)
  /\ resultUp' = (resultUp /\ x > 0)
  /\ errorUp' = (errorUp /\ x > 0)

ConvInit ==
  /\ usd = 0 /\ xmr = 0 /\ edited = "usd"
  /\ quote \in MarketPrices \cup {NoMarket}
  /\ builder = FALSE /\ togglePending = FALSE
  /\ building = 0 /\ imgPending = FALSE
  /\ resultUp = FALSE /\ errorUp = FALSE

\* The builder's timeout runs after the converter's own handler.
TypeUsd(v) ==
  /\ edited' = "usd"
  /\ Recalc("usd", ClampQuote(v), xmr, quote)
  /\ togglePending' = TRUE
  /\ UNCHANGED <<quote, builder, building, imgPending, resultUp, errorUp>>

TypeXmr(v) ==
  /\ edited' = "xmr"
  /\ Recalc("xmr", usd, ClampPiconero(v), quote)
  /\ Toggle(ClampPiconero(v))
  /\ UNCHANGED <<quote, togglePending, building, imgPending>>

\* Faulty variant: the timeout shows what was typed before it.
ToggleLaterBlind ==
  /\ togglePending /\ togglePending' = FALSE
  /\ Toggle(usd)
  /\ UNCHANGED <<usd, xmr, edited, quote, building, imgPending>>

ToggleLater ==
  /\ togglePending /\ togglePending' = FALSE
  /\ Toggle(xmr)
  /\ UNCHANGED <<usd, xmr, edited, quote, building, imgPending>>

\* Faulty variant: a refresh does not tell the converter.
PriceArrivesUntold(p) ==
  /\ quote' = p
  /\ UNCHANGED <<usd, xmr, edited, invoiceVars>>

\* A refresh sets __MARKET_PRICE__ and calls __convRecalc.
PriceArrives(p) ==
  /\ quote' = p
  /\ Recalc(edited, usd, xmr, p)
  /\ UNCHANGED <<edited, invoiceVars>>

\* The build button: refused without an amount or with a bad address.
Refuse ==
  /\ builder /\ building = 0
  /\ resultUp' = FALSE /\ errorUp' = TRUE
  /\ UNCHANGED <<usd, xmr, edited, quote, builder, togglePending, building, imgPending>>

Build ==
  /\ builder /\ building = 0
  /\ xmr > 0
  /\ building' = xmr
  /\ resultUp' = FALSE /\ errorUp' = FALSE
  /\ UNCHANGED <<usd, xmr, edited, quote, builder, togglePending, imgPending>>

\* usdEstimate is in, or has given up: the image is asked for and shown.
Estimated ==
  /\ building > 0 /\ building' = 0
  /\ imgPending' = TRUE /\ resultUp' = TRUE
  /\ UNCHANGED <<usd, xmr, edited, quote, builder, togglePending, errorUp>>

ImageLoads(ok) ==
  /\ imgPending /\ imgPending' = FALSE
  /\ resultUp' = (resultUp \/ ok)
  /\ errorUp' = (errorUp \/ ~ok)
  /\ UNCHANGED <<usd, xmr, edited, quote, builder, togglePending, building>>

ConvNext ==
  \/ \E v \in Typed : TypeUsd(v) \/ TypeXmr(v)
  \/ \E p \in MarketPrices : PriceArrives(p)
  \/ ToggleLater \/ Refuse \/ Build \/ Estimated
  \/ \E ok \in BOOLEAN : ImageLoads(ok)

ConvSpec == ConvInit /\ [][ConvNext]_convVars

(***************************************************************************)
(* Properties.                                                             *)
(***************************************************************************)
\* Types of everything the converter and the builder keep.
ConvTypeOK ==
  /\ usd \in Nat /\ xmr \in Nat /\ edited \in {"usd", "xmr"}
  /\ quote \in MarketPrices \cup {NoMarket}
  /\ {builder, togglePending, imgPending, resultUp, errorUp} \subseteq BOOLEAN
  /\ building \in Nat

\* Once a price is known, the field that was not typed in says what the other is
\* worth at the newest price, whatever keys and refreshes came in which order.
FieldsAgree ==
  quote # NoMarket =>
    IF edited = "usd" THEN xmr = Rounded(usd * Scale, quote) ELSE usd = Rounded(xmr * quote, Scale)

\* "Appears once there's an amount in the converter": with no toggle pending, the
\* builder is open over an amount of XMR, although prices rewrite that amount
\* without telling it.  It may stay open over nothing in one way: the quote field
\* is cleared before any price is known, and the first price clears the other.
BuilderHasAmount ==
  builder /\ ~togglePending => xmr > 0 \/ (edited = "usd" /\ usd = 0)

\* Both fields, the newest price and the invoice builder are of one amount.
AmountsAgree == FieldsAgree /\ BuilderHasAmount
================================================================================
