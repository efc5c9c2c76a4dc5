----------------------------- MODULE PriceBoard -----------------------------
(***************************************************************************)
(* PriceService for one pair: the refresh cycle run by PriceWarmingService *)
(* (RefreshAndStoreAsync), the snapshot every reader is served from        *)
(* (latestRows), and the snapshot handed to the quote logger.  Pairs share *)
(* nothing but the keyed cache, which module KeyedCache models.            *)
(*                                                                         *)
(* Time is counted in ticks.  Beside the TsUtc the program keeps, every    *)
(* row carries when each of its sides was really quoted (sellAt, buyAt):   *)
(* history, never read by an action.                                       *)
(***************************************************************************)
EXTENDS PriceRules

CONSTANTS
  Exchanges,
  FixedCapable,   \* FixedCapableKeys: asked for a fixed rate too
  FixedOnly,      \* exchanges whose IRateType is "fixed"
  SellOnly,       \* exchanges without IExchangeBuyPriceApi
  SellPrices, BuyPrices,
  StaleWindow,    \* LastGoodStaleWindow, in ticks
  CycleTicks,     \* a refresh takes no longer: two passes of ExchangeTimeout and the probes
  MaxTime,        \* bound on the clock
  NoTime, NoRow, NoSnapshot

Prices == SellPrices \cup BuyPrices
Passes == {"float", "fixed"}
RowIds == Exchanges \X Passes

Times == Nat \cup {NoTime}
Row == [sell : Prices \cup {NoPrice}, buy : Prices \cup {NoPrice}, ts : Times,
        sellAt : Times, buyAt : Times, rate : Passes]
Quote == [price : Prices \cup {NoPrice}, at : Times]
Snapshot == [RowIds -> Row \cup {NoRow}]

ASSUME BoardAssumption ==
  /\ Exchanges # {}
  /\ FixedCapable \subseteq Exchanges
  /\ FixedOnly \subseteq Exchanges
  /\ SellOnly \subseteq Exchanges
  /\ Prices \subseteq Nat \ {0}
  /\ StaleWindow \in Nat \ {0}
  /\ CycleTicks \in Nat
  /\ MaxTime \in Nat
  /\ NoTime \notin Nat
  /\ NoRow \notin Row
  /\ NoSnapshot \notin Snapshot

VARIABLES
  now,
  snap,      \* latestRows[pair]: RowIds -> row or NoRow; NoSnapshot before the first warm-up
  storedAt,  \* when snap was stored (history)
  phase,     \* where RefreshAndStoreAsync is
  began,     \* when this refresh began
  task,      \* Exchanges -> what the exchange's task of this pass awaits
  half,      \* RowIds -> the sell quote the task received in this refresh
  fetched,   \* RowIds -> the row FetchLiveAsync built in this refresh, or NoRow
  logged     \* the rows last handed to the quote sink

vars == <<now, snap, storedAt, phase, began, task, half, fetched, logged>>

TypeOK ==
  /\ now \in Nat
  /\ snap \in Snapshot \cup {NoSnapshot}
  /\ storedAt \in Nat
  /\ phase \in {"idle", "float", "fixed", "enqueue"}
  /\ began \in Nat
  /\ task \in [Exchanges -> {"selling", "buying", "done"}]
  /\ half \in [RowIds -> Quote]
  /\ fetched \in Snapshot
  /\ logged \in SUBSET Row

(***************************************************************************)
(* Rows.                                                                   *)
(***************************************************************************)
NoQuote == [price |-> NoPrice, at |-> NoTime]

\* The rate type FetchLiveAsync puts on a row.
RateOf(e, pass) == IF pass = "fixed" \/ e \in FixedOnly THEN "fixed" ELSE "float"

Later(t, u) == IF t = NoTime THEN u ELSE IF u = NoTime \/ u <= t THEN t ELSE u
Earlier(t, u) == IF t = NoTime THEN u ELSE IF u = NoTime \/ t < u THEN t ELSE u

\* A row of two answers: its TsUtc is the later of the two quotes' times.
RowFrom(sellQ, buyQ, rate) ==
  [sell |-> sellQ.price, buy |-> buyQ.price, ts |-> Later(sellQ.at, buyQ.at),
   sellAt |-> sellQ.at, buyAt |-> buyQ.at, rate |-> rate]

\* What a task that timed out returns.
EmptyRow(rate) == RowFrom(NoQuote, NoQuote, rate)

TwoSided(r) == r.sell # NoPrice /\ r.buy # NoPrice
NoSide(r)   == r.sell = NoPrice /\ r.buy = NoPrice

(***************************************************************************)
(* Assembling the new snapshot.                                            *)
(***************************************************************************)
GenuineSell(r, f) == r.sell # NoPrice /\ ~SameRate(r.sell, f.sell)
GenuineBuy(r, f)  == r.buy # NoPrice /\ ~SameRate(r.buy, f.buy)

\* The fixed row with each side that is missing or an echo taken from the float
\* row of this refresh; TsUtc stays the fixed row's.
FilledFromFloat(r, f) ==
  [r EXCEPT
     !.sell   = IF GenuineSell(r, f) THEN r.sell ELSE f.sell,
     !.sellAt = IF GenuineSell(r, f) THEN r.sellAt ELSE f.sellAt,
     !.buy    = IF GenuineBuy(r, f) THEN r.buy ELSE f.buy,
     !.buyAt  = IF GenuineBuy(r, f) THEN r.buyAt ELSE f.buyAt]

\* Faulty variant: every fixed row is kept, echoes too.
CombinedUntested ==
  [id \in RowIds |->
     IF id[2] = "float" \/ fetched[id] = NoRow THEN fetched[id]
     ELSE FilledFromFloat(fetched[id], fetched[<<id[1], "float">>])]

\* floatRows.Concat(fixedRows): a fixed row is kept if one side is genuine.
Combined ==
  [id \in RowIds |->
     IF id[2] = "float" \/ fetched[id] = NoRow THEN fetched[id]
     ELSE LET r == fetched[id]
              f == fetched[<<id[1], "float">>]
          IN IF GenuineSell(r, f) \/ GenuineBuy(r, f) THEN FilledFromFloat(r, f) ELSE NoRow]

\* Faulty variant: the key of a last good row leaves the rate type out.
LastGoodAnyRate(id, rate) ==
  LET Has(pass) ==
        /\ snap # NoSnapshot
        /\ snap[<<id[1], pass>>] # NoRow
        /\ ~NoSide(snap[<<id[1], pass>>])
  IN IF Has("float") THEN snap[<<id[1], "float">>]
     ELSE IF Has("fixed") THEN snap[<<id[1], "fixed">>]
     ELSE NoRow

\* prevByKey[exchange|rateType]: the first row of the old snapshot with that
\* key and at least one side, float pass before fixed pass.
LastGood(id, rate) ==
  LET Has(pass) ==
        /\ snap # NoSnapshot
        /\ snap[<<id[1], pass>>] # NoRow
        /\ snap[<<id[1], pass>>].rate = rate
        /\ ~NoSide(snap[<<id[1], pass>>])
  IN IF Has("float") THEN snap[<<id[1], "float">>]
     ELSE IF Has("fixed") THEN snap[<<id[1], "fixed">>]
     ELSE NoRow

\* Faulty variants: no window; a patched row stamped with its new side; a
\* half-answer stored as it is.
CarriableForEver(old) == old # NoRow /\ old.ts # NoTime
FilledFreshStamp(r, old) ==
  [r EXCEPT
     !.sell   = IF r.sell # NoPrice THEN r.sell ELSE old.sell,
     !.sellAt = IF r.sell # NoPrice THEN r.sellAt ELSE old.sellAt,
     !.buy    = IF r.buy # NoPrice THEN r.buy ELSE old.buy,
     !.buyAt  = IF r.buy # NoPrice THEN r.buyAt ELSE old.buyAt]
CarriedOnlyWhole(r, old) ==
  IF old # NoRow /\ old.ts # NoTime /\ now - old.ts < StaleWindow /\ NoSide(r)
  THEN old ELSE r

\* Fresh enough to be carried forward at this instant.
Carriable(old) == old # NoRow /\ old.ts # NoTime /\ now - old.ts < StaleWindow

\* One side landed: the missing one from the last good row, and the older stamp.
FilledFromOld(r, old) ==
  [r EXCEPT
     !.sell   = IF r.sell # NoPrice THEN r.sell ELSE old.sell,
     !.sellAt = IF r.sell # NoPrice THEN r.sellAt ELSE old.sellAt,
     !.buy    = IF r.buy # NoPrice THEN r.buy ELSE old.buy,
     !.buyAt  = IF r.buy # NoPrice THEN r.buyAt ELSE old.buyAt,
     !.ts     = Earlier(r.ts, old.ts)]

CarriedForward(r, old) ==
  IF TwoSided(r) \/ ~Carriable(old) THEN r
  ELSE IF NoSide(r) THEN old
  ELSE IF TwoSided(FilledFromOld(r, old)) THEN FilledFromOld(r, old)
  ELSE r

NewSnapshot ==
  [id \in RowIds |->
     LET r == Combined[id] IN
     IF r = NoRow THEN NoRow ELSE CarriedForward(r, LastGood(id, r.rate))]

\* The rows of a snapshot as a board of the price rules.
BoardOf(s) == [id \in {x \in RowIds : s[x] # NoRow} |-> s[id]]

\* The read path: the rows of a snapshot that the board, the API and the CDN show.
Shown(s) == IF s = NoSnapshot THEN {} ELSE ShownRows(BoardOf(s))

\* The log path applies the same filters: the rows handed to the quote logger.
BuildSnapshot(s) == {s[id] : id \in ShownRows(BoardOf(s))}

(***************************************************************************)
(* Actions.                                                                *)
(***************************************************************************)
Init ==
  /\ now = 0
  /\ snap = NoSnapshot
  /\ storedAt = 0
  /\ phase = "idle"
  /\ began = 0
  /\ task = [e \in Exchanges |-> "done"]
  /\ half = [id \in RowIds |-> NoQuote]
  /\ fetched = [id \in RowIds |-> NoRow]
  /\ logged = {}

\* The timer (or start-up) begins a refresh: the per-exchange entries are
\* evicted, the snapshot is not, and every exchange is asked for a float rate.
StartRefresh ==
  /\ phase = "idle"
  /\ phase' = "float"
  /\ began' = now
  /\ task' = [e \in Exchanges |-> "selling"]
  /\ half' = [id \in RowIds |-> NoQuote]
  /\ fetched' = [id \in RowIds |-> NoRow]
  /\ UNCHANGED <<now, snap, storedAt, logged>>

\* The sell quote, or null: the API failed or does not quote the pair.
SellAnswers(e) ==
  /\ task[e] = "selling"
  /\ \E p \in SellPrices \cup {NoPrice} :
       half' = [half EXCEPT ![<<e, phase>>] =
                  IF p = NoPrice THEN NoQuote ELSE [price |-> p, at |-> now]]
  /\ task' = [task EXCEPT ![e] = "buying"]
  /\ UNCHANGED <<now, snap, storedAt, phase, began, fetched, logged>>

\* The buy quote, or null; the row is complete.
BuyAnswers(e) ==
  /\ task[e] = "buying"
  /\ \E p \in IF e \in SellOnly THEN {NoPrice} ELSE BuyPrices \cup {NoPrice} :
       LET q == IF p = NoPrice THEN NoQuote ELSE [price |-> p, at |-> now]
       IN  fetched' = [fetched EXCEPT ![<<e, phase>>] =
                         RowFrom(half[<<e, phase>>], q, RateOf(e, phase))]
  /\ task' = [task EXCEPT ![e] = "done"]
  /\ UNCHANGED <<now, snap, storedAt, phase, began, half, logged>>

\* Faulty variant: the buy call is not given the timeout's token.
TimesOutSellingOnly(e) ==
  /\ task[e] = "selling"
  /\ fetched' = [fetched EXCEPT ![<<e, phase>>] = EmptyRow(RateOf(e, phase))]
  /\ task' = [task EXCEPT ![e] = "done"]
  /\ UNCHANGED <<now, snap, storedAt, phase, began, half, logged>>

\* ExchangeTimeout expires in either call: the whole row comes back empty.
TimesOut(e) ==
  /\ task[e] = "selling" \/ (task[e] = "buying" /\ e \notin SellOnly)
  /\ fetched' = [fetched EXCEPT ![<<e, phase>>] = EmptyRow(RateOf(e, phase))]
  /\ task' = [task EXCEPT ![e] = "done"]
  /\ UNCHANGED <<now, snap, storedAt, phase, began, half, logged>>

PassOver == \A e \in Exchanges : task[e] = "done"

\* Task.WhenAll of the float pass; the fixed pass asks the fixed-capable only.
FloatPassOver ==
  /\ phase = "float"
  /\ PassOver
  /\ phase' = "fixed"
  /\ task' = [e \in Exchanges |-> IF e \in FixedCapable THEN "selling" ELSE "done"]
  /\ UNCHANGED <<now, snap, storedAt, began, half, fetched, logged>>

\* latestRows[pair] = rows
Store ==
  /\ phase = "fixed"
  /\ PassOver
  /\ snap' = NewSnapshot
  /\ storedAt' = now
  /\ phase' = "enqueue"
  /\ UNCHANGED <<now, began, task, half, fetched, logged>>

\* quoteSink.EnqueueAsync(BuildSnapshot(...)): the refresh ends.
Enqueue ==
  /\ phase = "enqueue"
  /\ logged' = BuildSnapshot(snap)
  /\ phase' = "idle"
  /\ UNCHANGED <<now, snap, storedAt, began, task, half, fetched>>

Tick ==
  /\ now < MaxTime
  /\ phase # "idle" => now - began < CycleTicks
  /\ now' = now + 1
  /\ UNCHANGED <<snap, storedAt, phase, began, task, half, fetched, logged>>

Next ==
  \/ StartRefresh
  \/ \E e \in Exchanges : SellAnswers(e) \/ BuyAnswers(e) \/ TimesOut(e)
  \/ FloatPassOver \/ Store \/ Enqueue
  \/ Tick

Spec == Init /\ [][Next]_vars

\* Only the program's own timers and steps are fair: an exchange may never answer.
Fairness ==
  /\ \A e \in Exchanges : WF_vars(TimesOut(e)) /\ WF_vars(e \in SellOnly /\ BuyAnswers(e))
  /\ WF_vars(FloatPassOver) /\ WF_vars(Store) /\ WF_vars(Enqueue)
FairSpec == Spec /\ Fairness

-----------------------------------------------------------------------------
(***************************************************************************)
(* Properties.                                                             *)
(***************************************************************************)
StoredRows == IF snap = NoSnapshot THEN {} ELSE {snap[id] : id \in RowIds} \ {NoRow}

\* "So staleness stays honest": the time a row shows is never newer than either
\* of its quotes by more than the refresh that assembled it took, although a
\* row may be patched together from several refreshes.
HonestStamp ==
  \A r \in StoredRows :
    /\ r.sell # NoPrice => r.ts # NoTime /\ r.sellAt # NoTime /\ r.ts - r.sellAt <= CycleTicks
    /\ r.buy # NoPrice  => r.ts # NoTime /\ r.buyAt # NoTime /\ r.ts - r.buyAt <= CycleTicks

\* "A truly-down exchange still drops off before its price is meaningfully
\* stale": however many refreshes carried it, a quote is never put on the board
\* once it is older than the window (plus the refresh that brought it).
StaleBound ==
  \A r \in StoredRows :
    /\ r.sell # NoPrice => storedAt - r.sellAt < StaleWindow + CycleTicks
    /\ r.buy # NoPrice  => storedAt - r.buyAt < StaleWindow + CycleTicks

\* "Instead of flapping": a fresh float row on the board stays there whatever
\* times out, fails or half-answers in one refresh.  It never becomes one-sided, and
\* it leaves only by its prices: a quote that landed in this refresh does not go
\* with its other side, which may be a carried one, or the refresh made an outlier
\* of it.  (The comment "so the row stays two-sided and doesn't flap off the board"
\* overlooks that a new sell above a carried buy fails IsSaneTwoWayRow.)
FreshOnBoard(id) == id \in Shown(snap) /\ now - snap[id].ts < StaleWindow
OutlierOf(s, id) == id \in SaneRows(BoardOf(s)) \ Shown(s)
FloatRowsStay ==
  \A id \in Exchanges \X {"float"} :
    (snap' # snap /\ FreshOnBoard(id)) =>
      /\ snap'[id] # NoRow /\ TwoSided(snap'[id])
      /\ id \in Shown(snap') \/ ~NoSide(fetched[id]) \/ OutlierOf(snap', id)
FloatRowsNeverFlap == [][FloatRowsStay]_vars

\* The quote logger removes duplicates by remembering one timestamp per row, so
\* the stamp of a row must never go back, whatever is carried and patched.  (An
\* exchange of fixed rates only has two rows with one key, and is excepted.)
StillTwoSided(s, e, pass) ==
  s # NoSnapshot /\ s[<<e, pass>>] # NoRow /\ TwoSided(s[<<e, pass>>])
StampsForward ==
  \A e \in Exchanges \ FixedOnly, pass \in Passes :
    (StillTwoSided(snap, e, pass) /\ StillTwoSided(snap', e, pass))
    => snap'[<<e, pass>>].ts >= snap[<<e, pass>>].ts
StampsNeverGoBack == [][StampsForward]_vars

\* "So the Fixed view never duplicates the Float board": a fixed row assembled
\* beside a float row that landed complete differs from it on some side.
EchoOf(r, f) == SameRate(r.sell, f.sell) /\ SameRate(r.buy, f.buy)
FixedRowsAreGenuine ==
  (phase = "enqueue") =>
    \A e \in Exchanges :
      (/\ snap[<<e, "fixed">>] # NoRow
       /\ TwoSided(fetched[<<e, "float">>]))
      => ~EchoOf(snap[<<e, "fixed">>], snap[<<e, "float">>])

\* A refresh ends although an exchange never answers: no pass waits for ever.
RefreshEnds == (phase = "float") ~> (phase = "idle")

(***************************************************************************)
(* Statements of the code's comments that the code does not keep.          *)
(***************************************************************************)
\* "We null it so the Fixed view never duplicates the Float board": without the
\* proviso that the float call of the same refresh landed.
FixedNeverDuplicatesFloat ==
  (phase = "enqueue") =>
    \A e \in Exchanges :
      (snap[<<e, "fixed">>] # NoRow /\ TwoSided(snap[<<e, "float">>]))
      => ~EchoOf(snap[<<e, "fixed">>], snap[<<e, "float">>])

\* "Only ONE side landed ... one can exceed the per-exchange timeout on a given
\* cycle. Fill just the MISSING side": the side that landed is the one stored.
LandedSideIsStored ==
  (phase = "enqueue") =>
    \A e \in Exchanges :
      half[<<e, "float">>].price # NoPrice
      => snap[<<e, "float">>].sellAt = half[<<e, "float">>].at
=============================================================================
