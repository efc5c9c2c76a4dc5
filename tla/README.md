# MoneroPriceNow: TLA+ models, checks and proofs

MoneroPriceNow polls some forty swap exchanges for XMR prices, keeps the newest board of each pair in memory, serves
it to browsers and API clients, logs it to a database for the charts, and asks the exchanges live when a visitor
wants a quote for an exact amount. Nearly everything that can go wrong is a matter of time and failure: exchanges
that answer late or not at all, callers that give up, a database that fails in the middle of a batch, clients that
disconnect between two rows, a browser tab that asks again before the last answer is in. This directory models those parts in TLA+, checks the models with TLC
on small instances, and proves their safety properties with TLAPS for every instance.

Source paths below are relative to the repository; `Web/` and `Data/` stand for `src/CryptoPriceNow.Web/` and
`src/CryptoPriceNow.Data/`.

## The system

| Component | State it keeps | Operations | Talks to |
|---|---|---|---|
| Keyed cache (`PriceService.GetOrCreateLockedAsync`) | `IMemoryCache`, one semaphore per key | get-or-fetch under a lock, nested currency resolution | exchange clients |
| Price board (`PriceService`, `PriceWarmingService`) | `latestRows` per pair | timed refresh in two passes, carry-forward, read | keyed cache, quote logger, readers |
| Price rules (`PriceService`, `BoardMid`, `moneropricenow.js`, `PriceHistoryService`) | none | sanity, outliers, headline price | board, charts, publisher |
| Quote logger (`PriceQuoteLogger`) | channel, registry cache, dedupe and throttle maps, time of the last pruning; tables `Exchanges`, `PriceQuotes`, `PriceBuckets` | enqueue; throttle, register, dedupe, insert, roll up, prune | board, database |
| Swap quotes (`SwapQuoteService`, `/swap/stream`) | result cache, fan-out gate, sponsor map and its lock | stream quotes for an amount | exchange clients, browser |
| Network fees (`NetworkFeeService`, its warmer and logger) | fee snapshot, one gate per network, USD price cache | refresh, read, log | mempool and node APIs, database |
| Publisher (`BunnyPricePublisher`) | files on the CDN | publish each pair, then the index | board |
| History, directory, Millionaire | two cache entries | queries over the tables | database, pages |
| Browser board (`moneropricenow.js`) | last answer, the table's rows, trend dots, headline, sponsors, two amount fields, the invoice builder | chained refresh, rate buttons, sort, typing, build | HTTP endpoints, the charts (rate type) |
| Browser charts (`pricechart.js`, `feechart.js`) | range, lit button, request number, chart, overlay, notice | timer, range, pair, rate, legend, answers | history endpoints |
| Exchange page (`exchangepage.js`) | two quotes per card, flash timers, sponsor badge | poll each card, rate selector, sponsor check | prices and sponsor endpoints, the chart |
| Other scripts (`netfee.js`, `millionaire.js`, `sponsorbar.js`) | last fees and points, the bar's track | poll, draw, rotate, resize | fee, Millionaire and sponsor endpoints |
| Pages, endpoints, invoice, sponsor proxy | sponsor list (proxy) | formatting, validation | all of the above |

Interaction in one sentence: the warmer calls `RefreshAndStoreAsync` per pair, which evicts the per-exchange entries
of the keyed cache, fans out through it, stores the assembled rows in `latestRows`, and hands the filtered rows to
the quote logger's channel; everything a reader sees comes from `latestRows` through the same filters.

### What is hard

- **Interleaving**: callers of one cache key; a factory that holds its key's permit while it takes another's; swap
  requests at the gate and at the sponsors' lock.
- **Timeouts and cancellation**: the eight seconds that an exchange's two calls share; a permit granted to a caller
  that has just given up; a client that leaves while its calls run.
- **Partial failure**: one pass or one side of a row fails; a save that commits without an answer; a batch that dies
  after half of its registry changes were saved.
- **Staleness**: rows carried forward through any number of refreshes; rows patched from two refreshes.
- **Bounded resources and retention**: a full channel drops its oldest snapshot; raw quotes are deleted from a
  bucket that is still recomputed; permits that must come back whichever way a run ends.
- **Overlapping requests in the browser**: a timer, a tab coming back and three kinds of clicks each start a request
  of their own; answers come in any order, may be for a selection that is gone, and may move the selection.
- **State kept in the page**: a table patched in place under sorting, emptied boards and a late sponsor list; two
  fields that rewrite each other; classes that only a timer takes away again.
- **Restart**: the logger's dedupe memory is lost, the stored quotes are not.

`PROJECT.json` lists each hazard with its line and the properties aimed at it. A hazard without a property says why.

## Modules

| Module | Models | Proofs | Runs |
|---|---|---|---|
| `KeyedCache` | `GetOrCreateLockedAsync` | `KeyedCacheProofs` | `cache` |
| `SingleFlight` | what that cache promises (abstract) | | through `ImplementsSingleFlight` |
| `PriceRules`, `PriceRulesCheck` | the pure price rules | `PriceRulesProofs` | `board_safety` |
| `PriceBoard` | `RefreshAndStoreAsync`, the read path, the hand-over | `PriceBoardProofs` | `board_safety`, `board_wide`, two refuted comments |
| `QuoteLogger` | `PriceQuoteLogger` and its tables | `QuoteLoggerProofs` | `logger`, two refuted comments |
| `SwapQuotes` | `GetQuotesStream` and its endpoint | `SwapQuotesProofs` | `swap`, one refuted comment |
| `Page` | what the scripts of a page share: the tab's visibility, the rate type | | through the modules that extend it |
| `LatestWins` | what a chart promises while requests overlap (abstract) | | through the two refinements |
| `PriceChart`, `FeeChart` | `pricechart.js`, `feechart.js` | `ScriptProofs` | `site` |
| `BoardClient` | `moneropricenow.js`: board, headline, trend, sponsors | `SiteProofs` | `site` |
| `ExchangeCards` | `exchangepage.js` | `ScriptProofs` | `site` |
| `Converter` | `moneropricenow.js`: converter and invoice builder | `ScriptProofs` | `site` |
| `NetFee`, `Millionaire`, `SponsorBar` | the three scripts of those names | `ScriptProofs` | `site`, one refuted comment (`NetFee`) |
| `SiteScripts` | all of them, in one open tab | `SiteProofs` | `site` |

`MC*` modules declare the model values of the instances; `FiniteSums` holds lemmas about sums over finite sets that the
proofs share. `PriceBoard` extends `PriceRules`, so the board is assembled and filtered by the very operators that
`PriceRulesCheck` evaluates on every small board; the run `board_safety` has the two side by side (`MCSpec`): any board
is read before the first refresh, or the refreshes go on. Every module also holds a few
definitions commented *faulty variant*: slips this code could have made. No specification uses them; substituting
one for the real definition makes TLC refute the property it is paired with in `PROJECT.json`, which shows that the
property can fail.

### KeyedCache and SingleFlight

State: `store` is the memory cache, `holder` the owner of each key's `SemaphoreSlim(1, 1)`, `pc`/`key`/`result` the
control point of every call. A caller has two *frames*: its call, and the nested call for the exchange's currency
list that the factory of a price key makes (`ResolveExchangeIdsAsync`) with the price key's permit still held; both
observe one token. `FastHit`, `FastMiss`, `Acquire`, `GiveUp`, `RecheckHit`, `RecheckCancelled` and `StartFactory`
follow the lines of the method; `Upstream*`, `Rethrow` and `Release` are the factory's three ends and the finally.
`Expire` stands for the entry's lifetime and for the eviction at the start of a refresh, and `Cancel` for the
per-exchange timeout or an aborted request. The semaphore is modelled without an order among its waiters.

`SingleFlight` has no lock: a client is answered by an entry that is present while it asks, by a fetch that began
when the entry was absent and nobody else was fetching it, or with nothing. `ImplementsSingleFlight` maps each
frame to a client.

### PriceRules

Operators over integers for `IsSaneTwoWayRow`, `DropPriceOutliers` (median on doubled mids), `SameRate`,
`BoardMid.FloatMid`, the browser's `computeStats`, and the sanity predicate of the SQL queries. Ratios are compared
by cross-multiplication, where the code divides 28-digit decimals.

### PriceBoard

One pair, since pairs share only the keyed cache. A refresh goes through `phase`: the float pass (every exchange is
asked to sell, then to buy, under one timeout), the fixed pass over the fixed-capable exchanges, `Store` (combine,
keep genuine fixed rows, carry forward), `Enqueue` (hand over to the logger). Each exchange may answer with a price,
answer null, or time out at either call, in which case its whole row is empty. Besides the `TsUtc` of the program, a
row records when each side was really quoted. That history is read by no action, and the properties compare `TsUtc`
with it. `CycleTicks` bounds the length of a refresh in ticks: two passes of at most the exchange timeout each, and
the price look-ups that size the probes.

Left out: the size of the probes, and the read of a pair that was never warmed, which goes through the keyed cache
directly.

### QuoteLogger

One pair. `Warm` is the producer: a refresh stores its rows (`stamp`: each new, carried from the stored row of its
exchange and rate type while younger than `StaleWindow`, or absent) and hands over those that the board's filters let
through. Any row may be hidden for a while and shown later under its old time, so the logger can receive a stamp it
never saw that is as old as the window. That is the behaviour of `PriceBoard`, with `StampsNeverGoBack` of that module
as the promise it relies on. `WithinLag` is a bound of the model alone: `TryWrite` never waits for the consumer.

A row is an exchange and the pass that asked it; its rate type is `Rate`. An exchange that is fixed-only *and*
fixed-capable (betkarma) has two rows of rate type fixed, which share one `DedupeKey`: these are the `Twins`.

The consumer takes a snapshot, registers and collects row by row, saves, rolls up, prunes. With `MayFail`, each
database call can throw; the save of a batch and the save that registers an exchange can also commit and lose their
answer; and the process can restart at any point, keeping the tables only. Quotes are inserted in one transaction;
registering a *new* exchange saves every change tracked so far, as `EnsureExchangeAsync` does with the shared
`DbContext`.

Prices are left out: a quote is its exchange, rate type and timestamp; a bucket is its number of samples. The
rollup's backfill is a one-time database migration and is not modelled.

### SwapQuotes

Requests look up the shared list, wait at `FanOutGate`, look up the sponsors (waiting for a lock that no token
cancels), start all exchange calls and stream rows as calls end. `Leave` is a client that disconnects: its token
cancels its wait at the gate, its sponsor fetch and its calls (`CutOff`), and makes the endpoint's next write throw,
which ends the iterator at its `yield` and runs the `finally` (`WriteFails`). `rows`, `sent` and `cut` of a shared
list are history: what the run collected, what its client received, whether any of its calls was cut off.

Left out: request validation and row contents, the per-exchange currency lists (same double-checked lock as
`KeyedCache`), and the page without JavaScript, which reads the stream without writing it.

### Page, LatestWins, PriceChart and FeeChart

`PriceChart`: `pair`, `range`, `rateType` are the controls, `lit` the highlighted button, `loads` the requests in
flight with the number (`loadSeq`) and the selection they were made with, `chart` the selection whose history is
drawn. An answer whose number is not the newest is dropped (`Superseded`); the newest one is drawn, and when its
range has no points the script falls back to the longest range the server offers, which loads again. `overlay`,
`hidden`, `everHadData` and `off` (legend entries switched off, carried over when the chart is rebuilt) follow the
script's own variables. `FeeChart` has the same shape, with a notice that explains the line drawn and no pair or
rate.

`LatestWins` keeps no numbers and no requests: whatever is drawn is the history of what the controls stand at, at
that moment. Both charts are shown to implement it, with the drawn picture mapped to the selection it was asked for
and `awaited` to "the newest request is in flight".

### BoardClient

`timer`, `chained` and `clicked` are the refresh chain and the refreshes that the rate buttons start beside it.
A refresh carries no number in the code, so its answer is rendered whatever was rendered meanwhile; rows are filtered
by the rate type selected *when the answer arrives*, which is why answers need no rate type of their own here.
`cells`/`order`/`placeholder` are the table, `baseline` is `prev` (what a cell compares with to flash), `lastStats`
the last answer that had rows, `hero`/`counting` the headline and its count-up animation, `dots` the trend.
`BuildTable` and `PatchTable` are the two halves of `renderTable`; `AheadBySpread` and `AheadByColumn` are the
comparators of `sortedRows`. As in the code, the averages, the headline and the spread leave out a price below the
pair's minimum (`MinPrice`, `Has`), while a sorted column leaves out nothing but null (`Missing`). Averages are held in
sixtieths, exact for the instance. The rows enumerated include one-sided and inverted ones, which this script handles
although today's server filters them out of its feed.

Rows are named by their exchange, as `data-ex` and `prev` name them, so an answer with two rows of one exchange
(betkarma in the fixed view) is left out. The frames of the count-up, which show from 0.92 of a price to all of it, are
one action that writes the price.

### Converter

The two fields as whole numbers of their smallest unit, so that clamping (digits beyond the last are cut, the quote
is capped) and `toFixed` rounding are modelled by what they do. The invoice builder listens to the fields directly
in one case and through `setTimeout` in the other (`togglePending`), awaits an estimate (`building`) and an image
(`imgPending`); prices rewrite the amount without telling it.

### ExchangeCards, NetFee, Millionaire, SponsorBar

`ExchangeCards` keeps both rate types' quotes per card (`last`), what is in the cell (`shown`), and the flash classes
with the one class the pending timer will remove. A card's buy and sell cells behave alike and are one cell.
`NetFee` and `Millionaire` poll and show a move against the poll before; `SponsorBar` orders the sponsors by tier and
time left (equals in any order, since they keep that of the answer), cuts the main sponsors and the rest into sets of
the width's slots, fades and rotates, and cuts anew on a resize.

### SiteScripts

One tab. A behaviour looks at one `part`; the others keep their initial values. This is enough because parts of a page
meet only at two values, the rate type and the market price, and each module already lets those change at any
moment. The exception is the exchange page, where cards and chart listen to the same selector and the same tab and
are composed action by action (`PickRate /\ ChartRate`, `CardsTabShown /\ ChartTabShown`), so that `CardsAreTrue` and
`ChartIsTrue` are checked of the two moving together.

## Runs

| Run | Question | Instance and why it suffices |
|---|---|---|
| `cache` | Is a permit ever lost, a fetch repeated, a call left hanging? Is it a single-flight cache? | two callers, two quotes of one exchange and its currency list, two values: callers meet on the same quote and, from different quotes, on the list |
| `board_safety` | How stale can a row be, how honest is its time, can it flap? Which rows of any board survive the filters; do board, charts and browser agree? | one exchange with both rates, sell prices 4 and 7, buy prices 5 and 8 (echo or genuine; a new sell of 7 above a carried buy of 5), window of two ticks, refreshes of up to one tick, clock to 3: rows carried twice and then expired. And every board of up to five of eight rows: medians of odd and even size, the edge of the ratio, mis-scaled, crossed, wide and one-sided rows |
| `board_wide` | Do float rows stay where the outlier rule acts, and does a refresh end when nobody answers? | two exchanges, one of fixed rates only, sell prices a factor of seven apart so that the outlier rule drops a row that was shown, clock to 1: rows that are fresh and rows that have expired |
| `logger` | Is a quote ever stored twice, an exchange id left dangling, a belief about the registry wrong, a bucket made smaller, the consumer stopped? | the float and fixed row of one exchange, carried for up to two ticks, hidden and shown again, minutes of one tick, retention of two, a channel of one and a consumer that falls behind (it drops), clock to 4, every database call failing, commits whose answer is lost, restarts |
| `swap` | Does every run give its permit back, can an abandoned run leave a list, does every request end? | three identical requests, gate of two (one waits at the gate, two compete for the sponsors' lock), one exchange |
| `site` | What do the scripts show while requests overlap, come back in any order, fail, or find no data, and the visitor clicks meanwhile? | per part: two pairs, ranges and rates; three exchanges whose answers tie, miss prices, invert a spread, fall below the minimum and lose a row, each put to the comparator of every header and direction; two sponsor lists, two trend dots; one card with two prices; three fee ranges; two tiers and fees; three sponsors of two tiers over one or two slots; typed amounts on both sides of a rounding step and of the cap |
| `fixed_duplicates_float`, `landed_side_lost`, `remembered_not_inserted`, `rollup_complete`, `swap_partial_shared`, `fee_arrow` | Comments of the code that the code does not keep | the smallest instance that refutes each |

`CHECK_DEADLOCK FALSE` is set for the logger, whose clock is bounded by `MaxTime`: once it stands still, an idle
consumer with an empty channel has nothing to do. It is set for `site` because a part whose requests have been used
up (`MaxLoads` and the like) and answered is at rest. The bounded clocks (`MaxTime` in `PriceBoard` and
`QuoteLogger`), `MaxLag` (how far the logger's consumer falls behind) and `MaxRows` are the only bounds that are not
parameters of the program on the server's side. In the browser, `MaxLoads` and `ExchangeLoads` bound the requests a
chart makes altogether, `MaxFeeLoads` those of the fee chart, `MaxClicks`, `MaxPolls`, `MaxFeePolls` and `MaxMmPolls`
those in flight together, and `MaxResizes` the resizes of the bar: three requests are one drawn, one superseded and
one newest, and more only repeat that. `MaxTime` is where the models stop. `MaxLag` bounds what `BucketsNeverShrink`
claims (see `HistoryIsKept` below).

What a theorem settles for every instance is not always run as well. The types of `KeyedCache`, `PriceBoard` and
`SwapQuotes` are proved (`TypeCorrect`), and so are `OneFetchPerKey` and `FetchOnlyWhenAbsent`, which
`ImplementsSingleFlight` implies. Some properties of a run are conjunctions of named parts; the parts are stated, each
with its comment, where the conjunction is defined.

### Properties worth knowing

- `StaleBound` and `HonestStamp`: a row can be carried and patched in every refresh, yet no quote is stored at or
  beyond the staleness window plus one refresh, and the time shown is newer than a side by one refresh at most.
- `FloatRowsNeverFlap`: whatever times out or half-answers, no refresh makes a fresh float row of the board one-sided,
  and none takes it off the board but by its prices: its exchange answered in this refresh, or the row became an
  outlier. The first proviso is needed: see the disagreements below.
- `StampsNeverGoBack`, with `OneRowPerQuote`: the logger remembers only *one* timestamp per row, which is enough
  only because the board never shows an older quote after a newer one. `Twins` are excepted, whose two rows share it.
- `OneRowPerQuote` holds although saves commit unanswered, because the timestamp is remembered before the save.
  The same order makes `RememberedIsInserted` false: a quote whose save failed is never tried again.
- `BucketsNeverShrink`: recomputing a bucket under retention loses nothing, because retention reaches back much
  further than the two recomputed minutes (in the instance, `Retention` is two minutes; with less, it would shrink).
- `GateConserved`: the gate's permits and the runs inside it add up to its size.
- `ChartIsTrue` (its `ChartIsOfThePair`), `FeeChartIsTrue` and the two refinements: with any number of requests out of order, a chart never shows a
  selection it was not asked for last, although falling back to another range changes the selection from inside an
  answer.
- `ChartIsTrue` (its `OverlayAwaitsNewest`) and `OverlayClears`: superseded requests leave the overlay alone, and the newest one always
  takes it away, also when it fails.
- `RowsAsBuilt` (`TableShowsStats`, `BaselineIsTable`, `SponsorRowsMarked`): a table patched in place never has a row,
  an order, a mark or a link that a table built from nothing would not have. It is about the rows: a leftover
  placeholder may stand above them, and after a sort click they may be of the other rate type (see below). Proved; the
  subtle case is a board emptied by an answer without rows, which clears the table outside `renderTable` and leaves
  `tableFirstRender` alone.
- `OrderIsTotal`: on every answer and in every direction of every header the comparator orders any two rows one way.
- `ArrowTellsTheMove`: the arrow of a fee that moves tells its move from the fee that was on screen, whatever answers
  came in between, and a fee that stands gets none.
- `OneHeartbeat`: the refreshes of the rate buttons neither fork the timer chain nor stop it.
- `PricesAgree` (`HeroIsMarketOrFirst`, `DotsAreChained`): headline, converter and trend speak of one sequence of
  prices, across count-ups, blanked boards and rate switches.
- `AmountsAgree`: a price rewrites the field that was *not* typed in, through clamps and rounding (`FieldsAgree`), and
  the invoice builder has the amount typed, with one exception that `BuilderHasAmount` spells out.
- `CardsAreTrue`: a card's cells, flashes and link follow the rate selector while polls of both rates are in flight and
  price moves overlap the flash of the one before.
- `BarShowsASet`: the bar shows the set it stands at, visibly, also when a resize cuts the list anew during a fade,
  and no set mixes main sponsors with lower tiers.
- `MajorityGoverns`: when more than half of the sane rows agree within the ratio, all of them are shown, and
  nothing further than the ratio from both ends of the group. With two groups of equal size every row may be dropped.
- `RulesAgree` (`ShownRowsAreCharted`, `MidAgreesWithBrowser`): server, charts and browser apply the same rules.

### Disagreements between comments and code

1. `FixedNeverDuplicatesFloat` (`PriceService.cs:361`): when the float call times out, the fixed echo has nothing
   to be compared with, counts as genuine, and ends up beside the carried float row with the same prices. With the
   proviso that the float row of the same refresh is complete the promise holds, for every instance (`FixedIsGenuine`).
2. `LandedSideIsStored` (`PriceService.cs:169`): the buy call's timeout throws away the sell quote already received.
   As long as no buy call times out, every sell quote that landed is stored (`LandedUnlessTimedOut`).
3. `RememberedIsInserted` (`PriceQuoteLogger.cs:41`): see above. While the database answers and quotes are not
   deleted, it holds (`RememberedWhenHealthy`).
4. `OnlyCompleteIsShared` (`SwapQuoteService.cs:173`): the calls cancelled by a leaving client come back as "no
   quote", the loop ends normally, and the partial list is shared for twenty seconds. As long as no client leaves, it
   holds, whatever the exchanges decline or time out on (`CompleteUnlessLeft`).
5. `RollupComplete` (`PriceQuoteLogger.cs:181`, "idempotent and self-healing, so a missed or duplicated cycle can never
   corrupt the rollup"): only the captured minute and the one before are recomputed (line 198). A row that the filters
   hid while it was carried (`LastGoodStaleWindow` allows twenty minutes), or whose snapshots were throttled or dropped,
   is inserted later under its old time and never counted. While the database answers, a late insert is the only way
   (`NoQuoteIsMissing`).
6. `ArrowStaysUntilNextChange` (`netfee.js:3-5`, "leaves a small ▲/▼ until the next change"): every poll rebuilds every
   tier and compares it with the poll before, so the arrow goes at the next poll that brings the fee unchanged.

The theorem named in an item says that nothing else breaks the promise.

Seen while reading or modelling, and without a run of its own:

- a row patched because "only one side landed ... so the row stays two-sided and doesn't flap off the board"
  (`PriceService.cs:172-174`) does leave the board when the new sell is above the carried buy, since `IsSaneTwoWayRow`
  then hides it (`:322`): `FloatRowsNeverFlap` therefore excepts a row whose exchange answered;
- the two fixed rows of betkarma share one dedupe key, so a carried one can be inserted again, which the comment on the
  key (`PriceQuoteLogger.cs:145-148`) describes as cured: `OneRowPerQuote` excepts such exchanges;
- fixed rows, unlike float rows, do leave the board on one slow refresh (`PriceService.cs:134`);
- identical swap requests that miss together all ask the exchanges, since the shared list is not looked up again after
  the gate (`SwapQuoteService.cs:130`);
- a cold network fee is fetched once per waiting reader (`NetworkFeeService.cs:64`).

In the browser, noticed while modelling and written into the models as the code has them:

- an answer without rows puts a placeholder into the table that the next patched rows do not remove
  (`moneropricenow.js:727-736`), and a click on a header after it draws the rows of the other rate type again,
  although line 724 says that it never shows them;
- a sponsor that expires while the page is open stays marked until a reload (`:70-75`);
- a pair tab takes the range back to the default without lighting its button (`pricechart.js:311`): `LitUnlessDefault`
  is the strongest statement about the button that holds;
- a chart whose answers take longer than its 30 seconds' timer never draws, since each is superseded by the next
  request (`pricechart.js:253`): the models let a timer supersede only finitely often, and `OverlayClears` says no more;
- with two rows of one exchange in the fixed view (betkarma), a patch finds one element for both
  (`moneropricenow.js:643`), and the other one stays as it was built;
- an invoice is shown for the amount at the click, although the field may be edited or emptied while the estimate is
  awaited (`moneropricenow.js:933-941`).

## Fairness

Liveness is checked only under what the code itself guarantees.

- `KeyedCache`: weak fairness of each call's own steps, because every upstream call is bounded by a client timeout;
  strong fairness of `Acquire`, because `SemaphoreSlim` keeps its asynchronous waiters in a queue.
- `PriceBoard`: the timeouts and the warmer's own steps. No exchange ever has to answer.
- `QuoteLogger`: the consumer's steps once it has work; each database call answers or throws.
- `SwapQuotes`: the service's steps and timeouts (gate, sponsor client, exchange call), strong fairness of the
  sponsors' lock. A client takes its row or its connection breaks. No exchange has to answer, no client has to come.
- `SiteScripts`: `WF` of the chart's requests, since every fetch ends with an answer or an error, and of the bar's
  rotation and fade, which are timers. No answer has to have points, no visitor has to click.

## Proofs

The theorems hold for every value of the constants that satisfies the module's `ASSUME`, and for behaviours of any
length. Every safety property that a passing run checks (invariant, action property or refinement) is a theorem. Two
of them have hypotheses, `RulesAgree` on the spread cap and `BucketsNeverShrink` on the retention, named below with what
the code or its configuration says of them; the runs' instances satisfy them too.

- **KeyedCacheProofs.** `IInv` adds to the checked invariants that a frame has a key exactly while it has a call,
  and that the inner frame is in use exactly while its outer frame resolves. Without them a stray frame could hold a
  permit under no key. From it: `TypeCorrect`, `PermitConservation`, `SingleFetch` (mutual exclusion follows from
  `PermitMatchesHolder` alone), `NoRedundantFetch`, and `Refinement`: the initial states and
  every step map to `SingleFlight`.
- **PriceRulesProofs.** For a board of any size, made of any rows. `NthIsNth`: defining the k-th smallest mid by counting picks a mid
  that exists, with fewer than k below it and at least k up to it. `MajorityAroundMedian`: of any majority of the sane
  rows, some mids lie on each side of the median. `MajorityIsShown` follows, and `OneSetOfRules`: a row that passes the
  board's filter passes the charts', and server and browser show one headline price, provided that the spread cap is on
  and no wider than the 0.25 written into the SQL. The default of `MaxSpreadFraction` is 0.25; a wider cap would show
  rows that no chart has.
- **PriceBoardProofs.** `Inv` dates everything: quotes, half rows and fetched rows in progress are of this refresh,
  which has lasted at most `CycleTicks`; stored rows are dated no later than their storing, and keep the rate type
  of their exchange. One lemma per step of the assembly (`FilledFromFloatFresh`, `CarriedGood`, `CombinedFresh`,
  `NewSnapshotGood`) then gives `StampsAreHonest`, `StalenessIsBounded`, `StampsAdvance` and `FixedIsGenuine`.
  `NoFlapping`: a row without any answer is carried whole, so it is as sane as it was. `LandedUnlessTimedOut` follows a
  landed sell quote through the two passes: a pass that ends with it keeps it, and the assembly drops no float row that
  has a side.
- **QuoteLoggerProofs.** `Inv` orders the timestamps on their way: what the consumer remembers of a row, its row in
  hand, the snapshots in the channel in order, the board. A stored quote is remembered, older, or of an earlier
  process. That is why one remembered timestamp suffices, through drops, failures and restarts, for every exchange
  whose rows have keys of their own: `NoQuoteTwice`,
  `NoDanglingExchange`, `TypeCorrect`. More invariants carry the rest. `RegistryInv`: what is cached of an
  exchange is in the registry or among the changes that the next save writes (`MemoryIsRecorded`).
  `RollupInv`: only the minutes about to be recomputed miss quotes, as long as no quote is inserted after the minute
  that follows its own (`NoQuoteIsMissing`, `MayFail = FALSE`). `LagInv` dates the snapshots on their way, and
  `WindowInv`: a bucket that a snapshot on its way may still recompute counts no more than the table holds, because
  pruning stops short of it; hence `HistoryIsKept`, failures and restarts included, with `Retention = 0` (the default:
  keep for ever) or `Retention + 1 >= MaxLag + 2 * Minute`, which any retention counted in days meets for a consumer
  less than a day late. `RememberedInv`: what the dedupe remembers is stored or in the batch (`RememberedWhenHealthy`,
  `MayFail = FALSE` and `Retention = 0`).
- **SwapQuotesProofs.** `Inv` says that everything collected was received except the row being written. The gate's
  sum is carried through each step by lemmas on the cardinality of the runs inside. `TypeCorrect`,
  `GateIsConserved`, `OnlySentIsShared`; `OneSponsorFetch`: the sponsors' lock belongs to the one request that
  fetches, so it is free whenever nobody does; `CompleteUnlessLeft`.
- **FiniteSums.** The community library sums with a recursive function, whose existence has to be proved before
  anything can be said of it. Induction over data being out of reach, every lemma takes a least counterexample
  instead: the smallest set on which the fold has no value (`FoldExists`), is not monotone (`SumMonotone`), is not an
  integer (`SumInteger`). The rollup, the board's average and the types that depend on them use these.
- **ScriptProofs.** One section per script, each with an inductive invariant of its own. `ChartInv` adds to what is
  checked that requests are numbered up to `loadSeq`, that no two share the newest number, and that a chart was drawn
  from data that was seen; `FeeInv` is its like, with `FeeLongestIsOffered` for the fallback. From them `ChartStaysTrue`,
  `FeeChartStaysTrue` and the two refinements of `LatestWins`. `CardsInv`: types, the store being by rate type, the
  cells being the store's, and the flash being its timer's carry each other through every step. `ConvInv`: what the
  two fields say of each other survives clamping and rounding (`AmountsStayTrue`, for any scale and any cap).
  `NetInv`: the fees compared with are the fees shown. `MmInv` needs only the types.
  `BarInv`: the list is sorted, its main sponsors ahead, and no timer runs without sets; the sets cut from such a list
  are then the list, tier by tier (`BarStaysTrue`).
- **SiteProofs.** First the board of `moneropricenow.js`: `BoardInv` has three parts that most steps touch separately,
  the heartbeat, the table with its sponsors, the headline with its trend. `RenderedTable` shows that building and
  patching come to the same rows (`RowsAreLastAnswer`); `SponsorsUnknown` and `FirstIsOfVisit` are the strengthenings.
  `SortIsDefined`: the comparators of `sortedRows` order the rows of any board, for any minimum, missing values and
  inverted spreads included, one way or the other; `SortedIsInOrder`: hence a sorted table exists and is in that order.
  Then the page: `SiteNextInv` shows step
  by step that a step of `SiteScripts` is a step of one script and leaves the variables of the others alone (the
  `...Quiet` lemmas), which lifts the theorems of all scripts to `SiteSpec` (`ScriptsOfTheSite`, `BoardOfTheSite`,
  `ArrowsOfTheSite`, `ChartsOfTheSite`).

The proofs rest on the named assumptions of the modules, of which the substantial ones are: distinct markers for
absent values, two levels of nesting (`CacheAssumption`), finitely many requests (`SwapAssumption`) and exchanges
(`LoggerAssumption`), a longest range in every set of ranges offered (`PriceChart`, `FeeChart`), and the prices of
the feed being positive, in whole units (`BoardClientAssumption`; `IsSaneTwoWayRow` lets no other through). The bounds on requests and clicks
(`MaxLoads` and the like) are constants too: the theorems hold for all their values.

Model-checked only: what needs fairness or ENABLED, which the prover does not have. These are the six liveness
properties `EveryCallReturns`, `RefreshEnds`, `RequestEnds`, `ConsumerSurvives`, `OverlayClears` and
`EverySponsorIsShown`, and that nothing deadlocks.

## Not modelled

Exchange clients are a package outside the repository: their answers are the nondeterministic choices of the models.
Database contents follow the unique keys and the foreign key that the migrations declare. Formatting, wording,
logging, deployment and vendored libraries carry no state worth a model.

In the browser: the colours a board cell flashes with (their baseline is modelled), countdown rings, the trend
readouts, the board's privacy and minimum columns, banner code that nothing calls (`moneropricenow.js:193-258`), and
the script of the swap page, which only appends the rows of a stream.

On the server: `NetworkFeeService`, its warmer and its logger; `BunnyPricePublisher`; the history, directory and
Millionaire queries; the sponsor proxy and the request validation of the endpoints. The hazards that would be aimed
at there, and those that the models above meet but state no property about (as `PriceService.cs:134`, `:344`;
`SwapQuoteService.cs:130`), are in `PROJECT.json` with a note or in the list of
disagreements above.

## Plan

What is left, in this order:

1. `NetworkFees`: one gate per network, the shared USD prices and their lock, the last good fee kept on failure, and
   the fee logger's throttle. Properties: a fee, and the price it is shown with, never goes back to an older one; a
   refresh ends; logged samples lie the interval apart. Two modules, the service and its logger: as one, two networks
   and one reader already reach some five million states at a clock bound of 1. Proof: permits and last-good fee.
2. `Publisher`: a cycle over the pairs with a failing upload in the middle. Properties: a published price is never
   replaced by none; what the index says against what the files hold.
3. `PricePipeline`: `PriceBoard` composed with `QuoteLogger`, the stamps of the one driving the other, in place of
   the producer's nondeterminism; and the proof that the board's rows satisfy `Warm`.
4. History: re-bucketing of one-minute buckets against a reference aggregation, `MillionaireService.PriceAt`.
5. Currency lists and the sponsor proxy: their caches against `SingleFlight`.
6. Theorems still wanted: an abstract "bounded gate" that `SwapQuotes` implements, and that the rows `PriceBoard`
   hands over are among the ones `Warm` of `QuoteLogger` allows (with item 3).
