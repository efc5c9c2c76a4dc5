----------------------------- MODULE QuoteLogger -----------------------------
(***************************************************************************)
(* PriceQuoteLogger for one pair: the bounded channel the warmer writes,   *)
(* the single consumer that registers exchanges, removes duplicates,       *)
(* inserts quotes, keeps the one-minute rollup and prunes, and the tables  *)
(* it leaves behind when the database fails or the process restarts.       *)
(*                                                                         *)
(* A quote is its exchange, rate type and timestamp; its prices are left   *)
(* out, so a bucket is its number of samples.                              *)
(***************************************************************************)
EXTENDS Integers, Sequences, FiniteSets, FiniteSetsExt

CONSTANTS
  Exchanges,
  FixedCapable,    \* exchanges the fixed pass asks too
  FixedOnly,       \* exchanges whose rate type is fixed in the float pass as well
  ChannelCap,      \* capacity of the channel
  LogInterval,     \* QuoteLogging:LogIntervalSeconds
  MetaTtl,         \* QuoteLogging:MetadataRefreshMinutes
  Minute,          \* length of a rollup bucket
  Retention,       \* QuoteLogging:RetentionDays; 0 keeps quotes for ever
  RetentionEvery,  \* time between prunings
  StaleWindow,     \* LastGoodStaleWindow: how old a row may be when it is carried
  MaxLag,          \* bound on how far the consumer falls behind
  MayFail,         \* whether the database fails and the process restarts
  MaxTime,         \* bound on the clock
  NoTime, NoSnapshot, NoExchange

\* The rows of the pair's board: exchange and pass.
RowKeys  == (Exchanges \X {"float"}) \cup (FixedCapable \X {"fixed"})
Instants == 0..MaxTime

\* The rate type on a row.
Rate(k) == IF k[1] \in FixedOnly THEN "fixed" ELSE k[2]

\* What the table tells quotes apart by, beside their time.
StoredAs(k) == <<k[1], Rate(k)>>
Keys == {StoredAs(k) : k \in RowKeys}

\* Faulty variant: one key for the float and the fixed row of an exchange.
DedupeKeyShared(k) == <<k[1], "float">>

\* DedupeKey, for one pair: the rows of a fixed-only exchange share it.
DedupeKey(k) == <<k[1], Rate(k)>>

\* The exchanges with two rows of one rate type.
Twins == FixedOnly \cap FixedCapable

Stamps   == [RowKeys -> Instants \cup {NoTime}]
Snapshot == [captured : Instants, rows : Stamps]

Bucket(t) == t \div Minute
Buckets   == 0..Bucket(MaxTime)

\* What the registry holds of an exchange.
Entry == [rate : {"float", "fixed"}, seen : Instants]

ASSUME LoggerAssumption ==
  /\ FixedCapable \subseteq Exchanges /\ FixedOnly \subseteq Exchanges
  /\ ChannelCap \in Nat \ {0}
  /\ LogInterval \in Nat /\ MetaTtl \in Nat
  /\ Minute \in Nat \ {0}
  /\ Retention \in Nat /\ RetentionEvery \in Nat
  /\ StaleWindow \in Nat /\ MaxLag \in Nat /\ MaxTime \in Nat
  /\ MayFail \in BOOLEAN
  /\ NoTime \notin Nat
  /\ NoExchange \notin Entry
  /\ NoSnapshot \notin Snapshot
  /\ IsFiniteSet(Exchanges)

VARIABLES
  now,
  startedAt,   \* when this process started (history)
  warmedAt,    \* when the last refresh of this process ended
  stamp,       \* the TsUtc of each row stored by it (PriceService), shown or not
  channel,     \* the snapshots waiting
  phase,       \* where the consumer is
  cur,         \* the snapshot being processed
  todo,        \* its rows still to be processed
  batch,       \* the quotes to insert
  dirty,       \* registry changes tracked by the DbContext, not saved
  lastLogged,  \* _lastLogged[pair]
  lastTs,      \* _lastQuoteTs
  cached,      \* _exchanges
  pruned,      \* _lastRetentionRun
  registry,    \* table Exchanges
  quotes,      \* table PriceQuotes: how many rows each quote has
  rollup,      \* table PriceBuckets: Samples
  failed       \* whether a registry call of this process has failed (history)

board    == <<warmedAt, stamp>>
memory   == <<lastLogged, lastTs, cached, pruned>>
database == <<registry, quotes, rollup>>
work     == <<cur, todo, batch, dirty>>
vars == <<now, startedAt, board, channel, phase, work, memory, database, failed>>

TypeOK ==
  /\ now \in Instants /\ startedAt \in Instants
  /\ warmedAt \in {-1} \cup Instants
  /\ stamp \in Stamps
  /\ channel \in Seq(Snapshot) /\ Len(channel) <= ChannelCap
  /\ phase \in {"idle", "rows", "rollup", "retention"}
  /\ cur \in Snapshot \cup {NoSnapshot}
  /\ phase \in {"rows", "rollup"} => cur \in Snapshot
  /\ todo \subseteq RowKeys
  /\ batch \subseteq Keys \X Instants
  /\ dirty \in [Exchanges -> Entry \cup {NoExchange}]
  /\ lastLogged \in Instants \cup {NoTime}
  /\ lastTs \in [Keys -> Instants \cup {NoTime}]
  /\ cached \in [Exchanges -> Entry \cup {NoExchange}]
  /\ pruned \in Instants \cup {NoTime}
  /\ registry \in [Exchanges -> Entry \cup {NoExchange}]
  /\ quotes \in [Keys \X Instants -> Nat]
  /\ rollup \in [{"float", "fixed"} \X Buckets -> Nat]
  /\ failed \in BOOLEAN

Nothing == [e \in Exchanges |-> NoExchange]

Init ==
  /\ now = 0 /\ startedAt = 0 /\ warmedAt = -1
  /\ stamp = [k \in RowKeys |-> NoTime]
  /\ channel = <<>>
  /\ phase = "idle"
  /\ cur = NoSnapshot /\ todo = {} /\ batch = {} /\ dirty = Nothing
  /\ lastLogged = NoTime
  /\ lastTs = [k \in Keys |-> NoTime]
  /\ cached = Nothing
  /\ pruned = NoTime
  /\ registry = Nothing
  /\ quotes = [q \in Keys \X Instants |-> 0]
  /\ rollup = [b \in {"float", "fixed"} \X Buckets |-> 0]
  /\ failed = FALSE

(***************************************************************************)
(* The producer: a refresh ends and its snapshot is enqueued.              *)
(***************************************************************************)
\* Float rows come before fixed rows, in a snapshot as in the board.
First(rows, k) == k \in rows /\ (k[2] = "fixed" => \A j \in rows : j[2] = "fixed")

\* The time of the last good row: of the stored rows with the exchange and rate
\* type of this one, the first.
LastGood(k) ==
  LET old == {j \in RowKeys : j[1] = k[1] /\ Rate(j) = Rate(k) /\ stamp[j] # NoTime}
  IN  IF old = {} THEN NoTime ELSE stamp[CHOOSE j \in old : First(old, j)]

Carriable(k) == LastGood(k) # NoTime /\ now + 1 - LastGood(k) < StaleWindow

\* The time of a row in the next refresh: fetched by it (no sooner than the last
\* refresh ended), carried forward or patched, or no row; a fixed row that is no
\* genuine quote is not stored at all.
NextStamps(k) ==
  {t \in {now, now + 1} : t > warmedAt}
    \cup (IF Carriable(k) THEN {LastGood(k)} ELSE {NoTime})
    \cup (IF k[2] = "fixed" THEN {NoTime} ELSE {})

\* Faulty variant: an unbounded channel.
PushedUnbounded(s) == Append(channel, s)

\* BoundedChannelFullMode.DropOldest
Pushed(s) ==
  IF Len(channel) < ChannelCap THEN Append(channel, s) ELSE Append(Tail(channel), s)

\* A bound of the model, not of the code: how far behind the consumer may fall.
WithinLag ==
  /\ now < MaxTime
  /\ \A i \in 1..Len(channel) : now - channel[i].captured < MaxLag
  /\ cur # NoSnapshot => now - cur.captured < MaxLag

\* RefreshAndStoreAsync stores its rows and ends in EnqueueAsync with those that
\* the board's filters let through: any row may be hidden for a while, one-sided
\* or judged insane or an outlier, and shown with an old time later.
Warm ==
  /\ WithinLag
  /\ now' = now + 1 /\ warmedAt' = now + 1
  /\ stamp' \in {s \in Stamps : \A k \in RowKeys : s[k] \in NextStamps(k)}
  /\ \E shown \in SUBSET RowKeys :
       channel' = Pushed([captured |-> now + 1,
                          rows |-> [k \in RowKeys |-> IF k \in shown THEN stamp'[k] ELSE NoTime]])
  /\ UNCHANGED <<startedAt, phase, work, memory, database, failed>>

Tick ==
  /\ WithinLag
  /\ now' = now + 1
  /\ UNCHANGED <<startedAt, board, channel, phase, work, memory, database, failed>>

(***************************************************************************)
(* The consumer.                                                           *)
(***************************************************************************)
NoWork == cur' = NoSnapshot /\ todo' = {} /\ batch' = {} /\ dirty' = Nothing

Throttled(s) == lastLogged # NoTime /\ s.captured - lastLogged < LogInterval

SkipSnapshot ==
  /\ phase = "idle" /\ channel # <<>> /\ Throttled(Head(channel))
  /\ channel' = Tail(channel)
  /\ phase' = "retention"
  /\ UNCHANGED <<now, startedAt, board, work, memory, database, failed>>

TakeSnapshot ==
  /\ phase = "idle" /\ channel # <<>> /\ ~Throttled(Head(channel))
  /\ channel' = Tail(channel)
  /\ cur' = Head(channel)
  /\ todo' = {k \in RowKeys : cur'.rows[k] # NoTime}
  /\ lastLogged' = cur'.captured
  /\ phase' = "rows"
  /\ UNCHANGED <<now, startedAt, board, batch, dirty, lastTs, cached, pruned, database, failed>>

Turn(k) == First(todo, k)

\* The registry with the tracked changes saved.
Saved == [e \in Exchanges |-> IF dirty[e] # NoExchange THEN dirty[e] ELSE registry[e]]

\* EnsureExchangeAsync: nothing to do, a new exchange (saved at once, with every
\* tracked change), or a change left to the caller's save.
KnownFresh(k) ==
  LET c == cached[k[1]] IN
  c # NoExchange /\ cur.captured - c.seen < MetaTtl /\ c.rate = Rate(k)

\* The registry after a new exchange is saved, with every tracked change.
Registered(k) == [Saved EXCEPT ![k[1]] = [rate |-> Rate(k), seen |-> cur.captured]]

EnsureExchange(k) ==
  LET e == k[1]
      entry == [rate |-> Rate(k), seen |-> cur.captured]
  IN \/ KnownFresh(k) /\ UNCHANGED <<cached, registry, dirty>>
     \/ /\ ~KnownFresh(k)
        /\ cached' = [cached EXCEPT ![e] = entry]
        /\ IF registry[e] = NoExchange
           THEN registry' = Registered(k) /\ dirty' = Nothing
           ELSE dirty' = [dirty EXCEPT ![e] = entry] /\ UNCHANGED registry

\* DedupeByQuoteTimestamp: the timestamp last seen under the key is skipped.
Collect(k) ==
  LET ts == cur.rows[k] IN
  IF lastTs[DedupeKey(k)] = ts
  THEN UNCHANGED <<lastTs, batch>>
  ELSE /\ lastTs' = [lastTs EXCEPT ![DedupeKey(k)] = ts]
       /\ batch' = batch \cup {<<StoredAs(k), ts>>}

ProcessRow(k) ==
  /\ phase = "rows" /\ Turn(k)
  /\ EnsureExchange(k)
  /\ Collect(k)
  /\ todo' = todo \ {k}
  /\ UNCHANGED <<now, startedAt, board, channel, phase, cur, lastLogged, pruned, quotes, rollup, failed>>

\* Faulty variants: an exchange cached before it is saved; an exception that
\* ends the consumer.
RowFailsCached(k) ==
  /\ MayFail /\ phase = "rows" /\ Turn(k) /\ ~KnownFresh(k)
  /\ cached' = [cached EXCEPT ![k[1]] = [rate |-> Rate(k), seen |-> cur.captured]]
  /\ phase' = "retention" /\ NoWork /\ failed' = TRUE
  /\ UNCHANGED <<now, startedAt, board, channel, lastLogged, lastTs, pruned, database>>
RowFailsUncaught(k) ==
  /\ MayFail /\ phase = "rows" /\ Turn(k) /\ ~KnownFresh(k)
  /\ phase' = "stopped" /\ NoWork /\ failed' = TRUE
  /\ UNCHANGED <<now, startedAt, board, channel, memory, database>>

\* The registry cannot be read or written, or the save that registers a new
\* exchange commits and its answer is lost: the exception drops the batch.
RowFails(k) ==
  /\ MayFail /\ phase = "rows" /\ Turn(k) /\ ~KnownFresh(k)
  /\ \/ UNCHANGED registry
     \/ registry[k[1]] = NoExchange /\ registry' = Registered(k)
  /\ phase' = "retention" /\ NoWork /\ failed' = TRUE
  /\ UNCHANGED <<now, startedAt, board, channel, memory, quotes, rollup>>

RowsDone == phase = "rows" /\ todo = {}

Inserted == [q \in DOMAIN quotes |-> quotes[q] + IF q \in batch THEN 1 ELSE 0]

\* db.SaveChangesAsync: the quotes and the tracked changes in one transaction.
SaveQuotes ==
  /\ RowsDone /\ batch # {}
  /\ quotes' = Inserted
  /\ registry' = Saved
  /\ phase' = "rollup"
  /\ UNCHANGED <<now, startedAt, board, channel, work, memory, rollup, failed>>

\* Faulty variant: without quotes to insert nothing is saved.
SaveMetadataSkipped ==
  /\ RowsDone /\ batch = {}
  /\ phase' = "retention" /\ NoWork
  /\ UNCHANGED <<now, startedAt, board, channel, memory, database, failed>>

\* Nothing new to insert: the tracked changes alone.
SaveMetadata ==
  /\ RowsDone /\ batch = {}
  /\ registry' = Saved
  /\ phase' = "retention" /\ NoWork
  /\ UNCHANGED <<now, startedAt, board, channel, memory, quotes, rollup, failed>>

\* The save fails, or commits and the connection breaks before the answer.
SaveFails ==
  /\ MayFail /\ RowsDone /\ (batch # {} \/ dirty # Nothing)
  /\ \/ UNCHANGED <<registry, quotes>>
     \/ registry' = Saved /\ quotes' = Inserted
  /\ phase' = "retention" /\ NoWork /\ failed' = TRUE
  /\ UNCHANGED <<now, startedAt, board, channel, memory, rollup>>

\* The samples the raw quotes give a bucket.
SamplesOf(rate, b) ==
  MapThenSumSet(LAMBDA q : quotes[q],
                {q \in DOMAIN quotes : q[1][2] = rate /\ Bucket(q[2]) = b})

\* The current minute and the one before.
RollupFrom(captured) == Bucket(captured) - 1

\* Faulty variant: the pair's buckets are rebuilt from the raw quotes.
RollUpRebuilt ==
  /\ phase = "rollup"
  /\ rollup' = [b \in DOMAIN rollup |-> SamplesOf(b[1], b[2])]
  /\ phase' = "retention" /\ NoWork
  /\ UNCHANGED <<now, startedAt, board, channel, memory, registry, quotes, failed>>

\* RefreshRollupAsync: recompute and upsert every bucket that has a raw quote.
RollUp ==
  /\ phase = "rollup"
  /\ rollup' = [b \in DOMAIN rollup |->
                  IF b[2] >= RollupFrom(cur.captured) /\ SamplesOf(b[1], b[2]) > 0
                  THEN SamplesOf(b[1], b[2])
                  ELSE rollup[b]]
  /\ phase' = "retention" /\ NoWork
  /\ UNCHANGED <<now, startedAt, board, channel, memory, registry, quotes, failed>>

RollUpFails ==
  /\ MayFail /\ phase = "rollup"
  /\ phase' = "retention" /\ NoWork
  /\ UNCHANGED <<now, startedAt, board, channel, memory, database, failed>>

Kept(q) == q[2] >= now - Retention

PruneDue == Retention > 0 /\ (pruned # NoTime => now - pruned >= RetentionEvery)

\* RunRetentionIfDueAsync, after every snapshot; a failure waits for the next run.
Prune ==
  /\ phase = "retention" /\ PruneDue
  /\ \/ quotes' = [q \in DOMAIN quotes |-> IF Kept(q) THEN quotes[q] ELSE 0]
     \/ MayFail /\ UNCHANGED quotes
  /\ pruned' = now
  /\ phase' = "idle"
  /\ UNCHANGED <<now, startedAt, board, channel, work, lastLogged, lastTs, cached, registry, rollup, failed>>

NothingToPrune ==
  /\ phase = "retention" /\ ~PruneDue
  /\ phase' = "idle"
  /\ UNCHANGED <<now, startedAt, board, channel, work, memory, database, failed>>

\* The process dies anywhere and starts again: only the tables survive.
Restart ==
  /\ MayFail /\ now < MaxTime
  /\ now' = now + 1
  /\ startedAt' = now + 1 /\ warmedAt' = now
  /\ stamp' = [k \in RowKeys |-> NoTime]
  /\ channel' = <<>>
  /\ phase' = "idle" /\ NoWork
  /\ lastLogged' = NoTime
  /\ lastTs' = [k \in Keys |-> NoTime]
  /\ cached' = Nothing
  /\ pruned' = NoTime
  /\ failed' = FALSE
  /\ UNCHANGED database

Next ==
  \/ Warm \/ Tick
  \/ SkipSnapshot \/ TakeSnapshot
  \/ \E k \in RowKeys : ProcessRow(k) \/ RowFails(k)
  \/ SaveQuotes \/ SaveMetadata \/ SaveFails
  \/ RollUp \/ RollUpFails
  \/ Prune \/ NothingToPrune
  \/ Restart

Spec == Init /\ [][Next]_vars

\* The consumer's own steps: every database call answers or throws.
Consumer ==
  \/ \E k \in RowKeys : ProcessRow(k) \/ RowFails(k)
  \/ SaveQuotes \/ SaveMetadata \/ SaveFails \/ RollUp \/ RollUpFails
  \/ Prune \/ NothingToPrune
FairSpec == Spec /\ WF_vars(Consumer)

-----------------------------------------------------------------------------
(***************************************************************************)
(* Properties.                                                             *)
(***************************************************************************)
\* "Keeps the table honest": no quote has two rows, although carried-forward
\* rows arrive again and again, saves commit without an answer and the process
\* restarts with an empty memory.  Except for the exchanges with two rows of one
\* rate type (betkarma): "a shared key let them overwrite each other's last
\* timestamp, so a carried-forward (same-ts) row was re-inserted" is true of them
\* still, as the rate type in the key does not tell their rows apart.
OneRowPerQuote ==
  \A q \in DOMAIN quotes : q[1][1] \notin Twins => quotes[q] <= 1

\* The exchange id a batch refers to exists: an exchange cached but not stored
\* would fail every later insert.
CachedIsRegistered ==
  \A e \in Exchanges : cached[e] # NoExchange => registry[e] # NoExchange

\* Until a registry call fails, what the process believes it recorded of an
\* exchange (LastSeenUtc above all, which keeps its page alive) is recorded; a
\* restart begins anew, whatever failed before it.
CacheMatchesRegistry ==
  phase = "idle" /\ ~failed =>
    \A e \in Exchanges : cached[e] # NoExchange => cached[e] = registry[e]

\* Charts never lose history: recomputing a bucket whose raw quotes are being
\* pruned never shrinks it.
NoBucketShrinks == \A b \in DOMAIN rollup : rollup'[b] >= rollup[b]
BucketsNeverShrink == [][NoBucketShrinks]_vars

\* "All failures are logged and swallowed": the consumer always comes back for
\* the next snapshot.
ConsumerSurvives == (phase # "idle") ~> (phase = "idle")

(***************************************************************************)
(* Statements of the code's comments that the code does not keep.          *)
(***************************************************************************)
\* "Last quote timestamp inserted": what the dedupe remembers is in the table.
RememberedIsInserted ==
  phase = "idle" =>
    \A k \in Keys : lastTs[k] # NoTime => quotes[<<k, lastTs[k]>>] > 0

\* "Idempotent and self-healing, so a missed or duplicated cycle can never corrupt
\* the rollup": a bucket never counts fewer quotes than the table holds (it may
\* count more once they are pruned).
RollupComplete ==
  phase \in {"idle", "retention"} =>
    \A b \in DOMAIN rollup : rollup[b] >= SamplesOf(b[1], b[2])
=============================================================================
