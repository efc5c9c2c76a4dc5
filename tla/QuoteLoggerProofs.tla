------------------------- MODULE QuoteLoggerProofs -------------------------
(***************************************************************************)
(* The safety properties of QuoteLogger, for any exchanges, channel        *)
(* capacity, intervals and retention.  Types, stored quotes and cached     *)
(* exchanges are right under any failures and restarts, registry and       *)
(* memory agree until a registry call fails, and the rollup agrees with    *)
(* what was logged while the database answers and no insert is late.       *)
(***************************************************************************)
EXTENDS QuoteLogger, FiniteSums, FiniteSetTheorems, TLAPS

(***************************************************************************)
(* The inductive invariant of the stored quotes.                           *)
(***************************************************************************)
Types ==
  /\ now \in Nat /\ startedAt \in Nat /\ warmedAt \in Int
  /\ stamp \in [RowKeys -> Nat \cup {NoTime}]
  /\ lastTs \in [Keys -> Nat \cup {NoTime}]
  /\ phase \in {"idle", "rows", "rollup", "retention"}
  /\ todo \subseteq RowKeys
  /\ quotes \in [Keys \X Instants -> Nat]
  /\ cached \in [Exchanges -> Entry \cup {NoExchange}]
  /\ registry \in [Exchanges -> Entry \cup {NoExchange}]
  /\ dirty \in [Exchanges -> Entry \cup {NoExchange}]

\* The rows with a dedupe key of their own.
Single == {k \in RowKeys : k[1] \notin Twins}

\* The snapshots waiting are the latest ones, with a stamp or none per row.
ChannelTypes ==
  /\ channel \in Seq(Snapshot)
  /\ phase = "rows" => cur \in Snapshot

\* What is remembered of a row is no newer than a time.
Seen(k, t) == lastTs[DedupeKey(k)] # NoTime => lastTs[DedupeKey(k)] <= t

\* The board's stamps are of this process and no newer than its last refresh.
StampsOfProcess ==
  /\ startedAt <= now /\ startedAt - 1 <= warmedAt /\ warmedAt <= now
  /\ \A k \in Single :
       /\ stamp[k] # NoTime => startedAt <= stamp[k] /\ stamp[k] <= warmedAt /\ Seen(k, stamp[k])
       /\ Seen(k, warmedAt)

\* A row of a snapshot on its way lies between what the consumer remembers of
\* the row and what the board has now.
Between(k, t) ==
  /\ startedAt <= t /\ t <= warmedAt
  /\ stamp[k] # NoTime => t <= stamp[k]
  /\ Seen(k, t)
ChannelOrdered ==
  /\ \A i \in 1..Len(channel) : \A k \in Single :
       channel[i].rows[k] # NoTime => Between(k, channel[i].rows[k])
  /\ \A i, j \in 1..Len(channel) : \A k \in Single :
       (i < j /\ channel[i].rows[k] # NoTime /\ channel[j].rows[k] # NoTime)
       => channel[i].rows[k] <= channel[j].rows[k]

\* So does a row still to be processed, and no snapshot behind it is older.
RowsOrdered ==
  /\ phase # "rows" => todo = {}
  /\ \A k \in todo : cur.rows[k] # NoTime
  /\ \A k \in todo \cap Single :
       /\ Between(k, cur.rows[k])
       /\ \A i \in 1..Len(channel) :
            channel[i].rows[k] # NoTime => cur.rows[k] <= channel[i].rows[k]

\* A stored quote is remembered, or older, or of an earlier process.
StoredAreOld ==
  \A k \in Single : \A t \in Instants :
    quotes[<<DedupeKey(k), t>>] > 0
    => t < startedAt \/ (lastTs[DedupeKey(k)] # NoTime /\ t <= lastTs[DedupeKey(k)])

\* The batch holds quotes that are not stored, remembered as the last of their
\* row, whose row is done; it is empty between two snapshots.
BatchIsNew ==
  /\ phase \in {"idle", "retention"} => batch = {}
  /\ phase = "rows" =>
       \A q \in batch :
         /\ q \in Keys \X Instants
         /\ \A k \in Single : q[1] = DedupeKey(k) =>
              quotes[q] = 0 /\ q[2] = lastTs[q[1]] /\ k \notin todo

Inv ==
  /\ Types
  /\ ChannelTypes
  /\ StampsOfProcess
  /\ ChannelOrdered
  /\ RowsOrdered
  /\ StoredAreOld
  /\ BatchIsNew
  /\ OneRowPerQuote
  /\ CachedIsRegistered

-----------------------------------------------------------------------------
\* A single row shares its key with no other row.
LEMMA KeysApart ==
  /\ \A k \in RowKeys : /\ DedupeKey(k) \in Keys /\ DedupeKey(k) = StoredAs(k)
                        /\ k[1] \in Exchanges /\ Rate(k) \in {"float", "fixed"}
  /\ \A j \in Single, k \in RowKeys : DedupeKey(j) = DedupeKey(k) => j = k
  /\ \A key \in Keys : key[1] \notin Twins => \E k \in Single : key = DedupeKey(k)
<1>1. \A k \in RowKeys : /\ k = <<k[1], k[2]>> /\ k[1] \in Exchanges
                         /\ k[2] = "float" \/ (k[2] = "fixed" /\ k[1] \in FixedCapable)
  BY LoggerAssumption DEF RowKeys, LoggerAssumption
<1>2. ASSUME NEW j \in Single, NEW k \in RowKeys, DedupeKey(j) = DedupeKey(k) PROVE j = k
  <2>1. j \in RowKeys /\ j[1] = k[1] /\ Rate(j) = Rate(k) /\ j[1] \notin Twins
    BY <1>2 DEF Single, DedupeKey
  <2>2. j[2] = k[2]
    BY <1>1, <2>1 DEF Rate, Twins
  <2> QED BY <1>1, <2>1, <2>2
<1>3. ASSUME NEW key \in Keys, key[1] \notin Twins PROVE \E k \in Single : key = DedupeKey(k)
  BY <1>3 DEF Keys, StoredAs, DedupeKey, Single
<1>4. ASSUME NEW k \in RowKeys
      PROVE  /\ DedupeKey(k) \in Keys /\ DedupeKey(k) = StoredAs(k)
             /\ k[1] \in Exchanges /\ Rate(k) \in {"float", "fixed"}
  BY <1>1 DEF Keys, StoredAs, DedupeKey, Rate
<1> QED BY <1>2, <1>3, <1>4

LEMMA InitInv == Init => Inv
<1> SUFFICES ASSUME Init PROVE Inv
  OBVIOUS
<1>1. Types
  BY LoggerAssumption DEF Init, Types, Nothing, LoggerAssumption, Instants
<1>2. ChannelTypes /\ StampsOfProcess /\ ChannelOrdered /\ RowsOrdered
  <2>1. \A k \in Single : k \in RowKeys /\ stamp[k] = NoTime /\ lastTs[DedupeKey(k)] = NoTime
    BY KeysApart DEF Init, Single
  <2> QED BY <2>1 DEF Init, ChannelTypes, StampsOfProcess, Seen, ChannelOrdered, RowsOrdered
<1>3. StoredAreOld /\ BatchIsNew /\ OneRowPerQuote /\ CachedIsRegistered
  BY KeysApart DEF Init, StoredAreOld, BatchIsNew, OneRowPerQuote, CachedIsRegistered, Nothing, Single
<1> QED BY <1>1, <1>2, <1>3 DEF Inv

\* A step of the consumer after which no row is left to process.
LEMMA WorkDropped ==
  ASSUME Inv, phase' \in {"idle", "rollup", "retention"}, todo' = {},
         UNCHANGED <<now, startedAt, warmedAt, stamp, channel, lastTs, cached>>,
         dirty' \in {dirty, Nothing},
         phase' # "rollup" => batch' = {},
         registry' \in {registry, Saved} \cup {Registered(k) : k \in todo},
         quotes' \in [Keys \X Instants -> Nat],
         \A q \in Keys \X Instants : q[1][1] \notin Twins =>
           quotes'[q] <= quotes[q] \/ (phase = "rows" /\ q \in batch /\ quotes'[q] = 1)
  PROVE  Inv'
<1> USE DEF Inv
<1>1. /\ Saved \in [Exchanges -> Entry \cup {NoExchange}]
      /\ \A e \in Exchanges : registry[e] # NoExchange => Saved[e] # NoExchange
  BY DEF Saved, Types
<1>7. /\ registry' \in [Exchanges -> Entry \cup {NoExchange}]
      /\ \A e \in Exchanges : registry[e] # NoExchange => registry'[e] # NoExchange
  <2>1. CASE registry' \in {registry, Saved}
    BY <1>1, <2>1 DEF Types
  <2>2. ASSUME NEW k \in todo, registry' = Registered(k)
        PROVE  /\ registry' \in [Exchanges -> Entry \cup {NoExchange}]
               /\ \A e \in Exchanges : registry[e] # NoExchange => registry'[e] # NoExchange
    <3>1. k \in RowKeys /\ cur \in Snapshot
      BY DEF Types, RowsOrdered, ChannelTypes
    <3>2. cur.captured \in Instants /\ k[1] \in Exchanges /\ Rate(k) \in {"float", "fixed"}
      BY <3>1, KeysApart DEF Snapshot
    <3> DEFINE entry == [rate |-> Rate(k), seen |-> cur.captured]
    <3>3. entry \in Entry /\ entry # NoExchange
      BY <3>2, LoggerAssumption DEF Entry, LoggerAssumption
    <3>4. registry' = [Saved EXCEPT ![k[1]] = entry]
      BY <2>2 DEF Registered
    <3> HIDE DEF entry
    <3> QED BY <1>1, <3>2, <3>3, <3>4
  <2> QED BY <2>1, <2>2
<1>2. Types'
  <2>2. Nothing \in [Exchanges -> Entry \cup {NoExchange}]
    BY DEF Nothing
  <2> QED BY <1>7, <2>2 DEF Types
<1>3. ChannelTypes' /\ StampsOfProcess' /\ ChannelOrdered' /\ RowsOrdered' /\ BatchIsNew'
  BY DEF ChannelTypes, StampsOfProcess, Seen, ChannelOrdered, Between, RowsOrdered, BatchIsNew
<1>4. StoredAreOld'
  <2> SUFFICES ASSUME NEW k \in Single, NEW t \in Instants, quotes'[<<DedupeKey(k), t>>] > 0
               PROVE  t < startedAt \/ (lastTs[DedupeKey(k)] # NoTime /\ t <= lastTs[DedupeKey(k)])
    BY DEF StoredAreOld
  <2> DEFINE q == <<DedupeKey(k), t>>
  <2>3. q \in Keys \X Instants /\ q[1] = DedupeKey(k) /\ q[2] = t /\ q[1][1] \notin Twins
    BY KeysApart DEF Single, DedupeKey
  <2> HIDE DEF q
  <2>1. CASE quotes'[q] <= quotes[q]
    <3>1. quotes[q] > 0
      BY <2>1, <2>3 DEF Types, q
    <3> QED BY <3>1 DEF StoredAreOld, q
  <2>2. CASE phase = "rows" /\ q \in batch
    <3>1. t = lastTs[DedupeKey(k)]
      BY <2>2, <2>3 DEF BatchIsNew
    <3> QED BY <3>1, LoggerAssumption DEF LoggerAssumption, Instants
  <2> QED BY <2>1, <2>2, <2>3
<1>5. OneRowPerQuote'
  <2> SUFFICES ASSUME NEW q \in Keys \X Instants, q[1][1] \notin Twins PROVE quotes'[q] <= 1
    BY DEF OneRowPerQuote
  <2>1. quotes[q] <= 1 /\ quotes[q] \in Nat /\ quotes'[q] \in Nat
    BY DEF OneRowPerQuote, Types
  <2> QED BY <2>1
<1>6. CachedIsRegistered'
  BY <1>7 DEF CachedIsRegistered
<1> QED BY <1>2, <1>3, <1>4, <1>5, <1>6

\* A snapshot joins the channel, the oldest one leaving if it is full.
LEMMA PushedOrdered ==
  ASSUME ChannelTypes, NEW s \in Snapshot
  PROVE  /\ Pushed(s) \in Seq(Snapshot)
         /\ \A i \in 1..Len(Pushed(s)) :
              Pushed(s)[i] = s \/ \E j \in 1..Len(channel) : Pushed(s)[i] = channel[j]
         /\ \A i, j \in 1..Len(Pushed(s)) : i < j =>
              \/ Pushed(s)[j] = s /\ \E m \in 1..Len(channel) : Pushed(s)[i] = channel[m]
              \/ \E m, n \in 1..Len(channel) :
                   m < n /\ Pushed(s)[i] = channel[m] /\ Pushed(s)[j] = channel[n]
<1>1. channel \in Seq(Snapshot) /\ Len(channel) \in Nat
  BY DEF ChannelTypes
<1>2. CASE Len(channel) < ChannelCap
  BY <1>1, <1>2 DEF Pushed
<1>3. CASE ~(Len(channel) < ChannelCap)
  <2>1. channel # <<>>
    BY <1>1, <1>3, LoggerAssumption DEF LoggerAssumption
  <2> DEFINE t == Tail(channel)
  <2>2. t \in Seq(Snapshot) /\ Len(t) = Len(channel) - 1 /\ Len(channel) >= 1
    BY <1>1, <2>1
  <2>3. \A i \in 1..Len(t) : t[i] = channel[i + 1] /\ i + 1 \in 1..Len(channel)
    BY <1>1, <2>1, <2>2
  <2>4. Pushed(s) = Append(t, s)
    BY <1>3 DEF Pushed
  <2> HIDE DEF t
  <2>5. /\ Append(t, s) \in Seq(Snapshot) /\ Len(Append(t, s)) = Len(t) + 1
        /\ \A i \in 1..Len(t) : Append(t, s)[i] = t[i]
        /\ Append(t, s)[Len(t) + 1] = s
    BY <2>2
  <2>6. \A i \in 1..(Len(t) + 1) : i \in 1..Len(t) \/ i = Len(t) + 1
    BY <1>1, <2>2
  <2>7. \A i, j \in 1..(Len(t) + 1) : i < j => i \in 1..Len(t) /\ i + 1 < j + 1
    BY <1>1, <2>2
  <2> QED BY <2>3, <2>4, <2>5, <2>6, <2>7
<1> QED BY <1>2, <1>3

\* The last good row of a single row is its own.
LEMMA LastOfSingle ==
  ASSUME NEW k \in Single, LastGood(k) # NoTime
  PROVE  stamp[k] # NoTime /\ LastGood(k) = stamp[k]
<1> DEFINE old == {j \in RowKeys : j[1] = k[1] /\ Rate(j) = Rate(k) /\ stamp[j] # NoTime}
<1>1. \A j \in old : j = k /\ stamp[j] # NoTime
  <2> SUFFICES ASSUME NEW j \in old PROVE j = k
    OBVIOUS
  <2>1. j \in RowKeys /\ DedupeKey(k) = DedupeKey(j)
    BY DEF DedupeKey
  <2> QED BY <2>1, KeysApart
<1>2. old # {} /\ LastGood(k) = stamp[CHOOSE j \in old : First(old, j)]
  BY DEF LastGood
<1>3. k \in old /\ First(old, k)
  BY <1>1, <1>2 DEF First
<1>4. (CHOOSE j \in old : First(old, j)) = k
  BY <1>1, <1>3
<1> QED BY <1>1, <1>2, <1>3, <1>4

\* The stamps of the board after a refresh, and of its snapshot.
LEMMA WarmPreserves == Inv /\ Warm => Inv'
<1> SUFFICES ASSUME Inv, Warm PROVE Inv'
  OBVIOUS
<1> USE DEF Inv
<1>1. PICK shown \in SUBSET RowKeys :
        channel' = Pushed([captured |-> now + 1,
                           rows |-> [k \in RowKeys |-> IF k \in shown THEN stamp'[k] ELSE NoTime]])
  BY DEF Warm
<1> DEFINE rows == [k \in RowKeys |-> IF k \in shown THEN stamp'[k] ELSE NoTime]
<1>2. /\ now < MaxTime /\ now' = now + 1 /\ warmedAt' = now + 1
      /\ stamp' \in Stamps /\ \A k \in RowKeys : stamp'[k] \in NextStamps(k)
      /\ UNCHANGED <<startedAt, phase, cur, todo, batch, dirty, lastTs, cached, registry, quotes>>
  BY DEF Warm, WithinLag, work, memory, database
<1>20. rows \in Stamps /\ \A k \in RowKeys : rows[k] # NoTime => rows[k] = stamp'[k]
  BY <1>2 DEF Stamps
<1> DEFINE s == [captured |-> now + 1, rows |-> rows]
<1>3. s \in Snapshot /\ s.rows = rows
  BY <1>2, <1>20, LoggerAssumption DEF Snapshot, Instants, Types, LoggerAssumption
<1>4. ASSUME NEW k \in Single, stamp'[k] # NoTime
      PROVE  /\ stamp'[k] \in Nat /\ startedAt <= stamp'[k] /\ stamp'[k] <= now + 1
             /\ \/ stamp'[k] > warmedAt
                \/ stamp[k] # NoTime /\ stamp'[k] = stamp[k]
  <2>1. now \in Nat /\ startedAt \in Nat /\ warmedAt \in Int
        /\ startedAt - 1 <= warmedAt /\ warmedAt <= now
    BY DEF Types, StampsOfProcess
  <2>2. k \in RowKeys
    BY DEF Single
  <2>3. CASE stamp'[k] \in {now, now + 1} /\ stamp'[k] > warmedAt
    BY <2>1, <2>3
  <2>4. CASE stamp'[k] = LastGood(k)
    <3>1. stamp[k] # NoTime /\ LastGood(k) = stamp[k]
      BY <1>4, <2>4, LastOfSingle
    <3>2. stamp[k] \in Nat /\ startedAt <= stamp[k] /\ stamp[k] <= warmedAt
      BY <2>2, <3>1 DEF Types, StampsOfProcess
    <3> QED BY <2>1, <2>4, <3>1, <3>2
  <2> QED BY <1>2, <1>4, <2>2, <2>3, <2>4 DEF NextStamps
<1>16. channel' = Pushed(s)
  BY <1>1
<1> HIDE DEF s, rows
<1>5. /\ channel' \in Seq(Snapshot)
      /\ \A i \in 1..Len(channel') :
           channel'[i] = s \/ \E j \in 1..Len(channel) : channel'[i] = channel[j]
      /\ \A i, j \in 1..Len(channel') : i < j =>
           \/ channel'[j] = s /\ \E m \in 1..Len(channel) : channel'[i] = channel[m]
           \/ \E m, n \in 1..Len(channel) :
                m < n /\ channel'[i] = channel[m] /\ channel'[j] = channel[n]
  <2> DEFINE Extends(c) ==
        /\ c \in Seq(Snapshot)
        /\ \A i \in 1..Len(c) :
             c[i] = s \/ \E j \in 1..Len(channel) : c[i] = channel[j]
        /\ \A i, j \in 1..Len(c) : i < j =>
             \/ c[j] = s /\ \E m \in 1..Len(channel) : c[i] = channel[m]
             \/ \E m, n \in 1..Len(channel) : m < n /\ c[i] = channel[m] /\ c[j] = channel[n]
  <2>1. Extends(Pushed(s))
    BY <1>3, PushedOrdered
  <2>2. ASSUME NEW c, c = Pushed(s) PROVE Extends(c)
    <3> HIDE DEF Extends
    <3> QED BY <2>1, <2>2
  <2>3. Extends(channel')
    <3> HIDE DEF Extends
    <3> QED BY <1>16, <2>2
  <2> QED BY <2>3
<1>6. s.rows = rows
  BY <1>3
<1>7. Types' /\ ChannelTypes'
  <2>1. stamp' \in [RowKeys -> Nat \cup {NoTime}]
    BY <1>2 DEF Stamps, Instants
  <2> QED BY <1>2, <1>5, <2>1 DEF Types, ChannelTypes
<1> DEFINE NewBetween(k, t) == /\ startedAt <= t /\ t <= now + 1
                               /\ stamp'[k] # NoTime => t <= stamp'[k]
                               /\ Seen(k, t)
<1>21. now \in Nat /\ startedAt \in Nat /\ warmedAt \in Int /\ warmedAt <= now
       /\ startedAt <= now /\ startedAt - 1 <= warmedAt
  BY DEF Types, StampsOfProcess
<1>22. \A k \in Single : /\ k \in RowKeys /\ DedupeKey(k) \in Keys
                         /\ lastTs[DedupeKey(k)] \in Nat \cup {NoTime}
                         /\ stamp[k] \in Nat \cup {NoTime}
  BY KeysApart DEF Single, Types
<1>10. ASSUME NEW k \in Single, NEW t \in Nat, Between(k, t) PROVE NewBetween(k, t)
  <2>1. startedAt <= t /\ t <= now + 1 /\ Seen(k, t) /\ t <= warmedAt
    BY <1>10, <1>21 DEF Between
  <2>2. ASSUME stamp'[k] # NoTime PROVE t <= stamp'[k]
    <3>1. CASE stamp'[k] > warmedAt /\ stamp'[k] \in Nat
      BY <1>21, <2>1, <3>1
    <3>2. CASE stamp[k] # NoTime /\ stamp'[k] = stamp[k]
      BY <1>10, <3>2 DEF Between
    <3> QED BY <1>4, <2>2, <3>1, <3>2
  <2> QED BY <2>1, <2>2
<1>11. ASSUME NEW k \in Single, stamp'[k] # NoTime PROVE NewBetween(k, stamp'[k])
  <2>1. CASE stamp'[k] > warmedAt /\ stamp'[k] \in Nat
    <3>1. Seen(k, warmedAt)
      BY DEF StampsOfProcess
    <3>2. Seen(k, stamp'[k])
      BY <1>21, <1>22, <2>1, <3>1 DEF Seen
    <3>3. stamp'[k] \in Nat /\ startedAt <= stamp'[k] /\ stamp'[k] <= now + 1
      BY <1>4, <1>11
    <3> QED BY <3>2, <3>3
  <2>2. CASE stamp[k] # NoTime /\ stamp'[k] = stamp[k]
    <3>1. Seen(k, stamp[k])
      BY <2>2 DEF StampsOfProcess
    <3>2. stamp'[k] \in Nat /\ startedAt <= stamp'[k] /\ stamp'[k] <= now + 1
      BY <1>4, <1>11
    <3> QED BY <2>2, <3>1, <3>2
  <2> QED BY <1>4, <1>11, <2>1, <2>2
<1>9. StampsOfProcess'
  <2>1. \A k \in Single : Seen(k, now + 1)
    <3> SUFFICES ASSUME NEW k \in Single PROVE Seen(k, now + 1)
      OBVIOUS
    <3>1. Seen(k, warmedAt)
      BY DEF StampsOfProcess
    <3> QED BY <1>21, <1>22, <3>1 DEF Seen
  <2> QED BY <1>2, <1>11, <1>21, <2>1 DEF StampsOfProcess, Seen
<1>12. ASSUME NEW i \in 1..Len(channel), NEW k \in Single, channel[i].rows[k] # NoTime
       PROVE  channel[i].rows[k] \in Nat /\ Between(k, channel[i].rows[k])
  <2>1. channel[i] \in Snapshot
    BY DEF ChannelTypes
  <2>2. channel[i].rows[k] \in Instants
    BY <1>12, <1>22, <2>1 DEF Snapshot, Stamps
  <2> QED BY <1>12, <2>2, LoggerAssumption DEF ChannelOrdered, Instants, LoggerAssumption
<1>23. ASSUME NEW k \in Single, rows[k] # NoTime, NEW t \in Nat, Between(k, t)
       PROVE  rows[k] \in Nat /\ t <= rows[k] /\ NewBetween(k, rows[k])
  <2>1. rows[k] = stamp'[k]
    BY <1>20, <1>22, <1>23
  <2> QED BY <1>4, <1>10, <1>11, <1>23, <2>1
<1>13. ChannelOrdered'
  <2>1. ASSUME NEW i \in 1..Len(channel'), NEW k \in Single, channel'[i].rows[k] # NoTime
        PROVE  NewBetween(k, channel'[i].rows[k])
    <3>1. CASE channel'[i] = s
      <4>1. rows[k] # NoTime /\ rows[k] = stamp'[k] /\ channel'[i].rows[k] = rows[k]
        BY <1>6, <1>20, <1>22, <2>1, <3>1
      <4>2. NewBetween(k, stamp'[k])
        BY <1>11, <4>1
      <4> HIDE DEF NewBetween
      <4> QED BY <4>1, <4>2
    <3>2. ASSUME NEW j \in 1..Len(channel), channel'[i] = channel[j]
          PROVE  NewBetween(k, channel'[i].rows[k])
      <4> HIDE DEF NewBetween
      <4> QED BY <1>10, <1>12, <2>1, <3>2
    <3> HIDE DEF NewBetween
    <3> QED BY <1>5, <3>1, <3>2
  <2>2. ASSUME NEW i \in 1..Len(channel'), NEW j \in 1..Len(channel'), NEW k \in Single,
               i < j, channel'[i].rows[k] # NoTime, channel'[j].rows[k] # NoTime
        PROVE  channel'[i].rows[k] <= channel'[j].rows[k]
    <3>1. ASSUME channel'[j] = s, NEW m \in 1..Len(channel), channel'[i] = channel[m]
          PROVE  channel'[i].rows[k] <= channel'[j].rows[k]
      BY <1>6, <1>12, <1>23, <2>2, <3>1
    <3>2. ASSUME NEW m \in 1..Len(channel), NEW n \in 1..Len(channel), m < n,
                 channel'[i] = channel[m], channel'[j] = channel[n]
          PROVE  channel'[i].rows[k] <= channel'[j].rows[k]
      BY <2>2, <3>2 DEF ChannelOrdered
    <3> QED BY <1>5, <2>2, <3>1, <3>2
  <2> QED BY <1>2, <2>1, <2>2 DEF ChannelOrdered, Between, Seen
<1>14. RowsOrdered'
  <2>0. ASSUME NEW k \in todo \cap Single
        PROVE  /\ NewBetween(k, cur.rows[k])
               /\ \A i \in 1..Len(channel') :
                    channel'[i].rows[k] # NoTime => cur.rows[k] <= channel'[i].rows[k]
    <3>1. phase = "rows" /\ cur.rows[k] # NoTime /\ Between(k, cur.rows[k]) /\ cur.rows[k] \in Nat
      <4>1. phase = "rows" /\ cur.rows[k] # NoTime /\ Between(k, cur.rows[k])
        BY DEF RowsOrdered
      <4>2. cur.rows[k] \in Instants \cup {NoTime}
        BY <1>22, <4>1 DEF ChannelTypes, Snapshot, Stamps
      <4> QED BY <4>1, <4>2 DEF Instants
    <3>2. ASSUME NEW i \in 1..Len(channel'), channel'[i].rows[k] # NoTime
          PROVE  cur.rows[k] <= channel'[i].rows[k]
      <4>1. CASE channel'[i] = s
        BY <1>6, <1>23, <3>1, <3>2, <4>1
      <4>2. CASE \E j \in 1..Len(channel) : channel'[i] = channel[j]
        BY <3>2, <4>2 DEF RowsOrdered
      <4> QED BY <1>5, <4>1, <4>2
    <3>3. NewBetween(k, cur.rows[k])
      BY <1>10, <3>1
    <3> QED BY <3>2, <3>3
  <2> QED BY <1>2, <2>0 DEF RowsOrdered, Between, Seen
<1>15. StoredAreOld' /\ BatchIsNew' /\ OneRowPerQuote' /\ CachedIsRegistered'
  BY <1>2 DEF StoredAreOld, BatchIsNew, OneRowPerQuote, CachedIsRegistered
<1> QED BY <1>7, <1>9, <1>13, <1>14, <1>15

\* The oldest snapshot leaves the channel.
LEMMA HeadLeaves ==
  ASSUME ChannelTypes, channel # <<>>
  PROVE  /\ Tail(channel) \in Seq(Snapshot)
         /\ Head(channel) = channel[1] /\ 1 \in 1..Len(channel)
         /\ \A i \in 1..Len(Tail(channel)) :
              i + 1 \in 1..Len(channel) /\ Tail(channel)[i] = channel[i + 1]
<1>1. channel \in Seq(Snapshot)
  BY DEF ChannelTypes
<1>2. Len(channel) \in Nat /\ Len(channel) >= 1 /\ Len(Tail(channel)) = Len(channel) - 1
  BY <1>1
<1> QED BY <1>1, <1>2

LEMMA SkipPreserves == Inv /\ SkipSnapshot => Inv'
<1> SUFFICES ASSUME Inv, SkipSnapshot PROVE Inv'
  OBVIOUS
<1> USE DEF Inv
<1>1. /\ channel # <<>> /\ channel' = Tail(channel) /\ phase = "idle" /\ phase' = "retention"
      /\ UNCHANGED <<now, startedAt, warmedAt, stamp, todo, batch, dirty, lastTs, cached, registry, quotes>>
  BY DEF SkipSnapshot, board, work, memory, database
<1>2. Types'
  BY <1>1 DEF Types
<1>3. ChannelTypes'
  BY <1>1, HeadLeaves DEF ChannelTypes
<1>4. ChannelOrdered'
  <2>1. \A i \in 1..Len(channel') :
          i \in Int /\ i + 1 \in 1..Len(channel) /\ channel'[i] = channel[i + 1]
    BY <1>1, HeadLeaves
  <2>2. \A i, j \in 1..Len(channel') : i < j => i + 1 < j + 1
    BY <2>1
  <2> QED BY <1>1, <2>1, <2>2 DEF ChannelOrdered, Between, Seen
<1>5. StampsOfProcess' /\ RowsOrdered' /\ StoredAreOld' /\ BatchIsNew' /\ OneRowPerQuote'
      /\ CachedIsRegistered'
  BY <1>1 DEF StampsOfProcess, Seen, RowsOrdered, StoredAreOld, BatchIsNew, OneRowPerQuote,
              CachedIsRegistered
<1> QED BY <1>2, <1>3, <1>4, <1>5

LEMMA TakePreserves ==
  ASSUME Inv, TakeSnapshot
  PROVE  Inv'
<1> USE DEF Inv
<1> batch = {}
  BY DEF TakeSnapshot, BatchIsNew
<1>1. /\ channel # <<>> /\ channel' = Tail(channel) /\ phase = "idle" /\ phase' = "rows"
      /\ cur' = Head(channel) /\ todo' = {k \in RowKeys : cur'.rows[k] # NoTime}
      /\ UNCHANGED <<now, startedAt, warmedAt, stamp, batch, dirty, lastTs, cached, registry, quotes>>
  BY DEF TakeSnapshot, board, database
<1>2. Types'
  BY <1>1 DEF Types
<1>3. cur' = channel[1] /\ 1 \in 1..Len(channel)
  BY <1>1, HeadLeaves
<1>4. ChannelTypes'
  BY <1>1, <1>3, HeadLeaves DEF ChannelTypes
<1>5. \A i \in 1..Len(channel') :
        /\ i \in Int /\ i >= 1 /\ i + 1 \in 1..Len(channel)
        /\ channel'[i] = channel[i + 1]
  BY <1>1, HeadLeaves
<1>6. ChannelOrdered'
  <2>1. \A i, j \in 1..Len(channel') : i < j => i + 1 < j + 1
    BY <1>5
  <2> QED BY <1>1, <1>5, <2>1 DEF ChannelOrdered, Between, Seen
<1>7. RowsOrdered'
  <2>1. \A i \in 1..Len(channel') : 1 < i + 1
    BY <1>5
  <2> QED BY <1>1, <1>3, <1>5, <2>1 DEF ChannelOrdered, RowsOrdered, Between, Seen, Single
<1>8. StampsOfProcess' /\ StoredAreOld' /\ BatchIsNew' /\ OneRowPerQuote' /\ CachedIsRegistered'
  BY <1>1 DEF StampsOfProcess, Seen, StoredAreOld, BatchIsNew, OneRowPerQuote, CachedIsRegistered
<1> QED BY <1>2, <1>4, <1>6, <1>7, <1>8

\* A row is registered and joins the batch unless it is the one remembered.
LEMMA ProcessPreserves ==
  ASSUME Inv, NEW k \in RowKeys, ProcessRow(k)
  PROVE  Inv'
<1> USE DEF Inv
<1> DEFINE ts == cur.rows[k]
           d == DedupeKey(k)
<1>1. /\ phase = "rows" /\ k \in todo /\ todo' = todo \ {k}
      /\ UNCHANGED <<now, startedAt, warmedAt, stamp, channel, phase, cur, quotes>>
  BY DEF ProcessRow, Turn, First, board
<1>2. /\ ts \in Instants /\ ts \in Nat /\ ts # NoTime
      /\ k \in Single => Between(k, ts)
      /\ k \in Single => \A i \in 1..Len(channel) :
           channel[i].rows[k] # NoTime => ts <= channel[i].rows[k]
  <2>1. ts # NoTime /\ ts \in Instants \cup {NoTime}
    BY <1>1 DEF RowsOrdered, ChannelTypes, Snapshot, Stamps
  <2> QED BY <1>1, <2>1, LoggerAssumption DEF RowsOrdered, Instants, LoggerAssumption
<1>3. \/ lastTs[d] = ts /\ UNCHANGED <<lastTs, batch>>
      \/ lastTs[d] # ts /\ lastTs' = [lastTs EXCEPT ![d] = ts] /\ batch' = batch \cup {<<d, ts>>}
  BY KeysApart DEF ProcessRow, Collect
<1>13. /\ d \in Keys
       /\ \A j \in Single : DedupeKey(j) \in Keys /\ (DedupeKey(j) = d <=> j = k)
  BY KeysApart DEF Single
<1>14. \A j \in Single : DedupeKey(j) = d => k \in Single /\ DedupeKey(k) = d
  BY <1>13
<1> HIDE DEF ts, d
<1>4. /\ lastTs' \in [Keys -> Nat \cup {NoTime}]
      /\ lastTs'[d] = ts
      /\ \A key \in Keys : key # d => lastTs'[key] = lastTs[key]
  BY <1>2, <1>3, <1>13 DEF Types
<1>15. k \in Single => Seen(k, ts)
  BY <1>2 DEF Between
<1>5. /\ cached' \in [Exchanges -> Entry \cup {NoExchange}]
      /\ registry' \in [Exchanges -> Entry \cup {NoExchange}]
      /\ dirty' \in [Exchanges -> Entry \cup {NoExchange}]
      /\ CachedIsRegistered'
  <2> DEFINE e == k[1]
             entry == [rate |-> Rate(k), seen |-> cur.captured]
  <2>1. e \in Exchanges /\ entry \in Entry /\ entry # NoExchange
    <3>1. cur.captured \in Instants
      BY <1>1 DEF ChannelTypes, Snapshot
    <3>2. k[1] \in Exchanges /\ Rate(k) \in {"float", "fixed"}
      BY KeysApart
    <3> QED BY <3>1, <3>2, LoggerAssumption DEF Entry, LoggerAssumption
  <2>2. \/ UNCHANGED <<cached, registry, dirty>>
        \/ /\ cached' = [cached EXCEPT ![e] = entry]
           /\ registry' = [Saved EXCEPT ![e] = entry] /\ dirty' = Nothing
        \/ /\ cached' = [cached EXCEPT ![e] = entry]
           /\ registry[e] # NoExchange
           /\ dirty' = [dirty EXCEPT ![e] = entry] /\ UNCHANGED registry
    BY DEF ProcessRow, EnsureExchange, Registered
  <2> HIDE DEF e, entry
  <2>3. /\ Saved \in [Exchanges -> Entry \cup {NoExchange}]
        /\ \A x \in Exchanges : registry[x] # NoExchange => Saved[x] # NoExchange
    BY DEF Saved, Types
  <2>4. Nothing \in [Exchanges -> Entry \cup {NoExchange}]
    BY DEF Nothing
  <2> QED BY <2>1, <2>2, <2>3, <2>4 DEF Types, CachedIsRegistered
<1>6. Types' /\ ChannelTypes'
  BY <1>1, <1>4, <1>5 DEF Types, ChannelTypes
<1>16. ASSUME NEW j \in Single, NEW t, j # k \/ ts <= t, Seen(j, t)
       PROVE  Seen(j, t)'
  <2>1. CASE j # k
    BY <1>4, <1>13, <1>16, <2>1 DEF Seen
  <2>2. CASE j = k
    BY <1>4, <1>13, <1>16, <2>2 DEF Seen
  <2> QED BY <2>1, <2>2
<1>7. StampsOfProcess'
  <2> SUFFICES ASSUME NEW j \in Single
               PROVE  Seen(j, warmedAt)' /\ (stamp[j] # NoTime => Seen(j, stamp[j])')
    BY <1>1 DEF StampsOfProcess
  <2>1. Seen(j, warmedAt) /\ (stamp[j] # NoTime => Seen(j, stamp[j]))
    BY DEF StampsOfProcess
  <2>2. j = k => ts <= warmedAt /\ (stamp[j] # NoTime => ts <= stamp[j])
    BY <1>2 DEF Between
  <2>3. Seen(j, warmedAt)'
    <3>1. \A t : t = warmedAt => (Seen(j, t) /\ (j = k => ts <= t) => Seen(j, t)')
      BY <1>16
    <3> QED BY <1>1, <2>1, <2>2, <3>1 DEF Seen
  <2>4. ASSUME stamp[j] # NoTime PROVE Seen(j, stamp[j])'
    BY <1>1, <1>4, <1>13, <2>1, <2>2, <2>4 DEF Seen
  <2> QED BY <2>3, <2>4
<1>8. ChannelOrdered'
  <2>1. ASSUME NEW i \in 1..Len(channel), NEW j \in Single, channel[i].rows[j] # NoTime
        PROVE  Between(j, channel[i].rows[j])'
    <3>1. Between(j, channel[i].rows[j]) /\ (j = k => ts <= channel[i].rows[j])
      BY <1>2, <2>1 DEF ChannelOrdered
    <3>2. channel'[i].rows[j] = channel[i].rows[j]
      BY <1>1
    <3> QED BY <1>1, <1>4, <1>13, <3>1, <3>2 DEF Between, Seen
  <2> QED BY <1>1, <2>1 DEF ChannelOrdered
<1>9. RowsOrdered'
  <2>1. ASSUME NEW j \in todo' \cap Single PROVE Between(j, cur.rows[j])'
    <3>1. j # k /\ Between(j, cur.rows[j])
      BY <1>1 DEF RowsOrdered
    <3> QED BY <1>1, <1>4, <1>13, <3>1 DEF Between, Seen
  <2> QED BY <1>1, <2>1 DEF RowsOrdered
<1>10. StoredAreOld'
  <2> SUFFICES ASSUME NEW j \in Single, NEW t \in Instants, quotes[<<DedupeKey(j), t>>] > 0
               PROVE  t < startedAt \/ (lastTs'[DedupeKey(j)] # NoTime /\ t <= lastTs'[DedupeKey(j)])
    BY <1>1 DEF StoredAreOld
  <2>1. t < startedAt \/ (lastTs[DedupeKey(j)] # NoTime /\ t <= lastTs[DedupeKey(j)])
    BY DEF StoredAreOld
  <2>2. t \in Nat /\ lastTs[DedupeKey(j)] \in Nat \cup {NoTime}
    BY <1>13 DEF Types, Instants
  <2>3. CASE j # k
    BY <1>4, <1>13, <2>1, <2>3
  <2>4. CASE j = k
    BY <1>2, <1>4, <1>13, <1>15, <2>1, <2>2, <2>4 DEF Seen
  <2> QED BY <2>3, <2>4
<1>11. BatchIsNew'
  <2>1. ASSUME NEW q \in batch
        PROVE  /\ q \in Keys \X Instants
               /\ \A j \in Single : q[1] = DedupeKey(j) =>
                    quotes[q] = 0 /\ q[2] = lastTs'[q[1]] /\ j \notin todo'
    <3>1. q \in Keys \X Instants
      BY <1>1 DEF BatchIsNew
    <3>2. ASSUME NEW j \in Single, q[1] = DedupeKey(j)
          PROVE  quotes[q] = 0 /\ q[2] = lastTs'[q[1]] /\ j \notin todo'
      <4>1. quotes[q] = 0 /\ q[2] = lastTs[q[1]] /\ j \notin todo
        BY <1>1, <3>2 DEF BatchIsNew
      <4>2. j # k
        BY <1>1, <4>1
      <4> QED BY <1>1, <1>4, <1>13, <3>2, <4>1, <4>2
    <3> QED BY <3>1, <3>2
  <2>2. CASE lastTs[d] = ts
    BY <1>1, <1>3, <2>1, <2>2 DEF BatchIsNew
  <2>3. CASE lastTs[d] # ts
    <3>1. ASSUME k \in Single PROVE quotes[<<d, ts>>] = 0
      <4>1. startedAt <= ts /\ Seen(k, ts) /\ startedAt \in Nat /\ lastTs[d] \in Nat \cup {NoTime}
        BY <1>2, <1>13, <3>1 DEF Between, Types
      <4>2. ~(quotes[<<d, ts>>] > 0)
        BY <1>2, <2>3, <3>1, <4>1 DEF StoredAreOld, Seen, d
      <4>3. quotes[<<d, ts>>] \in Nat
        BY <1>2, <1>13 DEF Types
      <4> QED BY <4>2, <4>3
    <3>2. batch' = batch \cup {<<d, ts>>}
      BY <1>3, <2>3
    <3> DEFINE n == <<d, ts>>
    <3>3. /\ n \in Keys \X Instants /\ n[1] = d /\ n[2] = ts
          /\ \A j \in Single : n[1] = DedupeKey(j) =>
               quotes[n] = 0 /\ n[2] = lastTs'[n[1]] /\ j \notin todo'
      BY <1>1, <1>2, <1>4, <1>13, <3>1
    <3> HIDE DEF n
    <3>4. batch' = batch \cup {n}
      BY <3>2 DEF n
    <3> QED BY <1>1, <2>1, <3>3, <3>4 DEF BatchIsNew
  <2> QED BY <2>2, <2>3
<1>12. OneRowPerQuote'
  BY <1>1 DEF OneRowPerQuote
<1> QED BY <1>5, <1>6, <1>7, <1>8, <1>9, <1>10, <1>11, <1>12

LEMMA TickPreserves == Inv /\ Tick => Inv'
<1> SUFFICES ASSUME Inv, Tick PROVE Inv'
  OBVIOUS
<1>1. /\ now' = now + 1
      /\ UNCHANGED <<startedAt, warmedAt, stamp, channel, phase, cur, todo, batch, dirty, lastTs,
                     cached, registry, quotes>>
  BY DEF Tick, board, work, memory, database
<1>2. Types' /\ ChannelTypes' /\ ChannelOrdered' /\ RowsOrdered'
  BY <1>1 DEF Inv, Types, ChannelTypes, ChannelOrdered, RowsOrdered, Between, Seen
<1>3. StampsOfProcess'
  BY <1>1 DEF Inv, Types, StampsOfProcess, Seen
<1>4. StoredAreOld' /\ BatchIsNew' /\ OneRowPerQuote' /\ CachedIsRegistered'
  BY <1>1 DEF Inv, StoredAreOld, BatchIsNew, OneRowPerQuote, CachedIsRegistered
<1> QED BY <1>2, <1>3, <1>4 DEF Inv

\* Every stored quote is of an earlier process once the process has restarted.
LEMMA RestartPreserves == Inv /\ Restart => Inv'
<1> SUFFICES ASSUME Inv, Restart PROVE Inv'
  OBVIOUS
<1>1. /\ now' = now + 1 /\ startedAt' = now + 1 /\ warmedAt' = now
      /\ stamp' = [k \in RowKeys |-> NoTime] /\ lastTs' = [k \in Keys |-> NoTime]
      /\ channel' = <<>> /\ phase' = "idle" /\ todo' = {} /\ batch' = {}
      /\ dirty' = Nothing /\ cached' = Nothing
      /\ UNCHANGED <<registry, quotes>>
  BY DEF Restart, NoWork, database
<1>2. Types'
  BY <1>1 DEF Inv, Types, Nothing
<1>3. ChannelTypes' /\ ChannelOrdered' /\ RowsOrdered' /\ BatchIsNew'
  BY <1>1 DEF ChannelTypes, ChannelOrdered, RowsOrdered, BatchIsNew
<1>4. StampsOfProcess'
  <2>1. \A k \in Single : stamp'[k] = NoTime /\ lastTs'[DedupeKey(k)] = NoTime
    BY <1>1, KeysApart DEF Single
  <2>2. now \in Nat
    BY DEF Inv, Types
  <2> QED BY <1>1, <2>1, <2>2 DEF StampsOfProcess, Seen
<1>5. StoredAreOld'
  <2> SUFFICES ASSUME NEW k \in Single, NEW t \in Instants, quotes[<<DedupeKey(k), t>>] > 0
               PROVE  t < now + 1
    BY <1>1 DEF StoredAreOld
  <2>1. t < startedAt \/ (lastTs[DedupeKey(k)] # NoTime /\ t <= lastTs[DedupeKey(k)])
    BY DEF Inv, StoredAreOld
  <2>2. t \in Nat /\ startedAt <= now /\ now \in Nat /\ startedAt \in Nat
        /\ warmedAt \in Int /\ warmedAt <= now
    BY LoggerAssumption DEF Inv, Types, StampsOfProcess, Instants, LoggerAssumption
  <2>3. lastTs[DedupeKey(k)] # NoTime
          => lastTs[DedupeKey(k)] \in Nat /\ lastTs[DedupeKey(k)] <= warmedAt
    <3>1. Seen(k, warmedAt) /\ DedupeKey(k) \in Keys
      BY KeysApart DEF Inv, StampsOfProcess, Single
    <3> QED BY <3>1 DEF Inv, Types, Seen
  <2> QED BY <2>1, <2>2, <2>3
<1>6. OneRowPerQuote' /\ CachedIsRegistered'
  BY <1>1 DEF Inv, OneRowPerQuote, CachedIsRegistered, Nothing
<1> QED BY <1>2, <1>3, <1>4, <1>5, <1>6 DEF Inv

\* The consumer's steps after the rows.
LEMMA EndPreserves ==
  ASSUME Inv,
         \/ \E k \in RowKeys : RowFails(k)
         \/ SaveQuotes \/ SaveMetadata \/ SaveFails \/ RollUp \/ RollUpFails
         \/ Prune \/ NothingToPrune
  PROVE  Inv'
<1> USE DEF Inv
<1>1. Inserted \in [Keys \X Instants -> Nat]
      /\ (phase = "rows" => \A q \in Keys \X Instants : q[1][1] \notin Twins =>
            Inserted[q] <= quotes[q] \/ (phase = "rows" /\ q \in batch /\ Inserted[q] = 1))
  <2>1. Inserted \in [Keys \X Instants -> Nat]
    BY DEF Inserted, Types
  <2>2. ASSUME phase = "rows", NEW q \in Keys \X Instants, q[1][1] \notin Twins
        PROVE  Inserted[q] <= quotes[q] \/ (q \in batch /\ Inserted[q] = 1)
    <3>1. quotes[q] \in Nat /\ Inserted[q] = quotes[q] + IF q \in batch THEN 1 ELSE 0
      BY DEF Inserted, Types
    <3>2. CASE q \in batch
      <4>1. PICK k \in Single : q[1] = DedupeKey(k)
        BY <2>2, KeysApart
      <4>2. quotes[q] = 0
        BY <2>2, <3>2, <4>1 DEF BatchIsNew
      <4> QED BY <3>1, <3>2, <4>2
    <3>3. CASE q \notin batch
      BY <3>1, <3>3
    <3> QED BY <3>2, <3>3
  <2> QED BY <2>1, <2>2
<1>2. quotes \in [Keys \X Instants -> Nat]
      /\ \A q \in Keys \X Instants : quotes[q] <= quotes[q]
  BY DEF Types
<1>3. CASE \E k \in RowKeys : RowFails(k)
  <2>1. registry' \in {registry, Saved} \cup {Registered(k) : k \in todo}
    BY <1>3 DEF RowFails, Turn, First
  <2> QED BY <1>2, <1>3, <2>1, WorkDropped DEF RowFails, NoWork, board, memory
<1>4. CASE SaveQuotes
  BY <1>1, <1>4, WorkDropped DEF SaveQuotes, RowsDone, board, work, memory
<1>5. CASE SaveMetadata
  BY <1>2, <1>5, WorkDropped DEF SaveMetadata, NoWork, board, memory
<1>6. CASE SaveFails
  <2>1. CASE UNCHANGED <<registry, quotes>>
    BY <1>2, <1>6, <2>1, WorkDropped DEF SaveFails, NoWork, board, memory
  <2>2. CASE registry' = Saved /\ quotes' = Inserted
    BY <1>1, <1>6, <2>2, WorkDropped DEF SaveFails, RowsDone, NoWork, board, memory
  <2> QED BY <1>6, <2>1, <2>2 DEF SaveFails
<1>7. CASE RollUp
  BY <1>2, <1>7, WorkDropped DEF RollUp, NoWork, board, memory
<1>8. CASE RollUpFails
  BY <1>2, <1>8, WorkDropped DEF RollUpFails, NoWork, board, memory, database
<1>9. CASE Prune
  <2>1. /\ quotes' \in [Keys \X Instants -> Nat]
        /\ \A q \in Keys \X Instants : quotes'[q] <= quotes[q]
    <3>1. CASE UNCHANGED quotes
      BY <1>2, <3>1
    <3>2. CASE quotes' = [q \in DOMAIN quotes |-> IF Kept(q) THEN quotes[q] ELSE 0]
      BY <1>2, <3>2
    <3> QED BY <1>9, <3>1, <3>2 DEF Prune
  <2>2. phase = "retention" /\ batch = {} /\ todo = {}
    BY <1>9 DEF Prune, BatchIsNew, RowsOrdered
  <2> QED BY <1>9, <2>1, <2>2, WorkDropped DEF Prune, board, work
<1>10. CASE NothingToPrune
  <2>1. phase = "retention" /\ batch = {} /\ todo = {}
    BY <1>10 DEF NothingToPrune, BatchIsNew, RowsOrdered
  <2> QED BY <1>2, <1>10, <2>1, WorkDropped DEF NothingToPrune, board, work, memory, database
<1> QED BY <1>3, <1>4, <1>5, <1>6, <1>7, <1>8, <1>9, <1>10

LEMMA StepInv == Inv /\ [Next]_vars => Inv'
<1>1. Inv /\ UNCHANGED vars => Inv'
  BY DEF vars, board, work, memory, database, Inv, Types, ChannelTypes, StampsOfProcess, Seen,
         ChannelOrdered, RowsOrdered, Between, StoredAreOld, BatchIsNew, OneRowPerQuote, CachedIsRegistered
<1> HIDE DEF Inv
<1> QED BY <1>1, WarmPreserves, TickPreserves, SkipPreserves, TakePreserves, ProcessPreserves,
           EndPreserves, RestartPreserves DEF Next

THEOREM Invariant == Spec => []Inv
BY InitInv, StepInv, PTL DEF Spec

\* "Keeps the table honest": for any exchanges, channel capacity and intervals,
\* no quote of an exchange whose rows have a dedupe key each is ever inserted
\* twice, whatever the board carries and hides, whatever saves commit without an
\* answer and however often the process restarts.  (An exchange that is fixed-only
\* and in the fixed pass too has two rows under one key: the property excepts it.)
THEOREM NoQuoteTwice == Spec => []OneRowPerQuote
<1>1. Inv => OneRowPerQuote
  BY DEF Inv
<1> QED BY <1>1, Invariant, PTL

\* The exchange ids a batch refers to exist: EnsureExchangeAsync caches an
\* exchange only once the registry has it.
THEOREM NoDanglingExchange == Spec => []CachedIsRegistered
<1>1. Inv => CachedIsRegistered
  BY DEF Inv
<1> QED BY <1>1, Invariant, PTL
-----------------------------------------------------------------------------
(***************************************************************************)
(* Everything the logger keeps has its type.                               *)
(***************************************************************************)
\* The clock and the producer.
LEMMA TypesOfWarm ==
  ASSUME Inv, TypeOK, Warm \/ Tick
  PROVE  TypeOK'
<1>1. /\ now' = now + 1 /\ now + 1 \in Instants
      /\ UNCHANGED <<startedAt, phase, cur, todo, batch, dirty, lastLogged, lastTs, cached, pruned,
                     registry, quotes, rollup, failed>>
  BY LoggerAssumption DEF Warm, Tick, WithinLag, work, memory, database, TypeOK, Instants, LoggerAssumption
<1>2. CASE Tick
  <2>1. UNCHANGED <<warmedAt, stamp, channel>>
    BY <1>2 DEF Tick, board
  <2> QED BY <1>1, <2>1 DEF TypeOK
<1>3. CASE Warm
  <2>1. PICK shown \in SUBSET RowKeys :
          channel' = Pushed([captured |-> now + 1,
                             rows |-> [k \in RowKeys |-> IF k \in shown THEN stamp'[k] ELSE NoTime]])
    BY <1>3 DEF Warm
  <2> DEFINE rows == [k \in RowKeys |-> IF k \in shown THEN stamp'[k] ELSE NoTime]
  <2>2. stamp' \in Stamps /\ warmedAt' = now + 1
    BY <1>3 DEF Warm
  <2>7. rows \in Stamps
    BY <2>2 DEF Stamps
  <2> DEFINE s == [captured |-> now + 1, rows |-> rows]
  <2>3. s \in Snapshot
    BY <1>1, <2>7 DEF Snapshot
  <2>4. channel' = Pushed(s)
    BY <2>1
  <2> HIDE DEF s
  <2>5. channel \in Seq(Snapshot) /\ Len(channel) \in Nat /\ Len(channel) <= ChannelCap
        /\ ChannelCap \in Nat \ {0}
    BY LoggerAssumption DEF TypeOK, LoggerAssumption
  <2>6. channel' \in Seq(Snapshot) /\ Len(channel') <= ChannelCap
    <3>1. CASE Len(channel) < ChannelCap
      BY <2>3, <2>4, <2>5, <3>1 DEF Pushed
    <3>2. CASE ~(Len(channel) < ChannelCap)
      <4>1. channel # <<>>
        BY <2>5, <3>2
      <4>2. Tail(channel) \in Seq(Snapshot) /\ Len(Tail(channel)) = Len(channel) - 1
        BY <2>5, <4>1
      <4> QED BY <2>3, <2>4, <2>5, <3>2, <4>2 DEF Pushed
    <3> QED BY <3>1, <3>2
  <2> QED BY <1>1, <2>2, <2>6 DEF TypeOK
<1> QED BY <1>2, <1>3

\* A snapshot leaves the channel.
LEMMA TypesOfTake ==
  ASSUME Inv, TypeOK, SkipSnapshot \/ TakeSnapshot
  PROVE  TypeOK'
<1>1. /\ channel' = Tail(channel) /\ channel # <<>>
      /\ UNCHANGED <<now, startedAt, warmedAt, stamp, batch, dirty, lastTs, cached, pruned, registry,
                     quotes, rollup, failed>>
  BY DEF SkipSnapshot, TakeSnapshot, board, work, memory, database
<1>2. channel' \in Seq(Snapshot) /\ Len(channel') <= ChannelCap
  <2>1. channel \in Seq(Snapshot) /\ Len(channel) \in Nat /\ Len(channel) <= ChannelCap
        /\ ChannelCap \in Nat
    BY LoggerAssumption DEF TypeOK, LoggerAssumption
  <2>2. Tail(channel) \in Seq(Snapshot) /\ Len(Tail(channel)) = Len(channel) - 1
    BY <1>1, <2>1
  <2> QED BY <1>1, <2>1, <2>2
<1>3. CASE SkipSnapshot
  <2>1. UNCHANGED <<cur, todo, lastLogged>> /\ phase' = "retention"
    BY <1>3 DEF SkipSnapshot, work, memory
  <2> QED BY <1>1, <1>2, <2>1 DEF TypeOK
<1>4. CASE TakeSnapshot
  <2>1. cur' = channel[1] /\ 1 \in 1..Len(channel)
    BY <1>4, HeadLeaves DEF TakeSnapshot, Inv
  <2>2. cur' \in Snapshot
    BY <2>1 DEF TypeOK
  <2>5. cur'.captured \in Instants
    BY <2>2 DEF Snapshot
  <2>3. phase' = "rows" /\ todo' = {k \in RowKeys : cur'.rows[k] # NoTime} /\ lastLogged' = cur'.captured
    BY <1>4 DEF TakeSnapshot
  <2>4. todo' \subseteq RowKeys
    BY <2>3
  <2> QED BY <1>1, <1>2, <2>2, <2>3, <2>4, <2>5 DEF TypeOK
<1> QED BY <1>3, <1>4

LEMMA TypesOfRow ==
  ASSUME Inv, TypeOK, NEW k \in RowKeys, ProcessRow(k)
  PROVE  TypeOK'
<1>1. Types'
  BY ProcessPreserves DEF Inv
<1>2. /\ phase = "rows" /\ k \in todo /\ todo' = todo \ {k}
      /\ UNCHANGED <<now, startedAt, warmedAt, stamp, channel, phase, cur, lastLogged, pruned,
                     quotes, rollup, failed>>
  BY DEF ProcessRow, Turn, First, board
<1> DEFINE ts == cur.rows[k]
           d == DedupeKey(k)
<1>3. ts \in Instants /\ d \in Keys
  <2>1. cur.rows[k] # NoTime
    BY <1>2 DEF Inv, RowsOrdered
  <2>2. cur.rows[k] \in Instants \cup {NoTime}
    BY <1>2 DEF TypeOK, Snapshot, Stamps
  <2> QED BY <2>1, <2>2, KeysApart
<1>4. \/ UNCHANGED <<lastTs, batch>>
      \/ lastTs' = [lastTs EXCEPT ![d] = ts] /\ batch' = batch \cup {<<d, ts>>}
  BY KeysApart DEF ProcessRow, Collect
<1> HIDE DEF ts, d
<1>5. lastTs' \in [Keys -> Instants \cup {NoTime}] /\ batch' \subseteq Keys \X Instants
  <2>1. lastTs \in [Keys -> Instants \cup {NoTime}] /\ batch \subseteq Keys \X Instants
    BY DEF TypeOK
  <2>2. CASE UNCHANGED <<lastTs, batch>>
    BY <2>1, <2>2
  <2>3. CASE lastTs' = [lastTs EXCEPT ![d] = ts] /\ batch' = batch \cup {<<d, ts>>}
    BY <1>3, <2>1, <2>3
  <2> QED BY <1>4, <2>2, <2>3
<1>6. /\ cached' \in [Exchanges -> Entry \cup {NoExchange}]
      /\ registry' \in [Exchanges -> Entry \cup {NoExchange}]
      /\ dirty' \in [Exchanges -> Entry \cup {NoExchange}]
  BY <1>1 DEF Types
<1> QED BY <1>2, <1>5, <1>6 DEF TypeOK

\* The rollup holds counts.
LEMMA RowsAreFinite == IsFiniteSet(Keys \X Instants)
<1>1. IsFiniteSet(Exchanges)
  BY LoggerAssumption DEF LoggerAssumption
<1>2. IsFiniteSet({"float"} \cup {"fixed"})
  BY FS_Singleton, FS_Union
<1>3. IsFiniteSet(Exchanges \X ({"float"} \cup {"fixed"}))
  BY <1>1, <1>2, FS_Product
<1>4. IsFiniteSet(Instants)
  BY LoggerAssumption, FS_Interval DEF LoggerAssumption, Instants
<1>5. Keys \subseteq Exchanges \X ({"float"} \cup {"fixed"})
  BY KeysApart DEF Keys, StoredAs
<1>6. IsFiniteSet(Keys)
  BY <1>3, <1>5, FS_Subset
<1> QED BY <1>4, <1>6, FS_Product

QuotesOf(rate, b) == {q \in Keys \X Instants : q[1][2] = rate /\ Bucket(q[2]) = b}

SamplesAreSums ==
  \A rate, b : DOMAIN quotes = Keys \X Instants
                => SamplesOf(rate, b) = Sum(quotes, QuotesOf(rate, b))

LEMMA SamplesNow == SamplesAreSums
BY DEF SamplesAreSums, SamplesOf, Sum, QuotesOf

LEMMA SamplesNext == SamplesAreSums'
BY SamplesNow, PTL

LEMMA QuotesAreFinite ==
  ASSUME NEW rate, NEW b
  PROVE  IsFiniteSet(QuotesOf(rate, b))
BY RowsAreFinite, FS_Subset DEF QuotesOf

LEMMA SamplesNat ==
  ASSUME quotes \in [Keys \X Instants -> Nat], NEW rate, NEW b
  PROVE  SamplesOf(rate, b) \in Nat
<1>1. DOMAIN quotes = Keys \X Instants
  OBVIOUS
<1>2. \A q \in QuotesOf(rate, b) : quotes[q] \in Nat /\ quotes[q] <= quotes[q]
  BY DEF QuotesOf
<1> QED BY <1>1, <1>2, SamplesNow, QuotesAreFinite, SumMonotone DEF SamplesAreSums

\* Samples follow the quotes of their bucket.
LEMMA SamplesFollow ==
  ASSUME quotes \in [Keys \X Instants -> Nat], quotes' \in [Keys \X Instants -> Nat],
         NEW rate, NEW b
  PROVE  /\ SamplesOf(rate, b) \in Nat /\ SamplesOf(rate, b)' \in Nat
         /\ (\A q \in QuotesOf(rate, b) : quotes[q] <= quotes'[q])
              => SamplesOf(rate, b) <= SamplesOf(rate, b)'
         /\ (\A q \in QuotesOf(rate, b) : quotes'[q] <= quotes[q])
              => SamplesOf(rate, b)' <= SamplesOf(rate, b)
<1> DEFINE S == QuotesOf(rate, b)
<1>1. /\ \A q \in S : quotes[q] \in Nat /\ quotes'[q] \in Nat
      /\ \A q \in S : quotes[q] <= quotes[q] /\ quotes'[q] <= quotes'[q]
  BY DEF QuotesOf
<1>2. IsFiniteSet(S) /\ SamplesOf(rate, b) = Sum(quotes, S) /\ SamplesOf(rate, b)' = Sum(quotes', S)
  BY SamplesNow, SamplesNext, QuotesAreFinite DEF SamplesAreSums
<1> HIDE DEF S
<1>3. Sum(quotes, S) \in Nat /\ Sum(quotes', S) \in Nat
  BY <1>1, <1>2, SumMonotone
<1>4. (\A q \in S : quotes[q] <= quotes'[q]) => Sum(quotes, S) <= Sum(quotes', S)
  BY <1>1, <1>2, SumMonotone
<1>5. (\A q \in S : quotes'[q] <= quotes[q]) => Sum(quotes', S) <= Sum(quotes, S)
  BY <1>1, <1>2, SumMonotone
<1> QED BY <1>2, <1>3, <1>4, <1>5 DEF S

RatedBuckets == {"float", "fixed"} \X Buckets

LEMMA TypesOfRollUp ==
  ASSUME Inv, TypeOK, RollUp
  PROVE  TypeOK'
<1>1. /\ phase' = "retention" /\ cur' = NoSnapshot /\ todo' = {} /\ batch' = {} /\ dirty' = Nothing
      /\ UNCHANGED <<now, startedAt, warmedAt, stamp, channel, lastLogged, lastTs, cached, pruned,
                     registry, quotes, failed>>
  BY DEF RollUp, NoWork, board, memory
<1>2. \A b \in RatedBuckets : SamplesOf(b[1], b[2]) \in Nat
  BY SamplesNat DEF TypeOK
<1>3. rollup' \in [RatedBuckets -> Nat]
  BY <1>2 DEF RollUp, TypeOK, RatedBuckets
<1>4. Nothing \in [Exchanges -> Entry \cup {NoExchange}]
  BY DEF Nothing
<1> QED BY <1>1, <1>3, <1>4 DEF TypeOK, RatedBuckets

\* The consumer's other steps after the rows, and a restart.
LEMMA TypesOfEnd ==
  ASSUME Inv, TypeOK,
         \/ \E k \in RowKeys : RowFails(k)
         \/ SaveQuotes \/ SaveMetadata \/ SaveFails \/ RollUpFails
         \/ Prune \/ NothingToPrune \/ Restart
  PROVE  TypeOK'
<1>1. Nothing \in [Exchanges -> Entry \cup {NoExchange}]
      /\ Saved \in [Exchanges -> Entry \cup {NoExchange}]
  BY DEF Nothing, Saved, TypeOK
<1>2. Inserted \in [Keys \X Instants -> Nat]
  BY DEF Inserted, TypeOK
<1>3. CASE (\E k \in RowKeys : RowFails(k)) \/ SaveMetadata \/ SaveFails \/ RollUpFails
  <2>1. /\ phase' = "retention" /\ cur' = NoSnapshot /\ todo' = {} /\ batch' = {} /\ dirty' = Nothing
        /\ UNCHANGED <<now, startedAt, warmedAt, stamp, channel, lastLogged, lastTs, cached, pruned, rollup>>
        /\ failed' \in BOOLEAN
    BY <1>3 DEF RowFails, SaveMetadata, SaveFails, RollUpFails, NoWork, board, memory, database, TypeOK
  <2>2. CASE \E k \in RowKeys : RowFails(k)
    <3>1. quotes' = quotes
      BY <2>2 DEF RowFails
    <3>2. Inv'
      BY <2>2, EndPreserves
    <3>3. registry' \in [Exchanges -> Entry \cup {NoExchange}]
      BY <3>2 DEF Inv, Types
    <3> QED BY <1>1, <2>1, <3>1, <3>3 DEF TypeOK
  <2>3. CASE SaveMetadata \/ SaveFails \/ RollUpFails
    <3>1. registry' \in {registry, Saved} /\ quotes' \in {quotes, Inserted}
      BY <2>3 DEF SaveMetadata, SaveFails, RollUpFails, database
    <3>2. /\ registry' \in [Exchanges -> Entry \cup {NoExchange}]
          /\ quotes' \in [Keys \X Instants -> Nat]
      BY <1>1, <1>2, <3>1 DEF TypeOK
    <3> QED BY <1>1, <2>1, <3>2 DEF TypeOK
  <2> QED BY <1>3, <2>2, <2>3
<1>4. CASE SaveQuotes
  <2>1. /\ phase' = "rollup" /\ phase = "rows" /\ registry' = Saved /\ quotes' = Inserted
        /\ UNCHANGED <<now, startedAt, warmedAt, stamp, channel, cur, todo, batch, dirty,
                       lastLogged, lastTs, cached, pruned, rollup, failed>>
    BY <1>4 DEF SaveQuotes, RowsDone, board, work, memory
  <2> QED BY <1>1, <1>2, <2>1 DEF TypeOK
<1>5. CASE Prune
  <2>1. quotes' \in [Keys \X Instants -> Nat]
    <3>1. quotes' = [q \in DOMAIN quotes |-> IF Kept(q) THEN quotes[q] ELSE 0] \/ quotes' = quotes
      BY <1>5 DEF Prune
    <3> QED BY <3>1 DEF TypeOK
  <2>2. /\ phase' = "idle" /\ pruned' = now
        /\ UNCHANGED <<now, startedAt, warmedAt, stamp, channel, cur, todo, batch, dirty,
                       lastLogged, lastTs, cached, registry, rollup, failed>>
    BY <1>5 DEF Prune, board, work
  <2> QED BY <2>1, <2>2 DEF TypeOK
<1>6. CASE NothingToPrune
  BY <1>6 DEF NothingToPrune, board, work, memory, database, TypeOK
<1>7. CASE Restart
  <2>1. /\ now' = now + 1 /\ startedAt' = now + 1 /\ now < MaxTime
        /\ warmedAt' = now /\ failed' = FALSE
        /\ stamp' = [k \in RowKeys |-> NoTime] /\ lastTs' = [k \in Keys |-> NoTime]
        /\ channel' = <<>> /\ phase' = "idle" /\ cur' = NoSnapshot /\ todo' = {} /\ batch' = {}
        /\ dirty' = Nothing /\ cached' = Nothing /\ lastLogged' = NoTime /\ pruned' = NoTime
        /\ UNCHANGED <<registry, quotes, rollup>>
    BY <1>7 DEF Restart, NoWork, database
  <2>2. now + 1 \in Instants /\ now \in Instants
    BY <2>1, LoggerAssumption DEF TypeOK, Instants, LoggerAssumption
  <2>3. stamp' \in Stamps /\ lastTs' \in [Keys -> Instants \cup {NoTime}]
    BY <2>1 DEF Stamps
  <2>4. channel' \in Seq(Snapshot) /\ Len(channel') <= ChannelCap
    BY <2>1, LoggerAssumption DEF LoggerAssumption
  <2> QED BY <1>1, <2>1, <2>2, <2>3, <2>4 DEF TypeOK
<1> QED BY <1>3, <1>4, <1>5, <1>6, <1>7

LEMMA InitTypes == Init => TypeOK
<1> SUFFICES ASSUME Init PROVE TypeOK
  OBVIOUS
<1>1. 0 \in Instants /\ ChannelCap \in Nat
  BY LoggerAssumption DEF LoggerAssumption, Instants
<1>2. stamp \in Stamps /\ lastTs \in [Keys -> Instants \cup {NoTime}]
  BY DEF Init, Stamps
<1>3. channel \in Seq(Snapshot) /\ Len(channel) <= ChannelCap
  BY <1>1 DEF Init
<1> QED BY <1>1, <1>2, <1>3 DEF Init, TypeOK, Nothing

LEMMA StepTypes == Inv /\ TypeOK /\ [Next]_vars => TypeOK'
<1>1. TypeOK /\ UNCHANGED vars => TypeOK'
  BY DEF vars, board, work, memory, database, TypeOK
<1> QED BY <1>1, TypesOfWarm, TypesOfTake, TypesOfRow, TypesOfRollUp, TypesOfEnd DEF Next

\* Channel, working set, memory and tables keep their types, for any exchanges,
\* capacities, intervals, failures and restarts; the channel keeps its capacity.
THEOREM TypeCorrect == Spec => []TypeOK
BY Invariant, InitTypes, StepTypes, PTL DEF Spec

-----------------------------------------------------------------------------
(***************************************************************************)
(* Until a registry call fails, the memory agrees with the registry.       *)
(***************************************************************************)
\* What is cached of an exchange is in the registry, or tracked until the save
\* that ends the rows; between two snapshots nothing is tracked.
RegistryInv ==
  /\ phase \in {"idle", "retention"} => dirty = Nothing
  /\ ~failed => \A e \in Exchanges : cached[e] # NoExchange =>
       /\ phase = "rows" => cached[e] = Saved[e]
       /\ phase # "rows" => cached[e] = registry[e]

\* Registering an exchange saves what is tracked, or tracks one change more.
LEMMA RegistryOfRow ==
  ASSUME TypeOK, RegistryInv, NEW k \in RowKeys, ProcessRow(k)
  PROVE  RegistryInv'
<1> DEFINE e == k[1]
           entry == [rate |-> Rate(k), seen |-> cur.captured]
<1>1. phase = "rows" /\ phase' = "rows" /\ failed' = failed
  BY DEF ProcessRow
<1>2. e \in Exchanges /\ entry # NoExchange
  <2>1. k[1] \in Exchanges /\ Rate(k) \in {"float", "fixed"}
    BY KeysApart
  <2>2. cur.captured \in Instants
    BY <1>1 DEF TypeOK, Snapshot
  <2> QED BY <2>1, <2>2, LoggerAssumption DEF Entry, LoggerAssumption
<1>3. /\ cached \in [Exchanges -> Entry \cup {NoExchange}]
      /\ registry \in [Exchanges -> Entry \cup {NoExchange}]
      /\ dirty \in [Exchanges -> Entry \cup {NoExchange}]
  BY DEF TypeOK
<1>5. \/ UNCHANGED <<cached, registry, dirty>>
      \/ /\ cached' = [cached EXCEPT ![e] = entry]
         /\ registry' = [Saved EXCEPT ![e] = entry] /\ dirty' = Nothing
      \/ /\ cached' = [cached EXCEPT ![e] = entry]
         /\ dirty' = [dirty EXCEPT ![e] = entry] /\ UNCHANGED registry
  BY DEF ProcessRow, EnsureExchange, Registered
<1> HIDE DEF e, entry
<1>6. ASSUME ~failed, NEW x \in Exchanges, cached'[x] # NoExchange
      PROVE  cached'[x] = Saved'[x]
  <2>4. cached[x] # NoExchange => cached[x] = Saved[x]
    BY <1>1, <1>6 DEF RegistryInv
  <2>1. CASE UNCHANGED <<cached, registry, dirty>>
    BY <1>6, <2>1, <2>4 DEF Saved
  <2>2. CASE /\ cached' = [cached EXCEPT ![e] = entry]
             /\ registry' = [Saved EXCEPT ![e] = entry] /\ dirty' = Nothing
    <3>1. Saved'[x] = registry'[x]
      BY <2>2 DEF Saved, Nothing
    <3> QED BY <1>2, <1>3, <1>6, <2>2, <2>4, <3>1 DEF Saved
  <2>3. CASE /\ cached' = [cached EXCEPT ![e] = entry]
             /\ dirty' = [dirty EXCEPT ![e] = entry] /\ UNCHANGED registry
    BY <1>2, <1>3, <1>6, <2>3, <2>4 DEF Saved
  <2> QED BY <1>5, <2>1, <2>2, <2>3
<1> QED BY <1>1, <1>6 DEF RegistryInv

LEMMA StepRegistry ==
  ASSUME TypeOK, RegistryInv, [Next]_vars
  PROVE  RegistryInv'
<1>1. CASE UNCHANGED <<phase, dirty, cached, registry, failed>>
  BY <1>1 DEF RegistryInv, Saved
<1>2. CASE SkipSnapshot \/ TakeSnapshot
  BY <1>2 DEF SkipSnapshot, TakeSnapshot, work, memory, database, RegistryInv, Saved, Nothing
<1>3. ASSUME NEW k \in RowKeys, ProcessRow(k) PROVE RegistryInv'
  BY <1>3, RegistryOfRow
<1>4. CASE SaveQuotes \/ SaveMetadata
  BY <1>4 DEF SaveQuotes, SaveMetadata, RowsDone, NoWork, work, memory, RegistryInv
<1>5. CASE RollUp \/ RollUpFails
  BY <1>5 DEF RollUp, RollUpFails, NoWork, memory, database, RegistryInv
<1>6. CASE Prune \/ NothingToPrune
  BY <1>6 DEF Prune, NothingToPrune, work, memory, database, RegistryInv
<1>7. CASE Warm \/ Tick \/ UNCHANGED vars
  BY <1>1, <1>7 DEF Warm, Tick, vars, work, memory, database
<1>8. CASE SaveFails \/ \E k \in RowKeys : RowFails(k)
  BY <1>8 DEF SaveFails, RowFails, NoWork, RegistryInv
<1>9. CASE Restart
  BY <1>9 DEF Restart, NoWork, RegistryInv, Nothing
<1> QED BY <1>2, <1>3, <1>4, <1>5, <1>6, <1>7, <1>8, <1>9 DEF Next

\* EnsureExchangeAsync's cache agrees with the tables until a registry call of the
\* process fails: what the process believes it recorded of an exchange is recorded,
\* whatever earlier processes left behind.
THEOREM MemoryIsRecorded == Spec => []CacheMatchesRegistry
<1>1. Init => RegistryInv
  BY DEF Init, RegistryInv, Nothing
<1>2. TypeOK /\ RegistryInv /\ [Next]_vars => RegistryInv'
  BY StepRegistry
<1>3. RegistryInv => CacheMatchesRegistry
  BY DEF RegistryInv, CacheMatchesRegistry
<1> QED BY <1>1, <1>2, <1>3, TypeCorrect, PTL DEF Spec

-----------------------------------------------------------------------------
(***************************************************************************)
(* The clock and the snapshots on their way.                               *)
(***************************************************************************)
\* A snapshot waits no longer than the bound on the consumer's lag.
LagInv ==
  /\ \A i \in 1..Len(channel) : now - channel[i].captured <= MaxLag
  /\ phase \in {"rows", "rollup"} => now - cur.captured <= MaxLag

\* What a refresh adds to the channel, and what stays.
LEMMA WarmPushes ==
  ASSUME Inv, TypeOK, Warm
  PROVE  \E s \in Snapshot :
           /\ s.captured = now + 1 /\ now' = now + 1
           /\ \A i \in 1..Len(channel') :
                channel'[i] = s \/ \E j \in 1..Len(channel) : channel'[i] = channel[j]
<1>1. PICK shown \in SUBSET RowKeys :
        channel' = Pushed([captured |-> now + 1,
                           rows |-> [k \in RowKeys |-> IF k \in shown THEN stamp'[k] ELSE NoTime]])
  BY DEF Warm
<1> DEFINE rows == [k \in RowKeys |-> IF k \in shown THEN stamp'[k] ELSE NoTime]
<1>2. now' = now + 1 /\ now + 1 \in Instants /\ rows \in Stamps
  BY LoggerAssumption DEF Warm, WithinLag, TypeOK, Instants, Stamps, LoggerAssumption
<1> DEFINE s == [captured |-> now + 1, rows |-> rows]
<1>3. s \in Snapshot /\ s.captured = now + 1
  BY <1>2 DEF Snapshot
<1>4. channel' = Pushed(s)
  BY <1>1
<1> HIDE DEF s
<1>5. \A i \in 1..Len(Pushed(s)) : Pushed(s)[i] = s \/ \E j \in 1..Len(channel) : Pushed(s)[i] = channel[j]
  BY <1>3, PushedOrdered DEF Inv
<1>6. \A i \in 1..Len(channel') : channel'[i] = s \/ \E j \in 1..Len(channel) : channel'[i] = channel[j]
  BY <1>4, <1>5
<1> QED BY <1>2, <1>3, <1>6

\* A snapshot taken is one that waited, and so are those left.
LEMMA TakenWaited ==
  ASSUME Inv, SkipSnapshot \/ TakeSnapshot
  PROVE  /\ \A i \in 1..Len(channel') : \E j \in 1..Len(channel) : channel'[i] = channel[j]
         /\ TakeSnapshot => \E j \in 1..Len(channel) : cur' = channel[j]
<1>1. /\ channel # <<>> /\ channel' = Tail(channel)
      /\ TakeSnapshot => cur' = Head(channel)
  BY DEF SkipSnapshot, TakeSnapshot
<1> QED BY <1>1, HeadLeaves DEF Inv

LEMMA StepLag ==
  ASSUME Inv, TypeOK, LagInv, [Next]_vars
  PROVE  LagInv'
<1> USE LoggerAssumption DEF LoggerAssumption
<1>1. /\ now \in Nat
      /\ \A i \in 1..Len(channel) : channel[i].captured \in Nat
      /\ phase \in {"rows", "rollup"} => cur # NoSnapshot /\ cur.captured \in Nat
  <2>1. \A s \in Snapshot : s.captured \in Nat /\ s # NoSnapshot
    BY DEF Snapshot, Instants
  <2>2. /\ now \in Nat
        /\ \A i \in 1..Len(channel) : channel[i] \in Snapshot
        /\ phase \in {"rows", "rollup"} => cur \in Snapshot
    BY DEF TypeOK, Instants
  <2> QED BY <2>1, <2>2
<1>2. CASE Warm
  <2>1. PICK s \in Snapshot :
          /\ s.captured = now + 1 /\ now' = now + 1
          /\ \A i \in 1..Len(channel') :
               channel'[i] = s \/ \E j \in 1..Len(channel) : channel'[i] = channel[j]
    BY <1>2, WarmPushes
  <2>4. WithinLag /\ UNCHANGED <<phase, cur>>
    BY <1>2 DEF Warm, work
  <2>2. \A i \in 1..Len(channel') : now' - channel'[i].captured <= MaxLag
    BY <1>1, <2>1, <2>4 DEF WithinLag
  <2>3. phase' \in {"rows", "rollup"} => now' - cur'.captured <= MaxLag
    BY <1>1, <2>1, <2>4 DEF WithinLag
  <2> QED BY <2>2, <2>3 DEF LagInv
<1>3. CASE Tick
  BY <1>1, <1>3 DEF Tick, WithinLag, work, LagInv
<1>4. CASE SkipSnapshot \/ TakeSnapshot
  <2>1. UNCHANGED now /\ (phase' \in {"rows", "rollup"} => TakeSnapshot)
    BY <1>4 DEF SkipSnapshot, TakeSnapshot
  <2> QED BY <1>4, <2>1, TakenWaited DEF LagInv
<1>5. CASE \E k \in RowKeys : ProcessRow(k)
  BY <1>5 DEF ProcessRow, LagInv
<1>6. CASE SaveQuotes
  BY <1>6 DEF SaveQuotes, RowsDone, work, LagInv
<1>7. CASE phase' \in {"retention", "idle"} /\ UNCHANGED <<now, channel>>
  BY <1>7 DEF LagInv
<1>8. CASE Restart
  BY <1>8 DEF Restart, LagInv
<1>9. CASE UNCHANGED vars
  BY <1>9 DEF vars, work, LagInv
<1>10. CASE \/ \E k \in RowKeys : RowFails(k)
            \/ SaveMetadata \/ SaveFails \/ RollUp \/ RollUpFails \/ Prune \/ NothingToPrune
  BY <1>7, <1>10 DEF RowFails, SaveMetadata, SaveFails, RollUp, RollUpFails, Prune, NothingToPrune
<1> QED BY <1>2, <1>3, <1>4, <1>5, <1>6, <1>8, <1>9, <1>10 DEF Next

-----------------------------------------------------------------------------
(***************************************************************************)
(* Minutes.                                                                *)
(***************************************************************************)
LEMMA BucketMonotone ==
  ASSUME NEW s \in Int, NEW t \in Int, s <= t
  PROVE  Bucket(s) \in Int /\ Bucket(t) \in Int /\ Bucket(s) <= Bucket(t)
BY LoggerAssumption DEF Bucket, LoggerAssumption

\* A quote of a minute still recomputed is not pruned.
LEMMA RecomputedIsKept ==
  ASSUME Retention + 1 >= MaxLag + 2 * Minute, NEW t \in Int, NEW at \in Int,
         Bucket(t) >= RollupFrom(at - MaxLag)
  PROVE  t >= at - Retention
<1>1. Minute \in Nat \ {0} /\ MaxLag \in Nat /\ Retention \in Nat
  BY LoggerAssumption DEF LoggerAssumption
<1> DEFINE b == Bucket(t)
           c == Bucket(at - MaxLag)
<1>2. b \in Int /\ Minute * b <= t
  BY <1>1 DEF Bucket
<1>3. c \in Int /\ at - MaxLag < Minute * c + Minute
  BY <1>1 DEF Bucket
<1>4. b >= c - 1
  BY DEF RollupFrom
<1> HIDE DEF b, c
<1>5. Minute * b >= Minute * (c - 1) /\ Minute * (c - 1) = Minute * c - Minute
  BY <1>1, <1>2, <1>3, <1>4
<1>6. Minute * b \in Int /\ Minute * c \in Int
  BY <1>1, <1>2, <1>3
<1> QED BY <1>1, <1>2, <1>3, <1>5, <1>6

-----------------------------------------------------------------------------
(***************************************************************************)
(* The rollup misses no quote while the database answers.                  *)
(***************************************************************************)
\* A quote reaches the table after the minute that follows its own: a row that
\* the board carried on while the filters hid it, or while the throttle or the
\* full channel dropped its snapshots, is logged only when it comes through.
LateInsert ==
  SaveQuotes /\ \E q \in batch : Bucket(q[2]) < RollupFrom(cur.captured)

\* Only the minutes about to be recomputed may miss quotes.
RollupInv ==
  \A b \in RatedBuckets :
    \/ rollup[b] >= SamplesOf(b[1], b[2])
    \/ phase = "rollup" /\ b[2] >= RollupFrom(cur.captured)

LEMMA SamplesStay ==
  ASSUME TypeOK, quotes' = quotes, NEW rate, NEW b
  PROVE  SamplesOf(rate, b)' = SamplesOf(rate, b) /\ SamplesOf(rate, b) \in Nat
<1>1. DOMAIN quotes = Keys \X Instants /\ quotes \in [Keys \X Instants -> Nat]
  BY DEF TypeOK
<1> QED BY <1>1, SamplesNow, SamplesNext, SamplesNat DEF SamplesAreSums

LEMMA RollupOfSave ==
  ASSUME Inv, TypeOK, TypeOK', RollupInv, SaveQuotes, ~LateInsert
  PROVE  RollupInv'
<1>1. /\ phase = "rows" /\ phase' = "rollup" /\ quotes' = Inserted
      /\ UNCHANGED <<cur, batch, rollup>>
  BY DEF SaveQuotes, RowsDone, work
<1> SUFFICES ASSUME NEW b \in RatedBuckets, ~(b[2] >= RollupFrom(cur.captured))
             PROVE  rollup[b] >= SamplesOf(b[1], b[2])'
  BY <1>1 DEF RollupInv, RollupFrom, Bucket
<1>2. ASSUME NEW q \in QuotesOf(b[1], b[2])
      PROVE  q \notin batch
  <2> SUFFICES ASSUME q \in batch PROVE FALSE
    OBVIOUS
  <2>1. cur.captured \in Int /\ q[2] \in Int
    <3>1. cur \in Snapshot /\ q \in Keys \X Instants
      BY <1>1 DEF TypeOK
    <3>2. cur.captured \in Instants /\ q[2] \in Instants
      BY <3>1 DEF Snapshot
    <3> QED BY <3>2 DEF Instants
  <2>2. Bucket(q[2]) \in Int /\ RollupFrom(cur.captured) \in Int
    BY <2>1, BucketMonotone DEF RollupFrom
  <2>3. Bucket(q[2]) >= RollupFrom(cur.captured)
    BY <2>2 DEF LateInsert
  <2>4. Bucket(q[2]) = b[2]
    BY <1>2 DEF QuotesOf
  <2> QED BY <2>3, <2>4
<1>3. \A q \in QuotesOf(b[1], b[2]) : quotes'[q] <= quotes[q]
  <2> SUFFICES ASSUME NEW q \in QuotesOf(b[1], b[2]) PROVE quotes'[q] <= quotes[q]
    OBVIOUS
  <2>1. q \in Keys \X Instants /\ q \notin batch
    BY <1>2 DEF QuotesOf
  <2>2. quotes[q] \in Nat /\ DOMAIN quotes = Keys \X Instants
    BY <2>1 DEF TypeOK
  <2>3. quotes'[q] = quotes[q] + 0
    BY <1>1, <2>1, <2>2 DEF Inserted
  <2> QED BY <2>2, <2>3
<1>4. quotes \in [Keys \X Instants -> Nat] /\ quotes' \in [Keys \X Instants -> Nat]
  BY DEF TypeOK
<1>5. /\ SamplesOf(b[1], b[2])' <= SamplesOf(b[1], b[2])
      /\ SamplesOf(b[1], b[2])' \in Nat /\ SamplesOf(b[1], b[2]) \in Nat
  BY <1>3, <1>4, SamplesFollow
<1>6. rollup[b] >= SamplesOf(b[1], b[2]) /\ rollup[b] \in Nat
  BY <1>1 DEF RollupInv, TypeOK, RatedBuckets
<1> QED BY <1>5, <1>6

LEMMA RollupOfRollUp ==
  ASSUME TypeOK, RollupInv, RollUp
  PROVE  RollupInv'
<1> SUFFICES ASSUME NEW b \in RatedBuckets
             PROVE  rollup'[b] >= SamplesOf(b[1], b[2])'
  BY DEF RollupInv
<1>1. SamplesOf(b[1], b[2])' = SamplesOf(b[1], b[2]) /\ SamplesOf(b[1], b[2]) \in Nat
  BY SamplesStay DEF RollUp
<1>2. rollup'[b] = IF b[2] >= RollupFrom(cur.captured) /\ SamplesOf(b[1], b[2]) > 0
                   THEN SamplesOf(b[1], b[2]) ELSE rollup[b]
  BY DEF RollUp, TypeOK, RatedBuckets
<1>3. rollup[b] \in Nat
  BY DEF TypeOK, RatedBuckets
<1>4. rollup[b] >= SamplesOf(b[1], b[2]) \/ b[2] >= RollupFrom(cur.captured)
  BY DEF RollupInv
<1> QED BY <1>1, <1>2, <1>3, <1>4

\* Pruning takes samples away.
LEMMA RollupOfPrune ==
  ASSUME TypeOK, TypeOK', RollupInv, Prune
  PROVE  RollupInv'
<1>1. phase = "retention" /\ UNCHANGED rollup
  BY DEF Prune
<1> SUFFICES ASSUME NEW b \in RatedBuckets
             PROVE  rollup[b] >= SamplesOf(b[1], b[2])'
  BY <1>1 DEF RollupInv
<1>2. quotes \in [Keys \X Instants -> Nat] /\ quotes' \in [Keys \X Instants -> Nat]
  BY DEF TypeOK
<1>3. \A q \in QuotesOf(b[1], b[2]) : quotes'[q] <= quotes[q]
  BY <1>2 DEF Prune, QuotesOf
<1>4. /\ SamplesOf(b[1], b[2])' <= SamplesOf(b[1], b[2])
      /\ SamplesOf(b[1], b[2])' \in Nat /\ SamplesOf(b[1], b[2]) \in Nat
  BY <1>2, <1>3, SamplesFollow
<1>5. rollup[b] >= SamplesOf(b[1], b[2]) /\ rollup[b] \in Nat
  BY <1>1 DEF RollupInv, TypeOK, RatedBuckets
<1> QED BY <1>4, <1>5

LEMMA StepRollup ==
  ASSUME MayFail = FALSE, Inv, TypeOK, TypeOK', RollupInv, [Next]_vars, [~LateInsert]_vars
  PROVE  RollupInv'
<1>1. ASSUME UNCHANGED <<rollup, quotes>>, phase # "rollup" PROVE RollupInv'
  BY <1>1, SamplesStay DEF RollupInv
<1>2. ASSUME UNCHANGED <<rollup, quotes, phase, cur>> PROVE RollupInv'
  BY <1>2, SamplesStay DEF RollupInv, RollupFrom, Bucket
<1>3. CASE SkipSnapshot \/ TakeSnapshot \/ (\E k \in RowKeys : ProcessRow(k)) \/ SaveMetadata
           \/ NothingToPrune
  BY <1>1, <1>3 DEF SkipSnapshot, TakeSnapshot, ProcessRow, SaveMetadata, RowsDone, NothingToPrune, database
<1>4. CASE Warm \/ Tick \/ UNCHANGED vars
  BY <1>2, <1>4 DEF Warm, Tick, vars, work, database
<1>5. CASE SaveQuotes
  <2>1. phase' # phase
    BY <1>5 DEF SaveQuotes, RowsDone
  <2>2. ~LateInsert
    BY <2>1 DEF vars
  <2> QED BY <1>5, <2>2, RollupOfSave
<1> QED BY <1>3, <1>4, <1>5, RollupOfRollUp, RollupOfPrune
        DEF Next, RowFails, SaveFails, RollUpFails, Restart

LEMMA InitRollup == Init => RollupInv
<1> SUFFICES ASSUME Init, NEW b \in RatedBuckets
             PROVE  rollup[b] >= SamplesOf(b[1], b[2])
  BY DEF RollupInv
<1>1. quotes = [q \in Keys \X Instants |-> 0] /\ rollup[b] = 0
  BY DEF Init, RatedBuckets
<1>2. \A q \in QuotesOf(b[1], b[2]) : quotes[q] = 0
  BY <1>1 DEF QuotesOf
<1>3. Sum(quotes, QuotesOf(b[1], b[2])) = 0
  BY <1>2, QuotesAreFinite, SumZero
<1> QED BY <1>1, <1>3, SamplesNow DEF SamplesAreSums

\* Every logged quote is counted in its minute, for any exchanges, channel
\* capacity, intervals, retention and carrying: while the database answers, the
\* two minutes that RefreshRollupAsync recomputes miss a quote only by a late
\* insert.
THEOREM NoQuoteIsMissing ==
  ASSUME MayFail = FALSE
  PROVE  Spec /\ [][~LateInsert]_vars => []RollupComplete
<1>1. /\ Inv /\ TypeOK /\ TypeOK' /\ RollupInv /\ [Next]_vars /\ [~LateInsert]_vars
      => RollupInv'
  BY StepRollup
<1>2. TypeOK /\ RollupInv => RollupComplete
  BY DEF RollupInv, RollupComplete, TypeOK, RatedBuckets
<1> QED BY <1>1, <1>2, InitRollup, Invariant, TypeCorrect, PTL DEF Spec

-----------------------------------------------------------------------------
(***************************************************************************)
(* No bucket shrinks.                                                      *)
(***************************************************************************)
\* The minutes that any snapshot on its way recomputes count no more than the
\* table still holds.
WindowInv ==
  \A b \in RatedBuckets :
    b[2] >= RollupFrom(now - MaxLag) => rollup[b] <= SamplesOf(b[1], b[2])

LEMMA WindowMoves ==
  ASSUME NEW s \in Int, NEW t \in Int, s <= t, NEW b \in Int, b >= RollupFrom(t)
  PROVE  b >= RollupFrom(s)
BY BucketMonotone DEF RollupFrom

LEMMA WindowMovesOn ==
  ASSUME NEW m \in Int, NEW n \in Int, m <= n, NEW b \in Int, b >= RollupFrom(n - MaxLag)
  PROVE  b >= RollupFrom(m - MaxLag)
<1> DEFINE s == m - MaxLag
           t == n - MaxLag
<1>1. s \in Int /\ t \in Int /\ s <= t
  BY LoggerAssumption DEF LoggerAssumption
<1>2. b >= RollupFrom(t)
  OBVIOUS
<1> HIDE DEF s, t
<1>3. b >= RollupFrom(s)
  BY <1>1, <1>2, WindowMoves
<1> QED BY <1>3 DEF s

\* A step after which the bucket has its samples still, or more.
LEMMA WindowKept ==
  ASSUME TypeOK, TypeOK', WindowInv, now <= now', rollup' = rollup,
         \A b \in RatedBuckets : b[2] >= RollupFrom(now - MaxLag)
            => SamplesOf(b[1], b[2]) <= SamplesOf(b[1], b[2])'
  PROVE  WindowInv'
<1> SUFFICES ASSUME NEW b \in RatedBuckets, b[2] >= RollupFrom(now' - MaxLag)
             PROVE  rollup[b] <= SamplesOf(b[1], b[2])'
  BY DEF WindowInv, RollupFrom, Bucket
<1>1. now \in Int /\ now' \in Int /\ MaxLag \in Int /\ b[2] \in Int
  BY LoggerAssumption DEF TypeOK, Instants, RatedBuckets, Buckets, LoggerAssumption
<1>2. b[2] >= RollupFrom(now - MaxLag)
  BY <1>1, WindowMovesOn
<1>3. /\ quotes \in [Keys \X Instants -> Nat] /\ quotes' \in [Keys \X Instants -> Nat]
      /\ rollup[b] \in Nat
  BY DEF TypeOK, RatedBuckets
<1>4. SamplesOf(b[1], b[2]) \in Nat /\ SamplesOf(b[1], b[2])' \in Nat
  BY <1>3, SamplesFollow
<1> QED BY <1>2, <1>3, <1>4 DEF WindowInv

LEMMA WindowOfSave ==
  ASSUME TypeOK, TypeOK', WindowInv, SaveQuotes \/ SaveFails
  PROVE  WindowInv'
<1>1. /\ UNCHANGED <<now, rollup>>
      /\ quotes' = quotes \/ quotes' = Inserted
      /\ quotes \in [Keys \X Instants -> Nat] /\ quotes' \in [Keys \X Instants -> Nat]
  BY DEF SaveQuotes, SaveFails, TypeOK
<1>2. \A q \in Keys \X Instants : quotes[q] <= quotes'[q]
  BY <1>1 DEF Inserted
<1>3. ASSUME NEW b \in RatedBuckets
      PROVE  SamplesOf(b[1], b[2]) <= SamplesOf(b[1], b[2])'
  <2>1. \A q \in QuotesOf(b[1], b[2]) : quotes[q] <= quotes'[q]
    BY <1>2 DEF QuotesOf
  <2> QED BY <1>1, <2>1, SamplesFollow
<1>4. now <= now'
  BY <1>1 DEF TypeOK, Instants
<1> QED BY <1>1, <1>3, <1>4, WindowKept

LEMMA WindowOfPrune ==
  ASSUME Retention = 0 \/ Retention + 1 >= MaxLag + 2 * Minute, TypeOK, TypeOK', WindowInv, Prune
  PROVE  WindowInv'
<1>1. /\ UNCHANGED <<now, rollup>> /\ Retention # 0
      /\ quotes \in [Keys \X Instants -> Nat] /\ quotes' \in [Keys \X Instants -> Nat]
      /\ \A q \in Keys \X Instants : Kept(q) => quotes'[q] = quotes[q]
  BY DEF Prune, PruneDue, TypeOK
<1>2. ASSUME NEW b \in RatedBuckets, b[2] >= RollupFrom(now - MaxLag), NEW q \in QuotesOf(b[1], b[2])
      PROVE  quotes[q] <= quotes'[q]
  <2>1. q \in Keys \X Instants /\ q[2] \in Int /\ now \in Int /\ Bucket(q[2]) = b[2]
    BY <1>2, LoggerAssumption DEF QuotesOf, TypeOK, Instants, LoggerAssumption
  <2>2. Kept(q)
    BY <1>1, <1>2, <2>1, RecomputedIsKept DEF Kept
  <2> QED BY <1>1, <2>1, <2>2
<1>3. \A b \in RatedBuckets : b[2] >= RollupFrom(now - MaxLag)
        => SamplesOf(b[1], b[2]) <= SamplesOf(b[1], b[2])'
  BY <1>1, <1>2, SamplesFollow
<1>4. now <= now'
  BY <1>1 DEF TypeOK, Instants
<1> QED BY <1>1, <1>3, <1>4, WindowKept

LEMMA WindowOfRollUp ==
  ASSUME TypeOK, TypeOK', WindowInv, RollUp
  PROVE  WindowInv'
<1>1. UNCHANGED <<now, quotes>>
  BY DEF RollUp
<1> SUFFICES ASSUME NEW b \in RatedBuckets, b[2] >= RollupFrom(now - MaxLag)
             PROVE  rollup'[b] <= SamplesOf(b[1], b[2])'
  BY <1>1 DEF WindowInv, RollupFrom, Bucket
<1>2. SamplesOf(b[1], b[2])' = SamplesOf(b[1], b[2]) /\ SamplesOf(b[1], b[2]) \in Nat
  BY <1>1, SamplesStay
<1>3. rollup'[b] \in {SamplesOf(b[1], b[2]), rollup[b]}
  BY DEF RollUp, TypeOK, RatedBuckets
<1>4. rollup[b] <= SamplesOf(b[1], b[2])
  BY DEF WindowInv
<1> QED BY <1>2, <1>3, <1>4

\* The snapshot being rolled up recomputes no minute outside the window.
LEMMA RollUpGrows ==
  ASSUME TypeOK, LagInv, WindowInv, RollUp
  PROVE  NoBucketShrinks
<1> SUFFICES ASSUME NEW b \in RatedBuckets PROVE rollup'[b] >= rollup[b]
  BY DEF NoBucketShrinks, TypeOK, RatedBuckets
<1>1. rollup'[b] = IF b[2] >= RollupFrom(cur.captured) /\ SamplesOf(b[1], b[2]) > 0
                   THEN SamplesOf(b[1], b[2]) ELSE rollup[b]
  BY DEF RollUp, TypeOK, RatedBuckets
<1>2. rollup[b] \in Nat /\ SamplesOf(b[1], b[2]) \in Nat
  <2>1. quotes \in [Keys \X Instants -> Nat]
    BY DEF TypeOK
  <2> QED BY <2>1, SamplesNat DEF TypeOK, RatedBuckets
<1>3. CASE b[2] >= RollupFrom(cur.captured)
  <2>1. cur.captured \in Int /\ now \in Int /\ MaxLag \in Int /\ b[2] \in Int
    <3>1. cur \in Snapshot /\ now \in Instants
      BY DEF RollUp, TypeOK
    <3>2. cur.captured \in Instants
      BY <3>1 DEF Snapshot
    <3> QED BY <3>1, <3>2, LoggerAssumption DEF Instants, RatedBuckets, Buckets, LoggerAssumption
  <2> DEFINE s == now - MaxLag
  <2>2. s \in Int /\ s <= cur.captured
    BY <2>1 DEF LagInv, RollUp
  <2> HIDE DEF s
  <2>3. b[2] >= RollupFrom(s)
    BY <1>3, <2>1, <2>2, WindowMoves
  <2>4. rollup[b] <= SamplesOf(b[1], b[2])
    BY <2>3 DEF WindowInv, s
  <2> QED BY <1>1, <1>2, <2>4
<1> QED BY <1>1, <1>2, <1>3

LEMMA StepWindow ==
  ASSUME Retention = 0 \/ Retention + 1 >= MaxLag + 2 * Minute,
         TypeOK, TypeOK', LagInv, WindowInv, [Next]_vars
  PROVE  WindowInv' /\ (NoBucketShrinks \/ UNCHANGED vars)
<1>1. ASSUME rollup' = rollup PROVE NoBucketShrinks
  BY <1>1 DEF NoBucketShrinks, TypeOK
<1>2. ASSUME UNCHANGED <<rollup, quotes>>, now' = now \/ now' = now + 1 PROVE WindowInv'
  <2>1. \A b \in RatedBuckets : SamplesOf(b[1], b[2]) <= SamplesOf(b[1], b[2])'
    BY <1>2, SamplesStay
  <2>2. now <= now'
    BY <1>2 DEF TypeOK, Instants
  <2> QED BY <1>2, <2>1, <2>2, WindowKept
<1>3. CASE RollUp
  BY <1>3, WindowOfRollUp, RollUpGrows
<1>4. CASE Prune
  BY <1>1, <1>4, WindowOfPrune DEF Prune
<1>5. CASE SaveQuotes \/ SaveFails
  BY <1>1, <1>5, WindowOfSave DEF SaveQuotes, SaveFails
<1>6. CASE \/ Warm \/ Tick \/ SkipSnapshot \/ TakeSnapshot
           \/ \E k \in RowKeys : ProcessRow(k) \/ RowFails(k)
           \/ SaveMetadata \/ RollUpFails \/ NothingToPrune \/ Restart
           \/ UNCHANGED vars
  BY <1>1, <1>2, <1>6
     DEF Warm, Tick, SkipSnapshot, TakeSnapshot, ProcessRow, RowFails, SaveMetadata, RollUpFails,
         NothingToPrune, Restart, vars, database
<1> QED BY <1>3, <1>4, <1>5, <1>6 DEF Next

\* Charts never lose history, failures and restarts included, if quotes are kept
\* for two minutes and the consumer's lag at least.
THEOREM HistoryIsKept ==
  ASSUME Retention = 0 \/ Retention + 1 >= MaxLag + 2 * Minute
  PROVE  Spec => BucketsNeverShrink
<1>1. Init => LagInv
  BY DEF Init, LagInv
<1>2. Inv /\ TypeOK /\ LagInv /\ [Next]_vars => LagInv'
  BY StepLag
<1>3. Init => WindowInv
  <2> SUFFICES ASSUME Init, NEW b \in RatedBuckets PROVE rollup[b] <= SamplesOf(b[1], b[2])
    BY DEF WindowInv
  <2>1. quotes \in [Keys \X Instants -> Nat] /\ rollup[b] = 0
    BY DEF Init, RatedBuckets
  <2> QED BY <2>1, SamplesNat
<1>4. TypeOK /\ TypeOK' /\ LagInv /\ WindowInv /\ [Next]_vars
        => WindowInv' /\ [NoBucketShrinks]_vars
  BY StepWindow
<1> QED BY <1>1, <1>2, <1>3, <1>4, Invariant, TypeCorrect, PTL DEF Spec, BucketsNeverShrink

-----------------------------------------------------------------------------
(***************************************************************************)
(* When the remembered timestamp is an inserted one.                       *)
(***************************************************************************)
\* What the dedupe remembers is stored, or in the batch about to be saved.
RememberedInv ==
  \A k \in Keys : lastTs[k] # NoTime =>
    \/ quotes[<<k, lastTs[k]>>] > 0
    \/ phase = "rows" /\ <<k, lastTs[k]>> \in batch

\* A row that is skipped is remembered already; one that is not joins the batch.
LEMMA RememberedOfRow ==
  ASSUME TypeOK, RememberedInv, NEW k \in RowKeys, ProcessRow(k)
  PROVE  RememberedInv'
<1> DEFINE ts == cur.rows[k]
           d == DedupeKey(k)
<1>1. phase = "rows" /\ phase' = "rows" /\ quotes' = quotes
  BY DEF ProcessRow
<1>2. lastTs \in [Keys -> Instants \cup {NoTime}]
  BY DEF TypeOK
<1>3. \/ UNCHANGED <<lastTs, batch>>
      \/ lastTs' = [lastTs EXCEPT ![d] = ts] /\ batch' = batch \cup {<<d, ts>>}
  BY KeysApart DEF ProcessRow, Collect
<1> HIDE DEF ts, d
<1>4. CASE UNCHANGED <<lastTs, batch>>
  BY <1>1, <1>4 DEF RememberedInv
<1>5. CASE lastTs' = [lastTs EXCEPT ![d] = ts] /\ batch' = batch \cup {<<d, ts>>}
  BY <1>1, <1>2, <1>5 DEF RememberedInv
<1> QED BY <1>3, <1>4, <1>5

LEMMA RememberedOfSave ==
  ASSUME TypeOK, RememberedInv, SaveQuotes
  PROVE  RememberedInv'
<1> SUFFICES ASSUME NEW k \in Keys, lastTs[k] # NoTime
             PROVE  quotes'[<<k, lastTs[k]>>] > 0
  BY DEF SaveQuotes, memory, RememberedInv
<1> DEFINE q == <<k, lastTs[k]>>
<1>1. q \in Keys \X Instants
  BY DEF TypeOK
<1>2. quotes \in [Keys \X Instants -> Nat]
  BY DEF TypeOK
<1>3. quotes'[q] = quotes[q] + IF q \in batch THEN 1 ELSE 0
  BY <1>1, <1>2 DEF SaveQuotes, Inserted
<1>4. quotes[q] > 0 \/ q \in batch
  BY DEF RememberedInv
<1>5. quotes[q] \in Nat
  BY <1>1, <1>2
<1> HIDE DEF q
<1> QED BY <1>3, <1>4, <1>5 DEF q

LEMMA StepRemembered ==
  ASSUME MayFail = FALSE, Retention = 0, Inv, TypeOK, RememberedInv, [Next]_vars
  PROVE  RememberedInv'
<1>1. CASE UNCHANGED <<phase, batch, lastTs, quotes>>
  BY <1>1 DEF RememberedInv
<1>2. CASE phase # "rows" /\ UNCHANGED <<lastTs, quotes>>
  BY <1>2 DEF RememberedInv
<1>3. ASSUME NEW k \in RowKeys, ProcessRow(k) PROVE RememberedInv'
  BY <1>3, RememberedOfRow
<1>4. CASE SaveQuotes
  BY <1>4, RememberedOfSave
<1>5. CASE SaveMetadata
  BY <1>5 DEF SaveMetadata, RowsDone, memory, RememberedInv
<1>6. CASE SkipSnapshot \/ TakeSnapshot \/ RollUp \/ NothingToPrune
  BY <1>2, <1>6
     DEF SkipSnapshot, TakeSnapshot, RollUp, NothingToPrune, work, memory, database
<1>7. ~Prune
  BY DEF Prune, PruneDue
<1>8. CASE Warm \/ Tick \/ UNCHANGED vars
  BY <1>1, <1>8 DEF Warm, Tick, vars, work, memory, database
<1> QED BY <1>3, <1>4, <1>5, <1>6, <1>7, <1>8 DEF Next, RowFails, SaveFails, RollUpFails, Restart

\* The comment on _lastQuoteTs, "last quote timestamp inserted", holds between
\* two snapshots of a consumer whose database answers and never deletes: the
\* order of remembering and saving is all that breaks it.
THEOREM RememberedWhenHealthy ==
  ASSUME MayFail = FALSE, Retention = 0
  PROVE  Spec => []RememberedIsInserted
<1>1. Init => RememberedInv
  BY DEF Init, RememberedInv
<1>2. Inv /\ TypeOK /\ RememberedInv /\ [Next]_vars => RememberedInv'
  BY StepRemembered
<1>3. RememberedInv => RememberedIsInserted
  BY DEF RememberedInv, RememberedIsInserted
<1> QED BY <1>1, <1>2, <1>3, Invariant, TypeCorrect, PTL DEF Spec
=============================================================================
