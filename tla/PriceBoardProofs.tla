-------------------------- MODULE PriceBoardProofs --------------------------
(***************************************************************************)
(* The properties of PriceBoard, for any exchanges, prices, staleness      *)
(* window and refresh length.                                              *)
(***************************************************************************)
EXTENDS PriceBoard, TLAPS

(***************************************************************************)
(* The inductive invariant.                                                *)
(***************************************************************************)
\* A refresh ends within CycleTicks of its beginning, and between refreshes no
\* task runs.
CycleShort ==
  /\ began <= now
  /\ phase # "idle" => now - began <= CycleTicks
  /\ phase = "enqueue" => snap # NoSnapshot
  /\ phase \in {"idle", "enqueue"} => \A e \in Exchanges : task[e] = "done"

ThisCycle(t) == t \in Nat /\ began <= t /\ t <= now

\* A quote received by a task was quoted during this refresh.
FreshQuote(q) ==
  /\ q.price = NoPrice => q.at = NoTime
  /\ q.price # NoPrice => ThisCycle(q.at)
HalvesFresh == \A id \in RowIds : FreshQuote(half[id])

\* So was every side of a row just fetched, and its stamp is of this refresh.
FreshRow(r) ==
  /\ r.sell # NoPrice => ThisCycle(r.ts) /\ ThisCycle(r.sellAt)
  /\ r.buy # NoPrice  => ThisCycle(r.ts) /\ ThisCycle(r.buyAt)
FetchedFresh == \A id \in RowIds : fetched[id] # NoRow => FreshRow(fetched[id])

\* The float pass leaves a row for every exchange.
FloatRowsFetched ==
  \A e \in Exchanges :
    (phase = "fixed" \/ (phase = "float" /\ task[e] = "done"))
    => fetched[<<e, "float">>] # NoRow

\* Rows carry the rate type of their exchange and pass.
RatesKept ==
  /\ \A id \in RowIds : fetched[id] # NoRow => fetched[id].rate = RateOf(id[1], id[2])
  /\ snap # NoSnapshot =>
       \A id \in RowIds : snap[id] # NoRow => snap[id].rate = RateOf(id[1], id[2])

\* A stored row is dated no later than its storing, which precedes the refresh
\* in progress.
DatedRow(r, t) == (r.sell # NoPrice \/ r.buy # NoPrice) => r.ts <= t
StoredBefore ==
  /\ storedAt <= now
  /\ phase \in {"float", "fixed"} => storedAt <= began
  /\ \A r \in StoredRows : DatedRow(r, storedAt)

Inv ==
  /\ StoredBefore
  /\ TypeOK
  /\ CycleShort
  /\ HalvesFresh
  /\ FetchedFresh
  /\ FloatRowsFetched
  /\ RatesKept
  /\ HonestStamp
  /\ StaleBound

\* The two properties of stored rows, row by row.
HonestRow(r) ==
  /\ r.sell # NoPrice => r.ts # NoTime /\ r.sellAt # NoTime /\ r.ts - r.sellAt <= CycleTicks
  /\ r.buy # NoPrice  => r.ts # NoTime /\ r.buyAt # NoTime /\ r.ts - r.buyAt <= CycleTicks
YoungRow(r) ==
  /\ r.sell # NoPrice => now - r.sellAt < StaleWindow + CycleTicks
  /\ r.buy # NoPrice  => now - r.buyAt < StaleWindow + CycleTicks

-----------------------------------------------------------------------------
(***************************************************************************)
(* Rows.                                                                   *)
(***************************************************************************)
\* The row of two fresh quotes is fresh.
LEMMA RowFromFresh ==
  ASSUME TypeOK, NEW q \in Quote, NEW u \in Quote, FreshQuote(q), FreshQuote(u),
         NEW rate \in Passes
  PROVE  /\ RowFrom(q, u, rate) \in Row
         /\ FreshRow(RowFrom(q, u, rate))
         /\ RowFrom(q, u, rate).rate = rate
BY BoardAssumption
   DEF BoardAssumption, TypeOK, Quote, Row, Times, RowFrom, Later, FreshQuote, FreshRow, ThisCycle

LEMMA RateOfPass == \A e \in Exchanges : \A pass \in Passes : RateOf(e, pass) \in Passes
BY DEF RateOf, Passes

\* A genuine fixed row filled from the float row of the same refresh is fresh.
LEMMA FilledFromFloatFresh ==
  ASSUME NEW r \in Row, NEW f \in Row, FreshRow(r), FreshRow(f),
         GenuineSell(r, f) \/ GenuineBuy(r, f)
  PROVE  /\ FilledFromFloat(r, f) \in Row
         /\ FreshRow(FilledFromFloat(r, f))
         /\ FilledFromFloat(r, f).rate = r.rate
<1> DEFINE ff == FilledFromFloat(r, f)
<1>1. /\ ff.sell = IF GenuineSell(r, f) THEN r.sell ELSE f.sell
      /\ ff.sellAt = IF GenuineSell(r, f) THEN r.sellAt ELSE f.sellAt
      /\ ff.buy = IF GenuineBuy(r, f) THEN r.buy ELSE f.buy
      /\ ff.buyAt = IF GenuineBuy(r, f) THEN r.buyAt ELSE f.buyAt
      /\ ff.ts = r.ts
      /\ ff.rate = r.rate
      /\ ff \in Row
  BY DEF FilledFromFloat, Row
<1>2. r.sell # NoPrice \/ r.buy # NoPrice
  BY DEF GenuineSell, GenuineBuy
<1>3. ThisCycle(ff.ts)
  BY <1>1, <1>2 DEF FreshRow
<1>4. ff.sell # NoPrice => ThisCycle(ff.sellAt)
  BY <1>1 DEF FreshRow, GenuineSell
<1>5. ff.buy # NoPrice => ThisCycle(ff.buyAt)
  BY <1>1 DEF FreshRow, GenuineBuy
<1> QED BY <1>1, <1>3, <1>4, <1>5 DEF FreshRow

\* A fresh row is honest and young.
LEMMA FreshRowGood ==
  ASSUME TypeOK, CycleShort, phase # "idle", NEW r \in Row, FreshRow(r)
  PROVE  HonestRow(r) /\ YoungRow(r)
BY BoardAssumption
   DEF BoardAssumption, TypeOK, CycleShort, Row, Times, FreshRow, ThisCycle, HonestRow, YoungRow

\* A carriable honest row is young.
LEMMA CarriableYoung ==
  ASSUME TypeOK, NEW r \in Row, HonestRow(r), Carriable(r)
  PROVE  YoungRow(r)
BY BoardAssumption
   DEF BoardAssumption, TypeOK, Row, Times, HonestRow, YoungRow, Carriable

\* Whatever is carried forward, the row stored is honest and young.
LEMMA CarriedGood ==
  ASSUME TypeOK, CycleShort, phase # "idle",
         NEW r \in Row, FreshRow(r),
         NEW old \in Row \cup {NoRow},
         old # NoRow => HonestRow(old) /\ DatedRow(old, now) /\ old.rate = r.rate
  PROVE  /\ CarriedForward(r, old) \in Row
         /\ DatedRow(CarriedForward(r, old), now)
         /\ HonestRow(CarriedForward(r, old))
         /\ YoungRow(CarriedForward(r, old))
         /\ CarriedForward(r, old).rate = r.rate
<1>1. HonestRow(r) /\ YoungRow(r) /\ DatedRow(r, now)
  BY FreshRowGood DEF FreshRow, ThisCycle, DatedRow
<1>2. CASE TwoSided(r) \/ ~Carriable(old)
  BY <1>1, <1>2 DEF CarriedForward
<1>3. CASE ~TwoSided(r) /\ Carriable(old)
  <2>1. old \in Row /\ HonestRow(old) /\ DatedRow(old, now) /\ old.rate = r.rate
    BY <1>3 DEF Carriable
  <2>2. YoungRow(old)
    BY <1>3, <2>1, CarriableYoung
  <2>3. CASE NoSide(r)
    BY <1>3, <2>1, <2>2, <2>3 DEF CarriedForward
  <2>4. CASE ~NoSide(r)
    <3> DEFINE ff == FilledFromOld(r, old)
    <3>1. /\ ff.sell = IF r.sell # NoPrice THEN r.sell ELSE old.sell
          /\ ff.sellAt = IF r.sell # NoPrice THEN r.sellAt ELSE old.sellAt
          /\ ff.buy = IF r.buy # NoPrice THEN r.buy ELSE old.buy
          /\ ff.buyAt = IF r.buy # NoPrice THEN r.buyAt ELSE old.buyAt
          /\ ff.ts = Earlier(r.ts, old.ts)
          /\ ff.rate = r.rate
          /\ ff \in Row
      BY <2>1 DEF FilledFromOld, Row, Earlier
    <3>2. /\ r.ts \in Nat /\ old.ts \in Nat
          /\ ff.ts \in Nat /\ ff.ts <= r.ts /\ ff.ts <= old.ts
      BY <1>3, <2>1, <2>4, <3>1, BoardAssumption
         DEF NoSide, FreshRow, ThisCycle, Carriable, Earlier, Row, Times, BoardAssumption
    <3>3. HonestRow(ff)
      BY <1>1, <2>1, <3>1, <3>2, BoardAssumption DEF HonestRow, Row, Times, BoardAssumption
    <3>4. YoungRow(ff)
      BY <1>1, <2>2, <3>1 DEF YoungRow
    <3>5. DatedRow(ff, now)
      BY <2>4, <3>2 DEF NoSide, FreshRow, ThisCycle, DatedRow, TypeOK
    <3>6. CarriedForward(r, old) = ff \/ CarriedForward(r, old) = r
      BY <1>3, <2>4 DEF CarriedForward
    <3> HIDE DEF ff
    <3> QED BY <1>1, <3>1, <3>3, <3>4, <3>5, <3>6
  <2> QED BY <2>3, <2>4
<1> QED BY <1>2, <1>3

-----------------------------------------------------------------------------
(***************************************************************************)
(* The new snapshot.                                                       *)
(***************************************************************************)
LEMMA RowIdFacts ==
  /\ \A e \in Exchanges : \A pass \in Passes :
       <<e, pass>> \in RowIds /\ <<e, pass>>[1] = e /\ <<e, pass>>[2] = pass
  /\ \A id \in RowIds : /\ id[1] \in Exchanges /\ id[2] \in Passes
                        /\ id = <<id[1], id[2]>>
                        /\ <<id[1], "float">> \in RowIds /\ <<id[1], "fixed">> \in RowIds
BY DEF RowIds, Passes

LEMMA CombinedFresh ==
  ASSUME TypeOK, FetchedFresh, FloatRowsFetched, RatesKept, phase = "fixed",
         NEW id \in RowIds, Combined[id] # NoRow
  PROVE  /\ Combined[id] \in Row
         /\ FreshRow(Combined[id])
         /\ Combined[id].rate = RateOf(id[1], id[2])
<1> DEFINE r == fetched[id]
           f == fetched[<<id[1], "float">>]
<1>1. r \in Row \cup {NoRow} /\ f \in Row /\ FreshRow(f)
  <2>1. id[1] \in Exchanges /\ <<id[1], "float">> \in RowIds
    BY RowIdFacts
  <2>2. f # NoRow
    BY <2>1 DEF FloatRowsFetched
  <2>3. \A x \in RowIds : fetched[x] \in Row \cup {NoRow}
    BY DEF TypeOK, Snapshot
  <2> QED BY <2>1, <2>2, <2>3 DEF FetchedFresh
<1>2. CASE id[2] = "float" \/ r = NoRow
  BY <1>1, <1>2 DEF Combined, FetchedFresh, RatesKept
<1>3. CASE id[2] # "float" /\ r # NoRow
  <2>1. (GenuineSell(r, f) \/ GenuineBuy(r, f)) /\ Combined[id] = FilledFromFloat(r, f)
    BY <1>3 DEF Combined
  <2>2. r \in Row /\ FreshRow(r) /\ r.rate = RateOf(id[1], id[2])
    BY <1>1, <1>3 DEF FetchedFresh, RatesKept
  <2> QED BY <1>1, <2>1, <2>2, FilledFromFloatFresh
<1> QED BY <1>2, <1>3

LEMMA LastGoodHonest ==
  ASSUME TypeOK, HonestStamp, StoredBefore, NEW id \in RowIds, NEW rate
  PROVE  /\ LastGood(id, rate) \in Row \cup {NoRow}
         /\ LastGood(id, rate) # NoRow =>
              /\ HonestRow(LastGood(id, rate))
              /\ DatedRow(LastGood(id, rate), storedAt)
              /\ LastGood(id, rate).rate = rate
<1>1. CASE LastGood(id, rate) = NoRow
  BY <1>1
<1>2. CASE LastGood(id, rate) # NoRow
  <2>1. PICK pass \in Passes : /\ snap # NoSnapshot
                               /\ snap[<<id[1], pass>>] # NoRow
                               /\ snap[<<id[1], pass>>].rate = rate
                               /\ LastGood(id, rate) = snap[<<id[1], pass>>]
    BY <1>2 DEF LastGood, Passes
  <2>2. <<id[1], pass>> \in RowIds
    BY RowIdFacts
  <2>3. snap[<<id[1], pass>>] \in StoredRows /\ snap[<<id[1], pass>>] \in Row
    BY <2>1, <2>2 DEF StoredRows, TypeOK, Snapshot
  <2> QED BY <2>1, <2>3 DEF HonestStamp, HonestRow, StoredBefore
<1> QED BY <1>1, <1>2

LEMMA NewSnapshotGood ==
  ASSUME Inv, phase = "fixed"
  PROVE  /\ NewSnapshot \in Snapshot
         /\ NewSnapshot # NoSnapshot
         /\ \A id \in RowIds : NewSnapshot[id] # NoRow =>
              /\ HonestRow(NewSnapshot[id])
              /\ YoungRow(NewSnapshot[id])
             /\ DatedRow(NewSnapshot[id], now)
              /\ DatedRow(NewSnapshot[id], now)
              /\ NewSnapshot[id].rate = RateOf(id[1], id[2])
<1>1. ASSUME NEW id \in RowIds, Combined[id] # NoRow
      PROVE  /\ NewSnapshot[id] \in Row
             /\ HonestRow(NewSnapshot[id])
             /\ YoungRow(NewSnapshot[id])
             /\ DatedRow(NewSnapshot[id], now)
             /\ NewSnapshot[id].rate = RateOf(id[1], id[2])
  <2> DEFINE r == Combined[id]
             old == LastGood(id, r.rate)
  <2>1. r \in Row /\ FreshRow(r) /\ r.rate = RateOf(id[1], id[2])
    BY <1>1, CombinedFresh DEF Inv
  <2>2. /\ old \in Row \cup {NoRow}
        /\ old # NoRow => HonestRow(old) /\ DatedRow(old, storedAt) /\ old.rate = r.rate
    BY LastGoodHonest DEF Inv
  <2>4. old # NoRow => DatedRow(old, now)
    <3>1. CASE old = NoRow
      BY <3>1
    <3>2. CASE old # NoRow
      <4>1. old \in Row /\ HonestRow(old) /\ DatedRow(old, storedAt)
        BY <2>2, <3>2
      <4> HIDE DEF old
      <4> QED BY <4>1, BoardAssumption
              DEF Inv, StoredBefore, TypeOK, DatedRow, HonestRow, Row, Times, BoardAssumption
    <3> QED BY <3>1, <3>2
  <2>3. NewSnapshot[id] = CarriedForward(r, old)
    BY <1>1 DEF NewSnapshot
  <2> HIDE DEF r, old
  <2> QED BY <2>1, <2>2, <2>3, <2>4, CarriedGood DEF Inv
<1>2. \A id \in RowIds : Combined[id] = NoRow => NewSnapshot[id] = NoRow
  BY DEF NewSnapshot
<1>3. NewSnapshot \in Snapshot
  <2>1. \A id \in RowIds : NewSnapshot[id] \in Row \cup {NoRow}
    BY <1>1, <1>2
  <2>2. DOMAIN NewSnapshot = RowIds /\ NewSnapshot = [id \in RowIds |-> NewSnapshot[id]]
    BY DEF NewSnapshot
  <2> QED BY <2>1, <2>2 DEF Snapshot
<1>4. NewSnapshot # NoSnapshot
  BY <1>3, BoardAssumption DEF BoardAssumption
<1> QED BY <1>1, <1>2, <1>3, <1>4

\* The logger is handed rows of the snapshot.
LEMMA LoggedRowsAreStored ==
  ASSUME TypeOK, snap # NoSnapshot
  PROVE  BuildSnapshot(snap) \subseteq StoredRows /\ StoredRows \subseteq Row
<1> DEFINE board == BoardOf(snap)
<1>1. DOMAIN board = {id \in RowIds : snap[id] # NoRow}
  BY DEF BoardOf
<1>2. DropPriceOutliers(board, SaneRows(board)) \subseteq DOMAIN board
  <2>1. SaneRows(board) \subseteq DOMAIN board
    BY DEF SaneRows
  <2> HIDE DEF board
  <2>2. DropPriceOutliers(board, SaneRows(board)) \subseteq SaneRows(board)
    BY DEF DropPriceOutliers
  <2> QED BY <2>1, <2>2
<1> HIDE DEF board
<1>3. BuildSnapshot(snap) = {snap[id] : id \in DropPriceOutliers(board, SaneRows(board))}
  BY DEF BuildSnapshot, ShownRows, board
<1>4. BuildSnapshot(snap) \subseteq StoredRows
  BY <1>1, <1>2, <1>3 DEF StoredRows
<1>5. StoredRows \subseteq Row
  BY DEF StoredRows, TypeOK, Snapshot
<1> QED BY <1>4, <1>5

-----------------------------------------------------------------------------
(***************************************************************************)
(* The invariant is inductive.                                             *)
(***************************************************************************)
LEMMA NoQuoteFresh == NoQuote \in Quote /\ FreshQuote(NoQuote)
BY DEF NoQuote, Quote, FreshQuote, Times

LEMMA InitInv == Init => Inv
<1> SUFFICES ASSUME Init PROVE Inv
  OBVIOUS
<1>1. TypeOK
  BY NoQuoteFresh DEF Init, TypeOK, Snapshot
<1>2. CycleShort /\ FetchedFresh /\ FloatRowsFetched /\ RatesKept
  BY DEF Init, CycleShort, FetchedFresh, FloatRowsFetched, RatesKept
<1>3. HalvesFresh
  BY NoQuoteFresh DEF Init, HalvesFresh
<1>4. HonestStamp /\ StaleBound /\ StoredBefore
  BY DEF Init, HonestStamp, StaleBound, StoredRows, StoredBefore
<1> QED BY <1>1, <1>2, <1>3, <1>4 DEF Inv

\* A task that ends puts one row into fetched.
LEMMA TaskEnds ==
  ASSUME Inv, NEW e \in Exchanges, task[e] # "done",
         NEW r \in Row, FreshRow(r), r.rate = RateOf(e, phase),
         fetched' = [fetched EXCEPT ![<<e, phase>>] = r],
         task' = [task EXCEPT ![e] = "done"],
         UNCHANGED <<now, snap, storedAt, phase, began, half, logged>>
  PROVE  Inv'
<1> USE DEF Inv
<1>1. phase \in {"float", "fixed"} /\ <<e, phase>> \in RowIds
  BY RowIdFacts DEF CycleShort, TypeOK, Passes
<1>2. r # NoRow
  BY BoardAssumption DEF BoardAssumption
<1>3. \A id \in RowIds : fetched'[id] = IF id = <<e, phase>> THEN r ELSE fetched[id]
  BY <1>1 DEF TypeOK, Snapshot
<1>4. TypeOK'
  BY <1>1 DEF TypeOK, Snapshot
<1>5. CycleShort' /\ HalvesFresh' /\ HonestStamp' /\ StaleBound' /\ StoredBefore'
  BY DEF TypeOK, CycleShort, HalvesFresh, FreshQuote, ThisCycle, HonestStamp, StaleBound,
         StoredBefore, DatedRow, StoredRows
<1>6. FetchedFresh'
  BY <1>3 DEF FetchedFresh, FreshRow, ThisCycle
<1>7. FloatRowsFetched'
  <2> SUFFICES ASSUME NEW x \in Exchanges,
                      phase = "fixed" \/ (phase = "float" /\ task'[x] = "done")
               PROVE  fetched'[<<x, "float">>] # NoRow
    BY DEF FloatRowsFetched
  <2>1. <<x, "float">> \in RowIds
    BY RowIdFacts DEF Passes
  <2>2. CASE <<x, "float">> = <<e, phase>>
    BY <1>2, <1>3, <2>1, <2>2
  <2>3. CASE <<x, "float">> # <<e, phase>>
    <3>1. phase = "fixed" \/ task[x] = "done"
      BY <2>3 DEF TypeOK
    <3>2. fetched[<<x, "float">>] # NoRow
      BY <3>1 DEF FloatRowsFetched
    <3> QED BY <1>3, <2>1, <2>3, <3>2
  <2> QED BY <2>2, <2>3
<1>8. RatesKept'
  <2>1. \A id \in RowIds : fetched'[id] # NoRow => fetched'[id].rate = RateOf(id[1], id[2])
    BY <1>1, <1>3 DEF RatesKept
  <2> QED BY <2>1 DEF RatesKept
<1> QED BY <1>4, <1>5, <1>6, <1>7, <1>8

\* One step of the program, one step of the proof per action.
LEMMA StepInv == Inv /\ [Next]_vars => Inv'
<1> SUFFICES ASSUME Inv, [Next]_vars PROVE Inv'
  OBVIOUS
<1> USE DEF Inv
<1>1. CASE StartRefresh
  <2>1. TypeOK'
    BY <1>1, NoQuoteFresh DEF StartRefresh, TypeOK, Snapshot
  <2>2. CycleShort' /\ FetchedFresh' /\ FloatRowsFetched' /\ RatesKept'
    BY <1>1, BoardAssumption
       DEF StartRefresh, TypeOK, CycleShort, FetchedFresh, FloatRowsFetched, RatesKept, BoardAssumption
  <2>3. HalvesFresh'
    BY <1>1 DEF StartRefresh, HalvesFresh, NoQuote, FreshQuote, ThisCycle
  <2>4. HonestStamp' /\ StaleBound' /\ StoredBefore'
    BY <1>1 DEF StartRefresh, HonestStamp, StaleBound, StoredBefore, DatedRow, StoredRows
  <2> QED BY <2>1, <2>2, <2>3, <2>4
<1>2. ASSUME NEW e \in Exchanges, SellAnswers(e) PROVE Inv'
  <2>1. PICK q \in Quote : FreshQuote(q) /\ half' = [half EXCEPT ![<<e, phase>>] = q]
    <3>1. PICK p \in SellPrices \cup {NoPrice} :
            half' = [half EXCEPT ![<<e, phase>>] =
                       IF p = NoPrice THEN NoQuote ELSE [price |-> p, at |-> now]]
      BY <1>2 DEF SellAnswers
    <3>2. CASE p = NoPrice
      BY <3>1, <3>2, NoQuoteFresh
    <3>3. CASE p # NoPrice
      <4> DEFINE q == [price |-> p, at |-> now]
      <4>1. q \in Quote /\ FreshQuote(q)
        BY <3>3 DEF TypeOK, CycleShort, Quote, Times, Prices, FreshQuote, ThisCycle
      <4> QED BY <3>1, <3>3, <4>1
    <3> QED BY <3>2, <3>3
  <2>2. /\ task[e] = "selling" /\ task' = [task EXCEPT ![e] = "buying"]
        /\ UNCHANGED <<now, snap, storedAt, phase, began, fetched, logged>>
    BY <1>2 DEF SellAnswers
  <2>3. TypeOK'
    BY <2>1, <2>2 DEF TypeOK
  <2>4. HalvesFresh'
    BY <2>1, <2>2 DEF TypeOK, HalvesFresh, FreshQuote, ThisCycle
  <2>5. CycleShort' /\ FloatRowsFetched'
    BY <2>2 DEF TypeOK, CycleShort, FloatRowsFetched
  <2>6. FetchedFresh' /\ RatesKept' /\ HonestStamp' /\ StaleBound' /\ StoredBefore'
    BY <2>2 DEF FetchedFresh, FreshRow, ThisCycle, RatesKept, HonestStamp, StaleBound,
                StoredBefore, DatedRow, StoredRows
  <2> QED BY <2>3, <2>4, <2>5, <2>6
<1>3. ASSUME NEW e \in Exchanges, BuyAnswers(e) PROVE Inv'
  <2>1. phase \in Passes /\ <<e, phase>> \in RowIds
    BY <1>3, RowIdFacts DEF BuyAnswers, CycleShort, TypeOK, Passes
  <2>2. PICK p \in BuyPrices \cup {NoPrice} :
          fetched' = [fetched EXCEPT ![<<e, phase>>] =
            RowFrom(half[<<e, phase>>],
                    IF p = NoPrice THEN NoQuote ELSE [price |-> p, at |-> now],
                    RateOf(e, phase))]
    BY <1>3 DEF BuyAnswers
  <2> DEFINE q == IF p = NoPrice THEN NoQuote ELSE [price |-> p, at |-> now]
             r == RowFrom(half[<<e, phase>>], q, RateOf(e, phase))
  <2>3. q \in Quote /\ FreshQuote(q)
    <3>1. CASE p = NoPrice
      BY <3>1, NoQuoteFresh
    <3>2. CASE p # NoPrice
      BY <3>2 DEF TypeOK, CycleShort, Quote, Times, Prices, FreshQuote, ThisCycle
    <3> QED BY <3>1, <3>2
  <2>4. half[<<e, phase>>] \in Quote /\ FreshQuote(half[<<e, phase>>])
    BY <2>1 DEF TypeOK, HalvesFresh
  <2>5. RateOf(e, phase) \in Passes
    BY <2>1, RateOfPass
  <2> HIDE DEF q
  <2>6. r \in Row /\ FreshRow(r) /\ r.rate = RateOf(e, phase)
    BY <2>3, <2>4, <2>5, RowFromFresh
  <2>7. fetched' = [fetched EXCEPT ![<<e, phase>>] = r]
    BY <2>2 DEF q
  <2>8. /\ task[e] # "done" /\ task' = [task EXCEPT ![e] = "done"]
        /\ UNCHANGED <<now, snap, storedAt, phase, began, half, logged>>
    BY <1>3 DEF BuyAnswers
  <2> HIDE DEF r
  <2> QED BY <2>6, <2>7, <2>8, TaskEnds
<1>4. ASSUME NEW e \in Exchanges, TimesOut(e) PROVE Inv'
  <2>1. phase \in Passes
    BY <1>4 DEF TimesOut, CycleShort, TypeOK, Passes
  <2> DEFINE r == EmptyRow(RateOf(e, phase))
  <2>2. RateOf(e, phase) \in Passes
    BY <2>1, RateOfPass
  <2>3. r \in Row /\ FreshRow(r) /\ r.rate = RateOf(e, phase)
    BY <2>2, NoQuoteFresh, RowFromFresh DEF EmptyRow
  <2>4. /\ task[e] # "done" /\ task' = [task EXCEPT ![e] = "done"]
        /\ fetched' = [fetched EXCEPT ![<<e, phase>>] = r]
        /\ UNCHANGED <<now, snap, storedAt, phase, began, half, logged>>
    BY <1>4 DEF TimesOut
  <2> HIDE DEF r
  <2> QED BY <2>3, <2>4, TaskEnds
<1>5. CASE FloatPassOver
  <2>1. TypeOK'
    BY <1>5 DEF FloatPassOver, TypeOK
  <2>2. CycleShort'
    BY <1>5 DEF FloatPassOver, CycleShort
  <2>3. FloatRowsFetched'
    BY <1>5 DEF FloatPassOver, PassOver, FloatRowsFetched
  <2>4. /\ HalvesFresh' /\ FetchedFresh' /\ RatesKept' /\ HonestStamp' /\ StaleBound'
        /\ StoredBefore'
    BY <1>5 DEF FloatPassOver, HalvesFresh, FreshQuote, ThisCycle, FetchedFresh, FreshRow,
                RatesKept, HonestStamp, StaleBound, StoredBefore, DatedRow, StoredRows
  <2> QED BY <2>1, <2>2, <2>3, <2>4
<1>6. CASE Store
  <2>1. /\ phase = "fixed" /\ PassOver
        /\ snap' = NewSnapshot /\ storedAt' = now /\ phase' = "enqueue"
        /\ UNCHANGED <<now, began, task, half, fetched, logged>>
    BY <1>6 DEF Store
  <2>2. /\ snap' \in Snapshot /\ snap' # NoSnapshot
        /\ \A id \in RowIds : snap'[id] # NoRow =>
             /\ HonestRow(snap'[id]) /\ YoungRow(snap'[id]) /\ DatedRow(snap'[id], now)
             /\ snap'[id].rate = RateOf(id[1], id[2])
    BY <2>1, NewSnapshotGood
  <2>3. TypeOK'
    BY <2>1, <2>2 DEF TypeOK
  <2>4. CycleShort' /\ FloatRowsFetched'
    BY <2>1, <2>2 DEF CycleShort, PassOver, FloatRowsFetched
  <2>5. HalvesFresh' /\ FetchedFresh'
    BY <2>1 DEF HalvesFresh, FreshQuote, ThisCycle, FetchedFresh, FreshRow
  <2>6. RatesKept'
    BY <2>1, <2>2 DEF RatesKept
  <2>7. \A r \in StoredRows' : HonestRow(r) /\ YoungRow(r) /\ DatedRow(r, now)
    BY <2>2 DEF StoredRows
  <2>8. HonestStamp'
    BY <2>7 DEF HonestStamp, HonestRow
  <2>9. StaleBound'
    BY <2>1, <2>7 DEF StaleBound, YoungRow
  <2>10. StoredBefore'
    BY <2>1, <2>7 DEF StoredBefore, DatedRow, TypeOK
  <2> QED BY <2>3, <2>4, <2>5, <2>6, <2>8, <2>9, <2>10
<1>7. CASE Enqueue
  <2>1. logged' \in SUBSET Row
    BY <1>7, LoggedRowsAreStored DEF Enqueue, CycleShort
  <2>2. TypeOK'
    BY <1>7, <2>1 DEF Enqueue, TypeOK
  <2>3. CycleShort' /\ FloatRowsFetched'
    BY <1>7 DEF Enqueue, CycleShort, FloatRowsFetched
  <2>4. /\ HalvesFresh' /\ FetchedFresh' /\ RatesKept' /\ HonestStamp' /\ StaleBound'
        /\ StoredBefore'
    BY <1>7 DEF Enqueue, HalvesFresh, FreshQuote, ThisCycle, FetchedFresh, FreshRow,
                RatesKept, HonestStamp, StaleBound, StoredBefore, DatedRow, StoredRows
  <2> QED BY <2>2, <2>3, <2>4
<1>8. CASE Tick
  <2>1. TypeOK' /\ CycleShort'
    BY <1>8, BoardAssumption DEF Tick, TypeOK, CycleShort, BoardAssumption
  <2>2. \A t : ThisCycle(t) => ThisCycle(t)'
    BY <1>8 DEF Tick, ThisCycle, TypeOK
  <2>3. HalvesFresh'
    BY <1>8, <2>2 DEF Tick, HalvesFresh, FreshQuote
  <2>4. FetchedFresh'
    BY <1>8, <2>2 DEF Tick, FetchedFresh, FreshRow
  <2>5. FloatRowsFetched' /\ RatesKept' /\ HonestStamp' /\ StaleBound' /\ StoredBefore'
    BY <1>8 DEF Tick, FloatRowsFetched, RatesKept, HonestStamp, StaleBound, StoredBefore, DatedRow,
                StoredRows, TypeOK
  <2> QED BY <2>1, <2>3, <2>4, <2>5
<1>9. CASE UNCHANGED vars
  BY <1>9 DEF vars, TypeOK, CycleShort, HalvesFresh, FreshQuote, ThisCycle, FetchedFresh,
              FreshRow, FloatRowsFetched, RatesKept, HonestStamp, StaleBound, StoredBefore,
              DatedRow, StoredRows
<1> QED BY <1>1, <1>2, <1>3, <1>4, <1>5, <1>6, <1>7, <1>8, <1>9 DEF Next

-----------------------------------------------------------------------------
(***************************************************************************)
(* Theorems.                                                               *)
(***************************************************************************)
\* The invariant holds throughout: it is needed because the age of a stored row
\* rests on the age of the rows still being fetched.
THEOREM Invariant == Spec => []Inv
BY InitInv, StepInv, PTL DEF Spec

\* Rows, tasks and snapshots keep their types.
THEOREM TypeCorrect == Spec => []TypeOK
BY Invariant, PTL DEF Inv

\* A row's time never hides the age of either side, however it was assembled.
THEOREM StampsAreHonest == Spec => []HonestStamp
BY Invariant, PTL DEF Inv

\* Carrying rows forward, again and again, never keeps a quote past the window.
THEOREM StalenessIsBounded == Spec => []StaleBound
BY Invariant, PTL DEF Inv

\* A fresh float row on the board stays two-sided through a refresh, and is left off
\* the board only if a quote landed or the others made an outlier of it.
LEMMA StepStays == Inv /\ [Next]_vars => [FloatRowsStay]_vars
<1> SUFFICES ASSUME Inv, Next, NEW e \in Exchanges, snap' # snap, FreshOnBoard(<<e, "float">>)
             PROVE  LET id == <<e, "float">> IN
                    /\ snap'[id] # NoRow /\ TwoSided(snap'[id])
                    /\ id \in Shown(snap') \/ ~NoSide(fetched[id]) \/ OutlierOf(snap', id)
  BY DEF FloatRowsStay
<1> DEFINE id == <<e, "float">>
           r == fetched[id]
           old == snap[id]
<1>1. /\ phase = "fixed" /\ snap' = NewSnapshot
      /\ id \in RowIds /\ id[1] = e /\ id[2] = "float"
  BY RowIdFacts DEF Passes, Next, StartRefresh, SellAnswers, BuyAnswers, TimesOut,
                    FloatPassOver, Store, Enqueue, Tick
<1>2. r # NoRow /\ r.rate = RateOf(e, "float")
  BY <1>1 DEF Inv, FloatRowsFetched, RatesKept
<1>3. /\ snap # NoSnapshot /\ old # NoRow /\ IsSaneTwoWayRow(old.buy, old.sell)
      /\ now - old.ts < StaleWindow
  <2>1. snap # NoSnapshot /\ id \in ShownRows(BoardOf(snap)) /\ now - old.ts < StaleWindow
    BY DEF FreshOnBoard, Shown
  <2>2. id \in SaneRows(BoardOf(snap))
    BY <2>1 DEF ShownRows, DropPriceOutliers
  <2>3. /\ id \in DOMAIN BoardOf(snap)
        /\ IsSaneTwoWayRow(BoardOf(snap)[id].buy, BoardOf(snap)[id].sell)
    BY <2>2 DEF SaneRows
  <2>4. old # NoRow /\ BoardOf(snap)[id] = old
    BY <2>3 DEF BoardOf
  <2> HIDE DEF id, old
  <2> QED BY <2>1, <2>3, <2>4
<1>4. TwoSided(old) /\ old.rate = RateOf(e, "float")
  BY <1>1, <1>3 DEF IsSaneTwoWayRow, TwoSided, Inv, RatesKept
<1>5. LastGood(id, r.rate) = old
  BY <1>1, <1>2, <1>3, <1>4 DEF LastGood, NoSide, TwoSided
<1>6. Combined[id] = r
  BY <1>1 DEF Combined
<1>7. old \in StoredRows
  BY <1>1, <1>3 DEF StoredRows
<1>8. Carriable(old)
  BY <1>3, <1>4, <1>7 DEF Carriable, Inv, HonestStamp, TwoSided
<1>9. snap'[id] = CarriedForward(r, old)
  BY <1>1, <1>2, <1>5, <1>6 DEF NewSnapshot
<1>10. r \in Row /\ old \in Row
  BY <1>1, <1>2, <1>3 DEF Inv, TypeOK, Snapshot
<1>11. TwoSided(FilledFromOld(r, old)) /\ FilledFromOld(r, old) \in Row
  BY <1>4, <1>10 DEF FilledFromOld, TwoSided, Row, Earlier
<1>12. snap' # NoSnapshot
  BY <1>1, NewSnapshotGood
<1>13. NoSide(r) => CarriedForward(r, old) = old
  BY <1>8 DEF CarriedForward, NoSide, TwoSided
<1>14. NoSide(r) => id \in SaneRows(BoardOf(snap'))
  <2> SUFFICES ASSUME NoSide(r) PROVE id \in SaneRows(BoardOf(snap'))
    OBVIOUS
  <2>1. snap'[id] = old
    BY <1>9, <1>13
  <2>2. id \in DOMAIN BoardOf(snap') /\ BoardOf(snap')[id] = old
    BY <1>1, <1>3, <2>1 DEF BoardOf
  <2> HIDE DEF id, old
  <2> QED BY <1>3, <2>2 DEF SaneRows
<1> HIDE DEF id, r, old
<1>15. snap'[id] # NoRow /\ TwoSided(snap'[id])
  <2>1. TwoSided(CarriedForward(r, old))
    BY <1>4, <1>8, <1>11 DEF CarriedForward
  <2>2. CarriedForward(r, old) \in {r, old, FilledFromOld(r, old)}
    BY DEF CarriedForward
  <2>3. CarriedForward(r, old) # NoRow
    BY <1>2, <1>3, <1>11, <2>2, BoardAssumption DEF BoardAssumption
  <2> QED BY <1>9, <2>1, <2>3
<1>16. id \in Shown(snap') \/ ~NoSide(r) \/ OutlierOf(snap', id)
  BY <1>14 DEF OutlierOf
<1> QED BY <1>15, <1>16 DEF id, r

\* A fresh float row leaves the board only by its prices, whatever the exchanges do.
THEOREM NoFlapping == Spec => FloatRowsNeverFlap
BY Invariant, StepStays, PTL DEF Spec, FloatRowsNeverFlap

\* The stamp of a two-sided row never goes back.
LEMMA StepForward == Inv /\ [Next]_vars => [StampsForward]_vars
<1> SUFFICES ASSUME Inv, Next, NEW e \in Exchanges \ FixedOnly, NEW pass \in Passes,
                    StillTwoSided(snap, e, pass), StillTwoSided(snap', e, pass)
             PROVE  snap'[<<e, pass>>].ts >= snap[<<e, pass>>].ts
  BY DEF StampsForward
<1> DEFINE id == <<e, pass>>
           old == snap[id]
<1>1. /\ id \in RowIds /\ id[1] = e /\ id[2] = pass /\ snap # NoSnapshot
      /\ old \in Row /\ old # NoRow /\ TwoSided(old) /\ old \in StoredRows
  BY RowIdFacts DEF StillTwoSided, Inv, TypeOK, Snapshot, StoredRows
<1>2. old.ts \in Nat /\ old.ts <= storedAt
  BY <1>1, BoardAssumption
     DEF TwoSided, Inv, HonestStamp, StoredBefore, DatedRow, Row, Times, BoardAssumption
<1>3. CASE snap' = snap
  <2>1. old.ts >= old.ts
    BY <1>2
  <2> QED BY <1>3, <2>1
<1>4. CASE Store
  <2> DEFINE r == Combined[id]
  <2>1. phase = "fixed" /\ snap' = NewSnapshot /\ storedAt <= began
    BY <1>4 DEF Store, Inv, StoredBefore
  <2>2. r # NoRow /\ snap'[id] = CarriedForward(r, LastGood(id, r.rate)) /\ TwoSided(snap'[id])
    BY <1>1, <2>1 DEF NewSnapshot, StillTwoSided
  <2>3. r \in Row /\ FreshRow(r) /\ r.rate = RateOf(e, pass)
    BY <1>1, <2>1, <2>2, CombinedFresh DEF Inv
  <2>4. old.rate = RateOf(e, pass)
    BY <1>1 DEF Inv, RatesKept
  <2>5. LastGood(id, r.rate) = old
    <3>1. RateOf(e, pass) = pass
      BY DEF RateOf, Passes
    <3>2. CASE pass = "float"
      BY <1>1, <2>3, <2>4, <3>2 DEF LastGood, NoSide, TwoSided
    <3>3. CASE pass = "fixed"
      <4>1. <<e, "float">> \in RowIds
        BY RowIdFacts DEF Passes
      <4>2. snap[<<e, "float">>] # NoRow => snap[<<e, "float">>].rate = "float"
        BY <1>1, <4>1 DEF Inv, RatesKept, RateOf
      <4> QED BY <1>1, <2>3, <2>4, <3>1, <3>3, <4>2 DEF LastGood, NoSide, TwoSided
    <3> QED BY <3>2, <3>3 DEF Passes
  <2> HIDE DEF r, old, id
  <2>6. r.sell # NoPrice \/ r.buy # NoPrice => r.ts \in Nat /\ began <= r.ts
    BY <2>3 DEF FreshRow, ThisCycle
  <2>7. began \in Nat /\ storedAt \in Nat
    BY DEF Inv, TypeOK
  <2>8. snap'[id] = r => snap'[id].ts >= old.ts
    BY <1>2, <2>1, <2>2, <2>6, <2>7 DEF TwoSided
  <2>9. ~NoSide(r) => FilledFromOld(r, old).ts = old.ts
    <3>1. FilledFromOld(r, old).ts = Earlier(r.ts, old.ts)
      BY <2>3 DEF FilledFromOld, Row
    <3>2. ~NoSide(r) => Earlier(r.ts, old.ts) = old.ts
      BY <1>2, <2>1, <2>6, <2>7, BoardAssumption DEF Earlier, NoSide, BoardAssumption
    <3> QED BY <3>1, <3>2
  <2>10. \/ snap'[id] = r \/ snap'[id] = old
         \/ ~NoSide(r) /\ snap'[id] = FilledFromOld(r, old)
    BY <2>2, <2>5 DEF CarriedForward
  <2>11. old.ts >= old.ts
    BY <1>2
  <2>12. snap'[id].ts >= old.ts
    BY <2>8, <2>9, <2>10, <2>11
  <2> QED BY <2>12 DEF id, old
<1> QED BY <1>3, <1>4 DEF Next, StartRefresh, SellAnswers, BuyAnswers, TimesOut, FloatPassOver,
                          Enqueue, Tick

\* What the logger's duplicate removal rests on.
THEOREM StampsAdvance == Spec => StampsNeverGoBack
BY Invariant, StepForward, PTL DEF Spec, StampsNeverGoBack

\* Assembled beside a complete float row, a fixed row differs from it.
LEMMA StepGenuine == Inv /\ FixedRowsAreGenuine /\ [Next]_vars => FixedRowsAreGenuine'
<1> SUFFICES ASSUME Inv, FixedRowsAreGenuine, [Next]_vars, phase' = "enqueue", NEW e \in Exchanges,
                    snap'[<<e, "fixed">>] # NoRow, TwoSided(fetched'[<<e, "float">>])
             PROVE  ~EchoOf(snap'[<<e, "fixed">>], snap'[<<e, "float">>])
  BY DEF FixedRowsAreGenuine
<1>1. CASE Store
  <2> DEFINE x == <<e, "fixed">>
             y == <<e, "float">>
             r == fetched[x]
             f == fetched[y]
  <2>1. /\ phase = "fixed" /\ snap' = NewSnapshot /\ fetched' = fetched
        /\ x \in RowIds /\ x[1] = e /\ x[2] = "fixed" /\ y \in RowIds /\ y[2] = "float"
    BY <1>1, RowIdFacts DEF Store, Passes
  <2>2. f # NoRow /\ TwoSided(f) /\ Combined[y] = f
    BY <2>1 DEF Inv, FloatRowsFetched, Combined
  <2>3. snap'[y] = f
    BY <2>1, <2>2 DEF NewSnapshot, CarriedForward
  <2>4. Combined[x] # NoRow
    BY <2>1 DEF NewSnapshot
  <2>5. /\ r # NoRow /\ (GenuineSell(r, f) \/ GenuineBuy(r, f))
        /\ Combined[x] = FilledFromFloat(r, f)
    BY <2>1, <2>4 DEF Combined
  <2>6. r \in Row
    BY <2>1, <2>4, <2>5 DEF Inv, TypeOK, Snapshot, Combined
  <2> DEFINE ff == FilledFromFloat(r, f)
  <2>7. /\ ff.sell = IF GenuineSell(r, f) THEN r.sell ELSE f.sell
        /\ ff.buy = IF GenuineBuy(r, f) THEN r.buy ELSE f.buy
    BY <2>6 DEF FilledFromFloat, Row
  <2> HIDE DEF ff
  <2>8. TwoSided(ff)
    BY <2>2, <2>7 DEF TwoSided, GenuineSell, GenuineBuy
  <2>9. snap'[x] = ff
    BY <2>1, <2>4, <2>5, <2>8 DEF NewSnapshot, CarriedForward, ff
  <2>10. ~EchoOf(ff, f)
    BY <2>5, <2>7 DEF EchoOf, GenuineSell, GenuineBuy
  <2> QED BY <2>3, <2>9, <2>10
<1>2. CASE phase = "enqueue" /\ snap' = snap /\ fetched' = fetched
  BY <1>2 DEF FixedRowsAreGenuine
<1> QED BY <1>1, <1>2 DEF Next, vars, StartRefresh, SellAnswers, BuyAnswers, TimesOut,
                          FloatPassOver, Enqueue, Tick, Inv, CycleShort

\* The fixed view does not repeat a float row that landed in the same refresh.
THEOREM FixedIsGenuine == Spec => []FixedRowsAreGenuine
<1>1. Init => FixedRowsAreGenuine
  BY DEF Init, FixedRowsAreGenuine
<1> QED BY <1>1, Invariant, StepGenuine, PTL DEF Spec
-----------------------------------------------------------------------------
(***************************************************************************)
(* "Fill just the MISSING side": true of every refresh whose buy calls     *)
(* end before the timeout that they share with the sell calls.             *)
(***************************************************************************)
BuyTimesOut == \E e \in Exchanges : phase = "float" /\ task[e] = "buying" /\ TimesOut(e)

\* A sell quote that landed is in the row its task built.
Landed(q, r) == q.price # NoPrice => r.sell = q.price /\ r.sellAt = q.at
LandedIsFetched ==
  \A e \in Exchanges :
    /\ phase = "float" /\ task[e] = "selling" => half[<<e, "float">>] = NoQuote
    /\ (phase = "float" /\ task[e] = "done") \/ phase = "fixed"
         => Landed(half[<<e, "float">>], fetched[<<e, "float">>])

LandedInv == LandedIsFetched /\ LandedSideIsStored

\* Assembling the snapshot keeps the sell side of a float row that has one.
LEMMA SellSideIsStored ==
  ASSUME TypeOK, NEW e \in Exchanges, fetched[<<e, "float">>] # NoRow,
         fetched[<<e, "float">>].sell # NoPrice
  PROVE  NewSnapshot[<<e, "float">>].sellAt = fetched[<<e, "float">>].sellAt
<1> DEFINE id == <<e, "float">>
           r == fetched[id]
<1>1. id \in RowIds /\ id[2] = "float"
  BY RowIdFacts DEF Passes
<1>2. r \in Row
  BY <1>1 DEF TypeOK, Snapshot
<1>3. Combined[id] = r
  BY <1>1 DEF Combined
<1> DEFINE old == LastGood(id, r.rate)
<1>4. NewSnapshot[id] = CarriedForward(r, old)
  BY <1>1, <1>3 DEF NewSnapshot
<1>5. ~NoSide(r)
  BY DEF NoSide
<1>6. FilledFromOld(r, old).sellAt = r.sellAt
  BY <1>2 DEF FilledFromOld, Row
<1> HIDE DEF old, id
<1>7. CarriedForward(r, old) = r \/ CarriedForward(r, old) = FilledFromOld(r, old)
  BY <1>5 DEF CarriedForward
<1>8. NewSnapshot[id].sellAt = r.sellAt
  BY <1>4, <1>6, <1>7
<1> QED BY <1>8 DEF id

LEMMA InitLanded == Init => LandedInv
BY DEF Init, LandedInv, LandedIsFetched, LandedSideIsStored

\* A step of one task of the fixed pass leaves the float rows and quotes alone.
LEMMA FixedPassKeepsFloat ==
  ASSUME Inv, NEW e \in Exchanges, SellAnswers(e) \/ BuyAnswers(e) \/ TimesOut(e), phase = "fixed"
  PROVE  /\ phase' = phase /\ UNCHANGED snap
         /\ \A x \in Exchanges : /\ half'[<<x, "float">>] = half[<<x, "float">>]
                                 /\ fetched'[<<x, "float">>] = fetched[<<x, "float">>]
<1>1. \A x \in Exchanges : <<x, "float">> \in RowIds /\ <<x, "float">> # <<e, phase>>
  BY RowIdFacts DEF Passes
<1>2. half \in [RowIds -> Quote] /\ fetched \in Snapshot
  BY DEF Inv, TypeOK
<1>3. phase' = phase /\ UNCHANGED snap
  BY DEF SellAnswers, BuyAnswers, TimesOut
<1>4. half' = half \/ \E q : half' = [half EXCEPT ![<<e, phase>>] = q]
  BY DEF SellAnswers, BuyAnswers, TimesOut
<1>5. fetched' = fetched \/ \E r : fetched' = [fetched EXCEPT ![<<e, phase>>] = r]
  BY DEF SellAnswers, BuyAnswers, TimesOut
<1>6. \A x \in Exchanges : half'[<<x, "float">>] = half[<<x, "float">>]
  BY <1>1, <1>2, <1>4
<1>7. \A x \in Exchanges : fetched'[<<x, "float">>] = fetched[<<x, "float">>]
  BY <1>1, <1>2, <1>5 DEF Snapshot
<1> QED BY <1>3, <1>6, <1>7

\* In the float pass a task touches its own exchange only, and a row that it
\* builds has the sell quote of the task.
LEMMA FloatPassLands ==
  ASSUME Inv, LandedIsFetched, NEW e \in Exchanges, phase = "float",
         SellAnswers(e) \/ BuyAnswers(e) \/ (TimesOut(e) /\ task[e] = "selling")
  PROVE  LandedIsFetched' /\ phase' = "float"
<1>1. \A x \in Exchanges : <<x, "float">> \in RowIds /\ (x # e => <<x, "float">> # <<e, "float">>)
  BY RowIdFacts DEF Passes
<1>2. /\ half \in [RowIds -> Quote] /\ fetched \in Snapshot
      /\ task \in [Exchanges -> {"selling", "buying", "done"}]
  BY DEF Inv, TypeOK
<1>3. phase' = "float"
  BY DEF SellAnswers, BuyAnswers, TimesOut
<1>4. \A x \in Exchanges : x # e =>
        /\ task'[x] = task[x] /\ half'[<<x, "float">>] = half[<<x, "float">>]
        /\ fetched'[<<x, "float">>] = fetched[<<x, "float">>]
  <2>1. \E t : task' = [task EXCEPT ![e] = t]
    BY DEF SellAnswers, BuyAnswers, TimesOut
  <2>2. half' = half \/ \E q : half' = [half EXCEPT ![<<e, "float">>] = q]
    BY DEF SellAnswers, BuyAnswers, TimesOut
  <2>3. fetched' = fetched \/ \E r : fetched' = [fetched EXCEPT ![<<e, "float">>] = r]
    BY DEF SellAnswers, BuyAnswers, TimesOut
  <2>4. \A x \in Exchanges : x # e => task'[x] = task[x]
    BY <1>2, <2>1
  <2>5. \A x \in Exchanges : x # e => half'[<<x, "float">>] = half[<<x, "float">>]
    BY <1>1, <1>2, <2>2
  <2>6. \A x \in Exchanges : x # e => fetched'[<<x, "float">>] = fetched[<<x, "float">>]
    BY <1>1, <1>2, <2>3 DEF Snapshot
  <2> QED BY <2>4, <2>5, <2>6
<1>5. \/ task'[e] = "buying"
      \/ task'[e] = "done" /\ Landed(half'[<<e, "float">>], fetched'[<<e, "float">>])
  <2>1. CASE SellAnswers(e)
    BY <1>2, <2>1 DEF SellAnswers
  <2>2. CASE BuyAnswers(e)
    <3>1. task'[e] = "done" /\ half' = half
      BY <1>2, <2>2 DEF BuyAnswers
    <3>2. \E q, rate : fetched' = [fetched EXCEPT ![<<e, "float">>] = RowFrom(half[<<e, "float">>], q, rate)]
      BY <2>2 DEF BuyAnswers
    <3>3. \E q, rate : fetched'[<<e, "float">>] = RowFrom(half[<<e, "float">>], q, rate)
      BY <1>1, <1>2, <3>2 DEF Snapshot
    <3> QED BY <3>1, <3>3 DEF RowFrom, Landed
  <2>3. CASE TimesOut(e) /\ task[e] = "selling"
    <3>1. task'[e] = "done" /\ half' = half
      BY <1>2, <2>3 DEF TimesOut
    <3>2. half[<<e, "float">>].price = NoPrice
      BY <2>3 DEF LandedIsFetched, NoQuote
    <3> QED BY <3>1, <3>2 DEF Landed
  <2> QED BY <2>1, <2>2, <2>3
<1> QED BY <1>3, <1>4, <1>5 DEF LandedIsFetched

LEMMA StepLanded == Inv /\ LandedInv /\ [Next]_vars /\ [~BuyTimesOut]_vars => LandedInv'
<1> SUFFICES ASSUME Inv, LandedInv, [Next]_vars, [~BuyTimesOut]_vars PROVE LandedInv'
  OBVIOUS
<1>1. CASE StartRefresh
  <2>1. half' = [id \in RowIds |-> NoQuote] /\ phase' = "float" /\ task' = [e \in Exchanges |-> "selling"]
    BY <1>1 DEF StartRefresh
  <2>2. \A e \in Exchanges : half'[<<e, "float">>] = NoQuote /\ task'[e] = "selling"
    BY <2>1, RowIdFacts DEF Passes
  <2> QED BY <2>1, <2>2 DEF LandedInv, LandedIsFetched, LandedSideIsStored
<1>2. ASSUME NEW e \in Exchanges, SellAnswers(e) \/ BuyAnswers(e) \/ TimesOut(e)
      PROVE  LandedInv'
  <2>1. task[e] \in {"selling", "buying"} /\ phase \in {"float", "fixed"}
    BY <1>2 DEF SellAnswers, BuyAnswers, TimesOut, Inv, CycleShort, TypeOK
  <2>2. CASE phase = "fixed"
    BY <1>2, <2>2, FixedPassKeepsFloat DEF LandedInv, LandedIsFetched, LandedSideIsStored
  <2>3. CASE phase = "float"
    <3>1. TimesOut(e) => task[e] = "selling"
      <4> SUFFICES ASSUME TimesOut(e), task[e] = "buying" PROVE FALSE
        BY <2>1
      <4>1. task' # task
        BY DEF TimesOut, Inv, TypeOK
      <4>2. ~BuyTimesOut
        BY <4>1 DEF vars
      <4> QED BY <2>3, <4>2 DEF BuyTimesOut
    <3>2. LandedIsFetched' /\ phase' = "float"
      BY <1>2, <2>3, <3>1, FloatPassLands DEF LandedInv
    <3> QED BY <3>2 DEF LandedInv, LandedSideIsStored
  <2> QED BY <2>1, <2>2, <2>3
<1>3. CASE FloatPassOver
  BY <1>3 DEF FloatPassOver, PassOver, LandedInv, LandedIsFetched, LandedSideIsStored
<1>4. CASE Store
  <2>1. phase = "fixed" /\ phase' = "enqueue" /\ snap' = NewSnapshot /\ UNCHANGED half
    BY <1>4 DEF Store
  <2>2. ASSUME NEW e \in Exchanges, half[<<e, "float">>].price # NoPrice
        PROVE  NewSnapshot[<<e, "float">>].sellAt = half[<<e, "float">>].at
    <3>1. fetched[<<e, "float">>] # NoRow /\ Landed(half[<<e, "float">>], fetched[<<e, "float">>])
      BY <2>1 DEF Inv, FloatRowsFetched, LandedInv, LandedIsFetched
    <3> QED BY <2>2, <3>1, SellSideIsStored DEF Landed, Inv
  <2> QED BY <2>1, <2>2 DEF LandedInv, LandedIsFetched, LandedSideIsStored
<1>5. CASE Enqueue
  BY <1>5 DEF Enqueue, LandedInv, LandedIsFetched, LandedSideIsStored
<1>6. CASE Tick \/ UNCHANGED vars
  BY <1>6 DEF Tick, vars, LandedInv, LandedIsFetched, LandedSideIsStored
<1> QED BY <1>1, <1>2, <1>3, <1>4, <1>5, <1>6 DEF Next

\* The comment on the half-answered row, with its proviso: as long as no buy call
\* of a float pass runs into the timeout, the sell side that landed is the one
\* stored.  Without the proviso the whole row comes back empty.
THEOREM LandedUnlessTimedOut == Spec /\ [][~BuyTimesOut]_vars => []LandedSideIsStored
<1>1. LandedInv => LandedSideIsStored
  BY DEF LandedInv
<1> QED BY <1>1, Invariant, InitLanded, StepLanded, PTL DEF Spec
=============================================================================
