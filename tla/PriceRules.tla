----------------------------- MODULE PriceRules -----------------------------
(***************************************************************************)
(* The pure rules about prices, as operators over integers: which quotes   *)
(* make sense, which rows of a board are outliers, what the headline price *)
(* is.  A ratio is compared by cross-multiplication, so no rounding is     *)
(* involved (the code computes with 28-digit decimals).                    *)
(*                                                                         *)
(* A board is a function from some index to rows; a row has the fields     *)
(* sell, buy (a price or NoPrice) and rate ("float" or "fixed").           *)
(***************************************************************************)
EXTENDS Integers, FiniteSets, FiniteSetsExt

CONSTANTS
  NoPrice,               \* a side that is null
  SpreadNum, SpreadDen   \* PriceServiceOptions.MaxSpreadFraction = SpreadNum / SpreadDen

ASSUME RulesAssumption ==
  /\ NoPrice \notin Int
  /\ SpreadNum \in Nat
  /\ SpreadDen \in Nat \ {0}

Distance(a, b) == IF a < b THEN b - a ELSE a - b

TwiceMid(row) == row.buy + row.sell

(***************************************************************************)
(* Faulty variants, used only to show that the rules can be broken.        *)
(***************************************************************************)
\* The mean instead of the median: one mis-scaled row drags the reference.
FourTimesMean(board, S) ==
  (2 * MapThenSumSet(LAMBDA i : TwiceMid(board[i]), S)) \div Cardinality(S)

\* No cap on the spread at the read path.
IsSaneUncapped(buy, sell) ==
  buy # NoPrice /\ sell # NoPrice /\ buy > 0 /\ sell > 0 /\ buy >= sell

\* Fixed rows pooled into the headline price.
FloatMidPooled(board, rows, minValidPrice) ==
  LET Counts(p) == p # NoPrice /\ p > 0 /\ (minValidPrice <= 0 \/ p >= minValidPrice)
      Buys  == {i \in rows : Counts(board[i].buy)}
      Sells == {i \in rows : Counts(board[i].sell)}
  IN  [sum   |-> MapThenSumSet(LAMBDA i : board[i].buy, Buys)
                   + MapThenSumSet(LAMBDA i : board[i].sell, Sells),
       count |-> Cardinality(Buys) + Cardinality(Sells)]

\* SameRate: a "fixed" quote within 0.1% of the float quote is its echo.
SameRate(a, b) ==
  /\ a # NoPrice /\ b # NoPrice
  /\ b # 0
  /\ 1000 * Distance(a, b) < Distance(b, 0)

\* IsSaneTwoWayRow(buy, sell, maxSpread); a cap of zero disables the cap.
IsSaneTwoWayRow(buy, sell) ==
  /\ buy # NoPrice /\ sell # NoPrice
  /\ buy > 0 /\ sell > 0
  /\ buy >= sell
  /\ SpreadNum = 0 \/ SpreadDen * (buy - sell) <= SpreadNum * buy

SaneRows(board) == {i \in DOMAIN board : IsSaneTwoWayRow(board[i].buy, board[i].sell)}

\* The predicate of the chart queries and of the rollup, with its literal 0.25.
SaneQuotePredicate(buy, sell) ==
  /\ buy # NoPrice /\ sell # NoPrice
  /\ buy >= sell
  /\ sell > 0
  /\ 4 * (buy - sell) <= buy

(***************************************************************************)
(* DropPriceOutliers.                                                      *)
(***************************************************************************)
Comparable(row) ==
  row.buy # NoPrice /\ row.sell # NoPrice /\ row.buy > 0 /\ row.sell > 0

\* The k-th smallest of the doubled mids, repetitions counted.
Nth(board, S, k) ==
  CHOOSE m \in {TwiceMid(board[i]) : i \in S} :
    /\ Cardinality({i \in S : TwiceMid(board[i]) < m}) < k
    /\ Cardinality({i \in S : TwiceMid(board[i]) <= m}) >= k

\* Four times the median mid: the middle one, or the average of the middle two.
FourTimesMedian(board, S) ==
  LET n == Cardinality(S) IN
  IF n % 2 = 1
  THEN 2 * Nth(board, S, (n + 1) \div 2)
  ELSE Nth(board, S, n \div 2) + Nth(board, S, n \div 2 + 1)

\* Kept when median / 1.5 <= mid <= median * 1.5 (MaxOutlierRatio).
NearMedian(row, median4) ==
  /\ 3 * 2 * TwiceMid(row) >= 2 * median4
  /\ 2 * 2 * TwiceMid(row) <= 3 * median4

\* The median of the mids on their own decides; fewer than three decide nothing.
DropPriceOutliers(board, rows) ==
  LET S == {i \in rows : Comparable(board[i])} IN
  IF Cardinality(S) < 3
  THEN rows
  ELSE LET m == FourTimesMedian(board, S)
       IN  {i \in rows : i \in S => NearMedian(board[i], m)}

\* The rows of a board that readers see.
ShownRows(board) == DropPriceOutliers(board, SaneRows(board))

(***************************************************************************)
(* The headline price: the mean of a set of quotes, as a sum and a count.  *)
(***************************************************************************)
IsFloat(row) == row.rate = "float"

\* BoardMid.FloatMid(rows, minValidPrice)
FloatMid(board, rows, minValidPrice) ==
  LET F     == {i \in rows : IsFloat(board[i])}
      Counts(p) == p # NoPrice /\ p > 0 /\ (minValidPrice <= 0 \/ p >= minValidPrice)
      Buys  == {i \in F : Counts(board[i].buy)}
      Sells == {i \in F : Counts(board[i].sell)}
  IN  [sum   |-> MapThenSumSet(LAMBDA i : board[i].buy, Buys)
                   + MapThenSumSet(LAMBDA i : board[i].sell, Sells),
       count |-> Cardinality(Buys) + Cardinality(Sells)]

\* moneropricenow.js: refresh filters the feed by rate type, computeStats
\* averages every side that is at least MINP.
ComputeStatsMid(board, rows, rateType, minp) ==
  LET data     == {i \in rows : board[i].rate = rateType}
      withBuy  == {i \in data : board[i].buy # NoPrice /\ board[i].buy >= minp}
      withSell == {i \in data : board[i].sell # NoPrice /\ board[i].sell >= minp}
  IN  [sum   |-> MapThenSumSet(LAMBDA i : board[i].buy, withBuy)
                   + MapThenSumSet(LAMBDA i : board[i].sell, withSell),
       count |-> Cardinality(withBuy) + Cardinality(withSell)]
=============================================================================
