--------------------------- MODULE PriceRulesProofs ---------------------------
(***************************************************************************)
(* The rules about prices for any board of any size: the median exists and *)
(* lies within every majority, a coherent majority governs what is shown,  *)
(* and server, chart queries and browser agree about the rows shown.       *)
(***************************************************************************)
EXTENDS PriceRulesCheck, FiniteSums

(***************************************************************************)
(* Extremes of finite sets.                                                *)
(***************************************************************************)
\* An integer-valued function has a greatest value on a finite set: the one with
\* the fewest elements above it.
LEMMA GreatestValue ==
  ASSUME NEW S, IsFiniteSet(S), S # {}, NEW f, \A i \in S : f[i] \in Int
  PROVE  \E i \in S : \A j \in S : f[j] <= f[i]
<1> DEFINE Above(i) == {j \in S : f[j] > f[i]}
           Counts == {Cardinality(Above(i)) : i \in S}
<1>1. \A i \in S : IsFiniteSet(Above(i)) /\ Cardinality(Above(i)) \in Nat
  BY FS_Subset, FS_CardinalityType
<1>2. Counts \in SUBSET Nat /\ Counts # {}
  BY <1>1
<1>3. PICK c \in Counts : \A d \in Counts : c <= d
  <2> HIDE DEF Counts
  <2> QED BY <1>2, LeastNat
<1>4. PICK i \in S : \A d \in S : Cardinality(Above(i)) <= Cardinality(Above(d))
  BY <1>3
<1>5. ASSUME NEW j \in S, f[j] > f[i] PROVE FALSE
  <2>1. Above(j) \in SUBSET Above(i) /\ j \in Above(i) /\ j \notin Above(j)
    BY <1>5
  <2> HIDE DEF Above
  <2>2. Cardinality(Above(j)) <= Cardinality(Above(i)) /\ Cardinality(Above(i)) # Cardinality(Above(j))
    BY <1>1, <2>1, FS_Subset
  <2> QED BY <1>1, <1>4, <2>2
<1>6. \A j \in S : f[j] <= f[i]
  BY <1>5
<1> QED BY <1>6

(***************************************************************************)
(* The median.                                                             *)
(***************************************************************************)
\* Rows with a mid.
MidsAre(b, S) == \A i \in S : TwiceMid(b[i]) \in Nat

Below(b, S, m) == {i \in S : TwiceMid(b[i]) < m}
UpTo(b, S, m)  == {i \in S : TwiceMid(b[i]) <= m}

IsNth(b, S, k, m) ==
  /\ m \in {TwiceMid(b[i]) : i \in S}
  /\ Cardinality(Below(b, S, m)) < k
  /\ Cardinality(UpTo(b, S, m)) >= k

LEMMA NthIsNth ==
  ASSUME NEW b, NEW S, IsFiniteSet(S), MidsAre(b, S), NEW k \in 1..Cardinality(S)
  PROVE  IsNth(b, S, k, Nth(b, S, k))
<1> DEFINE f == [i \in S |-> TwiceMid(b[i])]
           Enough == {m \in {TwiceMid(b[i]) : i \in S} : Cardinality(UpTo(b, S, m)) >= k}
<1>1. Cardinality(S) \in Nat /\ k \in Nat /\ k >= 1 /\ k <= Cardinality(S)
  BY FS_CardinalityType
<1>2. \A m : /\ IsFiniteSet(Below(b, S, m)) /\ Cardinality(Below(b, S, m)) \in Nat
             /\ IsFiniteSet(UpTo(b, S, m)) /\ Cardinality(UpTo(b, S, m)) \in Nat
  BY FS_Subset, FS_CardinalityType DEF Below, UpTo
<1>3. \A i \in S : f[i] = TwiceMid(b[i]) /\ f[i] \in Nat
  BY DEF MidsAre
<1> HIDE DEF f
<1>4. Enough \in SUBSET Nat
  BY DEF MidsAre
<1>5. Enough # {}
  <2>1. S # {}
    BY <1>1, FS_EmptySet
  <2>2. PICK i \in S : \A j \in S : f[j] <= f[i]
    BY <1>3, <2>1, GreatestValue
  <2>3. UpTo(b, S, TwiceMid(b[i])) = S
    BY <1>3, <2>2 DEF UpTo
  <2>4. TwiceMid(b[i]) \in Enough
    BY <1>1, <2>3
  <2> QED BY <2>4
<1>6. PICK m \in Enough : \A n \in Enough : m <= n
  <2> HIDE DEF Enough
  <2> QED BY <1>4, <1>5, LeastNat
<1>7. Cardinality(Below(b, S, m)) < k
  <2>1. CASE Below(b, S, m) = {}
    BY <1>1, <2>1, FS_EmptySet
  <2>2. CASE Below(b, S, m) # {}
    <3>1. \A i \in Below(b, S, m) : i \in S /\ f[i] \in Int /\ f[i] < m
      BY <1>3 DEF Below
    <3>2. PICK i \in Below(b, S, m) : \A j \in Below(b, S, m) : f[j] <= f[i]
      BY <1>2, <2>2, <3>1, GreatestValue
    <3>3. UpTo(b, S, f[i]) = Below(b, S, m)
      BY <1>3, <1>4, <3>1, <3>2 DEF UpTo, Below
    <3>4. f[i] \notin Enough
      BY <1>4, <1>6, <3>1
    <3>5. ~(Cardinality(UpTo(b, S, f[i])) >= k)
      BY <1>3, <3>1, <3>4
    <3> QED BY <1>1, <1>2, <3>3, <3>5
  <2> QED BY <2>1, <2>2
<1>8. IsNth(b, S, k, m)
  BY <1>6, <1>7 DEF IsNth
<1>9. Nth(b, S, k) = CHOOSE n \in {TwiceMid(b[i]) : i \in S} :
                       Cardinality(Below(b, S, n)) < k /\ Cardinality(UpTo(b, S, n)) >= k
  BY DEF Nth, Below, UpTo
<1> QED BY <1>8, <1>9 DEF IsNth

\* Every majority has a row at or below the k-th mid and one at or above it, k
\* being the middle, or one of the middle two.
LEMMA MajorityAround ==
  ASSUME NEW b, NEW S, IsFiniteSet(S), MidsAre(b, S), NEW k \in 1..Cardinality(S),
         NEW G \in SUBSET S,
         Cardinality(G) + k > Cardinality(S), Cardinality(G) >= k
  PROVE  /\ Nth(b, S, k) \in Nat
         /\ \E i \in G : TwiceMid(b[i]) <= Nth(b, S, k)
         /\ \E i \in G : TwiceMid(b[i]) >= Nth(b, S, k)
<1> DEFINE m == Nth(b, S, k)
<1>1. IsNth(b, S, k, m)
  BY NthIsNth
<1> HIDE DEF m
<1>2. m \in Nat
  BY <1>1 DEF IsNth, MidsAre
<1>3. /\ Cardinality(S) \in Nat /\ Cardinality(G) \in Nat /\ IsFiniteSet(G) /\ k \in Nat
      /\ IsFiniteSet(UpTo(b, S, m)) /\ Cardinality(UpTo(b, S, m)) \in Nat
      /\ IsFiniteSet(Below(b, S, m)) /\ Cardinality(Below(b, S, m)) \in Nat
  BY FS_Subset, FS_CardinalityType DEF UpTo, Below
<1>4. G \cap UpTo(b, S, m) # {}
  <2>1. Cardinality(G) + Cardinality(UpTo(b, S, m)) > Cardinality(S)
    BY <1>1, <1>3 DEF IsNth
  <2>2. UpTo(b, S, m) \subseteq S
    BY DEF UpTo
  <2> QED BY <2>1, <2>2, FS_MajoritiesIntersect
<1>5. ~(G \subseteq Below(b, S, m))
  <2> SUFFICES ASSUME G \subseteq Below(b, S, m) PROVE FALSE
    OBVIOUS
  <2>1. Cardinality(G) <= Cardinality(Below(b, S, m))
    BY <1>3, FS_Subset
  <2> QED BY <1>1, <1>3, <2>1 DEF IsNth
<1>6. \E i \in G : TwiceMid(b[i]) <= m
  BY <1>4 DEF UpTo
<1>7. \E i \in G : TwiceMid(b[i]) >= m
  BY <1>2, <1>5 DEF Below, MidsAre
<1> QED BY <1>2, <1>6, <1>7 DEF m

\* The same of the median, four times over.
LEMMA MajorityAroundMedian ==
  ASSUME NEW b, NEW S, IsFiniteSet(S), MidsAre(b, S), Cardinality(S) >= 3,
         NEW G \in SUBSET S, 2 * Cardinality(G) > Cardinality(S)
  PROVE  \E x1, x2, y1, y2 \in {TwiceMid(b[i]) : i \in G} :
           /\ x1 + x2 <= FourTimesMedian(b, S)
           /\ y1 + y2 >= FourTimesMedian(b, S)
           /\ FourTimesMedian(b, S) \in Nat
<1> DEFINE n == Cardinality(S)
           g == Cardinality(G)
<1>1. n \in Nat /\ g \in Nat /\ n >= 3 /\ 2 * g > n
  BY FS_Subset, FS_CardinalityType
<1>2. \A i \in G : TwiceMid(b[i]) \in Nat
  BY DEF MidsAre
<1>3. CASE n % 2 = 1
  <2> DEFINE k == (n + 1) \div 2
             m == Nth(b, S, k)
  <2>1. k \in 1..n /\ g + k > n /\ g >= k
    BY <1>1, <1>3
  <2> HIDE DEF k
  <2>2. /\ m \in Nat /\ \E i \in G : TwiceMid(b[i]) <= m
        /\ \E i \in G : TwiceMid(b[i]) >= m
    BY <2>1, MajorityAround
  <2>3. FourTimesMedian(b, S) = 2 * m
    BY <1>3 DEF FourTimesMedian, k
  <2> HIDE DEF m
  <2>4. PICK i \in G, j \in G : TwiceMid(b[i]) <= m /\ TwiceMid(b[j]) >= m
    BY <2>2
  <2>5. /\ TwiceMid(b[i]) + TwiceMid(b[i]) <= 2 * m
        /\ TwiceMid(b[j]) + TwiceMid(b[j]) >= 2 * m
        /\ 2 * m \in Nat
    BY <1>2, <2>2, <2>4
  <2> QED BY <2>3, <2>5
<1>4. CASE n % 2 # 1
  <2> DEFINE k == n \div 2
             m1 == Nth(b, S, k)
             m2 == Nth(b, S, k + 1)
  <2>1. k \in 1..n /\ k + 1 \in 1..n /\ g + k > n /\ g >= k + 1 /\ g + (k + 1) > n /\ g >= k
    BY <1>1, <1>4
  <2>3. FourTimesMedian(b, S) = m1 + m2
    BY <1>4 DEF FourTimesMedian
  <2> HIDE DEF k, n, g
  <2>2. /\ m1 \in Nat /\ \E i \in G : TwiceMid(b[i]) <= m1
        /\ \E i \in G : TwiceMid(b[i]) >= m1
    BY <2>1, MajorityAround DEF n, g
  <2>4. /\ m2 \in Nat /\ \E i \in G : TwiceMid(b[i]) <= m2
        /\ \E i \in G : TwiceMid(b[i]) >= m2
    BY <2>1, MajorityAround DEF n, g
  <2> HIDE DEF m1, m2
  <2>5. PICK i1 \in G, j1 \in G : TwiceMid(b[i1]) <= m1 /\ TwiceMid(b[j1]) >= m1
    BY <2>2
  <2>6. PICK i2 \in G, j2 \in G : TwiceMid(b[i2]) <= m2 /\ TwiceMid(b[j2]) >= m2
    BY <2>4
  <2>7. /\ TwiceMid(b[i1]) + TwiceMid(b[i2]) <= m1 + m2
        /\ TwiceMid(b[j1]) + TwiceMid(b[j2]) >= m1 + m2
        /\ m1 + m2 \in Nat
    BY <1>2, <2>2, <2>4, <2>5, <2>6
  <2> QED BY <2>3, <2>7
<1> QED BY <1>3, <1>4

(***************************************************************************)
(* What readers see.                                                       *)
(***************************************************************************)
IsBoard == \E n \in Nat : board \in [1..n -> Rows]

\* Whatever is read is a sequence of rows.
LEMMA BoardsAreRead == CheckSpec => []IsBoard
<1>1. <<>> \in Boards
  <2>1. <<>> \in [1..0 -> Rows]
    OBVIOUS
  <2>2. 0 \in 0..MaxRows
    BY CheckAssumption DEF CheckAssumption
  <2> QED BY <2>1, <2>2 DEF Boards
<1>2. ASSUME NEW b \in Boards PROVE \E n \in Nat : b \in [1..n -> Rows]
  <2>1. PICK n \in 0..MaxRows : b \in [1..n -> Rows]
    BY DEF Boards
  <2>2. n \in Nat
    BY CheckAssumption DEF CheckAssumption
  <2> QED BY <2>1, <2>2
<1>3. CheckInit => IsBoard
  BY <1>1, <1>2 DEF CheckInit, IsBoard
<1>4. IsBoard /\ [CheckNext]_board => IsBoard'
  BY <1>1, <1>2 DEF CheckNext, ReadBoard, LeaveBoard, IsBoard
<1> QED BY <1>3, <1>4, PTL DEF CheckSpec

\* The sane rows of a board: finitely many, with a mid, and the ones whose
\* median decides.
LEMMA SaneHaveMids ==
  ASSUME IsBoard
  PROVE  LET sane == SaneRows(board) IN
         /\ IsFiniteSet(sane) /\ MidsAre(board, sane)
         /\ \A i \in sane : /\ board[i].buy \in Nat /\ board[i].buy > 0
                            /\ board[i].sell \in Nat /\ board[i].sell > 0
                            /\ board[i].rate \in {"float", "fixed"}
         /\ {i \in sane : Comparable(board[i])} = sane
<1> DEFINE sane == SaneRows(board)
<1>1. PICK n \in Nat : board \in [1..n -> Rows]
  BY DEF IsBoard
<1>2. sane \subseteq 1..n
  BY <1>1 DEF SaneRows
<1>3. IsFiniteSet(sane)
  <2>1. IsFiniteSet(1..n)
    BY FS_Interval
  <2> QED BY <1>2, <2>1, FS_Subset
<1>4. ASSUME NEW i \in sane
      PROVE  /\ board[i].buy \in Nat /\ board[i].buy > 0
             /\ board[i].sell \in Nat /\ board[i].sell > 0
             /\ board[i].rate \in {"float", "fixed"}
             /\ Comparable(board[i]) /\ TwiceMid(board[i]) \in Nat
  <2>1. board[i] \in [sell : Int \cup {NoPrice}, buy : Int \cup {NoPrice}, rate : {"float", "fixed"}]
    BY <1>1, <1>2, CheckAssumption DEF CheckAssumption
  <2>2. IsSaneTwoWayRow(board[i].buy, board[i].sell)
    BY DEF SaneRows
  <2>3. /\ board[i].buy \in Int /\ board[i].sell \in Int
        /\ board[i].buy > 0 /\ board[i].sell > 0 /\ board[i].rate \in {"float", "fixed"}
    BY <2>1, <2>2 DEF IsSaneTwoWayRow
  <2>4. TwiceMid(board[i]) \in Nat
    BY <2>3 DEF TwiceMid
  <2>5. Comparable(board[i])
    BY <2>2 DEF IsSaneTwoWayRow, Comparable
  <2> QED BY <2>3, <2>4, <2>5
<1> HIDE DEF sane
<1>5. MidsAre(board, sane) /\ {i \in sane : Comparable(board[i])} = sane
  BY <1>4 DEF MidsAre
<1> QED BY <1>3, <1>4, <1>5 DEF sane

LEMMA ShownIsSane == ShownRows(board) \subseteq SaneRows(board)
BY DEF ShownRows, DropPriceOutliers

\* A coherent majority is shown whole, and bounds what else is shown.
LEMMA MajorityDecides ==
  ASSUME IsBoard, NEW G \in SUBSET SaneRows(board), Coherent(G),
         2 * Cardinality(G) > Cardinality(SaneRows(board)), Cardinality(SaneRows(board)) >= 3
  PROVE  Governs(G)
<1> DEFINE sane == SaneRows(board)
           m == FourTimesMedian(board, sane)
           mids == Mids(G)
<1>1. /\ IsFiniteSet(sane) /\ MidsAre(board, sane) /\ Cardinality(sane) \in Nat
      /\ {i \in sane : Comparable(board[i])} = sane
  BY SaneHaveMids, FS_CardinalityType
<1>2. PICK x1 \in mids, x2 \in mids, y1 \in mids, y2 \in mids :
        x1 + x2 <= m /\ y1 + y2 >= m /\ m \in Nat
  BY <1>1, MajorityAroundMedian DEF Mids
<1>3. ShownRows(board) = {i \in sane : NearMedian(board[i], m)}
  <2>1. ShownRows(board) = DropPriceOutliers(board, sane)
    BY DEF ShownRows
  <2>2. ~(Cardinality(sane) < 3)
    BY <1>1
  <2> QED BY <1>1, <2>1, <2>2 DEF DropPriceOutliers
<1>4. \A i \in sane : TwiceMid(board[i]) \in Nat
  BY <1>1 DEF MidsAre
<1>5. \A x \in mids : x \in Nat
  BY <1>4 DEF Mids
<1>6. \A x, y \in mids : 2 * y <= 3 * x
  BY DEF Coherent
<1>7. \A i \in G : i \in sane /\ TwiceMid(board[i]) \in mids
  BY DEF Mids
<1> HIDE DEF m, mids, sane
<1>8. ASSUME NEW i \in G PROVE i \in ShownRows(board)
  <2> DEFINE t == TwiceMid(board[i])
  <2>1. t \in Nat /\ t \in mids
    BY <1>4, <1>7
  <2> HIDE DEF t
  <2>2. 2 * y1 <= 3 * t /\ 2 * y2 <= 3 * t /\ 2 * t <= 3 * x1 /\ 2 * t <= 3 * x2
    BY <1>6, <2>1
  <2>3. 3 * 2 * t >= 2 * m /\ 2 * 2 * t <= 3 * m
    BY <1>2, <1>5, <2>1, <2>2
  <2>4. NearMedian(board[i], m)
    BY <2>3 DEF NearMedian, t
  <2> QED BY <1>3, <1>7, <2>4
<1>9. ASSUME NEW i \in ShownRows(board)
      PROVE  \E x, y \in mids :
               3 * TwiceMid(board[i]) >= 2 * x /\ 2 * TwiceMid(board[i]) <= 3 * y
  <2> DEFINE t == TwiceMid(board[i])
  <2>1. t \in Nat /\ 3 * 2 * t >= 2 * m /\ 2 * 2 * t <= 3 * m
    BY <1>3, <1>4 DEF NearMedian
  <2> HIDE DEF t
  <2>2. \E x \in mids : 3 * t >= 2 * x
    <3>1. 3 * t >= 2 * x1 \/ 3 * t >= 2 * x2
      BY <1>2, <1>5, <2>1
    <3> QED BY <3>1
  <2>3. \E y \in mids : 2 * t <= 3 * y
    <3>1. 2 * t <= 3 * y1 \/ 2 * t <= 3 * y2
      BY <1>2, <1>5, <2>1
    <3> QED BY <3>1
  <2> QED BY <2>2, <2>3 DEF t
<1> QED BY <1>8, <1>9 DEF Governs, mids

\* DropPriceOutliers on any board of any size: when more than half of the sane
\* rows agree within the ratio, none of them is dropped and no row further than
\* the ratio from all of them is shown, whatever the other rows quote.
THEOREM MajorityIsShown == CheckSpec => []MajorityGoverns
<1>1. IsBoard => MajorityGoverns
  BY MajorityDecides DEF MajorityGoverns
<1> QED BY <1>1, BoardsAreRead, PTL

\* The read path's cap is at least as strict as the literal of the chart queries.
LEMMA SpreadCapped ==
  ASSUME 0 < SpreadNum, 4 * SpreadNum <= SpreadDen, NEW buy \in Nat, NEW d \in Nat,
         SpreadDen * d <= SpreadNum * buy
  PROVE  4 * d <= buy
<1>1. SpreadNum \in Nat /\ SpreadDen \in Nat
  BY RulesAssumption DEF RulesAssumption
<1>2. (4 * SpreadNum) * d <= SpreadDen * d
  BY <1>1
<1>3. (4 * SpreadNum) * d <= SpreadNum * buy
  <2>1. (4 * SpreadNum) * d \in Int /\ SpreadDen * d \in Int /\ SpreadNum * buy \in Int
    BY <1>1
  <2> QED BY <1>2, <2>1
<1>4. SpreadNum * (4 * d) <= SpreadNum * buy
  BY <1>1, <1>3
<1> QED BY <1>1, <1>4

LEMMA ShownAreCharted ==
  ASSUME 0 < SpreadNum, 4 * SpreadNum <= SpreadDen, IsBoard
  PROVE  ShownRowsAreCharted
<1> SUFFICES ASSUME NEW i \in ShownRows(board)
             PROVE  SaneQuotePredicate(board[i].buy, board[i].sell)
  BY DEF ShownRowsAreCharted
<1>1. i \in SaneRows(board)
  BY ShownIsSane
<1>2. /\ board[i].buy \in Nat /\ board[i].sell \in Nat /\ board[i].sell > 0
  BY <1>1, SaneHaveMids
<1>3. /\ board[i].buy >= board[i].sell /\ board[i].buy # NoPrice /\ board[i].sell # NoPrice
      /\ SpreadDen * (board[i].buy - board[i].sell) <= SpreadNum * board[i].buy
  BY <1>1 DEF SaneRows, IsSaneTwoWayRow
<1>4. 4 * (board[i].buy - board[i].sell) <= board[i].buy
  <2>1. board[i].buy - board[i].sell \in Nat
    BY <1>2, <1>3
  <2> QED BY <1>2, <1>3, <2>1, SpreadCapped
<1> QED BY <1>2, <1>3, <1>4 DEF SaneQuotePredicate

LEMMA MidsAgree ==
  ASSUME IsBoard, NEW minp \in Int
  PROVE  MidAgreesWithBrowser(minp)
<1> DEFINE shownNow == ShownRows(board)
           Counts(p) == p # NoPrice /\ p > 0 /\ (minp <= 0 \/ p >= minp)
           F     == {i \in shownNow : IsFloat(board[i])}
           Buys  == {i \in F : Counts(board[i].buy)}
           Sells == {i \in F : Counts(board[i].sell)}
           data     == {i \in shownNow : board[i].rate = "float"}
           withBuy  == {i \in data : board[i].buy # NoPrice /\ board[i].buy >= minp}
           withSell == {i \in data : board[i].sell # NoPrice /\ board[i].sell >= minp}
<1>1. F = data
  BY DEF IsFloat
<1>2. \A i \in data : /\ Counts(board[i].buy) <=> board[i].buy # NoPrice /\ board[i].buy >= minp
                      /\ Counts(board[i].sell) <=> board[i].sell # NoPrice /\ board[i].sell >= minp
  <2>1. \A i \in data : /\ board[i].buy \in Nat /\ board[i].buy > 0
                        /\ board[i].sell \in Nat /\ board[i].sell > 0
    BY ShownIsSane, SaneHaveMids
  <2> QED BY <2>1
<1>3. Buys = withBuy /\ Sells = withSell
  BY <1>1, <1>2
<1> HIDE DEF Buys, Sells, withBuy, withSell
<1>4. FloatMid(board, shownNow, minp)
        = [sum   |-> MapThenSumSet(LAMBDA i : board[i].buy, Buys)
                       + MapThenSumSet(LAMBDA i : board[i].sell, Sells),
           count |-> Cardinality(Buys) + Cardinality(Sells)]
  BY DEF FloatMid, Buys, Sells
<1>5. ComputeStatsMid(board, shownNow, "float", minp)
        = [sum   |-> MapThenSumSet(LAMBDA i : board[i].buy, withBuy)
                       + MapThenSumSet(LAMBDA i : board[i].sell, withSell),
           count |-> Cardinality(withBuy) + Cardinality(withSell)]
  BY DEF ComputeStatsMid, withBuy, withSell
<1> QED BY <1>3, <1>4, <1>5 DEF MidAgreesWithBrowser

\* One set of rules for any board: what a reader sees is what the charts
\* aggregate, and the server's headline price is the browser's, provided the
\* configured spread cap is on and no wider than the 0.25 the charts hard-code.
THEOREM OneSetOfRules ==
  ASSUME 0 < SpreadNum, 4 * SpreadNum <= SpreadDen
  PROVE  CheckSpec => []RulesAgree
<1>1. \A minp \in MinPrices : minp \in Int
  BY CheckAssumption DEF CheckAssumption
<1>2. IsBoard => RulesAgree
  BY <1>1, ShownAreCharted, MidsAgree DEF RulesAgree
<1> QED BY <1>2, BoardsAreRead, PTL
===============================================================================
