-------------------------- MODULE PriceRulesCheck --------------------------
(***************************************************************************)
(* Reads every board of up to MaxRows rows drawn from a set of rows, and   *)
(* states what the price rules promise of it.                              *)
(***************************************************************************)
EXTENDS PriceRules

CONSTANTS Rows,       \* the rows a board is made of
          MaxRows,    \* bound on the number of rows
          MinPrices   \* values of the pair's MinValidPrice

ASSUME CheckAssumption ==
  /\ Rows \subseteq [sell : Int \cup {NoPrice}, buy : Int \cup {NoPrice}, rate : {"float", "fixed"}]
  /\ MaxRows \in Nat
  /\ MinPrices \subseteq Int

Boards == UNION {[1..n -> Rows] : n \in 0..MaxRows}

VARIABLE board   \* the rows read, before the rules are applied to them

CheckInit == board = <<>>

\* Any board at all may be read, and after it another.
ReadBoard == board = <<>> /\ board' \in Boards
LeaveBoard == board # <<>> /\ board' = <<>>
CheckNext == ReadBoard \/ LeaveBoard
CheckSpec == CheckInit /\ [][CheckNext]_board

-----------------------------------------------------------------------------
Mids(S) == {TwiceMid(board[i]) : i \in S}

\* A coherent group of rows: no two mids are more than the ratio 1.5 apart.
Coherent(S) == \A x, y \in Mids(S) : 2 * y <= 3 * x

Governs(G) ==
  LET kept == ShownRows(board) IN
  /\ G \subseteq kept
  /\ \A i \in kept : \E x, y \in Mids(G) :
       3 * TwiceMid(board[i]) >= 2 * x /\ 2 * TwiceMid(board[i]) <= 3 * y

\* Mis-scaled exchanges are dropped and honest ones are not: whenever more
\* than half of the sane rows agree within the ratio, all of them are shown and
\* nothing is shown that is further than the ratio from both ends of the group.
MajorityGoverns ==
  \A G \in SUBSET SaneRows(board) :
    /\ Coherent(G)
    /\ 2 * Cardinality(G) > Cardinality(SaneRows(board))
    /\ Cardinality(SaneRows(board)) >= 3
    => Governs(G)

\* "Sharing it means the charts can never diverge from the board": a row the
\* readers see is one that the rollup and the chart queries aggregate.
ShownRowsAreCharted ==
  \A i \in ShownRows(board) : SaneQuotePredicate(board[i].buy, board[i].sell)

\* The headline price of the server ("computed exactly like moneropricenow.js
\* computeStats on the default view") is the browser's, on every feed it sends.
MidAgreesWithBrowser(minp) ==
  FloatMid(board, ShownRows(board), minp)
    = ComputeStatsMid(board, ShownRows(board), "float", minp)

\* Server, chart queries and browser apply one set of rules to the same rows.
RulesAgree ==
  /\ ShownRowsAreCharted
  /\ \A minp \in MinPrices : MidAgreesWithBrowser(minp)
=============================================================================
