---------------------------- MODULE MCPriceRules ----------------------------
EXTENDS PriceBoard, PriceRulesCheck

CONSTANTS e1, e2

R(s, b, t) == [sell |-> s, buy |-> b, rate |-> t]

(* Sane rows that agree, an honest outlier at the edge, rows on the wrong  *)
(* scale, and each way a row can fail to make sense.                       *)
MCRows ==
  { R(8, 10, "float"), R(9, 10, "fixed"), R(12, 15, "float"),
    R(80, 100, "float"), R(1, 1, "float"),
    R(10, 8, "float"), R(7, 10, "fixed"), R(NoPrice, 10, "float") }
MCMinPrices == {0, 9}

(* Two systems in one run: any board is read before the first refresh, or  *)
(* the refreshes go on with none being read.                               *)
MCInit == Init /\ CheckInit
MCNext ==
  \/ Next /\ board = <<>> /\ UNCHANGED board
  \/ Init /\ CheckNext /\ UNCHANGED vars
MCSpec == MCInit /\ [][MCNext]_<<vars, board>>
=============================================================================
