-------------------------------- MODULE MCSite --------------------------------
EXTENDS SiteScripts

Row(b, s) == [buy |-> b, sell |-> s]

Both == Row(5, 4)
OnlyBuys == Row(6, NoPrice)
Neither == Row(NoPrice, NoPrice)
Inverted == Row(4, 5)
BelowMin == Row(1, 4)

\* Equal percentages of unequal spreads, and each way a value can be missing.
MCRows == {Both, Row(10, 8), OnlyBuys, Row(NoPrice, 4), Neither, Inverted, BelowMin}

\* A tie and gaps in a column, rows that leave and stay, an answer without one price.
MCAnswers == {<<Both, OnlyBuys, Both>>, [e \in {2, 3} |-> IF e = 2 THEN Inverted ELSE BelowMin],
              <<Neither>>}

MCSponsorLists == {[keys |-> {2}, links |-> {2}], [keys |-> {1, 2}, links |-> {1}]}
================================================================================
