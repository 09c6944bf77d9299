----------------------------- MODULE MCTxOptions -----------------------------
(* TxOptions for TLC: fee data of a busy node, of one that reports base fees *)
(* and prices of 0, and of one with small fees that truncation can reach.    *)
EXTENDS TxOptions

History(p25, p50, p99, max) ==
    [Perc25 |-> p25, Perc50 |-> p50, Perc99 |-> p99, Max |-> max]

MCNodeData == {
    [base |-> History(1000, 1500, 3000, 7000), tip |-> History(20, 50, 200, 900),
     suggestedTip |-> 100, price |-> 1700, metric |-> 50],
    [base |-> History(0, 0, 40, 90), tip |-> History(0, 0, 0, 60),
     suggestedTip |-> 0, price |-> 0, metric |-> 10],
    [base |-> History(5, 5, 6, 7), tip |-> History(1, 2, 3, 3),
     suggestedTip |-> 2, price |-> 5, metric |-> 80]}

\* A key that timed out, the only key, its successor, and one beyond.
MCKeyNums == {-1, 0, 1, 2}

MCFallback == [gasPrice |-> 11, feeCap |-> 22, tipCap |-> 2]
=============================================================================
