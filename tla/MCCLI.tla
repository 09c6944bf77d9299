-------------------------------- MODULE MCCLI --------------------------------
(* CLI for TLC: blocks 2 and 3 of the same time, base fees from block 2 on,    *)
(* intervals before, around and after the chain, histories of 1 to 6 blocks.   *)
EXTENDS CLI

MCNil == -1
MCChain ==
    [n \in 0 .. Latest + 1 |->
        [time |-> <<10, 12, 15, 15, 19, 20>>[n + 1], fee |-> <<-1, -1, 3, 2, 7, 1>>[n + 1]]]
MCStatsFlags ==
    {[start |-> s, end |-> e] : s \in {-3, -1, 0, 2, 4}, e \in {0, 1, 4}}
        \cup {[start |-> -6, end |-> 1]}
MCHistories ==
    {[baseFee |-> <<4, 9>>, reward |-> <<<<1>>>>],
     [baseFee |-> <<3, 1, 2, 9>>, reward |-> <<<<1>>, <<2>>, <<>>>>],
     [baseFee |-> <<3, 1, 4, 2, MCNil>>, reward |-> <<<<2>>, <<5>>, <<MCNil>>, <<1>>>>],
     [baseFee |-> <<8, 2, 5, 2, 6, 1>>, reward |-> <<<<3>>, <<1>>, <<>>, <<4>>, <<1>>>>],
     [baseFee |-> <<7, 6, 5, 4, 3, 2, 1>>, reward |-> <<<<6>>, <<5>>, <<4>>, <<3>>, <<2>>, <<1>>>>]}
==============================================================================
