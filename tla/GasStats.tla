------------------------------ MODULE GasStats -------------------------------
(***************************************************************************)
(* GasEstimator.Stats (gas.go): quantiles of the base fees and tips of the *)
(* last blocks.  Values are doubled, so that the mean of two is a number.  *)
(***************************************************************************)
EXTENDS Startup, Sorting, SequencesExt, FiniteSetsExt

CONSTANTS
    Histories,   \* answers of FeeHistory: base fees, and per block its rewards
    Nil          \* a fee that is null in the answer

ASSUME GasStatsAssumption ==
    Histories \subseteq [baseFee : Seq(Nat \cup {Nil}), reward : Seq(Seq(Nat \cup {Nil}))]

VARIABLES
    hist,        \* the answer
    suggestions  \* quantiles of base fees and of tips

gasVars == <<hist, suggestions>>

NoHistory == [baseFee |-> <<>>, reward |-> <<>>]
NoQuantiles == [max |-> 0, p99 |-> 0, p75 |-> 0, p50 |-> 0, p25 |-> 0]
NoSuggestions == [gasPrice |-> NoQuantiles, tipCap |-> NoQuantiles]

GasInit == hist = NoHistory /\ suggestions = NoSuggestions

\* BlockNumber, FeeHistory, SuggestGasPrice or SuggestGasTipCap fails.
GasCallFails ==
    /\ pc \in {"gas", "suggest"}
    /\ Fails
    /\ UNCHANGED <<caller, file, env, cfg, given, client, made, funded, gasVars>>

FeeHistory ==
    /\ pc = "gas"
    /\ hist' \in Histories
    /\ pc' = "quantiles"
    /\ UNCHANGED <<caller, file, env, cfg, given, client, made, funded, suggestions>>

Doubled(fee) == IF fee = Nil THEN 0 ELSE 2 * fee

BaseFees == [i \in DOMAIN hist.baseFee |-> Doubled(hist.baseFee[i])]

\* Blocks without a reward are passed over.
Tips ==
    LET rewarded == InOrder({i \in DOMAIN hist.reward : hist.reward[i] # <<>>})
    IN  [i \in DOMAIN rewarded |-> Doubled(hist.reward[rewarded[i]][1])]

\* stats.Percentile of montanaflynn/stats fails if there are no values, and if
\* the index lies between 0 and 1.
HasPercentile(s, p) == Len(s) = 1 \/ (s # <<>> /\ p * Len(s) >= 100)

Percentile(s, p) ==
    LET c == Ascending(s)
        i == (p * Len(s)) \div 100
    IN  CASE Len(s) = 1 -> s[1]
          [] Len(s) > 1 /\ (p * Len(s)) % 100 = 0 -> c[i]
          [] OTHER -> (c[i] + c[i + 1]) \div 2

HasQuantiles(s) == \A p \in {99, 75, 50, 25} : HasPercentile(s, p)

\* Mutant of quantilesFromFloatArray: two quantiles are mixed up.
quantilesMixedUp(s) ==
    [max |-> Max(ToSet(s)), p99 |-> Percentile(s, 99), p75 |-> Percentile(s, 25),
     p50 |-> Percentile(s, 50), p25 |-> Percentile(s, 75)]

quantilesFromFloatArray(s) ==
    [max |-> Max(ToSet(s)), p99 |-> Percentile(s, 99), p75 |-> Percentile(s, 75),
     p50 |-> Percentile(s, 50), p25 |-> Percentile(s, 25)]

QuantilesFail ==
    /\ pc = "quantiles" /\ ~(HasQuantiles(BaseFees) /\ HasQuantiles(Tips))
    /\ Fails
    /\ UNCHANGED <<caller, file, env, cfg, given, client, made, funded, gasVars>>

Quantiles ==
    /\ pc = "quantiles" /\ HasQuantiles(BaseFees) /\ HasQuantiles(Tips)
    /\ suggestions' = [gasPrice |-> quantilesFromFloatArray(BaseFees),
                       tipCap |-> quantilesFromFloatArray(Tips)]
    /\ pc' = "suggest"
    /\ UNCHANGED <<caller, file, env, cfg, given, client, made, funded, hist>>

Suggest ==
    /\ pc = "suggest"
    /\ pc' = "done"
    /\ UNCHANGED <<caller, file, env, cfg, given, client, made, funded, gasVars>>

GasStep == GasCallFails \/ FeeHistory \/ QuantilesFail \/ Quantiles \/ Suggest

-----------------------------------------------------------------------------
\* As many values as p percent lie at or below q, and the rest at or above it.
IsQuantile(s, p, q) ==
    /\ Cardinality({i \in DOMAIN s : s[i] =< q}) >= (p * Len(s)) \div 100
    /\ Cardinality({i \in DOMAIN s : s[i] >= q}) >= ((100 - p) * Len(s)) \div 100

AreQuantiles(s, r) ==
    /\ IsQuantile(s, 25, r.p25) /\ IsQuantile(s, 50, r.p50)
    /\ IsQuantile(s, 75, r.p75) /\ IsQuantile(s, 99, r.p99)
    /\ r.p25 =< r.p50 /\ r.p50 =< r.p75 /\ r.p75 =< r.p99 /\ r.p99 =< r.max

(***************************************************************************)
(* The gas command reports what it says: every quantile has its share of   *)
(* the base fees, or of the tips of the blocks that have one, on either    *)
(* side, and they are in order; with fewer values than a quarter can be    *)
(* taken of it reports nothing.                                            *)
(***************************************************************************)
GasQuantilesRight ==
    suggestions # NoSuggestions =>
        /\ AreQuantiles(BaseFees, suggestions.gasPrice)
        /\ AreQuantiles(Tips, suggestions.tipCap)
        /\ Len(Tips) = 1 \/ Len(Tips) >= 4
==============================================================================
