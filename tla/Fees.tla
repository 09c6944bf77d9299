-------------------------------- MODULE Fees --------------------------------
(***************************************************************************)
(* The suggested fees (gas_adjuster.go): what GetSuggestedLegacyFees and   *)
(* GetSuggestedEIP1559Fees compute from the node's answers.  A fee is an   *)
(* integer number of wei, a factor is given in tenths.                     *)
(***************************************************************************)
EXTENDS Integers

\* A fee that is nil.
Nil == -1

\* There is no congestion metric: the block headers could not be fetched.
NoMetric == -1

\* From the least to the most urgent.
Priorities == {"slow", "standard", "fast", "degen"}
Urgency == [slow |-> 1, standard |-> 2, fast |-> 3, degen |-> 4]

\* Mutant of adjustmentFactor: fast and standard are exchanged.
factorsExchanged == [slow |-> 8, standard |-> 12, fast |-> 10, degen |-> 15]

adjustmentFactor == [slow |-> 8, standard |-> 10, fast |-> 12, degen |-> 15]

\* big.Float.Mul with 53 bits, then Int: for fees below 2^50 the rounding
\* hides the error of the factor, and the product is truncated.
Adjusted(fee, priority) == (fee * adjustmentFactor[priority]) \div 10

\* The congestion metric is given in percent.
congestionFactor(metric) ==
    CASE metric < 33 -> 11
      [] metric >= 33 /\ metric =< 66 -> 12
      [] metric > 66 /\ metric =< 75 -> 13
      [] OTHER -> 14

\* The second product has 64 bits (SetInt) and the float64 constants 1.2 and
\* 1.4 lie below their decimals: an exact product comes out one lower.
Truncated(product, factor) ==
    IF factor \in {12, 14} /\ product > 0 THEN (product - 1) \div 10 ELSE product \div 10

Buffered(fee, metric) ==
    IF metric = NoMetric
    THEN fee
    ELSE Truncated(fee * congestionFactor(metric), congestionFactor(metric))

Suggested(fee, priority, metric) == Buffered(Adjusted(fee, priority), metric)

\* GetSuggestedLegacyFees.  A price of 0 is an error, but not the one that
\* switches estimation off.
LegacyFees(price, priority, metric) ==
    IF price = 0
    THEN [error |-> "other", gasPrice |-> Nil]
    ELSE [error |-> "none", gasPrice |-> Suggested(price, priority, metric)]

\* HistoricalFeeData: the percentile that belongs to a priority.
percentile == [slow |-> "Perc25", standard |-> "Perc50", fast |-> "Perc99", degen |-> "Max"]

\* The least k with a <= b * 10^k.
Orders(a, b) ==
    CHOOSE k \in 0 .. 9 : a =< b * 10^k /\ (k = 0 \/ a > b * 10^(k - 1))

\* calculateMagnitudeDifference, for fees whose ratio is no power of ten (there
\* math.Log10 decides by its rounding).
magnitudeDifference(first, second) ==
    CASE first = 0 \/ second = 0 -> 0
      [] first > 0 /\ second > 0 /\ first < second -> 0 - Orders(second, first)
      [] first > 0 /\ second > 0 /\ first >= second /\ first =< 10 * second -> 0
      [] OTHER -> Orders(first, second)

\* The eip_1559_fee_equalizer experiment makes the two fees equal: both the
\* tip, both the base fee, or neither.
EqualizedTo(base, tip) ==
    LET diff == magnitudeDifference(base, tip)
    IN  CASE diff = 0 /\ base = 0 -> "tip"
          [] diff = 0 /\ base # 0 -> "base"
          [] diff # 0 /\ diff < 3 -> "tip"
          [] diff > 3 -> "base"
          [] OTHER -> "neither"

\* The base fee and the tip that a priority starts from.
StartingFees(node, priority, equalizer) ==
    LET base == node.base[percentile[priority]]
        historicalTip == node.tip[percentile[priority]]
        tip == IF historicalTip > node.suggestedTip THEN historicalTip ELSE node.suggestedTip
        to == IF equalizer THEN EqualizedTo(base, tip) ELSE "neither"
    IN  [base |-> IF to = "tip" THEN tip ELSE base,
         tip |-> IF to = "base" THEN base ELSE tip]

EIP1559Fees(node, priority, equalizer, metric) ==
    LET start == StartingFees(node, priority, equalizer)
        tipCap == Suggested(start.tip, priority, metric)
    IN  IF start.base = 0
        THEN [error |-> "zero", feeCap |-> Nil, tipCap |-> Nil]
        ELSE [error |-> "none",
              feeCap |-> Suggested(start.base, priority, metric) + tipCap,
              tipCap |-> tipCap]
=============================================================================
