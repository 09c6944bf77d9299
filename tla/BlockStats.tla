----------------------------- MODULE BlockStats ------------------------------
(***************************************************************************)
(* BlockStats.Stats (block_stats.go): one goroutine per block of an        *)
(* interval fetches it, the blocks are sorted, durations and base fees     *)
(* summed up.                                                              *)
(***************************************************************************)
EXTENDS Startup, Sorting, SequencesExt, FiniteSetsExt

CONSTANTS
    Latest,   \* number of the latest block
    Chain,    \* time and base fee of every block, up to the pending one
    NoFee     \* base fee of a block from before EIP-1559

ASSUME BlockStatsAssumption ==
    /\ Latest \in Nat
    /\ DOMAIN Chain = 0 .. Latest + 1
    /\ \A n \in 0 .. Latest + 1 : Chain[n].time \in Nat /\ Chain[n].fee \in Nat \cup {NoFee}
    /\ \A n \in 1 .. Latest + 1 : Chain[n - 1].time =< Chain[n].time

VARIABLES
    interval,   \* StartBlock and EndBlock
    waiting,    \* block numbers that goroutines have still to fetch
    skipped,    \* those whose block go-ethereum cannot read
    failed,     \* a goroutine returned an error
    blocks,     \* blocks, in the order in which they arrived, then sorted
    stats       \* what is reported

statsVars == <<interval, waiting, skipped, failed, blocks, stats>>

NoStats == [durations |-> <<>>, p95 |-> 0, average |-> 0, bump |-> 0]

StatsInit ==
    /\ interval = [start |-> 0, end |-> 0]
    /\ waiting = {} /\ skipped = {} /\ failed = FALSE
    /\ blocks = <<>> /\ stats = NoStats

\* The header of the latest block cannot be fetched.
LatestFails ==
    /\ pc = "stats" /\ interval.start < 0
    /\ Fails
    /\ UNCHANGED <<caller, file, env, cfg, given, client, made, funded, statsVars>>

\* A negative start counts back from the latest block, and only then is the
\* latest block known; an end of 0 means that block.
Spawn ==
    LET start == IF interval.start < 0 THEN Latest + interval.start ELSE interval.start
        end == IF interval.end = 0 THEN Latest ELSE interval.end
    IN
    /\ pc = "stats"
    /\ IF interval.end = 0 /\ interval.start >= 0
       THEN Panics /\ UNCHANGED <<interval, waiting>>
       ELSE /\ interval' = [start |-> start, end |-> end]
            /\ IF start > end
               THEN Fails /\ UNCHANGED waiting
               ELSE waiting' = start .. end - 1 /\ pc' = "blocks"
    /\ UNCHANGED <<caller, file, env, cfg, given, client, made, funded, skipped, failed, blocks, stats>>

\* BlockByNumber: a negative number is the pending, latest, finalized or safe
\* block.
BlockByNumber(bn) ==
    CASE bn \in 0 .. Latest -> {bn}
      [] bn = -1 -> {Latest + 1}
      [] bn = -2 -> {Latest}
      [] bn \in {-3, -4} -> 0 .. Latest
      [] OTHER -> {}

Fetched(bn) ==
    /\ pc = "blocks" /\ bn \in waiting
    /\ \E b \in BlockByNumber(bn) : blocks' = Append(blocks, b)
    /\ waiting' = waiting \ {bn}
    /\ UNCHANGED <<startupVars, interval, skipped, failed, stats>>

\* "value overflows uint256" and "transaction type not supported".
Skip(bn) ==
    /\ pc = "blocks" /\ bn \in waiting
    /\ skipped' = skipped \cup {bn}
    /\ waiting' = waiting \ {bn}
    /\ UNCHANGED <<startupVars, interval, failed, blocks, stats>>

FetchFails(bn) ==
    /\ pc = "blocks" /\ bn \in waiting
    /\ failed' = TRUE
    /\ waiting' = waiting \ {bn}
    /\ UNCHANGED <<startupVars, interval, skipped, blocks, stats>>

\* Mutant of Sorted: the blocks stay in the order of their arrival.
SortedByArrival(s) == s

Sorted(s) == Ascending(s)

\* The value at index 0.95 n of n sorted values.
Percentile95(s) == Sorted(s)[(95 * Len(s)) \div 100 + 1]

Average(s) == SumOf(s) \div Len(s)

calculateRatioPercentage(x, y) == IF y = 0 THEN 0 ELSE (100 * x) \div y

\* CalculateBlockDurations: an average over no durations divides by zero, and
\* a base fee that is nil cannot be read.  The first block is not looked at.
CalculateBlockDurations(bs) ==
    LET n == Len(bs) - 1
        durations == [i \in 1 .. n |-> Chain[bs[i + 1]].time - Chain[bs[i]].time]
        fees == [i \in 1 .. n |-> Chain[bs[i + 1]].fee]
    IN
    IF bs = <<>> THEN Fails /\ UNCHANGED stats
    ELSE IF n = 0 \/ \E i \in 1 .. n : fees[i] = NoFee THEN Panics /\ UNCHANGED stats
    ELSE /\ stats' = [durations |-> durations, p95 |-> Percentile95(durations),
                      average |-> Average(durations),
                      bump |-> calculateRatioPercentage(Percentile95(fees), Average(fees))]
         /\ pc' = "done"

\* eg.Wait.
Analyse ==
    /\ pc = "blocks" /\ waiting = {}
    /\ IF failed
       THEN Fails /\ UNCHANGED <<blocks, stats>>
       ELSE /\ blocks' = Sorted(blocks)
            /\ CalculateBlockDurations(Sorted(blocks))
    /\ UNCHANGED <<caller, file, env, cfg, given, client, made, funded, interval, waiting, skipped, failed>>

StatsStep ==
    \/ LatestFails \/ Spawn
    \/ \E bn \in waiting : Fetched(bn) \/ Skip(bn) \/ FetchFails(bn)
    \/ Analyse

-----------------------------------------------------------------------------
(***************************************************************************)
(* Stats: whatever the order in which the goroutines fetched the blocks,   *)
(* the report of an interval that starts at or after the first block is    *)
(* about every block of the interval that could be read, no other, and in  *)
(* order: no duration is negative, together they are the time from the     *)
(* first of these blocks to the last, and less than one in twenty is       *)
(* longer than the 95th percentile.  Of up to 20 durations that is the     *)
(* longest, so it is no shorter than the average, and so are the fees.     *)
(***************************************************************************)
StatsBlocksRight ==
    pc = "done" /\ stats # NoStats /\ interval.start >= 0 =>
        /\ ToSet(blocks) = (interval.start .. interval.end - 1) \ skipped
        /\ \A i \in 1 .. Len(blocks) - 1 : blocks[i] < blocks[i + 1]
        /\ \A i \in DOMAIN stats.durations : stats.durations[i] >= 0
        /\ SumOf(stats.durations) = Chain[Last(blocks)].time - Chain[blocks[1]].time
        /\ 20 * Cardinality({i \in DOMAIN stats.durations : stats.durations[i] > stats.p95})
              < Len(stats.durations)
        /\ Len(stats.durations) =< 20 =>
              stats.p95 >= stats.average /\ (stats.bump >= 100 \/ stats.bump = 0)
==============================================================================
