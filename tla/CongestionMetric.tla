--------------------------- MODULE CongestionMetric ---------------------------
(***************************************************************************)
(* CalculateNetworkCongestionMetric (gas_adjuster.go): fetch the last      *)
(* blocksNumber headers, one goroutine per block, through the header       *)
(* cache; a collector goroutine gathers them from an unbuffered channel;   *)
(* the caller waits on a WaitGroup.  The chain grows between calls.        *)
(***************************************************************************)
EXTENDS LFUCache, Sequences

CONSTANTS
    blocksNumber,  \* blocks to look at, also the capacity of the cache
    WordSize,      \* 2^64 in the code: uint64 arithmetic is modulo WordSize
    MaxCalls       \* bound: calls of CalculateNetworkCongestionMetric

ASSUME CongestionAssumption ==
    /\ blocksNumber \in Nat \ {0}
    /\ Capacity = blocksNumber
    /\ WordSize \in Nat /\ blocksNumber < WordSize
    /\ \A b \in Blocks : b < WordSize /\ 0 .. b \subseteq Blocks  \* no gaps in a chain

VARIABLES
    lastBlock,  \* node: the head of the chain
    pc,         \* the caller
    last,       \* lastBlockNumber of this call
    i,          \* its loop variable
    wg,         \* the WaitGroup
    fetcher,    \* goroutines, one per block
    collector,  \* the collector goroutine: 0, or the block it has received
    headers,    \* the slice, by block number
    calls,      \* calls so far
    result

call == <<last, i, wg, fetcher, collector, headers>>
metricVars == <<cache, lastBlock, pc, call, calls, result>>

Header(b) == CHOOSE h \in Headers : TRUE
NoFetchers == [b \in Blocks |-> "none"]

MetricInit ==
    /\ CacheInit
    /\ lastBlock \in Blocks
    /\ pc = "start"
    /\ last = 0 /\ i = 0 /\ wg = 0
    /\ fetcher = NoFetchers
    /\ collector = 0
    /\ headers = <<>>
    /\ calls = 1
    /\ result = "none"

Return(r) == pc' = "returned" /\ result' = r

\* getHeaderData finds the header in the cache, or fetches it and caches it.
CacheMiss(b) == b \notin DOMAIN cache
CacheSet(b) == SetAgain(b, Header(b)) \/ SetNew(b, Header(b)) \/ SetEvict(b, Header(b))

\* There is no header cache, or BlockNumber fails.
StartFails ==
    /\ pc = "start"
    /\ Return("error")
    /\ UNCHANGED <<cache, lastBlock, call, calls>>

BlockNumber ==
    /\ pc = "start"
    /\ last' = lastBlock
    /\ pc' = "head"
    /\ UNCHANGED <<cache, lastBlock, i, wg, fetcher, collector, headers, calls, result>>

\* The header of the last block; a second one is fetched in the loop.
LastHeader ==
    /\ pc = "head"
    /\ GetHit(last) \/ (CacheMiss(last) /\ CacheSet(last))
    /\ headers' = <<last>>
    /\ i' = last
    /\ pc' = "loop"
    /\ UNCHANGED <<lastBlock, last, wg, fetcher, collector, calls, result>>

LastHeaderFails ==
    /\ pc = "head"
    /\ CacheMiss(last)
    /\ Return("error")
    /\ UNCHANGED <<cache, lastBlock, call, calls>>

\* lastBlockNumber - blocksNumber in uint64: it wraps on a chain shorter than
\* blocksNumber, and the loop body is then never entered.
LowerBound == (last - blocksNumber + WordSize) % WordSize

LoopGoesOn == i > LowerBound /\ i > 1

SpawnFetcher ==
    /\ pc = "loop"
    /\ LoopGoesOn
    /\ wg' = wg + 1
    /\ fetcher' = [fetcher EXCEPT ![i] = "get"]
    /\ i' = i - 1
    /\ UNCHANGED <<cache, lastBlock, pc, last, collector, headers, calls, result>>

LoopEnds ==
    /\ pc = "loop"
    /\ ~LoopGoesOn
    /\ pc' = "wait"
    /\ UNCHANGED <<cache, lastBlock, call, calls, result>>

FetcherGoes(b, from, to) ==
    /\ fetcher[b] = from
    /\ fetcher' = [fetcher EXCEPT ![b] = to]
    /\ UNCHANGED <<lastBlock, pc, last, i, wg, collector, headers, calls, result>>

GetCached(b) == GetHit(b) /\ FetcherGoes(b, "get", "send")

GetMisses(b) == CacheMiss(b) /\ FetcherGoes(b, "get", "fetch") /\ UNCHANGED cache

\* HeaderByNumber answers; by now another goroutine may have cached the block.
Fetch(b) == CacheSet(b) /\ FetcherGoes(b, "fetch", "send")

\* HeaderByNumber fails: the goroutine returns without wg.Done.
FetchError(b) == FetcherGoes(b, "fetch", "failed") /\ UNCHANGED cache

\* The unbuffered channel: sender and collector meet.
Receive(b) ==
    /\ fetcher[b] = "send"
    /\ collector = 0
    /\ collector' = b
    /\ fetcher' = [fetcher EXCEPT ![b] = "done"]
    /\ UNCHANGED <<cache, lastBlock, pc, last, i, wg, headers, calls, result>>

\* Mutant of Collect: wg.Done is forgotten.
CollectNoDone ==
    /\ collector # 0
    /\ headers' = Append(headers, collector)
    /\ collector' = 0
    /\ UNCHANGED <<cache, lastBlock, pc, last, i, wg, fetcher, calls, result>>

Collect ==
    /\ collector # 0
    /\ headers' = Append(headers, collector)
    /\ wg' = wg - 1
    /\ collector' = 0
    /\ UNCHANGED <<cache, lastBlock, pc, last, i, fetcher, calls, result>>

\* Mutant of MinBlockCount: any number of headers will do.
NoMinBlockCount == 0

\* int(float64(blocksNumber) * 0.8)
MinBlockCount == (blocksNumber * 8) \div 10

\* Mutant of Compute: wg.Wait is missing.
ComputeNoWait ==
    /\ pc = "wait"
    /\ Return(IF Len(headers) < MinBlockCount THEN "error" ELSE "ok")
    /\ UNCHANGED <<cache, lastBlock, call, calls>>

\* wg.Wait returns; too few headers are an error.
Compute ==
    /\ pc = "wait"
    /\ wg = 0
    /\ Return(IF Len(headers) < MinBlockCount THEN "error" ELSE "ok")
    /\ UNCHANGED <<cache, lastBlock, call, calls>>

\* The next estimation, on a chain that may have grown meanwhile.
CallAgain ==
    /\ pc = "returned"
    /\ calls < MaxCalls
    /\ calls' = calls + 1
    /\ lastBlock' \in {b \in Blocks : b >= lastBlock}
    /\ pc' = "start"
    /\ last' = 0 /\ i' = 0 /\ wg' = 0
    /\ fetcher' = NoFetchers
    /\ collector' = 0
    /\ headers' = <<>>
    /\ result' = "none"
    /\ UNCHANGED cache

Caller ==
    \/ StartFails
    \/ BlockNumber
    \/ LastHeader
    \/ LastHeaderFails
    \/ SpawnFetcher
    \/ LoopEnds
    \/ Compute

Fetcher(b) ==
    \/ GetCached(b)
    \/ GetMisses(b)
    \/ Fetch(b)
    \/ FetchError(b)
    \/ Receive(b)

MetricNext ==
    \/ Caller
    \/ CallAgain
    \/ \E b \in Blocks : Fetcher(b)
    \/ Collect

MetricSpec == MetricInit /\ [][MetricNext]_metricVars

(***************************************************************************)
(* Goroutines run, and every HeaderByNumber call has a timeout.            *)
(***************************************************************************)
Fairness ==
    /\ WF_metricVars(Caller)
    /\ \A b \in Blocks : WF_metricVars(Fetcher(b))
    /\ WF_metricVars(Collect)

FairSpec == MetricSpec /\ Fairness

-----------------------------------------------------------------------------
(***************************************************************************)
(* The comment in the collector: "we want to wait for all headers to be    *)
(* received and added to slice before continuing".  Every goroutine has    *)
(* finished, and its header is in the slice, when the metric is computed.  *)
(***************************************************************************)
HeadersComplete ==
    pc = "returned" /\ result = "ok" =>
        /\ collector = 0
        /\ \A b \in Blocks : fetcher[b] \in {"none", "done"}
        /\ \A b \in Blocks : fetcher[b] = "done" => \E n \in 2 .. Len(headers) : headers[n] = b

(***************************************************************************)
(* README.md 454: "in order to use congestion metrics we need to fetch at  *)
(* least 80% of the requested blocks".  The last block is in the slice     *)
(* twice and the chain may be shorter than blocksNumber; still the metric  *)
(* is computed from that many different blocks.  (The code truncates the   *)
(* 80%, so this is stated for a blocksNumber that is a multiple of 5, as   *)
(* the default of 200 is.)                                                 *)
(***************************************************************************)
EnoughBlocks ==
    result = "ok" =>
        10 * Cardinality({headers[n] : n \in DOMAIN headers}) >= 8 * blocksNumber

(***************************************************************************)
(* The call returns, with a metric or with an error (README.md 454: "If    *)
(* that fails, we will skip this part of the estimation and only adjust    *)
(* the gas price based on priority").                                      *)
(***************************************************************************)
MetricReturns == pc = "start" ~> pc = "returned"

(***************************************************************************)
(* It does whenever every header can be fetched, on short and on growing   *)
(* chains, with a cold or a warm cache.                                    *)
(***************************************************************************)
MetricReturnsIfFetched ==
    pc = "start" ~> pc = "returned" \/ \E b \in Blocks : fetcher[b] = "failed"
=============================================================================
