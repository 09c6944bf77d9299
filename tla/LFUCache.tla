------------------------------ MODULE LFUCache ------------------------------
(***************************************************************************)
(* What the block header cache promises: a least-frequently-used cache     *)
(* whose operations are atomic.  HeaderCache shows that header_cache.go    *)
(* keeps this promise; CongestionMetric uses the cache through it.         *)
(***************************************************************************)
EXTENDS Integers, FiniteSets

CONSTANTS
    Blocks,    \* block numbers
    Headers,   \* what distinguishes two headers of one block number
    Capacity,  \* gas_price_estimation_blocks
    MaxInt     \* the largest Go int, a bound on frequencies

ASSUME LFUCacheAssumption ==
    /\ Blocks \subseteq Nat
    /\ Capacity \in Nat \ {0}
    /\ MaxInt \in Nat \ {0}

VARIABLE cache  \* a function from the cached block numbers to items

Items == [header : Headers, frequency : 1 .. MaxInt]
Item(h, n) == [header |-> h, frequency |-> n]

Put(c, b, item) == [k \in DOMAIN c \cup {b} |-> IF k = b THEN item ELSE c[k]]
Drop(c, b) == [k \in DOMAIN c \ {b} |-> c[k]]

Full == Cardinality(DOMAIN cache) >= Capacity

\* b is to be evicted before k: it is used less often, or as often and older.
Before(b, k) ==
    \/ cache[b].frequency < cache[k].frequency
    \/ cache[b].frequency = cache[k].frequency /\ b =< k

Victim(b) == b \in DOMAIN cache /\ \A k \in DOMAIN cache : Before(b, k)

CacheInit == cache = [b \in {} |-> Item(b, 1)]

\* A hit; a miss changes nothing.
GetHit(b) ==
    /\ b \in DOMAIN cache
    /\ cache[b].frequency < MaxInt
    /\ cache' = Put(cache, b, Item(cache[b].header, cache[b].frequency + 1))

\* A header of the same number replaces the cached one and counts as a use.
SetAgain(b, h) ==
    /\ b \in DOMAIN cache
    /\ cache[b].frequency < MaxInt
    /\ cache' = Put(cache, b, Item(h, cache[b].frequency + 1))

SetNew(b, h) ==
    /\ b \notin DOMAIN cache
    /\ ~Full
    /\ cache' = Put(cache, b, Item(h, 1))

SetEvict(b, h) ==
    /\ b \notin DOMAIN cache
    /\ Full
    /\ \E v \in DOMAIN cache :
          Victim(v) /\ cache' = Put(Drop(cache, v), b, Item(h, 1))

CacheNext ==
    \E b \in Blocks, h \in Headers :
        GetHit(b) \/ SetAgain(b, h) \/ SetNew(b, h) \/ SetEvict(b, h)

CacheSpec == CacheInit /\ [][CacheNext]_cache

CacheTypeOK ==
    /\ DOMAIN cache \subseteq Blocks
    /\ cache \in [DOMAIN cache -> Items]

(***************************************************************************)
(* README.md 452: "The cache has capacity equal to                         *)
(* `gas_price_estimation_blocks`", however Get and Set interleave.         *)
(***************************************************************************)
CapacityRespected ==
    IsFiniteSet(DOMAIN cache) /\ Cardinality(DOMAIN cache) =< Capacity
=============================================================================
