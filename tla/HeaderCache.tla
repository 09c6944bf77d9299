----------------------------- MODULE HeaderCache -----------------------------
(***************************************************************************)
(* LFUHeaderCache (header_cache.go).  Get and Set hold the mutex for all   *)
(* of their work, so one operation is under way at a time; evict walks a   *)
(* Go map, whose order is not specified.                                   *)
(***************************************************************************)
EXTENDS LFUCache

CONSTANT MaxUint  \* the largest uint64

ASSUME MaxUintAssumption == MaxUint \in Nat /\ \A b \in Blocks : b < MaxUint

VARIABLE evicting  \* the call of evict under way, with the header to be set

vars == <<cache, evicting>>

Idle == [pc |-> "idle"]

\* evict's local variables at the start and after each item.
Scanning(b, h, todo, evictKey, leastFreq, oldest) ==
    [pc |-> "scan", block |-> b, header |-> h, todo |-> todo,
     evictKey |-> evictKey, leastFreq |-> leastFreq, oldestBlockNumber |-> oldest]

ScanStates ==
    [pc : {"scan"}, block : Blocks, header : Headers, todo : SUBSET DOMAIN cache,
     evictKey : Blocks \cup {0}, leastFreq : 1 .. MaxInt,
     oldestBlockNumber : 0 .. MaxUint]

TypeOK ==
    /\ CacheTypeOK
    /\ evicting \in {Idle} \cup ScanStates

Init == CacheInit /\ evicting = Idle

Get(b) ==
    /\ evicting = Idle
    /\ GetHit(b)
    /\ UNCHANGED evicting

\* Set without eviction: the number is cached, or there is room.
Set(b, h) ==
    /\ evicting = Idle
    /\ SetAgain(b, h) \/ SetNew(b, h)
    /\ UNCHANGED evicting

SetFull(b, h) ==
    /\ evicting = Idle
    /\ b \notin DOMAIN cache
    /\ Full
    /\ evicting' = Scanning(b, h, DOMAIN cache, 0, MaxInt, MaxUint)
    /\ UNCHANGED cache

\* Mutant of Better: a tie keeps whichever block the map gave first.
BetterFirstSeen(k) == cache[k].frequency < evicting.leastFreq

\* The two branches of the loop body of evict; both take item k.
Better(k) ==
    \/ cache[k].frequency < evicting.leastFreq
    \/ cache[k].frequency = evicting.leastFreq /\ k < evicting.oldestBlockNumber

Scan(k) ==
    /\ evicting.pc = "scan"
    /\ k \in evicting.todo
    /\ evicting' =
         IF Better(k)
         THEN Scanning(evicting.block, evicting.header, evicting.todo \ {k},
                       k, cache[k].frequency, k)
         ELSE Scanning(evicting.block, evicting.header, evicting.todo \ {k},
                       evicting.evictKey, evicting.leastFreq, evicting.oldestBlockNumber)
    /\ UNCHANGED cache

\* The loop is over: delete, then set.
Evict ==
    /\ evicting.pc = "scan"
    /\ evicting.todo = {}
    /\ cache' = Put(Drop(cache, evicting.evictKey), evicting.block, Item(evicting.header, 1))
    /\ evicting' = Idle

Next ==
    \/ \E b \in Blocks : Get(b)
    \/ \E b \in Blocks, h \in Headers : Set(b, h) \/ SetFull(b, h)
    \/ evicting.pc = "scan" /\ \E k \in evicting.todo : Scan(k)
    \/ Evict

Spec == Init /\ [][Next]_vars

-----------------------------------------------------------------------------
(***************************************************************************)
(* What evict knows after a part of the map, in whatever order it came:    *)
(* evictKey is the least frequently used and, among those, the oldest of   *)
(* the blocks seen so far.  A frequency of MaxInt is found all the same.   *)
(***************************************************************************)
ScanInv ==
    evicting.pc = "scan" =>
        /\ evicting.block \notin DOMAIN cache
        /\ Full
        /\ \/ evicting.todo = DOMAIN cache
              /\ evicting.leastFreq = MaxInt /\ evicting.oldestBlockNumber = MaxUint
           \/ /\ evicting.evictKey \in DOMAIN cache \ evicting.todo
              /\ evicting.leastFreq = cache[evicting.evictKey].frequency
              /\ evicting.oldestBlockNumber = evicting.evictKey
              /\ \A k \in DOMAIN cache \ evicting.todo : Before(evicting.evictKey, k)
=============================================================================
