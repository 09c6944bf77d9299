-------------------------- MODULE HeaderCacheProofs --------------------------
(***************************************************************************)
(* header_cache.go implements an atomic least-frequently-used cache of     *)
(* bounded size, for every capacity, every set of block numbers and every  *)
(* order in which Go may walk the map.  The congestion metric, which reads *)
(* its headers through that cache, computes from all of them, for every    *)
(* number of blocks and every chain.                                       *)
(***************************************************************************)
EXTENDS HeaderCache, CongestionMetric, FiniteSetTheorems, TLAPS

-----------------------------------------------------------------------------
(* Type correctness. *)

\* Putting an item for a block keeps the cache well typed.
LEMMA PutType ==
    ASSUME CacheTypeOK, NEW b \in Blocks, NEW item \in Items,
           NEW S \in SUBSET DOMAIN cache, NEW c, c = [k \in S |-> cache[k]],
           cache' = Put(c, b, item)
    PROVE  CacheTypeOK' /\ DOMAIN cache' = S \cup {b}
<1>1. c \in [S -> Items]
  BY DEF CacheTypeOK
<1>2. cache' = [k \in S \cup {b} |-> IF k = b THEN item ELSE c[k]]
  BY <1>1 DEF Put
<1>3. cache' \in [S \cup {b} -> Items]
  BY <1>1, <1>2
<1>4. QED
  BY <1>2, <1>3 DEF CacheTypeOK

\* The cache restricted to its own domain is the cache.
LEMMA CacheIsFunction ==
    ASSUME CacheTypeOK
    PROVE  cache = [k \in DOMAIN cache |-> cache[k]]
BY DEF CacheTypeOK

\* What each atomic operation does to the cached block numbers.
LEMMA AtomicSteps ==
    ASSUME CacheTypeOK, NEW b \in Blocks, NEW h \in Headers
    PROVE  /\ GetHit(b) \/ SetAgain(b, h) => CacheTypeOK' /\ DOMAIN cache' = DOMAIN cache
           /\ SetNew(b, h) => CacheTypeOK' /\ DOMAIN cache' = DOMAIN cache \cup {b}
<1>1. ASSUME GetHit(b) PROVE CacheTypeOK' /\ DOMAIN cache' = DOMAIN cache
  <2>1. Item(cache[b].header, cache[b].frequency + 1) \in Items
    BY <1>1, LFUCacheAssumption DEF GetHit, CacheTypeOK, Items, Item
  <2>2. QED
    BY <1>1, <2>1, PutType, CacheIsFunction DEF GetHit
<1>2. ASSUME SetAgain(b, h) PROVE CacheTypeOK' /\ DOMAIN cache' = DOMAIN cache
  <2>1. Item(h, cache[b].frequency + 1) \in Items
    BY <1>2, LFUCacheAssumption DEF SetAgain, CacheTypeOK, Items, Item
  <2>2. QED
    BY <1>2, <2>1, PutType, CacheIsFunction DEF SetAgain
<1>3. ASSUME SetNew(b, h) PROVE CacheTypeOK' /\ DOMAIN cache' = DOMAIN cache \cup {b}
  <2>1. Item(h, 1) \in Items
    BY LFUCacheAssumption DEF Items, Item
  <2>2. QED
    BY <1>3, <2>1, PutType, CacheIsFunction DEF SetNew
<1>4. QED
  BY <1>1, <1>2, <1>3

\* The state of a scan, read off its fields.
LEMMA ScanFields ==
    ASSUME TypeOK, evicting.pc = "scan"
    PROVE  /\ evicting \in ScanStates
           /\ evicting.block \in Blocks
           /\ evicting.header \in Headers
           /\ evicting.todo \subseteq DOMAIN cache
           /\ evicting.evictKey \in Blocks \cup {0}
           /\ evicting.leastFreq \in 1 .. MaxInt
           /\ evicting.oldestBlockNumber \in 0 .. MaxUint
<1>1. Idle.pc # "scan"
  BY DEF Idle
<1>2. evicting \in ScanStates
  BY <1>1 DEF TypeOK
<1>3. QED
  BY <1>2 DEF ScanStates

\* Evict's write, once the key to delete is known to be a cached one or not.
LEMMA EvictStep ==
    ASSUME TypeOK, Evict
    PROVE  /\ CacheTypeOK'
           /\ DOMAIN cache' = (DOMAIN cache \ {evicting.evictKey}) \cup {evicting.block}
           /\ evicting' = Idle
<1>1. evicting.block \in Blocks /\ evicting.header \in Headers
  BY ScanFields DEF Evict
<1>2. Item(evicting.header, 1) \in Items
  BY <1>1, LFUCacheAssumption DEF Items, Item
<1>3. CacheTypeOK
  BY DEF TypeOK
<1>4. QED
  BY <1>1, <1>2, <1>3, PutType DEF Evict, Drop

LEMMA TypeStep == TypeOK /\ [Next]_vars => TypeOK'
<1> SUFFICES ASSUME TypeOK, [Next]_vars PROVE TypeOK'
  OBVIOUS
<1>a. CacheTypeOK /\ evicting \in {Idle} \cup ScanStates
  BY DEF TypeOK
<1>b. Idle.pc # "scan"
  BY DEF Idle
<1>1. ASSUME NEW b \in Blocks, Get(b) PROVE TypeOK'
  <2>1. PICK h : h \in Headers
    BY <1>1, <1>a DEF Get, GetHit, CacheTypeOK, Items
  <2>2. CacheTypeOK' /\ evicting' = Idle
    BY <1>1, <1>a, <2>1, AtomicSteps DEF Get
  <2>3. QED
    BY <2>2 DEF TypeOK
<1>2. ASSUME NEW b \in Blocks, NEW h \in Headers, Set(b, h) PROVE TypeOK'
  <2>1. CacheTypeOK' /\ evicting' = Idle
    BY <1>2, <1>a, AtomicSteps DEF Set
  <2>2. QED
    BY <2>1 DEF TypeOK
<1>3. ASSUME NEW b \in Blocks, NEW h \in Headers, SetFull(b, h) PROVE TypeOK'
  <2>1. evicting' \in ScanStates'
    BY <1>3, LFUCacheAssumption, MaxUintAssumption DEF SetFull, Scanning, ScanStates
  <2>2. QED
    BY <1>3, <1>a, <2>1 DEF SetFull, TypeOK, CacheTypeOK
<1>4. ASSUME NEW k \in evicting.todo, evicting.pc = "scan", Scan(k) PROVE TypeOK'
  <2>1. k \in Blocks /\ cache[k].frequency \in 1 .. MaxInt
    BY <1>4, <1>a, ScanFields DEF CacheTypeOK, Items
  <2>2. k \in 0 .. MaxUint
    BY <2>1, LFUCacheAssumption, MaxUintAssumption
  <2>3. evicting' \in ScanStates'
    BY <1>4, <2>1, <2>2, ScanFields DEF Scan, Scanning, ScanStates
  <2>4. QED
    BY <1>4, <1>a, <2>3 DEF Scan, TypeOK, CacheTypeOK
<1>5. ASSUME Evict PROVE TypeOK'
  BY <1>5, EvictStep DEF TypeOK
<1>6. CASE UNCHANGED vars
  BY <1>6, <1>a DEF vars, TypeOK, CacheTypeOK, ScanStates
<1>7. QED
  BY <1>1, <1>2, <1>3, <1>4, <1>5, <1>6 DEF Next

LEMMA TypeInit == Init => TypeOK
BY DEF Init, CacheInit, TypeOK, CacheTypeOK

\* Every reachable state of header_cache.go is well typed.
THEOREM TypeCorrect == Spec => []TypeOK
BY TypeInit, TypeStep, PTL DEF Spec

-----------------------------------------------------------------------------
(* The victim and the size. *)

Inv == TypeOK /\ CapacityRespected /\ ScanInv

\* The first item of the map always replaces the initial values of evict.
LEMMA FirstIsBetter ==
    ASSUME TypeOK, evicting.pc = "scan", NEW k \in evicting.todo,
           evicting.leastFreq = MaxInt, evicting.oldestBlockNumber = MaxUint
    PROVE  Better(k)
<1>1. k \in Blocks /\ cache[k].frequency \in 1 .. MaxInt
  BY ScanFields DEF TypeOK, CacheTypeOK, Items
<1>2. k < MaxUint
  BY <1>1, MaxUintAssumption
<1>3. QED
  BY <1>1, <1>2, LFUCacheAssumption DEF Better

\* One item of the map keeps what evict knows about those it has seen.
LEMMA ScanKeepsInv ==
    ASSUME Inv, evicting.pc = "scan", NEW k \in evicting.todo, Scan(k)
    PROVE  ScanInv'
<1> DEFINE e == evicting
           d == DOMAIN cache
<1>a. TypeOK /\ e.todo \subseteq d /\ cache' = cache
  BY ScanFields DEF Inv, Scan
<1>b. \A j \in d : j \in Nat /\ cache[j].frequency \in Nat
  BY <1>a, LFUCacheAssumption DEF TypeOK, CacheTypeOK, Items
<1>c. e.block \notin d /\ Full
  BY DEF Inv, ScanInv
<1>d. Full' = Full /\ \A j, m : Before(j, m)' = Before(j, m)
  BY <1>a DEF Full, Before
<1>1. CASE Better(k)
  <2>1. /\ evicting'.block = e.block
        /\ evicting'.todo = e.todo \ {k}
        /\ evicting'.evictKey = k
        /\ evicting'.leastFreq = cache[k].frequency
        /\ evicting'.oldestBlockNumber = k
    BY <1>1 DEF Scan, Scanning
  <2>2. \A j \in d \ evicting'.todo : Before(k, j)
    <3>1. Before(k, k)
      BY <1>a, <1>b DEF Before
    <3>2. ASSUME NEW j \in d \ e.todo PROVE Before(k, j)
      <4>1. /\ e.evictKey \in d
            /\ e.leastFreq = cache[e.evictKey].frequency
            /\ e.oldestBlockNumber = e.evictKey
            /\ Before(e.evictKey, j)
        BY <3>2 DEF Inv, ScanInv
      <4>2. QED
        BY <4>1, <3>2, <1>1, <1>a, <1>b DEF Before, Better
    <3>3. QED
      BY <2>1, <3>1, <3>2
  <2>3. QED
    BY <2>1, <2>2, <1>a, <1>c, <1>d DEF ScanInv
<1>2. CASE ~Better(k)
  <2>1. /\ evicting'.block = e.block
        /\ evicting'.todo = e.todo \ {k}
        /\ evicting'.evictKey = e.evictKey
        /\ evicting'.leastFreq = e.leastFreq
        /\ evicting'.oldestBlockNumber = e.oldestBlockNumber
    BY <1>2 DEF Scan, Scanning
  <2>2. /\ e.evictKey \in d \ e.todo
        /\ e.leastFreq = cache[e.evictKey].frequency
        /\ e.oldestBlockNumber = e.evictKey
        /\ \A j \in d \ e.todo : Before(e.evictKey, j)
    BY <1>2, <1>a, FirstIsBetter DEF Inv, ScanInv
  <2>3. Before(e.evictKey, k)
    BY <2>2, <1>2, <1>a, <1>b DEF Before, Better
  <2>4. \A j \in d \ evicting'.todo : Before(e.evictKey, j)
    BY <2>1, <2>2, <2>3
  <2>5. QED
    BY <2>1, <2>2, <2>4, <1>a, <1>c, <1>d DEF ScanInv
<1>3. QED
  BY <1>1, <1>2

\* When the loop is over evictKey is the victim the promise asks for.
LEMMA EvictsVictim ==
    ASSUME Inv, Evict
    PROVE  Victim(evicting.evictKey) /\ Full /\ evicting.block \notin DOMAIN cache
<1>1. Full /\ evicting.block \notin DOMAIN cache
  BY DEF Inv, ScanInv, Evict
<1>2. DOMAIN cache # {}
  BY <1>1, FS_EmptySet, LFUCacheAssumption DEF Full
<1>3. QED
  BY <1>1, <1>2 DEF Inv, ScanInv, Evict, Victim

LEMMA InvStep == Inv /\ [Next]_vars => Inv'
<1> SUFFICES ASSUME Inv, [Next]_vars PROVE Inv'
  OBVIOUS
<1>a. TypeOK /\ CacheTypeOK /\ CapacityRespected /\ TypeOK'
  BY TypeStep DEF Inv, TypeOK
<1>b. Idle.pc # "scan"
  BY DEF Idle
<1> DEFINE d == DOMAIN cache
<1>c. IsFiniteSet(d) /\ Cardinality(d) \in Nat /\ Cardinality(d) =< Capacity
  BY <1>a, FS_CardinalityType DEF CapacityRespected
<1>1. ASSUME NEW b \in Blocks, Get(b) PROVE Inv'
  <2>1. PICK h : h \in Headers
    BY <1>1, <1>a DEF Get, GetHit, CacheTypeOK, Items
  <2>2. DOMAIN cache' = d /\ evicting' = Idle
    BY <1>1, <1>a, <2>1, AtomicSteps DEF Get
  <2>3. QED
    BY <2>2, <1>a, <1>b DEF Inv, CapacityRespected, ScanInv
<1>2. ASSUME NEW b \in Blocks, NEW h \in Headers, Set(b, h) PROVE Inv'
  <2>1. evicting' = Idle
    BY <1>2 DEF Set
  <2>2. CapacityRespected'
    <3>1. CASE SetAgain(b, h)
      BY <3>1, <1>a, AtomicSteps DEF CapacityRespected
    <3>2. CASE SetNew(b, h)
      <4>1. DOMAIN cache' = d \cup {b} /\ b \notin d /\ ~(Cardinality(d) >= Capacity)
        BY <3>2, <1>a, AtomicSteps DEF SetNew, Full
      <4>2. IsFiniteSet(d \cup {b}) /\ Cardinality(d \cup {b}) = Cardinality(d) + 1
        BY <4>1, <1>c, FS_AddElement
      <4>3. QED
        BY <4>1, <4>2, <1>c, LFUCacheAssumption DEF CapacityRespected
    <3>3. QED
      BY <1>2, <3>1, <3>2 DEF Set
  <2>3. QED
    BY <2>1, <2>2, <1>a, <1>b DEF Inv, ScanInv
<1>3. ASSUME NEW b \in Blocks, NEW h \in Headers, SetFull(b, h) PROVE Inv'
  <2>1. /\ cache' = cache /\ b \notin d /\ Full
        /\ evicting'.block = b /\ evicting'.todo = d
        /\ evicting'.leastFreq = MaxInt /\ evicting'.oldestBlockNumber = MaxUint
    BY <1>3 DEF SetFull, Scanning
  <2>2. CapacityRespected' /\ Full'
    BY <2>1, <1>a DEF CapacityRespected, Full
  <2>3. QED
    BY <2>1, <2>2, <1>a DEF Inv, ScanInv
<1>4. ASSUME NEW k \in evicting.todo, evicting.pc = "scan", Scan(k) PROVE Inv'
  <2>1. ScanInv'
    BY <1>4, ScanKeepsInv
  <2>2. QED
    BY <1>4, <1>a, <2>1 DEF Scan, Inv, CapacityRespected
<1>5. ASSUME Evict PROVE Inv'
  <2> DEFINE v == evicting.evictKey
             b == evicting.block
  <2>1. v \in d /\ b \notin d
    BY <1>5, EvictsVictim DEF Victim
  <2>2. DOMAIN cache' = (d \ {v}) \cup {b} /\ evicting' = Idle
    BY <1>5, <1>a, EvictStep
  <2>3. IsFiniteSet(d \ {v}) /\ Cardinality(d \ {v}) = Cardinality(d) - 1
    BY <2>1, <1>c, FS_RemoveElement
  <2>4. /\ IsFiniteSet((d \ {v}) \cup {b})
        /\ Cardinality((d \ {v}) \cup {b}) = Cardinality(d \ {v}) + 1
    BY <2>1, <2>3, FS_AddElement
  <2>5. CapacityRespected'
    BY <2>2, <2>3, <2>4, <1>c, LFUCacheAssumption DEF CapacityRespected
  <2>6. QED
    BY <2>2, <2>5, <1>a, <1>b DEF Inv, ScanInv
<1>6. CASE UNCHANGED vars
  BY <1>6, <1>a DEF vars, Inv, CapacityRespected, ScanInv, Full, Before
<1>7. QED
  BY <1>1, <1>2, <1>3, <1>4, <1>5, <1>6 DEF Next

LEMMA InvInit == Init => Inv
<1> SUFFICES ASSUME Init PROVE Inv
  OBVIOUS
<1>1. DOMAIN cache = {} /\ evicting = Idle /\ TypeOK
  BY TypeInit DEF Init, CacheInit
<1>2. QED
  BY <1>1, FS_EmptySet, LFUCacheAssumption
     DEF Inv, CapacityRespected, ScanInv, Idle

LEMMA InvHolds == Spec => []Inv
BY InvInit, InvStep, PTL DEF Spec

(***************************************************************************)
(* The cache never holds more than gas_price_estimation_blocks headers     *)
(* (header_cache.go Set: evict when len(c.cache) >= c.capacity).           *)
(***************************************************************************)
THEOREM CacheIsBounded == Spec => []CapacityRespected
BY InvHolds, PTL DEF Inv

(***************************************************************************)
(* header_cache.go implements the atomic LFU cache: what evict deletes is  *)
(* the least frequently used header, the oldest of those on a tie,         *)
(* whatever order the map is walked in.                                    *)
(***************************************************************************)
THEOREM ImplementsLFUCache == Spec => CacheSpec
<1>1. Init => CacheInit
  BY DEF Init
<1>2. Inv /\ [Next]_vars => [CacheNext]_cache
  <2> SUFFICES ASSUME Inv, [Next]_vars PROVE CacheNext \/ cache' = cache
    OBVIOUS
  <2>1. ASSUME NEW b \in Blocks, Get(b) PROVE CacheNext
    <3>1. PICK h : h \in Headers
      BY <2>1 DEF Inv, TypeOK, Get, GetHit, CacheTypeOK, Items
    <3>2. QED
      BY <2>1, <3>1 DEF Get, CacheNext
  <2>2. ASSUME NEW b \in Blocks, NEW h \in Headers, Set(b, h) PROVE CacheNext
    BY <2>2 DEF Set, CacheNext
  <2>3. ASSUME Evict PROVE CacheNext
    <3>1. evicting.block \in Blocks /\ evicting.header \in Headers
      BY <2>3, ScanFields DEF Inv, Evict
    <3>2. SetEvict(evicting.block, evicting.header)
      BY <2>3, EvictsVictim DEF Evict, SetEvict, Victim
    <3>3. QED
      BY <3>1, <3>2 DEF CacheNext
  <2>4. QED
    BY <2>1, <2>2, <2>3 DEF Next, SetFull, Scan, vars
<1>3. QED
  BY <1>1, <1>2, InvHolds, PTL DEF Spec, CacheSpec

-----------------------------------------------------------------------------
(***************************************************************************)
(* The congestion metric, which reads its headers through the cache.       *)
(***************************************************************************)

\* Goroutines that have a header to get or to hand over.
Running == {b \in Blocks : fetcher[b] \in {"get", "fetch", "send", "failed"}}

\* The blocks whose headers have come through the collector.
Collected == {b \in Blocks : fetcher[b] = "done" /\ b # collector}

\* The goroutines of this call are being started, awaited or have been used.
Counting == pc \in {"loop", "wait"} \/ result = "ok"

MetricShape ==
    /\ lastBlock \in Blocks /\ last \in Nat /\ i \in Nat /\ wg \in Nat
    /\ fetcher \in [Blocks -> {"none", "get", "fetch", "send", "failed", "done"}]
    /\ collector \in Blocks \cup {0} /\ headers \in Seq(Blocks)
    /\ pc \in {"start", "head", "loop", "wait", "returned"}
    /\ result \in {"none", "ok", "error"} /\ (result # "none" => pc = "returned")

Quiet ==
    /\ pc \in {"start", "head"} =>
          fetcher = NoFetchers /\ collector = 0 /\ headers = <<>> /\ wg = 0
    /\ pc = "head" => last \in Blocks

\* The WaitGroup counts the goroutines and the header in the collector's hands.
WaitGroup ==
    /\ collector # 0 => fetcher[collector] = "done"
    /\ wg = Cardinality(Running) + (IF collector = 0 THEN 0 ELSE 1)
    /\ pc = "returned" => wg = 0

\* One goroutine for each block from last down to the loop variable.
Started ==
    /\ \A b \in Blocks : fetcher[b] # "none" => b > 1
    /\ Counting =>
          /\ last \in Blocks /\ i =< last
          /\ \A b \in Blocks : fetcher[b] # "none" <=> (i < b /\ b =< last)
          /\ i < last => last >= blocksNumber
    /\ pc = "wait" \/ result = "ok" => ~LoopGoesOn

\* The slice has each collected header, after that of the last block.
Slice ==
    /\ \A b \in Collected : \E n \in 2 .. Len(headers) : headers[n] = b
    /\ Counting => Len(headers) = Cardinality(Collected) + 1
    /\ result = "ok" => Len(headers) >= MinBlockCount

MetricInv == MetricShape /\ Quiet /\ WaitGroup /\ Started /\ Slice

LEMMA ModuloOfSum == \A w \in Nat \ {0}, x \in Nat : x < w => x % w = x /\ (x + w) % w = x
  OBVIOUS

LEMMA FiniteBlocks ==
    \A S \in SUBSET Blocks : IsFiniteSet(S) /\ Cardinality(S) \in Nat
<1>1. Blocks \subseteq 0 .. WordSize - 1
  BY LFUCacheAssumption, CongestionAssumption
<1>2. IsFiniteSet(0 .. WordSize - 1)
  BY CongestionAssumption, FS_Interval
<1>3. QED
  BY <1>1, <1>2, FS_Subset, FS_CardinalityType

\* Where the loop of the caller stops: it is not entered on a chain that is
\* shorter than blocksNumber, because the subtraction wraps.
LEMMA LoopBound ==
    ASSUME last \in Blocks
    PROVE  LowerBound = IF last >= blocksNumber THEN last - blocksNumber
                                                ELSE last - blocksNumber + WordSize
<1>1. last \in Nat /\ last < WordSize /\ blocksNumber \in Nat /\ blocksNumber < WordSize
      /\ WordSize \in Nat \ {0}
  BY LFUCacheAssumption, CongestionAssumption
<1>2. CASE last >= blocksNumber
  <2>1. last - blocksNumber \in Nat /\ last - blocksNumber < WordSize
    BY <1>1, <1>2
  <2>2. QED
    BY <1>1, <1>2, <2>1, ModuloOfSum DEF LowerBound
<1>3. CASE ~(last >= blocksNumber)
  <2>1. last - blocksNumber + WordSize \in Nat /\ last - blocksNumber + WordSize < WordSize
    BY <1>1, <1>3
  <2>2. QED
    BY <1>1, <1>3, <2>1, ModuloOfSum DEF LowerBound
<1>4. QED
  BY <1>2, <1>3

LEMMA MetricStarts == MetricInit => MetricInv
<1> SUFFICES ASSUME MetricInit PROVE MetricInv
  OBVIOUS
<1>1. Running = {} /\ Collected = {}
  BY DEF MetricInit, Running, Collected, NoFetchers
<1>2. Cardinality(Running) = 0
  BY <1>1, FS_EmptySet
<1>3. MetricShape
  BY DEF MetricInit, MetricShape, NoFetchers
<1>4. Quiet
  BY DEF MetricInit, Quiet
<1>5. WaitGroup /\ Started
  BY <1>2 DEF MetricInit, WaitGroup, Started, Counting, NoFetchers
<1>6. Slice
  BY <1>1 DEF MetricInit, Slice, Counting
<1>7. QED
  BY <1>3, <1>4, <1>5, <1>6 DEF MetricInv

\* The caller fails before it has started a goroutine.
LEMMA FailsEarly ==
    ASSUME MetricInv, pc \in {"start", "head"}, pc' = "returned", result' = "error",
           UNCHANGED <<lastBlock, call>>
    PROVE  MetricInv'
<1> USE DEF call
<1>1. Running' = Running /\ Collected' = Collected
  BY DEF Running, Collected
<1>2. MetricShape' /\ Quiet'
  BY DEF MetricInv, MetricShape, Quiet
<1>3. WaitGroup'
  BY <1>1 DEF MetricInv, Quiet, WaitGroup
<1>4. Started' /\ Slice'
  BY <1>1 DEF MetricInv, Started, Slice, Counting
<1>5. QED
  BY <1>2, <1>3, <1>4 DEF MetricInv

LEMMA HeadKnown ==
    ASSUME MetricInv, BlockNumber
    PROVE  MetricInv'
<1>1. /\ pc = "start" /\ pc' = "head" /\ last' = lastBlock
      /\ UNCHANGED <<lastBlock, i, wg, fetcher, collector, headers, result>>
  BY DEF BlockNumber
<1>2. Running' = Running /\ Collected' = Collected
  BY <1>1 DEF Running, Collected
<1>3. last' \in Nat /\ last' \in Blocks
  BY <1>1, LFUCacheAssumption DEF MetricInv, MetricShape
<1>4. MetricShape' /\ Quiet'
  BY <1>1, <1>3 DEF MetricInv, MetricShape, Quiet
<1>5. WaitGroup'
  BY <1>1, <1>2 DEF MetricInv, WaitGroup
<1>6. result = "none"
  BY <1>1 DEF MetricInv, MetricShape
<1>7. Started' /\ Slice'
  BY <1>1, <1>2, <1>6 DEF MetricInv, Started, Slice, Counting
<1>8. QED
  BY <1>4, <1>5, <1>7 DEF MetricInv

LEMMA HeadFetched ==
    ASSUME MetricInv, LastHeader
    PROVE  MetricInv'
<1>1. /\ pc = "head" /\ pc' = "loop" /\ headers' = <<last>> /\ i' = last
      /\ UNCHANGED <<lastBlock, last, wg, fetcher, collector, result>>
  BY DEF LastHeader
<1>2. /\ last \in Blocks /\ last \in Nat /\ result = "none"
      /\ fetcher = NoFetchers /\ collector = 0 /\ wg = 0
  BY <1>1 DEF MetricInv, MetricShape, Quiet
<1>3. Running' = {} /\ Collected' = {}
  BY <1>1, <1>2 DEF Running, Collected, NoFetchers
<1>4. Cardinality(Running') = 0 /\ Cardinality(Collected') = 0
  BY <1>3, FS_EmptySet
<1>5. MetricShape' /\ Quiet'
  BY <1>1, <1>2 DEF MetricInv, MetricShape, Quiet
<1>6. WaitGroup'
  BY <1>1, <1>2, <1>4 DEF WaitGroup
<1>7. Started'
  BY <1>1, <1>2 DEF Started, NoFetchers
<1>8. Slice'
  BY <1>1, <1>2, <1>3, <1>4 DEF Slice
<1>9. QED
  BY <1>5, <1>6, <1>7, <1>8 DEF MetricInv

LEMMA GoroutineStarted ==
    ASSUME MetricInv, SpawnFetcher
    PROVE  MetricInv'
<1>1. /\ pc = "loop" /\ LoopGoesOn /\ wg' = wg + 1 /\ i' = i - 1
      /\ fetcher' = [fetcher EXCEPT ![i] = "get"]
      /\ UNCHANGED <<lastBlock, pc, last, collector, headers, result>>
  BY DEF SpawnFetcher
<1>2. /\ last \in Blocks /\ last \in Nat /\ i \in Nat /\ i =< last /\ i > 1
      /\ result = "none" /\ wg \in Nat
      /\ fetcher \in [Blocks -> {"none", "get", "fetch", "send", "failed", "done"}]
  BY <1>1 DEF MetricInv, MetricShape, Started, Counting, LoopGoesOn
<1>3. i \in Blocks /\ fetcher[i] = "none"
  <2>1. i \in Blocks
    BY <1>2, CongestionAssumption
  <2>2. QED
    BY <1>1, <1>2, <2>1 DEF MetricInv, Started, Counting
<1>4. fetcher'[i] = "get" /\ \A b \in Blocks \ {i} : fetcher'[b] = fetcher[b]
  BY <1>1, <1>2, <1>3
<1>5. Running' = Running \cup {i} /\ i \notin Running /\ Collected' = Collected
  BY <1>1, <1>3, <1>4 DEF Running, Collected
<1>6. Cardinality(Running') = Cardinality(Running) + 1 /\ Cardinality(Running) \in Nat
  <2>1. IsFiniteSet(Running) /\ Cardinality(Running) \in Nat
    BY FiniteBlocks DEF Running
  <2>2. QED
    BY <1>5, <2>1, FS_AddElement
<1>7. MetricShape' /\ Quiet'
  <2>1. i' \in Nat /\ wg' \in Nat
    BY <1>1, <1>2
  <2>2. fetcher' \in [Blocks -> {"none", "get", "fetch", "send", "failed", "done"}]
    BY <1>1, <1>2
  <2>3. QED
    BY <1>1, <2>1, <2>2 DEF MetricInv, MetricShape, Quiet
<1>8. WaitGroup'
  <2>1. collector # 0 => fetcher'[collector] = "done"
    BY <1>1, <1>3, <1>4 DEF MetricInv, WaitGroup, MetricShape
  <2>2. wg' = Cardinality(Running') + (IF collector = 0 THEN 0 ELSE 1)
    BY <1>1, <1>6 DEF MetricInv, WaitGroup
  <2>3. QED
    BY <1>1, <2>1, <2>2 DEF WaitGroup
<1>9. last >= blocksNumber
  BY <1>1, <1>2, LoopBound, LFUCacheAssumption, CongestionAssumption DEF LoopGoesOn
<1>10. Started'
  <2>1. \A b \in Blocks : b \in Nat /\ (fetcher[b] # "none" <=> (i < b /\ b =< last))
    BY <1>1, LFUCacheAssumption DEF MetricInv, Started, Counting
  <2>2. \A b \in Blocks : fetcher'[b] # "none" <=> (i - 1 < b /\ b =< last)
    BY <1>2, <1>3, <1>4, <2>1
  <2>3. \A b \in Blocks : fetcher'[b] # "none" => b > 1
    BY <1>2, <1>4 DEF MetricInv, Started
  <2>4. QED
    BY <1>1, <1>2, <1>9, <2>2, <2>3 DEF Started, Counting
<1>11. Slice'
  BY <1>1, <1>2, <1>5 DEF MetricInv, Slice, Counting
<1>12. QED
  BY <1>7, <1>8, <1>10, <1>11 DEF MetricInv

LEMMA LoopLeft ==
    ASSUME MetricInv, LoopEnds
    PROVE  MetricInv'
<1>1. /\ pc = "loop" /\ ~LoopGoesOn /\ pc' = "wait" /\ result = "none"
      /\ UNCHANGED <<lastBlock, last, i, wg, fetcher, collector, headers, result>>
  BY DEF LoopEnds, call, MetricInv, MetricShape
<1>2. Running' = Running /\ Collected' = Collected /\ ~LoopGoesOn'
  BY <1>1 DEF Running, Collected, LoopGoesOn, LowerBound
<1>3. MetricShape' /\ Quiet'
  BY <1>1 DEF MetricInv, MetricShape, Quiet
<1>4. WaitGroup'
  BY <1>1, <1>2 DEF MetricInv, WaitGroup
<1>5. Started' /\ Slice'
  BY <1>1, <1>2 DEF MetricInv, Started, Slice, Counting
<1>6. QED
  BY <1>3, <1>4, <1>5 DEF MetricInv

LEMMA MetricComputed ==
    ASSUME MetricInv, Compute
    PROVE  MetricInv'
<1>1. /\ pc = "wait" /\ wg = 0 /\ pc' = "returned"
      /\ result' = (IF Len(headers) < MinBlockCount THEN "error" ELSE "ok")
      /\ UNCHANGED <<lastBlock, last, i, wg, fetcher, collector, headers>>
  BY DEF Compute, Return, call
<1>2. Running' = Running /\ Collected' = Collected /\ LoopGoesOn' = LoopGoesOn
  BY <1>1 DEF Running, Collected, LoopGoesOn, LowerBound
<1>3. MetricShape' /\ Quiet'
  BY <1>1 DEF MetricInv, MetricShape, Quiet
<1>4. WaitGroup'
  BY <1>1, <1>2 DEF MetricInv, WaitGroup
<1>5. Started'
  BY <1>1, <1>2 DEF MetricInv, Started, Counting
<1>6. Slice'
  <2>1. Len(headers) \in Nat /\ MinBlockCount \in Nat
    BY CongestionAssumption DEF MetricInv, MetricShape, MinBlockCount
  <2>2. result' = "ok" => Len(headers) >= MinBlockCount
    BY <1>1, <2>1
  <2>3. MinBlockCount' = MinBlockCount
    BY DEF MinBlockCount
  <2>4. QED
    BY <1>1, <1>2, <2>2, <2>3 DEF MetricInv, Slice, Counting
<1>7. QED
  BY <1>3, <1>4, <1>5, <1>6 DEF MetricInv

LEMMA CalledAgain ==
    ASSUME CallAgain
    PROVE  MetricInv'
<1>1. /\ lastBlock' \in Blocks /\ pc' = "start" /\ last' = 0 /\ i' = 0 /\ wg' = 0
      /\ fetcher' = NoFetchers /\ collector' = 0 /\ headers' = <<>> /\ result' = "none"
  BY DEF CallAgain
<1>2. Running' = {} /\ Collected' = {}
  BY <1>1 DEF Running, Collected, NoFetchers
<1>3. Cardinality(Running') = 0
  BY <1>2, FS_EmptySet
<1>4. MetricShape' /\ Quiet'
  BY <1>1 DEF MetricShape, Quiet, NoFetchers
<1>5. WaitGroup' /\ Started'
  BY <1>1, <1>3 DEF WaitGroup, Started, Counting, NoFetchers
<1>6. Slice'
  BY <1>1, <1>2 DEF Slice, Counting
<1>7. QED
  BY <1>4, <1>5, <1>6 DEF MetricInv

\* A goroutine gets its header, or fails and is awaited for ever.
LEMMA FetcherMoves ==
    ASSUME MetricInv, NEW b \in Blocks, NEW from \in {"get", "fetch"},
           NEW to \in {"send", "fetch", "failed"}, FetcherGoes(b, from, to)
    PROVE  MetricInv'
<1>1. /\ fetcher[b] = from /\ fetcher' = [fetcher EXCEPT ![b] = to]
      /\ UNCHANGED <<lastBlock, pc, last, i, wg, collector, headers, result>>
  BY DEF FetcherGoes
<1>2. fetcher'[b] = to /\ \A k \in Blocks \ {b} : fetcher'[k] = fetcher[k]
  BY <1>1 DEF MetricInv, MetricShape
<1>3. Running' = Running /\ Collected' = Collected
  BY <1>1, <1>2 DEF Running, Collected
<1>4. MetricShape'
  BY <1>1 DEF MetricInv, MetricShape
<1>5. Quiet'
  BY <1>1 DEF MetricInv, Quiet, NoFetchers
<1>6. WaitGroup'
  BY <1>1, <1>2, <1>3 DEF MetricInv, MetricShape, WaitGroup
<1>7. Started'
  <2>1. \A k \in Blocks : fetcher'[k] # "none" <=> fetcher[k] # "none"
    BY <1>1, <1>2
  <2>2. LoopGoesOn' = LoopGoesOn
    BY <1>1 DEF LoopGoesOn, LowerBound
  <2>3. QED
    BY <1>1, <2>1, <2>2 DEF MetricInv, Started, Counting
<1>8. Slice'
  <2>1. MinBlockCount' = MinBlockCount
    BY DEF MinBlockCount
  <2>2. QED
    BY <1>1, <1>3, <2>1 DEF MetricInv, Slice, Counting
<1>9. QED
  BY <1>4, <1>5, <1>6, <1>7, <1>8 DEF MetricInv

LEMMA HeaderReceived ==
    ASSUME MetricInv, NEW b \in Blocks, Receive(b)
    PROVE  MetricInv'
<1>1. /\ fetcher[b] = "send" /\ collector = 0 /\ collector' = b
      /\ fetcher' = [fetcher EXCEPT ![b] = "done"]
      /\ UNCHANGED <<lastBlock, pc, last, i, wg, headers, result>>
  BY DEF Receive
<1>2. fetcher'[b] = "done" /\ \A k \in Blocks \ {b} : fetcher'[k] = fetcher[k]
  BY <1>1 DEF MetricInv, MetricShape
<1>3. b # 0 /\ b \in Nat
  BY <1>1, LFUCacheAssumption DEF MetricInv, Started
<1>4. Running' = Running \ {b} /\ b \in Running
  BY <1>1, <1>2 DEF Running
<1>5. Collected' = Collected
  <2>1. fetcher[0] # "done" \/ 0 \notin Blocks
    BY DEF MetricInv, Started
  <2>2. QED
    BY <1>1, <1>2, <2>1 DEF Collected
<1>6. Cardinality(Running') = Cardinality(Running) - 1 /\ Cardinality(Running) \in Nat
  <2>1. IsFiniteSet(Running) /\ Cardinality(Running) \in Nat
    BY FiniteBlocks DEF Running
  <2>2. QED
    BY <1>4, <2>1, FS_RemoveElement
<1>7. MetricShape'
  BY <1>1 DEF MetricInv, MetricShape
<1>8. Quiet'
  BY <1>1 DEF MetricInv, Quiet, NoFetchers
<1>9. WaitGroup'
  BY <1>1, <1>2, <1>3, <1>6 DEF MetricInv, WaitGroup
<1>10. Started'
  <2>1. \A k \in Blocks : fetcher'[k] # "none" <=> fetcher[k] # "none"
    BY <1>1, <1>2
  <2>2. LoopGoesOn' = LoopGoesOn
    BY <1>1 DEF LoopGoesOn, LowerBound
  <2>3. QED
    BY <1>1, <2>1, <2>2 DEF MetricInv, Started, Counting
<1>11. Slice'
  <2>1. MinBlockCount' = MinBlockCount
    BY DEF MinBlockCount
  <2>2. QED
    BY <1>1, <1>5, <2>1 DEF MetricInv, Slice, Counting
<1>12. QED
  BY <1>7, <1>8, <1>9, <1>10, <1>11 DEF MetricInv

LEMMA HeaderCollected ==
    ASSUME MetricInv, Collect
    PROVE  MetricInv'
<1>1. /\ collector # 0 /\ headers' = Append(headers, collector) /\ wg' = wg - 1
      /\ collector' = 0 /\ UNCHANGED <<lastBlock, pc, last, i, fetcher, result>>
  BY DEF Collect
<1>2. /\ collector \in Blocks /\ collector \in Nat /\ fetcher[collector] = "done"
      /\ headers \in Seq(Blocks) /\ wg \in Nat
  BY <1>1, LFUCacheAssumption DEF MetricInv, MetricShape, WaitGroup
<1>3. Running' = Running /\ Cardinality(Running) \in Nat
  BY <1>1, FiniteBlocks DEF Running
<1>4. wg = Cardinality(Running) + 1 /\ pc # "returned" /\ result = "none"
  BY <1>1, <1>2, <1>3 DEF MetricInv, MetricShape, WaitGroup
<1>5. Collected' = Collected \cup {collector} /\ collector \notin Collected
  <2>1. fetcher[0] # "done" \/ 0 \notin Blocks
    BY DEF MetricInv, Started
  <2>2. QED
    BY <1>1, <1>2, <2>1 DEF Collected
<1>6. Cardinality(Collected') = Cardinality(Collected) + 1 /\ Cardinality(Collected) \in Nat
  <2>1. IsFiniteSet(Collected) /\ Cardinality(Collected) \in Nat
    BY FiniteBlocks DEF Collected
  <2>2. QED
    BY <1>5, <2>1, FS_AddElement
<1>7. /\ headers' \in Seq(Blocks) /\ Len(headers') = Len(headers) + 1 /\ Len(headers) \in Nat
      /\ headers'[Len(headers) + 1] = collector
      /\ \A n \in 1 .. Len(headers) : headers'[n] = headers[n]
  BY <1>1, <1>2
<1>8. MetricShape'
  BY <1>1, <1>2, <1>3, <1>4, <1>7 DEF MetricInv, MetricShape
<1>9. pc \in {"loop", "wait"}
  BY <1>1, <1>4 DEF MetricInv, MetricShape, Quiet
<1>10. Quiet'
  BY <1>1, <1>9 DEF Quiet
<1>11. WaitGroup'
  BY <1>1, <1>3, <1>4 DEF WaitGroup
<1>12. Started'
  BY <1>1, <1>4 DEF MetricInv, Started, Counting, LoopGoesOn, LowerBound
<1>13. Slice'
  <2>1. Len(headers) >= 1
    BY <1>6, <1>7, <1>9 DEF MetricInv, Slice, Counting
  <2>2. \A b \in Collected : \E n \in 2 .. Len(headers') : headers'[n] = b
    <3> SUFFICES ASSUME NEW b \in Collected PROVE \E n \in 2 .. Len(headers') : headers'[n] = b
      OBVIOUS
    <3>1. PICK n \in 2 .. Len(headers) : headers[n] = b
      BY DEF MetricInv, Slice
    <3>2. n \in 2 .. Len(headers') /\ headers'[n] = b
      BY <1>7, <3>1
    <3>3. QED
      BY <3>2
  <2>3. Len(headers) + 1 \in 2 .. Len(headers')
    BY <1>7, <2>1
  <2>4. \A b \in Collected' : \E n \in 2 .. Len(headers') : headers'[n] = b
    BY <1>5, <1>7, <2>2, <2>3
  <2>5. Len(headers') = Cardinality(Collected') + 1
    BY <1>6, <1>7, <1>9 DEF MetricInv, Slice, Counting
  <2>6. QED
    BY <1>1, <1>4, <2>4, <2>5 DEF Slice
<1>14. QED
  BY <1>8, <1>10, <1>11, <1>12, <1>13 DEF MetricInv

LEMMA MetricStep == MetricInv /\ [MetricNext]_metricVars => MetricInv'
<1> SUFFICES ASSUME MetricInv, [MetricNext]_metricVars PROVE MetricInv'
  OBVIOUS
<1>1. CASE Caller
  <2>1. CASE StartFails \/ LastHeaderFails
    BY <2>1, FailsEarly DEF StartFails, LastHeaderFails, Return
  <2>2. QED
    BY <1>1, <2>1, HeadKnown, HeadFetched, GoroutineStarted, LoopLeft, MetricComputed DEF Caller
<1>2. CASE CallAgain
  BY <1>2, CalledAgain
<1>3. ASSUME NEW b \in Blocks, Fetcher(b) PROVE MetricInv'
  <2>1. CASE Receive(b)
    BY <2>1, HeaderReceived
  <2>2. CASE GetCached(b) \/ GetMisses(b) \/ Fetch(b) \/ FetchError(b)
    BY <2>2, FetcherMoves DEF GetCached, GetMisses, Fetch, FetchError
  <2>3. QED
    BY <1>3, <2>1, <2>2 DEF Fetcher
<1>4. CASE Collect
  BY <1>4, HeaderCollected
<1>5. CASE UNCHANGED metricVars
  <2>1. UNCHANGED <<lastBlock, pc, last, i, wg, fetcher, collector, headers, result>>
    BY <1>5 DEF metricVars, call
  <2>2. Running' = Running /\ Collected' = Collected
    BY <2>1 DEF Running, Collected
  <2>3. MetricShape' /\ Quiet'
    BY <2>1 DEF MetricInv, MetricShape, Quiet
  <2>4. WaitGroup' /\ Slice'
    BY <2>1, <2>2 DEF MetricInv, WaitGroup, Slice, Counting, MinBlockCount
  <2>5. Started'
    BY <2>1 DEF MetricInv, Started, Counting, LoopGoesOn, LowerBound
  <2>6. QED
    BY <2>3, <2>4, <2>5 DEF MetricInv
<1>6. QED
  BY <1>1, <1>2, <1>3, <1>4, <1>5 DEF MetricNext

LEMMA MetricInvHolds == MetricSpec => []MetricInv
  BY MetricStarts, MetricStep, PTL DEF MetricSpec

\* Once the WaitGroup is at 0, no goroutine and no header is under way.
LEMMA NothingUnderway ==
    ASSUME MetricInv, wg = 0
    PROVE  collector = 0 /\ Running = {}
<1>1. Cardinality(Running) \in Nat /\ IsFiniteSet(Running)
  BY FiniteBlocks DEF Running
<1>2. collector = 0 /\ Cardinality(Running) = 0
  BY <1>1 DEF MetricInv, WaitGroup
<1>3. QED
  BY <1>1, <1>2, FS_EmptySet

(***************************************************************************)
(* CalculateNetworkCongestionMetric computes the metric only when every    *)
(* goroutine has handed over its header and the collector has put it into  *)
(* the slice, for any number of blocks and any order of the goroutines.    *)
(***************************************************************************)
THEOREM MetricSeesAllHeaders == MetricSpec => []HeadersComplete
<1>1. MetricInv => HeadersComplete
  <2> SUFFICES ASSUME MetricInv, pc = "returned"
               PROVE  /\ collector = 0
                      /\ \A b \in Blocks : fetcher[b] \in {"none", "done"}
                      /\ \A b \in Blocks : fetcher[b] = "done" =>
                            \E n \in 2 .. Len(headers) : headers[n] = b
    BY DEF HeadersComplete
  <2>1. collector = 0 /\ Running = {}
    BY NothingUnderway DEF MetricInv, WaitGroup
  <2>2. \A b \in Blocks : fetcher[b] \in {"none", "done"}
    BY <2>1 DEF Running, MetricInv, MetricShape
  <2>3. \A b \in Blocks : fetcher[b] = "done" => b \in Collected
    BY <2>1 DEF Collected, MetricInv, Started
  <2>4. QED
    BY <2>1, <2>2, <2>3 DEF MetricInv, Slice
<1>2. QED
  BY <1>1, MetricInvHolds, PTL

LEMMA FourFifths == \A n \in Nat : n % 5 = 0 => 10 * ((n * 8) \div 10) = 8 * n
  OBVIOUS

(***************************************************************************)
(* The metric is computed from at least 80% of gas_price_estimation_blocks *)
(* different blocks, although the header of the last block is counted      *)
(* twice, the loop leaves out blocks 0 and 1 and its bound wraps on a      *)
(* short chain; for every multiple of 5.                                   *)
(***************************************************************************)
THEOREM MetricHasEnoughBlocks ==
    ASSUME blocksNumber % 5 = 0
    PROVE  MetricSpec => []EnoughBlocks
<1>1. MetricInv => EnoughBlocks
  <2> SUFFICES ASSUME MetricInv, result = "ok"
               PROVE  10 * Cardinality({headers[n] : n \in DOMAIN headers}) >= 8 * blocksNumber
    BY DEF EnoughBlocks
  <2> DEFINE seen == {headers[n] : n \in DOMAIN headers}
  <2>1. collector = 0 /\ Running = {}
    BY NothingUnderway DEF MetricInv, MetricShape, WaitGroup
  <2>2. /\ last \in Blocks /\ last \in Nat /\ i \in Nat /\ i =< last /\ ~LoopGoesOn
        /\ (i < last => last >= blocksNumber) /\ headers \in Seq(Blocks)
        /\ \A b \in Blocks : fetcher[b] # "none" <=> (i < b /\ b =< last)
    BY DEF MetricInv, MetricShape, Started, Counting
  <2>3. blocksNumber \in Nat /\ blocksNumber >= 5 /\ WordSize \in Nat
        /\ blocksNumber < WordSize /\ last < WordSize
    BY <2>2, CongestionAssumption
  <2>4. Collected = (i + 1) .. last
    <3>1. \A b \in Blocks : b \in Collected <=> fetcher[b] # "none"
      BY <2>1 DEF Running, Collected, MetricInv, MetricShape, Started
    <3>2. (i + 1) .. last \subseteq Blocks /\ Blocks \subseteq Nat
      BY <2>2, CongestionAssumption, LFUCacheAssumption
    <3>3. Collected \subseteq (i + 1) .. last
      <4> SUFFICES ASSUME NEW b \in Collected PROVE b \in (i + 1) .. last
        OBVIOUS
      <4>1. b \in Blocks /\ b \in Nat /\ i < b /\ b =< last
        BY <2>2, <3>1, <3>2 DEF Collected
      <4>2. QED
        BY <2>2, <4>1
    <3>4. (i + 1) .. last \subseteq Collected
      <4> SUFFICES ASSUME NEW b \in (i + 1) .. last PROVE b \in Collected
        OBVIOUS
      <4>1. b \in Blocks /\ i < b /\ b =< last
        BY <2>2, <3>2
      <4>2. QED
        BY <2>2, <3>1, <4>1
    <3>5. QED
      BY <3>3, <3>4
  <2>5. Cardinality(Collected) = last - i
    <3>1. Cardinality((i + 1) .. last) = IF i + 1 > last THEN 0 ELSE last - (i + 1) + 1
      <4>1. i + 1 \in Int /\ last \in Int
        BY <2>2
      <4>2. QED
        BY <4>1, FS_Interval
    <3>2. QED
      BY <2>2, <2>4, <3>1
  <2>6. Collected \subseteq seen
    <3> SUFFICES ASSUME NEW b \in Collected PROVE b \in seen
      OBVIOUS
    <3>1. PICK n \in 2 .. Len(headers) : headers[n] = b
      BY DEF MetricInv, Slice
    <3>2. n \in DOMAIN headers
      BY <2>2, <3>1
    <3>3. QED
      BY <3>1, <3>2
  <2>7. IsFiniteSet(seen)
    <3>1. seen \subseteq Blocks
      BY <2>2
    <3>2. QED
      BY <3>1, FiniteBlocks
  <2>8. Cardinality(seen) \in Nat /\ Cardinality(Collected) =< Cardinality(seen)
    BY <2>6, <2>7, FS_Subset, FS_CardinalityType
  <2>9. Len(headers) = last - i + 1 /\ Len(headers) >= MinBlockCount
    BY <2>5 DEF MetricInv, Slice, Counting
  <2>10. 10 * MinBlockCount = 8 * blocksNumber /\ MinBlockCount \in Nat
    BY <2>3, FourFifths DEF MinBlockCount
  <2>11. 10 * (last - i) >= 8 * blocksNumber
    <3>1. i < last
      BY <2>2, <2>3, <2>9, <2>10
    <3>2. LowerBound = last - blocksNumber /\ last >= blocksNumber
      BY <2>2, <3>1, LoopBound
    <3>3. i =< last - blocksNumber \/ i =< 1
      BY <2>2, <2>3, <3>2 DEF LoopGoesOn
    <3>4. QED
      BY <2>2, <2>3, <3>2, <3>3
  <2>12. QED
    BY <2>2, <2>3, <2>5, <2>8, <2>11
<1>2. QED
  BY <1>1, MetricInvHolds, PTL
=============================================================================
