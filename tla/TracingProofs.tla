---------------------------- MODULE TracingProofs ----------------------------
(***************************************************************************)
(* Theorems about the decoding and the tracing of a transaction, for any   *)
(* events, selectors, call trees and faults in the traces.                 *)
(***************************************************************************)
EXTENDS Tracing, FiniteSetTheorems, WellFoundedInduction, TLAPS

-----------------------------------------------------------------------------
(***************************************************************************)
(* Facts about numbers and finite sets.  A non-empty set of numbers has a  *)
(* least member: what is shown by induction elsewhere is shown here by     *)
(* looking at the least number for which it fails.                         *)
(***************************************************************************)
LEMMA LeastNumber ==
  ASSUME NEW S \in SUBSET Nat, S # {}
  PROVE  \E m \in S : \A n \in S : m =< n
<1> DEFINE R == OpToRel(<, Nat)
<1>1. R = {ss \in Nat \X Nat : ss[1] < ss[2]}
  BY DEF OpToRel
<1>2. IsWellFoundedOn(R, Nat)
  BY NatLessThanWellFounded
<1> HIDE DEF R
<1>3. PICK m \in S : \A y \in S : ~(<<y, m>> \in R)
  BY <1>2, WFMin
<1>4. ASSUME NEW n \in S PROVE m =< n
  <2>1. ~(<<n, m>> \in R) BY <1>3
  <2>2. n \in Nat /\ m \in Nat OBVIOUS
  <2> QED BY <1>1, <2>1, <2>2
<1> QED BY <1>4

LEMMA MinIsLeast ==
  ASSUME NEW S \in SUBSET Nat, S # {}
  PROVE  Min(S) \in S /\ \A n \in S : Min(S) =< n
  BY LeastNumber, Zenon DEF Min

LEMMA MinUnique ==
  ASSUME NEW S \in SUBSET Nat, NEW m \in S, \A n \in S : m =< n
  PROVE  Min(S) = m
<1>1. Min(S) \in S /\ \A n \in S : Min(S) =< n
  BY MinIsLeast
<1>2. Min(S) \in Nat /\ m \in Nat /\ Min(S) =< m /\ m =< Min(S)
  BY <1>1
<1> QED BY <1>2

\* The largest member is the one that is least far below a bound.
LEMMA MaxIsLargest ==
  ASSUME NEW S \in SUBSET Nat, S # {}, NEW b \in Nat, \A n \in S : n =< b
  PROVE  Max(S) \in S /\ \A n \in S : Max(S) >= n
<1> DEFINE D == {d \in Nat : b - d \in S}
<1>1. PICK x \in S : TRUE
  OBVIOUS
<1>2. b - x \in D
  BY b - (b - x) = x
<1>3. PICK d \in D : \A e \in D : d =< e
  BY <1>2, LeastNumber, D # {}, D \in SUBSET Nat
<1>4. ASSUME NEW n \in S PROVE b - d >= n
  <2>1. n \in Nat /\ n =< b
    OBVIOUS
  <2>2. b - n \in Nat /\ b - (b - n) = n
    BY <2>1
  <2>3. d =< b - n
    BY <2>2, <1>3
  <2> QED BY <2>1, <2>3, d \in Nat
<1>5. b - d \in S
  OBVIOUS
<1>6. \E m \in S : \A n \in S : m >= n
  BY <1>4, <1>5
<1> QED BY <1>6, Zenon DEF Max

LEMMA MaxUnique ==
  ASSUME NEW S \in SUBSET Nat, NEW m \in S, \A n \in S : n =< m
  PROVE  Max(S) = m
<1>1. Max(S) \in S /\ \A n \in S : Max(S) >= n
  BY MaxIsLargest, m \in Nat
<1>2. Max(S) \in Nat /\ m \in Nat /\ Max(S) =< m /\ m =< Max(S)
  BY <1>1
<1> QED BY <1>2

\* InOrder is made of the members of its set: the ranks of the members are
\* different, so every number up to the size of the set is the rank of one.
LEMMA RankReached ==
  ASSUME NEW S \in SUBSET Nat, IsFiniteSet(S), NEW j \in 1 .. Cardinality(S)
  PROVE  \E i \in S : Cardinality({k \in S : k =< i}) = j
<1> DEFINE n == Cardinality(S)
           Upto(i) == {k \in S : k =< i}
           rank == [i \in S |-> Cardinality(Upto(i))]
<1>1. n \in Nat /\ IsFiniteSet(1 .. n) /\ Cardinality(1 .. n) = n
  BY FS_CardinalityType, FS_Interval
<1>2. ASSUME NEW i \in S
      PROVE  IsFiniteSet(Upto(i)) /\ Cardinality(Upto(i)) \in 1 .. n
  <2>1. IsFiniteSet(Upto(i)) /\ Cardinality(Upto(i)) =< n
    BY FS_Subset, Upto(i) \in SUBSET S
  <2>2. i \in Upto(i)
    OBVIOUS
  <2>3. Cardinality(Upto(i)) \in Nat /\ Cardinality(Upto(i)) # 0
    BY <2>1, <2>2, FS_CardinalityType, FS_EmptySet
  <2> QED BY <1>1, <2>1, <2>3
<1>3. ASSUME NEW i \in S, NEW k \in S, i < k
      PROVE  Cardinality(Upto(i)) # Cardinality(Upto(k))
  <2>1. i \in Nat /\ k \in Nat /\ \A l \in S : l \in Nat
    OBVIOUS
  <2>2. Upto(i) \in SUBSET Upto(k)
    <3>1. ASSUME NEW l \in S, l =< i PROVE l =< k
      BY <1>3, <2>1, <3>1
    <3> QED BY <3>1
  <2>3. k \in Upto(k) /\ k \notin Upto(i)
    BY <1>3, <2>1
  <2> QED BY <2>2, <2>3, <1>2, FS_Subset
<1> HIDE DEF Upto, n
<1>4. rank \in Injection(S, 1 .. n)
  <2>1. rank \in [S -> 1 .. n]
    BY <1>2
  <2>2. ASSUME NEW i \in S, NEW k \in S, rank[i] = rank[k] PROVE i = k
    <3>1. i \in Nat /\ k \in Nat /\ ~(i < k) /\ ~(k < i)
      BY <2>2, <1>3
    <3> QED BY <3>1
  <2> QED BY <2>1, <2>2 DEF Injection, IsInjective
<1>5. rank \in Surjection(S, 1 .. n)
  BY <1>1, <1>4, FS_Injection DEF n
<1>6. \E i \in S : rank[i] = j
  BY <1>5 DEF Surjection, n
<1> QED BY <1>6 DEF Upto

LEMMA InOrderMembers ==
  ASSUME NEW S \in SUBSET Nat, IsFiniteSet(S), NEW j \in 1 .. Cardinality(S)
  PROVE  InOrder(S)[j] \in S
<1>1. \E i \in S : Cardinality({k \in S : k =< i}) = j
  BY RankReached
<1>2. InOrder(S)[j] = CHOOSE i \in S : Cardinality({k \in S : k =< i}) = j
  BY DEF InOrder
<1> QED BY <1>1, <1>2, Zenon

LEMMA InOrderInterval ==
  ASSUME NEW m \in Nat
  PROVE  InOrder(1 .. m) = [j \in 1 .. m |-> j]
<1>1. Cardinality(1 .. m) = m
  BY FS_Interval
<1>2. ASSUME NEW i \in 1 .. m PROVE Cardinality({k \in 1 .. m : k =< i}) = i
  <2>1. {k \in 1 .. m : k =< i} = 1 .. i
    OBVIOUS
  <2>2. Cardinality(1 .. i) = i
    BY FS_Interval
  <2> QED BY <2>1, <2>2
<1>3. ASSUME NEW j \in 1 .. m
      PROVE  (CHOOSE i \in 1 .. m : Cardinality({k \in 1 .. m : k =< i}) = j) = j
  BY <1>2
<1> QED BY <1>1, <1>3 DEF InOrder

-----------------------------------------------------------------------------
(***************************************************************************)
(* Decoding of a transaction (TxDecoding).                                 *)
(***************************************************************************)
\* The indexed arguments of an event that has them first are 1 .. m.
LEMMA IndexedPrefix ==
  ASSUME NEW layout \in Seq(BOOLEAN), IndexedFirst(layout)
  PROVE  \E m \in 0 .. Len(layout) : Indices(layout) = 1 .. m
<1>1. CASE Indices(layout) = {}
  BY <1>1, 1 .. 0 = {}
<1>2. CASE Indices(layout) # {}
  <2> DEFINE m == Max(Indices(layout))
  <2>1. Indices(layout) \in SUBSET Nat /\ \A i \in Indices(layout) : i =< Len(layout)
    BY DEF Indices
  <2>2. m \in Indices(layout) /\ \A i \in Indices(layout) : m >= i
    BY <1>2, <2>1, Len(layout) \in Nat, MaxIsLargest
  <2> HIDE DEF m
  <2>3. m \in 1 .. Len(layout) /\ layout[m]
    BY <2>2 DEF Indices
  <2>4. ASSUME NEW i \in 1 .. m PROVE i \in Indices(layout)
    <3>1. CASE i = m
      BY <2>2, <3>1
    <3>2. CASE i < m
      <4>1. i \in DOMAIN layout /\ m \in DOMAIN layout
        BY <2>3
      <4>2. layout[i]
        BY <4>1, <3>2, <2>3 DEF IndexedFirst
      <4> QED BY <4>1, <4>2 DEF Indices
    <3> QED BY <3>1, <3>2, <2>3
  <2>5. ASSUME NEW i \in Indices(layout) PROVE i \in 1 .. m
    BY <2>2, <2>3 DEF Indices
  <2>6. Indices(layout) = 1 .. m
    BY <2>4, <2>5
  <2> QED BY <2>3, <2>6
<1> QED BY <1>1, <1>2

\* Such an event is decoded completely.
LEMMA EventDataComplete ==
  ASSUME NEW layout \in Seq(BOOLEAN), IndexedFirst(layout)
  PROVE  EventData(layout) = [i \in DOMAIN layout |-> i]
<1>1. PICK m \in 0 .. Len(layout) : Indices(layout) = 1 .. m
  BY IndexedPrefix
<1>2. TopicsOf(layout) = [j \in 1 .. m |-> j]
  BY <1>1, InOrderInterval DEF TopicsOf
<1>3. Len(TopicsOf(layout)) = m
  BY <1>2
<1>4. topicsMap(layout) = [i \in 1 .. m |-> i]
  BY <1>1, <1>2, <1>3 DEF topicsMap
<1>5. eventsMap(layout) = [i \in (1 .. Len(layout)) \ (1 .. m) |-> i]
  BY <1>1 DEF eventsMap
<1>6. ((1 .. Len(layout)) \ (1 .. m)) \cup (1 .. m) = 1 .. Len(layout)
  <2>1. m \in Nat /\ Len(layout) \in Nat /\ m =< Len(layout)
    OBVIOUS
  <2> QED BY <2>1
<1>7. DOMAIN topicsMap(layout) = 1 .. m /\ DOMAIN eventsMap(layout) = (1 .. Len(layout)) \ (1 .. m)
  BY <1>4, <1>5
<1>8. DOMAIN layout = 1 .. Len(layout)
  OBVIOUS
<1>9. \A i \in 1 .. Len(layout) :
         (IF i \in 1 .. m THEN topicsMap(layout)[i] ELSE eventsMap(layout)[i]) = i
  BY <1>4, <1>5
<1> QED BY <1>6, <1>7, <1>8, <1>9 DEF EventData

LEMMA LogsDecoded ==
  ASSUME NEW los \in Seq(Logs), decodeContractLogs(los).events # <<>>
  PROVE  LET known == KnownLogs(los) IN
         /\ Len(decodeContractLogs(los).events) = Len(known)
         /\ \A k \in DOMAIN known :
               IndexedFirst(los[known[k]].layout) =>
                   decodeContractLogs(los).events[k] = [i \in DOMAIN los[known[k]].layout |-> i]
<1> DEFINE P == {i \in DOMAIN los : los[i].kind = "event"}
           n == Cardinality(P)
           events == [k \in DOMAIN KnownLogs(los) |-> EventData(los[KnownLogs(los)[k]].layout)]
<1>1. IsFiniteSet(P) /\ n \in Nat /\ P \in SUBSET Nat
  <2>1. P \in SUBSET (1 .. Len(los)) /\ Len(los) \in Nat
    OBVIOUS
  <2>2. IsFiniteSet(1 .. Len(los))
    BY <2>1, FS_Interval
  <2>3. IsFiniteSet(P)
    BY <2>1, <2>2, FS_Subset
  <2> QED BY <2>1, <2>3, FS_CardinalityType
<1>2. KnownLogs(los) = InOrder(P)
  BY DEF KnownLogs
<1> HIDE DEF P
<1>3. DOMAIN KnownLogs(los) = 1 .. n /\ Len(KnownLogs(los)) = n
  BY <1>1, <1>2 DEF InOrder
<1>4. decodeContractLogs(los).events = events
  BY DEF decodeContractLogs
<1>5. Len(events) = n
  BY <1>1, <1>3
<1>6. ASSUME NEW k \in 1 .. n
      PROVE  los[KnownLogs(los)[k]].layout \in Seq(BOOLEAN)
  <2>1. KnownLogs(los)[k] \in P
    BY <1>1, <1>2, InOrderMembers
  <2>2. KnownLogs(los)[k] \in DOMAIN los /\ los[KnownLogs(los)[k]].kind = "event"
    BY <2>1 DEF P
  <2>3. los[KnownLogs(los)[k]] \in Logs
    BY <2>2
  <2>4. los[KnownLogs(los)[k]].layout \in EventLayouts
    BY <2>2, <2>3 DEF Logs
  <2> QED BY <2>4, TxDecodingAssumption
<1> QED BY <1>3, <1>4, <1>5, <1>6, EventDataComplete

(***************************************************************************)
(* The inductive invariant of decoding: what is known before the replay,   *)
(* that an error is recorded if and only if the receipt says so, and where *)
(* the decoded events come from.                                           *)
(***************************************************************************)
TxInv ==
    /\ reverted \in BOOLEAN /\ store \in BOOLEAN
    /\ pc = "receipt" => replay = None /\ revertErr = None /\ hint = None
    /\ pc # "receipt" => reverted = (revertErr # None)
    /\ pc \in {"receipt", "decode"} => decoded = Default
    /\ pc = "decoded" /\ decoded.events # <<>> =>
          logs \in Seq(Logs) /\ decoded = decodeContractLogs(logs)
    /\ RevertReasonRight

\* A compiler version supports custom errors if it is at least 0.8.4.
LEMMA PragmaRight ==
  ASSUME NEW v \in Nat \X Nat \X Nat
  PROVE  DoesPragmaSupportCustomRevert(v) <=> AtLeast084(v)
  BY DEF DoesPragmaSupportCustomRevert, AtLeast084

LEMMA HintRight ==
  ASSUME NEW c \in Codes \cup {NoCode}
  PROVE  /\ HintFor(c) = "supported" => AtLeast084(c.version)
         /\ HintFor(c) = "unsupported" => ~AtLeast084(c.version)
<1>1. c.version \in Nat \X Nat \X Nat
  BY TxDecodingAssumption DEF Codes, NoCode
<1> QED BY <1>1, PragmaRight DEF HintFor

LEMMA RevertReasonKeeps ==
  ASSUME TxInv, NEW r \in Replays, NEW c \in Codes \cup {NoCode}, RevertReason(r, c)
  PROVE  TxInv'
<1>1. /\ pc = "receipt" /\ reverted = TRUE /\ store \in BOOLEAN
      /\ replay = None /\ revertErr = None /\ hint = None
      /\ decoded = Default
  BY DEF TxInv, RevertReason
<1>2. /\ replay' = r /\ code' = c
      /\ reverted' = reverted /\ store' = store /\ logs' = logs /\ decoded' = decoded
  BY DEF RevertReason
<1>3. r # "succeeds" \/ DecodeCustomABIErr(r) # <<None, None>>
  BY DEF DecodeCustomABIErr, None
<1>4. CASE DecodeCustomABIErr(r) # <<None, None>>
  <2>1. /\ revertErr' = (IF DecodeCustomABIErr(r)[2] # None
                         THEN DecodeCustomABIErr(r)[2] ELSE DecodeCustomABIErr(r)[1])
        /\ pc' = "decode" /\ hint' = None
    BY <1>1, <1>4 DEF RevertReason
  <2>2. revertErr' # None /\ (revertErr' = "custom" <=> store /\ r = "known")
    BY <1>4, <2>1 DEF DecodeCustomABIErr, None
  <2> QED BY <1>1, <1>2, <2>1, <2>2 DEF TxInv, RevertReasonRight, None
<1>5. CASE DecodeCustomABIErr(r) = <<None, None>>
  <2>1. /\ hint' \in {"notRead", HintFor(c)}
        /\ revertErr' = "plain"
        /\ pc' \in {"panic", "decode"}
    BY <1>3, <1>5 DEF RevertReason
  <2>2. ~(store /\ r = "known")
    BY <1>5 DEF DecodeCustomABIErr, None
  <2>3. /\ hint' = "supported" => AtLeast084(c.version)
        /\ hint' = "unsupported" => ~AtLeast084(c.version)
    BY <2>1, HintRight
  <2>4. RevertReasonRight'
    BY <1>1, <1>2, <2>1, <2>2, <2>3 DEF RevertReasonRight, None
  <2> QED BY <1>1, <1>2, <2>1, <2>4 DEF TxInv, None
<1> QED BY <1>4, <1>5

LEMMA DecodeEventsKeeps ==
  ASSUME TxInv, DecodeEvents
  PROVE  TxInv'
<1>1. logs' \in Seq(Logs)
  <2>1. PICK n \in 0 .. (IF reverted THEN 0 ELSE MaxLogs) : logs' \in [1 .. n -> Logs]
    BY DEF DecodeEvents
  <2>2. n \in Nat
    BY TxDecodingAssumption
  <2> QED BY <2>1, <2>2
<1>2. decoded' = decodeContractLogs(logs)'
  BY DEF DecodeEvents
<1>3. pc = "decode" /\ pc' \in {"panic", "decoded"}
  BY DEF DecodeEvents
<1>4. UNCHANGED <<reverted, store, replay, code, revertErr, hint>>
  BY DEF DecodeEvents
<1>5. RevertReasonRight'
  BY <1>3, <1>4 DEF TxInv, RevertReasonRight
<1> QED BY <1>1, <1>2, <1>3, <1>4, <1>5 DEF TxInv

\* Every step, of decoding or of tracing, keeps the invariant of decoding.
LEMMA TxInvStep ==
  ASSUME TxInv, [Next]_vars
  PROVE  TxInv'
<1>1. CASE UNCHANGED vars
  BY <1>1 DEF vars, txVars, TxInv, RevertReasonRight, AtLeast084
<1>2. ASSUME NEW r \in Replays, NEW c \in Codes \cup {NoCode}, RevertReason(r, c)
      PROVE  TxInv'
  BY <1>2, RevertReasonKeeps
<1>3. CASE NotReverted
  <2>1. pc = "receipt" /\ pc' = "decode" /\ reverted = FALSE /\ UNCHANGED txVars
    BY <1>3 DEF NotReverted, TxInv
  <2> QED BY <2>1 DEF TxInv, RevertReasonRight, txVars, None
<1>4. CASE DecodeNothing
  BY <1>4 DEF DecodeNothing, TxInv, RevertReasonRight, txVars, Default
<1>5. CASE DecodeInputsFails
  BY <1>5 DEF DecodeInputsFails, TxInv, RevertReasonRight, Default
<1>6. CASE DecodeEvents
  BY <1>6, DecodeEventsKeeps
<1>7. CASE SkipTracing
  BY <1>7 DEF SkipTracing, TxInv, RevertReasonRight, txVars
<1>8. CASE StartTrace
  <2>1. /\ pc = "decoded" /\ pc' = "fetch"
        /\ revertErr' = (IF revertErr = None THEN None ELSE "plain")
        /\ reverted' = reverted /\ store' = store
    BY <1>8 DEF StartTrace
  <2> QED BY <2>1 DEF TxInv, RevertReasonRight, None
<1>9. ASSUME \/ FetchFails \/ NothingToDecode \/ FetchTraces
             \/ GatherFails \/ MainCallFails \/ MainCall
             \/ ProcessCallFails \/ ProcessCall
             \/ CheckForMissingCalls
             \/ PrintOnly \/ DrawGraph
      PROVE  TxInv'
  <2>1. /\ UNCHANGED txVars
        /\ pc \in {"fetch", "main", "process", "missing", "draw"}
        /\ pc' \notin {"receipt", "decode", "decoded"}
    BY <1>9 DEF FetchFails, NothingToDecode, FetchTraces, GatherFails, MainCallFails, MainCall,
         ProcessCallFails, ProcessCall, CheckForMissingCalls, PrintOnly, DrawGraph, Return, GoOn
  <2> QED BY <2>1 DEF TxInv, RevertReasonRight, txVars
<1> QED BY <1>1, <1>2, <1>3, <1>4, <1>5, <1>6, <1>7, <1>8, <1>9 DEF Next, TxStep, TraceStep

LEMMA TxInvInit == Init => TxInv
  BY DEF Init, TxInit, TxInv, RevertReasonRight, None

(***************************************************************************)
(* callAndGetRevertReason and DecodePragmaVersion: for any code, compiler  *)
(* version and outcome of the replay, the error that Decode returns and    *)
(* the hint it logs are right.                                             *)
(***************************************************************************)
THEOREM RevertReasonIsRight == Spec => []RevertReasonRight
<1>1. TxInv /\ [Next]_vars => TxInv'
  BY TxInvStep
<1>2. TxInv => RevertReasonRight
  BY DEF TxInv
<1> QED BY <1>1, <1>2, TxInvInit, PTL DEF Spec

(***************************************************************************)
(* decodeContractLogs: for any events of the ABI and any logs, every event *)
(* whose indexed arguments come first is decoded completely.               *)
(***************************************************************************)
THEOREM EventArgumentsAreRight == Spec => []EventArgumentsRight
<1>1. TxInv /\ [Next]_vars => TxInv'
  BY TxInvStep
<1>2. TxInv => EventArgumentsRight
  <2>1. SUFFICES ASSUME TxInv, pc = "decoded", decoded.events # <<>>
                 PROVE  EventArgumentsRight
    BY DEF EventArgumentsRight
  <2>2. logs \in Seq(Logs) /\ decoded = decodeContractLogs(logs)
    BY <2>1 DEF TxInv
  <2> QED BY <2>1, <2>2, LogsDecoded DEF EventArgumentsRight
<1> QED BY <1>1, <1>2, TxInvInit, PTL DEF Spec

-----------------------------------------------------------------------------
(***************************************************************************)
(* The inductive invariant of tracing.                                     *)
(***************************************************************************)
Sigs == SubSigs \cup {MainSig}

TraceCalls == [depth : Nat, sig : Sigs, data : Data, err : BOOLEAN, counted : BOOLEAN]

\* A call tree: the first call is the transaction, the others are at most one
\* deeper than the call before them.
IsTree(t) ==
    /\ t \in Seq(TraceCalls) /\ Len(t) >= 1
    /\ t[1].depth = 0 /\ t[1].sig = MainSig /\ t[1].err = reverted
    /\ \A i \in 2 .. Len(t) : t[i].depth >= 1 /\ t[i].depth =< t[i - 1].depth + 1

Walking == {"main", "process", "missing", "draw"}

\* What is there at each stage.
StageInv ==
    /\ pc \in {"receipt", "decode", "decoded", "fetch", "main"} => at = 0
    /\ pc \notin {"returned", "panic"} => graph = NoGraph
    /\ trace = <<>> \/ IsTree(trace)
    /\ trace = <<>> => at = 0 /\ pc \notin Walking
    /\ pc \in Walking => faults \in SUBSET Faults /\ fourByte \in FourBytes(trace) \cup {<<>>}
    /\ at \in Nat /\ methodCounter \in Nat
    /\ pc \in {"process", "missing", "draw"} => calls # <<>>

\* The recursion has as many callers on its stack as its call is deep, and
\* has taken no more selectors than it has passed calls.
WalkInv ==
    pc = "process" =>
        /\ at \in 2 .. Len(trace) /\ methodCounter =< at - 2
        /\ parents \in Seq(Sigs) /\ Len(parents) = trace[at].depth
        /\ \A d \in 1 .. Len(parents) :
              \E p \in 1 .. Len(calls) : calls[p].sig = parents[d]

DecodedCalls ==
    [sig : Sigs \cup {Empty, "0x"}, parent : Sigs \cup {Empty}, nesting : Nat,
     method : Known \cup {"unknown", "failed", "noData"}, data : Nat, err : BOOLEAN]

\* A call with a caller comes after a call of that caller; only the calls of
\* the tree have errors, and all of them but the first have callers.
CallsInv ==
    /\ calls \in Seq(DecodedCalls)
    /\ calls # <<>> =>
          calls[1].sig \in Sigs /\ calls[1].parent = Empty /\ calls[1].err = reverted
    /\ \A i \in 1 .. Len(calls) :
          /\ calls[i].err => calls[i].sig \in Sigs
          /\ calls[i].sig \in Sigs /\ i # 1 => calls[i].parent # Empty
          /\ calls[i].parent # Empty =>
                \E p \in 1 .. i - 1 : calls[p].sig = calls[i].parent

\* j is the last call before call i whose depth is d.
LastAtDepth(j, i, d) ==
    /\ j \in 1 .. i - 1 /\ trace[j].depth = d
    /\ \A k \in j + 1 .. i - 1 : trace[k].depth # d

\* As long as no call with subcalls has failed to decode, the counter and the
\* list of calls keep pace with the tree and the stack holds the selectors of
\* the callers.
AlignInv ==
    /\ \A i \in Aligned : i < at => i =< Len(calls)
    /\ pc = "process" /\ at \in Aligned =>
          /\ methodCounter = at - 2 /\ Len(calls) = at - 1
          /\ \A d \in 1 .. Len(parents) :
                \E j \in 1 .. at - 1 : LastAtDepth(j, at, d - 1) /\ parents[d] = trace[j].sig
    /\ CallsMatchTrace

\* A graph is that of the calls.
GraphInv ==
    \/ graph = NoGraph
    \/ /\ calls # <<>>
       /\ \E path \in findShortestPath(calls) : graph = generateDotGraph(calls, reverted, path)

TraceInv == StageInv /\ WalkInv /\ CallsInv /\ AlignInv /\ GraphInv

LEMMA IsTraceIsTree ==
  ASSUME NEW t, IsTrace(t), reverted \in BOOLEAN
  PROVE  IsTree(t)
<1> DEFINE Built(n, d, s, da, e, u) ==
             [i \in 1 .. n |->
                 [depth |-> d[i],
                  sig |-> IF i = 1 THEN MainSig ELSE s[i],
                  data |-> IF i = 1 THEN 1 ELSE da[i],
                  err |-> IF i = 1 THEN reverted ELSE i \in e,
                  counted |-> i \notin u]]
<1>0. PICK n \in 1 .. MaxCalls :
        \E d \in Shapes(n), s \in [2 .. n -> SubSigs], da \in [2 .. n -> Data],
           e \in SUBSET (2 .. n), u \in SUBSET (1 .. n) :
             Cardinality(e \cup u) =< MaxSpecial /\ t = Built(n, d, s, da, e, u)
  BY Zenon DEF IsTrace
<1>1. PICK d \in Shapes(n), s \in [2 .. n -> SubSigs], da \in [2 .. n -> Data],
           e \in SUBSET (2 .. n), u \in SUBSET (1 .. n) :
             Cardinality(e \cup u) =< MaxSpecial /\ t = Built(n, d, s, da, e, u)
  BY <1>0, Zenon
<1>2. n \in Nat /\ n >= 1
  BY TracingAssumption
<1>3. /\ d \in [1 .. n -> 0 .. n - 1] /\ d[1] = 0
      /\ \A i \in 2 .. n : d[i] >= 1 /\ d[i] =< d[i - 1] + 1
  BY DEF Shapes
<1>4. ASSUME NEW i \in 1 .. n PROVE t[i] \in TraceCalls
  <2>1. CASE i = 1
    BY <1>1, <1>2, <1>3, <2>1 DEF TraceCalls, Sigs, Data
  <2>2. CASE i # 1
    <3>1. i \in 2 .. n
      BY <1>2, <2>2
    <3>2. d[i] \in Nat /\ s[i] \in Sigs /\ da[i] \in Data
      BY <1>2, <1>3, <3>1 DEF Sigs
    <3> QED BY <1>1, <2>2, <3>2 DEF TraceCalls
  <2> QED BY <2>1, <2>2
<1>5. t \in Seq(TraceCalls) /\ Len(t) = n
  BY <1>1, <1>2, <1>4
<1>6. t[1].depth = 0 /\ t[1].sig = MainSig /\ t[1].err = reverted
  BY <1>1, <1>2, <1>3
<1>7. \A i \in 2 .. n : t[i].depth >= 1 /\ t[i].depth =< t[i - 1].depth + 1
  <2>1. \A i \in 1 .. n : t[i].depth = d[i]
    BY <1>1
  <2> QED BY <1>2, <1>3, <2>1
<1> QED BY <1>2, <1>5, <1>6, <1>7 DEF IsTree

\* The first call that is not below a call comes after it and is no deeper.
LEMMA AfterSubcallsFacts ==
  ASSUME IsTree(trace), NEW i \in 1 .. Len(trace)
  PROVE  /\ AfterSubcalls(i) \in i + 1 .. Len(trace) + 1
         /\ AfterSubcalls(i) =< Len(trace) => trace[AfterSubcalls(i)].depth =< trace[i].depth
<1> DEFINE S == {j \in i + 1 .. Len(trace) : trace[j].depth =< trace[i].depth} \cup {Len(trace) + 1}
<1>1. Len(trace) \in Nat
  BY DEF IsTree
<1>2. S \in SUBSET Nat /\ S # {}
  BY <1>1
<1>3. AfterSubcalls(i) \in S
  BY <1>2, MinIsLeast DEF AfterSubcalls
<1> QED BY <1>1, <1>3

\* A step that changes where tracing is, and nothing it has found.
LEMMA QuietStep ==
  ASSUME TraceInv,
         UNCHANGED <<reverted, trace, faults, fourByte, at, methodCounter, parents, calls, graph>>,
         pc' \notin Walking,
         pc' \in {"receipt", "decode", "decoded", "fetch"} =>
             pc \in {"receipt", "decode", "decoded", "fetch"},
         pc \in {"returned", "panic"} => pc' = pc
  PROVE  TraceInv'
<1>1. StageInv'
  BY DEF TraceInv, StageInv, IsTree, Walking
<1>2. WalkInv'
  BY DEF WalkInv, Walking
<1>3. CallsInv'
  BY DEF TraceInv, CallsInv
<1>4. AlignInv'
  <2>1. Aligned' = Aligned /\ \A i : Caller(i)' = Caller(i)
    BY DEF Aligned, Malformed, AfterSubcalls, Caller
  <2>2. pc' # "process"
    BY DEF Walking
  <2> QED BY <2>1, <2>2 DEF TraceInv, AlignInv, CallsMatchTrace, LastAtDepth
<1>5. GraphInv'
  BY DEF TraceInv, GraphInv
<1> QED BY <1>1, <1>2, <1>3, <1>4, <1>5 DEF TraceInv

LEMMA TraceInvInit == Init => TraceInv
<1> SUFFICES ASSUME Init PROVE TraceInv
  OBVIOUS
<1>1. /\ pc = "receipt" /\ reverted \in BOOLEAN /\ trace = <<>> /\ at = 0 /\ methodCounter = 0
      /\ calls = <<>> /\ graph = NoGraph
  BY DEF Init, TxInit
<1>2. StageInv /\ WalkInv /\ GraphInv
  BY <1>1 DEF StageInv, WalkInv, GraphInv, Walking
<1>3. CallsInv
  BY <1>1 DEF CallsInv
<1>4. AlignInv
  BY <1>1 DEF AlignInv, CallsMatchTrace, Aligned
<1> QED BY <1>2, <1>3, <1>4 DEF TraceInv

LEMMA FetchTracesKeeps ==
  ASSUME TxInv, TraceInv, FetchTraces
  PROVE  TraceInv'
<1>1. /\ pc = "fetch" /\ pc' = "main" /\ at = 0 /\ graph = NoGraph
      /\ UNCHANGED <<reverted, at, methodCounter, calls, graph>>
  BY DEF FetchTraces, TraceInv, StageInv, txVars
<1>2. IsTree(trace)'
  <2>1. IsTree(trace')
    BY IsTraceIsTree DEF FetchTraces, TxInv
  <2> QED BY <2>1, <1>1 DEF IsTree
<1>3. StageInv'
  <2>1. trace' # <<>>
    BY <1>2 DEF IsTree
  <2>2. faults' \in SUBSET Faults /\ fourByte' \in FourBytes(trace)' \cup {<<>>}
    BY DEF FetchTraces
  <2>3. at' = 0 /\ methodCounter' \in Nat
    BY <1>1 DEF TraceInv, StageInv
  <2> QED BY <1>1, <1>2, <2>1, <2>2, <2>3 DEF StageInv
<1>4. WalkInv'
  BY <1>1 DEF WalkInv
<1>5. CallsInv'
  BY <1>1 DEF TraceInv, CallsInv
<1>6. AlignInv'
  <2>1. \A i \in Aligned' : ~(i < at')
    BY <1>1, <1>2 DEF Aligned, IsTree
  <2> QED BY <1>1, <2>1 DEF AlignInv, CallsMatchTrace
<1>7. GraphInv'
  BY <1>1 DEF GraphInv
<1> QED BY <1>3, <1>4, <1>5, <1>6, <1>7 DEF TraceInv

LEMMA TreeCalls ==
  ASSUME IsTree(trace)
  PROVE  /\ Len(trace) \in Nat /\ Len(trace) >= 1 /\ DOMAIN trace = 1 .. Len(trace)
         /\ \A i \in 1 .. Len(trace) :
              /\ trace[i].depth \in Nat /\ trace[i].sig \in Sigs /\ trace[i].data \in Data
              /\ trace[i].err \in BOOLEAN
         /\ \A i \in 2 .. Len(trace) :
              trace[i].depth >= 1 /\ trace[i].depth =< trace[i - 1].depth + 1
<1>1. trace \in Seq(TraceCalls) /\ Len(trace) >= 1
  BY DEF IsTree
<1>2. ASSUME NEW i \in 1 .. Len(trace)
      PROVE  /\ trace[i].depth \in Nat /\ trace[i].sig \in Sigs /\ trace[i].data \in Data
             /\ trace[i].err \in BOOLEAN
  <2>1. trace[i] \in TraceCalls
    BY <1>1
  <2> QED BY <2>1 DEF TraceCalls
<1>3. Len(trace) \in Nat /\ DOMAIN trace = 1 .. Len(trace)
  BY <1>1
<1> QED BY <1>1, <1>2, <1>3 DEF IsTree

LEMMA MainCallKeeps ==
  ASSUME TxInv, TraceInv, MainCall
  PROVE  TraceInv'
<1>1. /\ pc = "main" /\ at' = 2 /\ methodCounter' = 0 /\ parents' = <<trace[1].sig>>
      /\ calls' = <<DecodedCall(trace[1].sig, Empty, 0, trace[1])>>
      /\ pc' = IF Len(trace) = 1 THEN "missing" ELSE "process"
      /\ UNCHANGED <<reverted, trace, faults, fourByte, graph>>
      /\ IsTree(trace)
  <2>1. pc = "main" /\ trace # <<>> /\ IsTree(trace)
    BY DEF MainCall, TraceInv, StageInv, Walking
  <2>2. Methods[1] = trace[1].sig
    BY <2>1 DEF Methods, IsTree
  <2> QED BY <2>1, <2>2 DEF MainCall, txVars
<1>0. Len(trace) \in Nat /\ Len(trace) >= 1
  BY <1>1 DEF IsTree
<1>2. /\ Len(trace) \in Nat /\ Len(trace) >= 1 /\ trace[1] \in TraceCalls
      /\ trace[1].sig = MainSig /\ trace[1].depth = 0 /\ trace[1].err = reverted
  BY <1>1 DEF IsTree
<1> DEFINE c == DecodedCall(trace[1].sig, Empty, 0, trace[1])
<1>3. /\ c \in DecodedCalls /\ c.sig = MainSig /\ c.parent = Empty /\ c.nesting = 0
      /\ c.err = reverted
  BY <1>2 DEF DecodedCall, DecodedCalls, TraceCalls, Sigs, Data
<1>4. calls' = <<c>>
  BY <1>1
<1> HIDE DEF c
<1>5. /\ Len(calls') = 1 /\ calls'[1] = c /\ calls' \in Seq(DecodedCalls) /\ calls' # <<>>
  BY <1>3, <1>4
<1>6. StageInv'
  <2>1. trace' # <<>> /\ IsTree(trace)'
    BY <1>1, <1>2 DEF IsTree
  <2>2. /\ pc' \in {"missing", "process"} /\ graph' = NoGraph
        /\ faults' \in SUBSET Faults /\ fourByte' \in FourBytes(trace)' \cup {<<>>}
    <3>1. FourBytes(trace)' = FourBytes(trace)
      BY <1>1 DEF FourBytes, Counted, Times, Hidden
    <3>2. graph = NoGraph /\ faults \in SUBSET Faults /\ fourByte \in FourBytes(trace) \cup {<<>>}
      BY <1>1 DEF TraceInv, StageInv, Walking
    <3> QED BY <1>1, <3>1, <3>2
  <2> QED BY <1>1, <1>5, <2>1, <2>2 DEF StageInv
<1>7. WalkInv'
  <2> SUFFICES ASSUME pc' = "process"
               PROVE  /\ at' \in 2 .. Len(trace') /\ methodCounter' =< at' - 2
                      /\ parents' \in Seq(Sigs) /\ Len(parents') = trace'[at'].depth
                      /\ \A d \in 1 .. Len(parents') :
                           \E p \in 1 .. Len(calls') : calls'[p].sig = parents'[d]
    BY DEF WalkInv
  <2>1. Len(trace) >= 2
    <3>1. Len(trace) # 1
      BY <1>1
    <3> QED BY <1>0, <3>1
  <2>2. trace[2].depth = 1
    <3>1. trace[2].depth >= 1 /\ trace[2].depth =< trace[2 - 1].depth + 1
      <4>1. 2 \in 2 .. Len(trace)
        BY <1>0, <2>1
      <4> QED BY <1>1, <4>1 DEF IsTree
    <3>2. trace[2].depth \in Nat
      BY <1>0, <1>1, <2>1, TreeCalls
    <3> QED BY <1>2, <3>1, <3>2
  <2>3. parents' \in Seq(Sigs) /\ Len(parents') = 1 /\ parents'[1] = MainSig
    BY <1>1, <1>2 DEF Sigs
  <2> QED BY <1>1, <1>2, <1>3, <1>5, <2>1, <2>2, <2>3
<1>8. CallsInv'
  BY <1>1, <1>3, <1>5 DEF CallsInv, Sigs
<1>9. AlignInv'
  <2>1. \A i \in Aligned' : i \in Nat /\ i >= 1
    BY <1>1, <1>2 DEF Aligned, IsTree
  <2>2. \A i \in Aligned' : i < at' => i = 1
    BY <1>1, <2>1
  <2>3. CallsMatchTrace'
    <3>1. pc' = "process" => methodCounter' + 1 < Len(trace')
      BY <1>7, <1>1, <1>2 DEF WalkInv
    <3>2. calls'[1].sig = trace'[1].sig /\ calls'[1].nesting = trace'[1].depth /\ calls'[1].parent = Empty
      BY <1>1, <1>2, <1>3, <1>5
    <3> QED BY <2>2, <3>1, <3>2 DEF CallsMatchTrace
  <2>4. ASSUME pc' = "process", NEW d \in 1 .. Len(parents')
        PROVE  \E j \in 1 .. at' - 1 : LastAtDepth(j, at, d - 1)' /\ parents'[d] = trace'[j].sig
    <3>1. d = 1
      BY <1>1
    <3>2. LastAtDepth(1, at, 0)'
      BY <1>1, <1>2 DEF LastAtDepth
    <3> QED BY <1>1, <3>1, <3>2
  <2> QED BY <1>1, <1>5, <2>2, <2>3, <2>4 DEF AlignInv
<1>10. GraphInv'
  BY <1>1 DEF TraceInv, StageInv, GraphInv
<1> QED BY <1>6, <1>7, <1>8, <1>9, <1>10 DEF TraceInv

\* A call is added that has its caller among the calls, if it has one.
LEMMA CallAppended ==
  ASSUME CallsInv, calls # <<>>, NEW c \in DecodedCalls, calls' = Append(calls, c), reverted' = reverted,
         c.err => c.sig \in Sigs, c.sig \in Sigs => c.parent # Empty,
         c.parent # Empty => \E p \in 1 .. Len(calls) : calls[p].sig = c.parent
  PROVE  CallsInv'
<1>1. /\ calls \in Seq(DecodedCalls) /\ Len(calls) \in Nat /\ Len(calls) >= 1
      /\ calls' \in Seq(DecodedCalls) /\ Len(calls') = Len(calls) + 1
      /\ calls'[Len(calls) + 1] = c
      /\ \A i \in 1 .. Len(calls) : calls'[i] = calls[i]
  BY DEF CallsInv
<1>2. calls'[1].sig \in Sigs /\ calls'[1].parent = Empty /\ calls'[1].err = reverted'
  BY <1>1 DEF CallsInv
<1>3. ASSUME NEW i \in 1 .. Len(calls')
      PROVE  /\ calls'[i].err => calls'[i].sig \in Sigs
             /\ calls'[i].sig \in Sigs /\ i # 1 => calls'[i].parent # Empty
             /\ calls'[i].parent # Empty =>
                   \E p \in 1 .. i - 1 : calls'[p].sig = calls'[i].parent
  <2>1. CASE i \in 1 .. Len(calls)
    <3>1. \A p \in 1 .. i - 1 : calls'[p] = calls[p]
      BY <1>1, <2>1
    <3> QED BY <1>1, <2>1, <3>1 DEF CallsInv
  <2>2. CASE i = Len(calls) + 1
    BY <1>1, <2>2
  <2> QED BY <1>1, <2>1, <2>2
<1> QED BY <1>1, <1>2, <1>3 DEF CallsInv


\* Going on with call j, when the stack holds a caller for each level above it.
LEMMA GoOnKeeps ==
  ASSUME IsTree(trace), NEW j \in 2 .. Len(trace) + 1, NEW stack \in Seq(Sigs),
         GoOn(j, stack), trace' = trace,
         j =< Len(trace) => trace[j].depth =< Len(stack),
         \A d \in 1 .. Len(stack) : \E p \in 1 .. Len(calls') : calls'[p].sig = stack[d],
         methodCounter' =< j - 2
  PROVE  WalkInv' /\ (pc' = "process" => parents' = SubSeq(stack, 1, trace[j].depth))
<1> SUFFICES ASSUME pc' = "process"
             PROVE  /\ at' \in 2 .. Len(trace') /\ methodCounter' =< at' - 2
                    /\ parents' \in Seq(Sigs) /\ Len(parents') = trace'[at'].depth
                    /\ \A d \in 1 .. Len(parents') :
                         \E p \in 1 .. Len(calls') : calls'[p].sig = parents'[d]
                    /\ parents' = SubSeq(stack, 1, trace[j].depth)
  BY DEF WalkInv
<1>1. ~(j > Len(trace)) /\ at' = j
  BY DEF GoOn
<1>2. parents' = SubSeq(stack, 1, trace[j].depth)
  BY <1>1 DEF GoOn
<1>3. Len(trace) \in Nat /\ j \in 2 .. Len(trace)
  BY <1>1, TreeCalls
<1>4. trace[j].depth \in Nat /\ trace[j].depth =< Len(stack)
  BY <1>3, TreeCalls
<1>5. /\ parents' \in Seq(Sigs) /\ Len(parents') = trace[j].depth
      /\ \A d \in 1 .. Len(parents') : d \in 1 .. Len(stack) /\ parents'[d] = stack[d]
  BY <1>2, <1>4
<1> QED BY <1>1, <1>2, <1>3, <1>5

\* What a walk over the calls leaves alone at any stage.
LEMMA WalkStageKeeps ==
  ASSUME StageInv, pc \in {"process", "missing"}, pc' \in {"process", "missing", "draw"},
         UNCHANGED <<reverted, trace, faults, fourByte, graph>>,
         at' \in Nat, methodCounter' \in Nat, calls' # <<>>
  PROVE  StageInv' /\ graph' = NoGraph
<1>1. graph = NoGraph /\ faults \in SUBSET Faults /\ fourByte \in FourBytes(trace) \cup {<<>>}
  BY DEF StageInv, Walking
<1>2. trace # <<>> /\ IsTree(trace)
  BY DEF StageInv, Walking
<1>3. FourBytes(trace)' = FourBytes(trace) /\ IsTree(trace)'
  BY <1>2 DEF FourBytes, Counted, Times, Hidden, IsTree
<1> QED BY <1>1, <1>2, <1>3 DEF StageInv

LEMMA CallerIsLast ==
  ASSUME IsTree(trace), NEW i \in 2 .. Len(trace), NEW j, LastAtDepth(j, i, trace[i].depth - 1)
  PROVE  Caller(i) = j
<1> DEFINE S == {k \in 1 .. i - 1 : trace[k].depth = trace[i].depth - 1}
<1>1. j \in S /\ \A k \in j + 1 .. i - 1 : trace[k].depth # trace[i].depth - 1
  BY DEF LastAtDepth
<1>2. i \in Nat /\ j \in Nat /\ S \in SUBSET Nat
  BY <1>1, TreeCalls
<1>3. ASSUME NEW k \in S PROVE k =< j
  BY <1>1, <1>2
<1> HIDE DEF S
<1>4. Max(S) = j
  BY <1>1, <1>2, <1>3, MaxUnique
<1> QED BY <1>4 DEF Caller, S

LEMMA ProcessCallKeeps ==
  ASSUME TraceInv, ProcessCall
  PROVE  TraceInv'
<1> DEFINE sig == trace[methodCounter + 2].sig
           c == DecodedCall(sig, Last(parents), NestingLevel, trace[at])
           stack == Append(parents, sig)
<1>1. IsTree(trace) /\ pc = "process" /\ calls # <<>> /\ at \in Nat /\ methodCounter \in Nat
  BY DEF TraceInv, StageInv, ProcessCall, Walking
<1>2. /\ at \in 2 .. Len(trace) /\ methodCounter =< at - 2
      /\ parents \in Seq(Sigs) /\ Len(parents) = trace[at].depth
      /\ \A d \in 1 .. Len(parents) : \E p \in 1 .. Len(calls) : calls[p].sig = parents[d]
  BY <1>1 DEF TraceInv, WalkInv
<1>3. /\ Len(trace) \in Nat /\ methodCounter + 2 \in 1 .. Len(trace) /\ DOMAIN trace = 1 .. Len(trace)
      /\ Len(parents) \in Nat /\ Len(parents) >= 1 /\ sig \in Sigs
      /\ trace[at].data \in Data /\ trace[at].err \in BOOLEAN
  BY <1>1, <1>2, TreeCalls
<1>4. /\ methodCounter' = methodCounter + 1 /\ calls' = Append(calls, c)
      /\ GoOn(at + 1, stack)
      /\ UNCHANGED <<reverted, trace, faults, fourByte, graph>>
  BY <1>3 DEF ProcessCall, Methods, txVars
<1>5. Last(parents) = parents[Len(parents)] /\ Last(parents) \in Sigs
  BY <1>2, <1>3 DEF Last
<1>6. /\ c \in DecodedCalls /\ c.sig = sig /\ c.parent = Last(parents) /\ c.nesting = Len(parents)
  BY <1>2, <1>3, <1>5 DEF DecodedCall, DecodedCalls, NestingLevel, Data
<1>7. /\ calls \in Seq(DecodedCalls) /\ Len(calls) \in Nat
      /\ Len(calls') = Len(calls) + 1 /\ calls'[Len(calls) + 1] = c /\ calls' # <<>>
      /\ \A i \in 1 .. Len(calls) : calls'[i] = calls[i]
  <2>1. calls \in Seq(DecodedCalls)
    BY DEF TraceInv, CallsInv
  <2> HIDE DEF c
  <2> QED BY <1>4, <1>6, <2>1
<1>8. /\ stack \in Seq(Sigs) /\ Len(stack) = Len(parents) + 1 /\ stack[Len(parents) + 1] = sig
      /\ \A d \in 1 .. Len(parents) : stack[d] = parents[d]
  BY <1>2, <1>3
<1> HIDE DEF c, stack, sig
<1>9. CallsInv'
  <2>1. c.parent # Empty
    BY <1>5, <1>6, TracingAssumption DEF Sigs
  <2>2. \E p \in 1 .. Len(calls) : calls[p].sig = c.parent
    BY <1>2, <1>3, <1>5, <1>6
  <2>3. CallsInv /\ reverted' = reverted /\ calls' = Append(calls, c)
    BY <1>4 DEF TraceInv
  <2> QED BY <1>1, <1>3, <1>6, <2>1, <2>2, <2>3, CallAppended
<1>10. WalkInv' /\ (pc' = "process" => parents' = SubSeq(stack, 1, trace[at + 1].depth))
  <2>1. at + 1 \in 2 .. Len(trace) + 1
    BY <1>2, <1>3
  <2>2. ASSUME at + 1 =< Len(trace) PROVE trace[at + 1].depth =< Len(stack)
    <3>1. at + 1 \in 2 .. Len(trace) /\ (at + 1) - 1 = at
      BY <1>2, <1>3, <2>2
    <3>2. trace[at + 1].depth =< trace[at].depth + 1
      BY <1>1, <3>1, TreeCalls
    <3> QED BY <1>2, <1>8, <3>2
  <2>3. ASSUME NEW d \in 1 .. Len(stack)
        PROVE  \E p \in 1 .. Len(calls') : calls'[p].sig = stack[d]
    <3>1. CASE d \in 1 .. Len(parents)
      <4>1. PICK p \in 1 .. Len(calls) : calls[p].sig = parents[d]
        BY <1>2, <3>1
      <4>2. p \in 1 .. Len(calls') /\ calls'[p] = calls[p]
        BY <1>7
      <4> QED BY <1>8, <3>1, <4>1, <4>2
    <3>2. CASE d = Len(parents) + 1
      BY <1>6, <1>7, <1>8, <3>2
    <3> QED BY <1>3, <1>8, <3>1, <3>2
  <2>4. methodCounter' =< (at + 1) - 2
    BY <1>1, <1>2, <1>4
  <2> QED BY <1>1, <1>4, <1>8, <2>1, <2>2, <2>3, <2>4, GoOnKeeps
<1>11. /\ at' = at + 1 /\ pc' \in {"process", "missing"}
       /\ pc' = "process" => at + 1 \in 2 .. Len(trace)
  BY <1>2, <1>3, <1>4 DEF GoOn
<1>12. StageInv' /\ graph' = NoGraph
  BY <1>1, <1>4, <1>7, <1>11, WalkStageKeeps DEF TraceInv
<1>13. Aligned' = Aligned /\ \A i : Caller(i)' = Caller(i)
  BY <1>4 DEF Aligned, Malformed, AfterSubcalls, Caller
<1>14. /\ Aligned \subseteq 1 .. Len(trace)
       /\ \A i \in Aligned : i < at => i =< Len(calls)
       /\ at + 1 \in Aligned => at \in Aligned
  BY <1>1, <1>2, <1>3 DEF TraceInv, AlignInv, Aligned
<1>15. ASSUME at \in Aligned
       PROVE  /\ methodCounter = at - 2 /\ Len(calls) = at - 1
              /\ \A d \in 1 .. Len(parents) :
                   \E j \in 1 .. at - 1 : LastAtDepth(j, at, d - 1) /\ parents[d] = trace[j].sig
              /\ sig = trace[at].sig
  BY <1>1, <1>15 DEF TraceInv, AlignInv, sig
<1>16. \A i \in Aligned : i < at' => i =< Len(calls')
  <2> TAKE i \in Aligned
  <2> HAVE i < at'
  <2>1. i \in Nat
    BY <1>3, <1>14
  <2>2. CASE i < at
    BY <1>7, <1>14, <2>1, <2>2
  <2>3. CASE i = at
    BY <1>1, <1>7, <1>15, <2>3
  <2> QED BY <1>1, <1>11, <2>1, <2>2, <2>3
<1>17. ASSUME pc' = "process", at + 1 \in Aligned, NEW d \in 1 .. Len(parents')
       PROVE  \E j \in 1 .. at : LastAtDepth(j, at + 1, d - 1) /\ parents'[d] = trace[j].sig
  <2>1. /\ trace[at + 1].depth \in Nat /\ trace[at + 1].depth =< Len(stack)
        /\ Len(parents') = trace[at + 1].depth
    <3>1. at + 1 \in 2 .. Len(trace) /\ (at + 1) - 1 = at
      BY <1>1, <1>11, <1>17
    <3>2. trace[at + 1].depth =< trace[at].depth + 1 /\ trace[at + 1].depth \in Nat
      BY <1>1, <1>3, <3>1, TreeCalls
    <3>3. Len(parents') = trace[at + 1].depth
      BY <1>4, <1>10, <1>11, <1>17 DEF WalkInv
    <3> QED BY <1>2, <1>8, <3>2, <3>3
  <2>2. d \in 1 .. Len(stack) /\ parents'[d] = stack[d]
    BY <1>8, <1>10, <1>17, <2>1
  <2>3. CASE d \in 1 .. Len(parents)
    <3>1. PICK j \in 1 .. at - 1 : LastAtDepth(j, at, d - 1) /\ parents[d] = trace[j].sig
      BY <1>14, <1>15, <1>17, <2>3
    <3>2. trace[at].depth # d - 1
      BY <1>2, <1>3, <2>3
    <3>3. LastAtDepth(j, at + 1, d - 1)
      BY <1>1, <3>1, <3>2 DEF LastAtDepth
    <3> QED BY <1>1, <1>8, <2>2, <2>3, <3>1, <3>3
  <2>4. CASE d = Len(parents) + 1
    <3>1. LastAtDepth(at, at + 1, d - 1)
      BY <1>1, <1>2, <1>3, <2>4 DEF LastAtDepth
    <3>2. parents'[d] = trace[at].sig
      BY <1>8, <1>14, <1>15, <1>17, <2>2, <2>4
    <3>3. at \in 1 .. at
      BY <1>1, <1>2
    <3> QED BY <3>1, <3>2, <3>3
  <2> QED BY <1>3, <1>8, <2>2, <2>3, <2>4
<1>18. CallsMatchTrace'
  <2>1. pc' = "process" => methodCounter' + 1 < Len(trace')
    BY <1>1, <1>3, <1>4, <1>10, <1>11 DEF WalkInv
  <2>2. ASSUME NEW i \in Aligned, i < at', calls'[i].method # "failed"
        PROVE  /\ calls'[i].sig = trace[i].sig /\ calls'[i].nesting = trace[i].depth
               /\ calls'[i].parent = IF i = 1 THEN Empty ELSE trace[Caller(i)].sig
    <3>1. i \in Nat /\ i >= 1
      BY <1>3, <1>14
    <3>2. CASE i < at
      <4>1. calls'[i] = calls[i]
        BY <1>7, <1>14, <3>1, <3>2
      <4> QED BY <2>2, <3>2, <4>1 DEF TraceInv, AlignInv, CallsMatchTrace
    <3>3. CASE i = at
      <4>1. calls'[i] = c /\ sig = trace[at].sig
        BY <1>1, <1>7, <1>15, <3>3
      <4>2. PICK j \in 1 .. at - 1 : LastAtDepth(j, at, Len(parents) - 1) /\ parents[Len(parents)] = trace[j].sig
        BY <1>3, <1>15, <3>3
      <4>3. Caller(at) = j
        BY <1>1, <1>2, <4>2, CallerIsLast
      <4> QED BY <1>2, <1>5, <1>6, <3>3, <4>1, <4>2, <4>3
    <3> QED BY <1>1, <1>11, <2>2, <3>1, <3>2, <3>3
  <2> QED BY <1>4, <1>13, <2>1, <2>2 DEF CallsMatchTrace
<1>19. AlignInv'
  <2>1. ASSUME pc' = "process", at' \in Aligned'
        PROVE  /\ methodCounter' = at' - 2 /\ Len(calls') = at' - 1
               /\ \A d \in 1 .. Len(parents') :
                    \E j \in 1 .. at' - 1 : LastAtDepth(j, at, d - 1)' /\ parents'[d] = trace'[j].sig
    <3>1. at + 1 \in Aligned /\ at \in Aligned /\ at' - 1 = at
      BY <1>1, <1>11, <1>13, <1>14, <2>1
    <3>2. methodCounter' = at' - 2 /\ Len(calls') = at' - 1
      BY <1>1, <1>4, <1>7, <1>11, <1>15, <3>1
    <3>3. \A j, d : LastAtDepth(j, at, d - 1)' = LastAtDepth(j, at + 1, d - 1)
      BY <1>4, <1>11 DEF LastAtDepth
    <3>4. ASSUME NEW d \in 1 .. Len(parents')
          PROVE  \E j \in 1 .. at' - 1 : LastAtDepth(j, at, d - 1)' /\ parents'[d] = trace'[j].sig
      <4>1. PICK j \in 1 .. at : LastAtDepth(j, at + 1, d - 1) /\ parents'[d] = trace[j].sig
        BY <1>17, <2>1, <3>1
      <4>2. j \in 1 .. at' - 1 /\ trace'[j] = trace[j] /\ LastAtDepth(j, at, d - 1)'
        BY <1>4, <3>1, <3>3, <4>1
      <4> QED BY <4>1, <4>2
    <3> QED BY <3>2, <3>4
  <2> QED BY <1>13, <1>16, <1>18, <2>1 DEF AlignInv
<1> QED BY <1>9, <1>10, <1>12, <1>19 DEF TraceInv, GraphInv

\* A call that fails to decode is passed over with all its subcalls: if it has
\* any, none of the calls after it is aligned.
LEMMA ProcessCallFailsKeeps ==
  ASSUME TraceInv, ProcessCallFails
  PROVE  TraceInv'
<1> DEFINE c == NoData(Empty, "failed")
           next == AfterSubcalls(at)
<1>1. IsTree(trace) /\ pc = "process" /\ calls # <<>> /\ at \in Nat /\ methodCounter \in Nat
  BY DEF TraceInv, StageInv, ProcessCallFails, Walking
<1>2. /\ at \in 2 .. Len(trace) /\ methodCounter =< at - 2
      /\ parents \in Seq(Sigs) /\ Len(parents) = trace[at].depth
      /\ \A d \in 1 .. Len(parents) : \E p \in 1 .. Len(calls) : calls[p].sig = parents[d]
  BY <1>1 DEF TraceInv, WalkInv
<1>3. Len(trace) \in Nat /\ DOMAIN trace = 1 .. Len(trace) /\ Len(parents) \in Nat
  BY <1>1, <1>2, TreeCalls
<1>4. /\ methodCounter' = methodCounter + 1 /\ calls' = Append(calls, c)
      /\ GoOn(next, parents) /\ Malformed(at)
      /\ UNCHANGED <<reverted, trace, faults, fourByte, graph>>
  BY DEF ProcessCallFails, DecodeFails, txVars
<1>5. /\ next \in at + 1 .. Len(trace) + 1
      /\ next =< Len(trace) => trace[next].depth =< trace[at].depth
  <2>1. at \in 1 .. Len(trace)
    BY <1>2, <1>3
  <2> QED BY <1>1, <2>1, AfterSubcallsFacts
<1>6. /\ c \in DecodedCalls /\ c.sig = Empty /\ c.parent = Empty /\ c.err = FALSE
      /\ c.method = "failed"
  BY DEF NoData, DecodedCalls
<1>7. /\ calls \in Seq(DecodedCalls) /\ Len(calls) \in Nat
      /\ Len(calls') = Len(calls) + 1 /\ calls'[Len(calls) + 1] = c /\ calls' # <<>>
      /\ \A i \in 1 .. Len(calls) : calls'[i] = calls[i]
  <2>1. calls \in Seq(DecodedCalls)
    BY DEF TraceInv, CallsInv
  <2> HIDE DEF c
  <2> QED BY <1>4, <1>6, <2>1
<1>8. next \in Aligned => next = at + 1
  BY <1>2, <1>3, <1>4, <1>5 DEF Aligned
<1>9. \A i \in Aligned : i < next => i =< at
  <2> SUFFICES ASSUME NEW i \in Aligned, i < next, ~(i =< at) PROVE FALSE
    OBVIOUS
  <2>1. i \in Nat /\ at \in 1 .. i - 1
    BY <1>2, <1>3 DEF Aligned
  <2>2. next = at + 1
    BY <1>4, <2>1 DEF Aligned
  <2> QED BY <1>1, <2>1, <2>2
<1> HIDE DEF c, next
<1>10. CallsInv'
  <2>1. c.sig \notin Sigs
    BY <1>6, TracingAssumption DEF Sigs
  <2>2. CallsInv /\ reverted' = reverted /\ calls' = Append(calls, c)
    BY <1>4 DEF TraceInv
  <2> QED BY <1>1, <1>6, <2>1, <2>2, CallAppended
<1>11. WalkInv' /\ (pc' = "process" => parents' = SubSeq(parents, 1, trace[next].depth))
  <2>1. next \in 2 .. Len(trace) + 1
    BY <1>2, <1>3, <1>5
  <2>2. next =< Len(trace) => trace[next].depth =< Len(parents)
    BY <1>2, <1>5
  <2>3. ASSUME NEW d \in 1 .. Len(parents)
        PROVE  \E p \in 1 .. Len(calls') : calls'[p].sig = parents[d]
    <3>1. PICK p \in 1 .. Len(calls) : calls[p].sig = parents[d]
      BY <1>2
    <3>2. p \in 1 .. Len(calls') /\ calls'[p] = calls[p]
      BY <1>7
    <3> QED BY <3>1, <3>2
  <2>4. methodCounter' =< next - 2
    BY <1>1, <1>2, <1>3, <1>4, <1>5
  <2> QED BY <1>1, <1>2, <1>4, <2>1, <2>2, <2>3, <2>4, GoOnKeeps
<1>12. /\ at' = next /\ next \in Nat /\ pc' \in {"process", "missing"}
       /\ pc' = "process" => next \in 2 .. Len(trace)
  BY <1>2, <1>3, <1>4, <1>5 DEF GoOn
<1>13. StageInv' /\ graph' = NoGraph
  BY <1>1, <1>4, <1>7, <1>12, WalkStageKeeps DEF TraceInv
<1>14. Aligned' = Aligned /\ \A i : Caller(i)' = Caller(i)
  BY <1>4 DEF Aligned, Malformed, AfterSubcalls, Caller
<1>15. /\ Aligned \subseteq 1 .. Len(trace)
       /\ \A i \in Aligned : i < at => i =< Len(calls)
       /\ next \in Aligned => at \in Aligned
  BY <1>1, <1>2, <1>3, <1>8 DEF TraceInv, AlignInv, Aligned
<1>16. ASSUME at \in Aligned
       PROVE  /\ methodCounter = at - 2 /\ Len(calls) = at - 1
              /\ \A d \in 1 .. Len(parents) :
                   \E j \in 1 .. at - 1 : LastAtDepth(j, at, d - 1) /\ parents[d] = trace[j].sig
  BY <1>1, <1>16 DEF TraceInv, AlignInv
<1>17. \A i \in Aligned : i < at' => i =< Len(calls')
  <2> TAKE i \in Aligned
  <2> HAVE i < at'
  <2>1. i \in Nat /\ i =< at
    BY <1>3, <1>9, <1>12, <1>15
  <2>2. CASE i < at
    BY <1>7, <1>15, <2>1, <2>2
  <2>3. CASE i = at
    BY <1>1, <1>7, <1>16, <2>3
  <2> QED BY <1>1, <2>1, <2>2, <2>3
<1>18. ASSUME pc' = "process", next \in Aligned, NEW d \in 1 .. Len(parents')
       PROVE  \E j \in 1 .. next - 1 : LastAtDepth(j, next, d - 1) /\ parents'[d] = trace[j].sig
  <2>1. next = at + 1 /\ at \in Aligned
    BY <1>8, <1>15, <1>18
  <2>2. /\ trace[next].depth \in Nat /\ trace[next].depth =< Len(parents)
        /\ Len(parents') = trace[next].depth
    <3>1. next \in 2 .. Len(trace) /\ trace[next].depth \in Nat
      BY <1>1, <1>3, <1>12, <1>18, TreeCalls
    <3>2. Len(parents') = trace[next].depth
      BY <1>4, <1>11, <1>12, <1>18 DEF WalkInv
    <3>3. next =< Len(trace)
      BY <1>3, <3>1
    <3> QED BY <1>2, <1>5, <3>1, <3>2, <3>3
  <2>3. d \in 1 .. Len(parents) /\ parents'[d] = parents[d]
    BY <1>2, <1>3, <1>11, <1>18, <2>2
  <2>4. PICK j \in 1 .. at - 1 : LastAtDepth(j, at, d - 1) /\ parents[d] = trace[j].sig
    BY <1>16, <2>1, <2>3
  <2>5. trace[at].depth # d - 1
    BY <1>2, <1>3, <2>3
  <2>6. LastAtDepth(j, next, d - 1) /\ j \in 1 .. next - 1
    BY <1>1, <2>1, <2>4, <2>5 DEF LastAtDepth
  <2> QED BY <2>3, <2>4, <2>6
<1>19. CallsMatchTrace'
  <2>1. pc' = "process" => methodCounter' + 1 < Len(trace')
    BY <1>1, <1>3, <1>4, <1>11, <1>12 DEF WalkInv
  <2>2. ASSUME NEW i \in Aligned, i < at', calls'[i].method # "failed"
        PROVE  /\ calls'[i].sig = trace[i].sig /\ calls'[i].nesting = trace[i].depth
               /\ calls'[i].parent = IF i = 1 THEN Empty ELSE trace[Caller(i)].sig
    <3>1. i \in Nat /\ i >= 1 /\ i =< at
      BY <1>3, <1>9, <1>12, <1>15, <2>2
    <3>2. i # at
      BY <1>1, <1>6, <1>7, <1>16, <2>2
    <3>3. i < at
      BY <1>1, <3>1, <3>2
    <3>4. calls'[i] = calls[i]
      BY <1>7, <1>15, <3>1, <3>3
    <3> QED BY <2>2, <3>3, <3>4 DEF TraceInv, AlignInv, CallsMatchTrace
  <2> QED BY <1>4, <1>14, <2>1, <2>2 DEF CallsMatchTrace
<1>20. AlignInv'
  <2>1. ASSUME pc' = "process", at' \in Aligned'
        PROVE  /\ methodCounter' = at' - 2 /\ Len(calls') = at' - 1
               /\ \A d \in 1 .. Len(parents') :
                    \E j \in 1 .. at' - 1 : LastAtDepth(j, at, d - 1)' /\ parents'[d] = trace'[j].sig
    <3>1. next \in Aligned /\ at \in Aligned /\ at' = next /\ next = at + 1
      BY <1>8, <1>12, <1>14, <1>15, <2>1
    <3>2. methodCounter' = at' - 2 /\ Len(calls') = at' - 1
      BY <1>1, <1>4, <1>7, <1>16, <3>1
    <3>3. \A j, d : LastAtDepth(j, at, d - 1)' = LastAtDepth(j, next, d - 1)
      BY <1>4, <3>1 DEF LastAtDepth
    <3>4. ASSUME NEW d \in 1 .. Len(parents')
          PROVE  \E j \in 1 .. at' - 1 : LastAtDepth(j, at, d - 1)' /\ parents'[d] = trace'[j].sig
      <4>1. PICK j \in 1 .. next - 1 : LastAtDepth(j, next, d - 1) /\ parents'[d] = trace[j].sig
        BY <1>18, <2>1, <3>1
      <4>2. j \in 1 .. at' - 1 /\ trace'[j] = trace[j] /\ LastAtDepth(j, at, d - 1)'
        BY <1>4, <3>1, <3>3, <4>1
      <4> QED BY <4>1, <4>2
    <3> QED BY <3>2, <3>4
  <2> QED BY <1>14, <1>17, <1>19, <2>1 DEF AlignInv
<1> QED BY <1>10, <1>11, <1>13, <1>20 DEF TraceInv, GraphInv

LEMMA SigsFinite == IsFiniteSet(Sigs)
<1>1. IsFiniteSet(SubSigs)
  BY TracingAssumption
<1> QED BY <1>1, FS_AddElement DEF Sigs

\* The 4byte trace has the selectors of the calls and of hidden calls only.
LEMMA CountedSigs ==
  ASSUME IsTree(trace), faults \in SUBSET Faults, fourByte \in FourBytes(trace) \cup {<<>>}
  PROVE  /\ Counted(trace) \in SUBSET Sigs /\ IsFiniteSet(Counted(trace))
         /\ DOMAIN fourByte \in SUBSET Sigs /\ IsFiniteSet(DOMAIN fourByte)
         /\ fourByte # <<>> => DOMAIN fourByte = Counted(trace)
<1>1. ASSUME NEW f \in Hidden PROVE f.sig \in SubSigs
  BY DEF Hidden, Faults
<1>2. Counted(trace) \in SUBSET Sigs
  <2>1. \A i \in DOMAIN trace : trace[i].sig \in Sigs
    BY TreeCalls
  <2> QED BY <1>1, <2>1 DEF Counted, Sigs
<1>3. DOMAIN fourByte = Counted(trace) \/ fourByte = <<>>
  BY DEF FourBytes
<1>4. DOMAIN fourByte = Counted(trace) \/ DOMAIN fourByte = {}
  BY <1>3
<1>5. DOMAIN fourByte \in SUBSET Sigs
  BY <1>2, <1>4
<1>6. IsFiniteSet(Counted(trace)) /\ IsFiniteSet(DOMAIN fourByte)
  BY <1>2, <1>5, SigsFinite, FS_Subset
<1> QED BY <1>2, <1>3, <1>5, <1>6

\* Every missing signature occurs in every order of them.
LEMMA MissingOrder ==
  ASSUME IsTree(trace), faults \in SUBSET Faults, fourByte \in FourBytes(trace) \cup {<<>>},
         NEW order \in SetToSeqs(MissingSignatures)
  PROVE  /\ order \in Seq(MissingSignatures)
         /\ \A s \in MissingSignatures : \E k \in 1 .. Len(order) : order[k] = s
<1> DEFINE n == Cardinality(MissingSignatures)
<1>1. MissingSignatures \in SUBSET (DOMAIN fourByte)
  BY DEF MissingSignatures
<1>2. IsFiniteSet(MissingSignatures)
  BY <1>1, CountedSigs, FS_Subset
<1>3. n \in Nat
  BY <1>2, FS_CardinalityType
<1>4. /\ order \in [1 .. n -> MissingSignatures]
      /\ \A i, j \in 1 .. n : i # j => order[i] # order[j]
  BY DEF SetToSeqs
<1>5. order \in Injection(1 .. n, MissingSignatures)
  BY <1>4 DEF Injection, IsInjective
<1>6. Cardinality(1 .. n) = n
  <2>1. Cardinality(1 .. n) = IF 1 > n THEN 0 ELSE n - 1 + 1
    BY <1>3, FS_Interval
  <2> QED BY <1>3, <2>1
<1> HIDE DEF n
<1>7. order \in Surjection(1 .. n, MissingSignatures)
  BY <1>2, <1>5, <1>6, FS_Injection DEF n
<1>8. \A s \in MissingSignatures : \E k \in 1 .. n : order[k] = s
  BY <1>7 DEF Surjection
<1>9. order \in Seq(MissingSignatures) /\ Len(order) = n
  BY <1>3, <1>4
<1> QED BY <1>8, <1>9

MissingCall(s) == IF s \in Known THEN NoData("0x", s) ELSE NoData(Empty, "noData")

LEMMA Joined ==
  ASSUME NEW S, NEW a \in Seq(S), NEW b \in Seq(S)
  PROVE  /\ a \o b \in Seq(S) /\ Len(a \o b) = Len(a) + Len(b)
         /\ \A i \in 1 .. Len(a) : (a \o b)[i] = a[i]
         /\ \A k \in 1 .. Len(b) : (a \o b)[Len(a) + k] = b[k]
<1>1. a \o b \in Seq(S) /\ Len(a \o b) = Len(a) + Len(b)
  OBVIOUS
<1>2. \A i \in 1 .. Len(a) : (a \o b)[i] = a[i]
  OBVIOUS
<1>3. ASSUME NEW k \in 1 .. Len(b) PROVE (a \o b)[Len(a) + k] = b[k]
  OBVIOUS
<1> QED BY <1>1, <1>2, <1>3

\* What checkForMissingCalls adds: calls without a caller, and no failed ones.
LEMMA MissingCallsAdded ==
  ASSUME TraceInv, CheckForMissingCalls
  PROVE  /\ calls \in Seq(DecodedCalls) /\ calls' \in Seq(DecodedCalls)
         /\ Len(calls') >= Len(calls)
         /\ \A i \in 1 .. Len(calls) : calls'[i] = calls[i]
         /\ \A i \in Len(calls) + 1 .. Len(calls') :
              calls'[i].sig \notin Sigs /\ calls'[i].parent = Empty /\ ~calls'[i].err
         /\ Expected # Len(trace) =>
              \A s \in MissingSignatures : \E i \in 1 .. Len(calls') : calls'[i] = MissingCall(s)
<1>1. IsTree(trace) /\ faults \in SUBSET Faults /\ fourByte \in FourBytes(trace) \cup {<<>>}
  BY DEF TraceInv, StageInv, CheckForMissingCalls, Walking
<1>2. calls \in Seq(DecodedCalls) /\ Len(calls) \in Nat
  BY DEF TraceInv, CallsInv
<1>3. CASE Expected = Len(trace)
  <2>1. calls' = calls
    BY <1>3 DEF CheckForMissingCalls
  <2> QED BY <1>2, <1>3, <2>1
<1>4. CASE Expected # Len(trace)
  <2>1. PICK order \in SetToSeqs(MissingSignatures) :
          calls' = calls \o [i \in DOMAIN order |-> MissingCall(order[i])]
    BY <1>4 DEF CheckForMissingCalls, MissingCall
  <2>2. /\ order \in Seq(MissingSignatures)
        /\ \A s \in MissingSignatures : \E k \in 1 .. Len(order) : order[k] = s
    BY <1>1, MissingOrder
  <2>3. \A s : /\ MissingCall(s) \in DecodedCalls /\ MissingCall(s).sig \notin Sigs
               /\ MissingCall(s).parent = Empty /\ MissingCall(s).err = FALSE
    BY TracingAssumption DEF MissingCall, NoData, DecodedCalls, Sigs
  <2> DEFINE new == [i \in DOMAIN order |-> MissingCall(order[i])]
  <2>4. Len(order) \in Nat /\ DOMAIN order = 1 .. Len(order)
    BY <2>2
  <2>5. /\ new \in Seq(DecodedCalls) /\ Len(new) = Len(order)
        /\ \A k \in 1 .. Len(order) : new[k] = MissingCall(order[k])
    BY <2>3, <2>4
  <2>6. calls' = calls \o new
    BY <2>1
  <2> HIDE DEF new
  <2>7. /\ calls' \in Seq(DecodedCalls) /\ Len(calls') = Len(calls) + Len(order)
        /\ \A i \in 1 .. Len(calls) : calls'[i] = calls[i]
        /\ \A k \in 1 .. Len(order) : calls'[Len(calls) + k] = new[k]
    <3>1. new \in Seq(DecodedCalls) /\ Len(new) = Len(order)
      BY <2>5
    <3>2. calls \in Seq(DecodedCalls)
      BY <1>2
    <3>3. /\ calls \o new \in Seq(DecodedCalls) /\ Len(calls \o new) = Len(calls) + Len(new)
          /\ \A i \in 1 .. Len(calls) : (calls \o new)[i] = calls[i]
          /\ \A k \in 1 .. Len(new) : (calls \o new)[Len(calls) + k] = new[k]
      <4>1. new \in Seq(DecodedCalls)
        BY <3>1
      <4>2. calls \o new \in Seq(DecodedCalls) /\ Len(calls \o new) = Len(calls) + Len(new)
        BY <3>2, <4>1, Joined
      <4>3. \A i \in 1 .. Len(calls) : (calls \o new)[i] = calls[i]
        BY <3>2, <4>1, Joined
      <4>4. \A k \in 1 .. Len(new) : (calls \o new)[Len(calls) + k] = new[k]
        BY <3>2, <4>1, Joined
      <4> QED BY <4>2, <4>3, <4>4
    <3> QED BY <2>6, <3>1, <3>3, Zenon
  <2>8. ASSUME NEW i \in Len(calls) + 1 .. Len(calls')
        PROVE  calls'[i].sig \notin Sigs /\ calls'[i].parent = Empty /\ ~calls'[i].err
    <3>1. i - Len(calls) \in 1 .. Len(order) /\ Len(calls) + (i - Len(calls)) = i
      BY <1>2, <2>4, <2>7
    <3>2. calls'[i] = MissingCall(order[i - Len(calls)])
      BY <2>5, <2>7, <3>1
    <3> QED BY <2>3, <3>2
  <2>9. ASSUME NEW s \in MissingSignatures
        PROVE  \E i \in 1 .. Len(calls') : calls'[i] = MissingCall(s)
    <3>1. PICK k \in 1 .. Len(order) : order[k] = s
      BY <2>2
    <3>2. calls'[Len(calls) + k] = MissingCall(s) /\ Len(calls) + k \in 1 .. Len(calls')
      BY <1>2, <2>4, <2>5, <2>7, <3>1, SMTT(60)
    <3> QED BY <3>2
  <2> QED BY <1>2, <2>4, <2>7, <2>8, <2>9
<1> QED BY <1>3, <1>4

LEMMA CheckForMissingCallsKeeps ==
  ASSUME TraceInv, CheckForMissingCalls
  PROVE  TraceInv'
<1>1. /\ pc = "missing" /\ pc' = "draw" /\ calls # <<>> /\ at \in Nat /\ methodCounter \in Nat
      /\ UNCHANGED <<reverted, trace, faults, fourByte, at, methodCounter, graph>>
      /\ IsTree(trace)
  BY DEF CheckForMissingCalls, TraceInv, StageInv, txVars, Walking
<1>2. /\ calls \in Seq(DecodedCalls) /\ calls' \in Seq(DecodedCalls)
      /\ Len(calls') >= Len(calls)
      /\ \A i \in 1 .. Len(calls) : calls'[i] = calls[i]
      /\ \A i \in Len(calls) + 1 .. Len(calls') :
           calls'[i].sig \notin Sigs /\ calls'[i].parent = Empty /\ ~calls'[i].err
  BY MissingCallsAdded
<1>3. Len(calls) \in Nat /\ Len(calls') \in Nat /\ Len(calls) >= 1 /\ calls' # <<>>
  BY <1>1, <1>2
<1>4. StageInv' /\ graph' = NoGraph
  BY <1>1, <1>3, WalkStageKeeps DEF TraceInv
<1>5. CallsInv'
  <2>1. calls'[1].sig \in Sigs /\ calls'[1].parent = Empty /\ calls'[1].err = reverted'
    BY <1>1, <1>2, <1>3 DEF TraceInv, CallsInv
  <2>2. ASSUME NEW i \in 1 .. Len(calls')
        PROVE  /\ calls'[i].err => calls'[i].sig \in Sigs
               /\ calls'[i].sig \in Sigs /\ i # 1 => calls'[i].parent # Empty
               /\ calls'[i].parent # Empty =>
                     \E p \in 1 .. i - 1 : calls'[p].sig = calls'[i].parent
    <3>1. CASE i \in 1 .. Len(calls)
      <4>1. \A p \in 1 .. i - 1 : calls'[p] = calls[p]
        BY <1>2, <1>3, <3>1
      <4> QED BY <1>2, <3>1, <4>1 DEF TraceInv, CallsInv
    <3>2. CASE i \in Len(calls) + 1 .. Len(calls')
      BY <1>2, <3>2
    <3> QED BY <1>3, <3>1, <3>2
  <2> QED BY <1>2, <2>1, <2>2 DEF CallsInv
<1>6. AlignInv'
  <2>1. Aligned' = Aligned /\ \A i : Caller(i)' = Caller(i)
    BY <1>1 DEF Aligned, Malformed, AfterSubcalls, Caller
  <2>2. \A i \in Aligned : i \in Nat /\ i >= 1
    BY <1>1, TreeCalls DEF Aligned
  <2>3. \A i \in Aligned : i < at => i \in 1 .. Len(calls)
    BY <1>3, <2>2 DEF TraceInv, AlignInv
  <2>4. \A i \in Aligned : i < at => i =< Len(calls') /\ calls'[i] = calls[i]
    BY <1>2, <1>3, <2>2, <2>3
  <2>5. CallsMatchTrace'
    BY <1>1, <2>1, <2>4 DEF TraceInv, AlignInv, CallsMatchTrace
  <2> QED BY <1>1, <2>1, <2>4, <2>5 DEF AlignInv
<1> QED BY <1>1, <1>4, <1>5, <1>6 DEF TraceInv, WalkInv, GraphInv

LEMMA DrawGraphKeeps ==
  ASSUME TxInv, TraceInv, DrawGraph
  PROVE  TraceInv'
<1>1. /\ pc = "draw" /\ pc' \in {"panic", "returned"}
      /\ UNCHANGED <<reverted, trace, faults, fourByte, at, methodCounter, parents, calls>>
  BY DEF DrawGraph, Return, txVars
<1>2. StageInv'
  BY <1>1 DEF TraceInv, StageInv, IsTree, Walking
<1>3. CallsInv'
  BY <1>1 DEF TraceInv, CallsInv
<1>4. AlignInv'
  <2>1. Aligned' = Aligned /\ \A i : Caller(i)' = Caller(i)
    BY <1>1 DEF Aligned, Malformed, AfterSubcalls, Caller
  <2> QED BY <1>1, <2>1 DEF TraceInv, AlignInv, CallsMatchTrace
<1>5. GraphInv'
  <2>1. PICK path \in findShortestPath(calls) : graph' = generateDotGraph(calls, revertErr # None, path)
    BY DEF DrawGraph
  <2>2. reverted = (revertErr # None)
    BY <1>1 DEF TxInv
  <2>3. graph' = generateDotGraph(calls, reverted, path)
    BY <2>1, <2>2, Zenon
  <2>4. calls # <<>>
    BY <1>1 DEF TraceInv, StageInv
  <2> QED BY <1>1, <2>3, <2>4 DEF GraphInv
<1> QED BY <1>1, <1>2, <1>3, <1>4, <1>5 DEF TraceInv, WalkInv

LEMMA TraceInvStep ==
  ASSUME TxInv, TraceInv, [Next]_vars
  PROVE  TraceInv'
<1>1. CASE UNCHANGED vars
  <2>1. UNCHANGED <<pc, reverted, trace, faults, fourByte, at, methodCounter, parents, calls, graph>>
    BY <1>1 DEF vars, txVars, traceVars
  <2>2. Aligned' = Aligned /\ \A i : Caller(i)' = Caller(i)
    BY <2>1 DEF Aligned, Malformed, AfterSubcalls, Caller
  <2>3. FourBytes(trace)' = FourBytes(trace)
    BY <2>1 DEF FourBytes, Counted, Times, Hidden
  <2>4. StageInv' /\ WalkInv'
    BY <2>1, <2>3 DEF TraceInv, StageInv, WalkInv, IsTree
  <2>5. AlignInv'
    BY <2>1, <2>2 DEF TraceInv, AlignInv, CallsMatchTrace, LastAtDepth
  <2>6. CallsInv' /\ GraphInv'
    BY <2>1 DEF TraceInv, CallsInv, GraphInv
  <2> QED BY <2>4, <2>5, <2>6 DEF TraceInv
<1>2. CASE TxStep /\ UNCHANGED traceVars
  <2>1. /\ UNCHANGED <<reverted, trace, faults, fourByte, at, methodCounter, parents, calls, graph>>
        /\ pc \in {"receipt", "decode"} /\ pc' \in {"decode", "decoded", "panic"}
    BY <1>2 DEF TxStep, RevertReason, NotReverted, DecodeNothing, DecodeInputsFails, DecodeEvents,
         traceVars, txVars
  <2> QED BY <2>1, QuietStep DEF Walking
<1>3. ASSUME \/ SkipTracing \/ StartTrace \/ FetchFails \/ NothingToDecode
             \/ GatherFails \/ MainCallFails \/ PrintOnly
      PROVE  TraceInv'
  <2>1. /\ UNCHANGED <<reverted, trace, faults, fourByte, at, methodCounter, parents, calls, graph>>
        /\ pc \in {"decoded", "fetch", "main", "draw"}
        /\ pc' \in {"fetch", "returned"} /\ (pc' = "fetch" => pc = "decoded")
    BY <1>3 DEF SkipTracing, StartTrace, FetchFails, NothingToDecode, GatherFails, MainCallFails,
         PrintOnly, Return, traceVars, txVars
  <2> QED BY <2>1, QuietStep DEF Walking
<1>4. CASE FetchTraces
  BY <1>4, FetchTracesKeeps
<1>5. CASE MainCall
  BY <1>5, MainCallKeeps
<1>6. CASE ProcessCallFails
  BY <1>6, ProcessCallFailsKeeps
<1>7. CASE ProcessCall
  BY <1>7, ProcessCallKeeps
<1>8. CASE CheckForMissingCalls
  BY <1>8, CheckForMissingCallsKeeps
<1>9. CASE DrawGraph
  BY <1>9, DrawGraphKeeps
<1> QED BY <1>1, <1>2, <1>3, <1>4, <1>5, <1>6, <1>7, <1>8, <1>9 DEF Next, TraceStep

(***************************************************************************)
(* DecodeTrace: in a call tree of any shape and size, with any selectors   *)
(* and any outputs that cannot be decoded, every call before the first one *)
(* whose subcalls are skipped has its own selector, depth and caller, and  *)
(* the counter stays within the list of selectors.                         *)
(***************************************************************************)
THEOREM CallsAreMatched == Spec => []CallsMatchTrace
<1>1. TxInv /\ TraceInv /\ [Next]_vars => (TxInv /\ TraceInv)'
  BY TxInvStep, TraceInvStep
<1>2. TraceInv => CallsMatchTrace
  BY DEF TraceInv, AlignInv
<1> QED BY <1>1, <1>2, TxInvInit, TraceInvInit, PTL DEF Spec

-----------------------------------------------------------------------------
(***************************************************************************)
(* Missing calls.  Numbering the calls of each selector in the order of    *)
(* the trace maps the calls one to one to those that the 4byte tracer      *)
(* counted, and leaves out the hidden one: the two numbers differ.         *)
(***************************************************************************)
CallsOf(s) == {k \in 1 .. Len(trace) : trace[k].sig = s}

CallNumber(i) == Cardinality({k \in 1 .. i : trace[k].sig = trace[i].sig})

\* The traces can be compared.
Comparable ==
    /\ \A i \in DOMAIN trace : trace[i].counted
    /\ \A s \in Counted(trace) : \E size \in Data :
            \A other \in Data \ {size} : Times(trace, s, other) = 0

\* What the walk over the tree ends with.
CanCompare ==
    /\ IsTree(trace) /\ faults \in SUBSET Faults /\ fourByte \in FourBytes(trace)

LEMMA FaultsFinite ==
  ASSUME faults \in SUBSET Faults
  PROVE  IsFiniteSet(Hidden)
<1> DEFINE H == {[kind |-> "hidden", call |-> 0, sig |-> s] : s \in SubSigs}
           f == [s \in SubSigs |-> [kind |-> "hidden", call |-> 0, sig |-> s]]
<1>1. f \in Surjection(SubSigs, H)
  BY DEF Surjection
<1>2. IsFiniteSet(SubSigs)
  BY TracingAssumption
<1> HIDE DEF f
<1>3. IsFiniteSet(H)
  BY <1>1, <1>2, FS_Surjection
<1>4. Hidden \in SUBSET H
  BY DEF Hidden, Faults
<1> HIDE DEF H
<1> QED BY <1>3, <1>4, FS_Subset

\* The sets that Times counts are finite.
CalledWith(s, size) ==
    {i \in DOMAIN trace : trace[i].sig = s /\ trace[i].counted /\ trace[i].data = size}

HiddenWith(s, size) == {f \in Hidden : f.sig = s /\ size = 1}

LEMMA TimesFacts ==
  ASSUME IsTree(trace), faults \in SUBSET Faults, NEW s, NEW size
  PROVE  /\ IsFiniteSet(CalledWith(s, size))
         /\ Cardinality(CalledWith(s, size)) \in Nat /\ Cardinality(HiddenWith(s, size)) \in Nat
         /\ Cardinality(CalledWith(s, size)) =< Len(trace)
         /\ Cardinality(HiddenWith(s, size)) =< Cardinality(Hidden)
         /\ Times(trace, s, size) = Cardinality(CalledWith(s, size)) + Cardinality(HiddenWith(s, size))
<1> DEFINE T == CalledWith(s, size)
           F == HiddenWith(s, size)
<1>1. T \in SUBSET (1 .. Len(trace)) /\ Len(trace) \in Nat /\ F \in SUBSET Hidden
  BY TreeCalls DEF CalledWith, HiddenWith
<1>2. Times(trace, s, size) = Cardinality(T) + Cardinality(F)
  BY DEF Times, CalledWith, HiddenWith
<1> HIDE DEF T, F
<1>3. /\ IsFiniteSet(1 .. Len(trace))
      /\ Cardinality(1 .. Len(trace)) = (IF 1 > Len(trace) THEN 0 ELSE Len(trace) - 1 + 1)
  BY <1>1, FS_Interval
<1>4. IsFiniteSet(T) /\ Cardinality(T) =< Cardinality(1 .. Len(trace))
  BY <1>1, <1>3, FS_Subset
<1>5. IsFiniteSet(F) /\ Cardinality(F) =< Cardinality(Hidden)
  BY <1>1, FaultsFinite, FS_Subset
<1>6. Cardinality(T) \in Nat /\ Cardinality(F) \in Nat
  BY <1>4, <1>5, FS_CardinalityType
<1>7. Cardinality(1 .. Len(trace)) = Len(trace)
  BY <1>1, <1>3
<1> QED BY <1>2, <1>4, <1>5, <1>6, <1>7 DEF T, F

LEMMA CountedCallsFinite ==
  ASSUME CanCompare
  PROVE  /\ IsFiniteSet(CountedCalls)
         /\ \A s \in DOMAIN fourByte : fourByte[s] \in Nat /\ fourByte[s] > 0
<1> DEFINE M == Len(trace) + Cardinality(Hidden)
<1>1. IsTree(trace) /\ faults \in SUBSET Faults /\ fourByte \in FourBytes(trace) \cup {<<>>}
  BY DEF CanCompare
<1>2. Cardinality(Hidden) \in Nat /\ Len(trace) \in Nat /\ M \in Nat
  BY <1>1, FaultsFinite, FS_CardinalityType, TreeCalls
<1>3. ASSUME NEW s \in DOMAIN fourByte PROVE fourByte[s] \in 1 .. M
  <2>1. PICK z \in [Counted(trace) -> Data] :
          /\ \A t \in Counted(trace) : Times(trace, t, z[t]) > 0
          /\ fourByte = [t \in Counted(trace) |-> Times(trace, t, z[t])]
    BY DEF CanCompare, FourBytes
  <2>2. fourByte[s] = Times(trace, s, z[s]) /\ Times(trace, s, z[s]) > 0
    BY <2>1
  <2>3. Times(trace, s, z[s]) \in Nat /\ Times(trace, s, z[s]) =< M
    <3> DEFINE T == CalledWith(s, z[s])
               F == HiddenWith(s, z[s])
    <3>1. /\ Cardinality(T) \in Nat /\ Cardinality(F) \in Nat
          /\ Cardinality(T) =< Len(trace) /\ Cardinality(F) =< Cardinality(Hidden)
          /\ Times(trace, s, z[s]) = Cardinality(T) + Cardinality(F)
      BY <1>1, TimesFacts
    <3> HIDE DEF T, F
    <3> QED BY <1>2, <3>1
  <2> HIDE DEF M
  <2> QED BY <1>2, <2>2, <2>3
<1> HIDE DEF M
<1>4. IsFiniteSet(1 .. M) /\ IsFiniteSet(DOMAIN fourByte)
  <2>1. IsFiniteSet(1 .. M)
    BY <1>2, FS_Interval
  <2>2. IsFiniteSet(DOMAIN fourByte)
    BY <1>1, CountedSigs
  <2> QED BY <2>1, <2>2
<1>5. IsFiniteSet((DOMAIN fourByte) \X (1 .. M))
  BY <1>4, FS_Product
<1>6. CountedCalls \in SUBSET ((DOMAIN fourByte) \X (1 .. M))
  <2> SUFFICES ASSUME NEW s \in DOMAIN fourByte, NEW k \in 1 .. fourByte[s]
               PROVE  <<s, k>> \in (DOMAIN fourByte) \X (1 .. M)
    BY DEF CountedCalls
  <2>1. k \in 1 .. M
    BY <1>2, <1>3
  <2> QED BY <2>1
<1>7. IsFiniteSet(CountedCalls)
  BY <1>5, <1>6, FS_Subset
<1>8. \A s \in DOMAIN fourByte : fourByte[s] \in Nat /\ fourByte[s] > 0
  BY <1>2, <1>3
<1> QED BY <1>7, <1>8

\* A selector called with one size is counted as often as it was called.
LEMMA CallsOfCounted ==
  ASSUME CanCompare, Comparable, NEW i \in 1 .. Len(trace)
  PROVE  /\ trace[i].sig \in DOMAIN fourByte /\ IsFiniteSet(CallsOf(trace[i].sig))
         /\ Cardinality(CallsOf(trace[i].sig)) =< fourByte[trace[i].sig]
<1> DEFINE s == trace[i].sig
<1>1. IsTree(trace) /\ faults \in SUBSET Faults /\ DOMAIN trace = 1 .. Len(trace)
  BY TreeCalls DEF CanCompare
<1>2. s \in Counted(trace) /\ \A k \in DOMAIN trace : trace[k].counted
  BY <1>1 DEF Counted, Comparable
<1>3. PICK z \in [Counted(trace) -> Data] :
        /\ \A t \in Counted(trace) : Times(trace, t, z[t]) > 0
        /\ fourByte = [t \in Counted(trace) |-> Times(trace, t, z[t])]
  BY DEF CanCompare, FourBytes
<1> HIDE DEF s
<1>4. PICK size \in Data : \A other \in Data \ {size} : Times(trace, s, other) = 0
  BY <1>2 DEF Comparable
<1>5. z[s] = size
  BY <1>2, <1>3, <1>4
<1>6. s \in DOMAIN fourByte /\ fourByte[s] = Times(trace, s, size)
  BY <1>2, <1>3, <1>5
<1> DEFINE T(d) == CalledWith(s, d)
           F(d) == HiddenWith(s, d)
<1>7. \A d : /\ IsFiniteSet(T(d)) /\ Cardinality(T(d)) \in Nat /\ Cardinality(F(d)) \in Nat
             /\ Times(trace, s, d) = Cardinality(T(d)) + Cardinality(F(d))
  BY <1>1, TimesFacts
<1>8. ASSUME NEW k \in CallsOf(s) PROVE k \in T(size)
  <2>1. k \in DOMAIN trace /\ trace[k].sig = s /\ trace[k].data \in Data
    BY <1>1, TreeCalls DEF CallsOf
  <2>2. CASE trace[k].data = size
    BY <1>2, <2>1, <2>2 DEF CalledWith
  <2>3. CASE trace[k].data # size
    <3> DEFINE d == trace[k].data
    <3>1. k \in T(d)
      BY <1>2, <2>1 DEF CalledWith
    <3>2. Times(trace, s, d) = 0
      BY <1>4, <2>1, <2>3
    <3> HIDE DEF d, T, F
    <3>3. Cardinality(T(d)) = 0
      BY <1>7, <3>2
    <3>4. T(d) = {}
      BY <1>7, <3>3, FS_EmptySet
    <3> QED BY <3>1, <3>4
  <2> QED BY <2>2, <2>3
<1>9. CallsOf(s) \in SUBSET T(size)
  BY <1>8
<1> HIDE DEF T, F
<1>10. IsFiniteSet(T(size)) /\ Cardinality(T(size)) \in Nat /\ Cardinality(F(size)) \in Nat
  BY <1>7
<1>11. IsFiniteSet(CallsOf(s)) /\ Cardinality(CallsOf(s)) =< Cardinality(T(size))
  BY <1>9, <1>10, FS_Subset
<1>12. Cardinality(CallsOf(s)) \in Nat
  BY <1>11, FS_CardinalityType
<1>13. Cardinality(CallsOf(s)) =< fourByte[s]
  BY <1>6, <1>7, <1>10, <1>11, <1>12
<1> QED BY <1>6, <1>11, <1>13 DEF s

LEMMA NumbersDiffer ==
  ASSUME CanCompare, Comparable
  PROVE  /\ \A i \in 1 .. Len(trace) :
              trace[i].sig \in DOMAIN fourByte /\ CallNumber(i) \in 1 .. fourByte[trace[i].sig]
         /\ \A i, j \in 1 .. Len(trace) :
              trace[i].sig = trace[j].sig /\ CallNumber(i) = CallNumber(j) => i = j
<1> DEFINE U(i) == {k \in 1 .. i : trace[k].sig = trace[i].sig}
<1>1. Len(trace) \in Nat
  BY TreeCalls DEF CanCompare
<1>2. ASSUME NEW i \in 1 .. Len(trace)
      PROVE  IsFiniteSet(U(i)) /\ Cardinality(U(i)) >= 1 /\ Cardinality(U(i)) \in Nat
             /\ trace[i].sig \in DOMAIN fourByte /\ Cardinality(U(i)) =< fourByte[trace[i].sig]
  <2> DEFINE s == trace[i].sig
             W == U(i)
  <2>1. s \in DOMAIN fourByte /\ IsFiniteSet(CallsOf(s)) /\ Cardinality(CallsOf(s)) =< fourByte[s]
    BY CallsOfCounted
  <2>2. W \in SUBSET CallsOf(s) /\ i \in W
    BY <1>1 DEF CallsOf
  <2>3. fourByte[s] \in Nat
    BY <2>1, CountedCallsFinite
  <2> HIDE DEF s, W
  <2>4. IsFiniteSet(W) /\ Cardinality(W) =< Cardinality(CallsOf(s))
    BY <2>1, <2>2, FS_Subset
  <2>5. Cardinality(W) \in Nat /\ Cardinality(CallsOf(s)) \in Nat
    BY <2>1, <2>4, FS_CardinalityType
  <2>6. Cardinality(W) # 0
    BY <2>2, <2>4, FS_EmptySet
  <2>7. Cardinality(W) >= 1 /\ Cardinality(W) =< fourByte[s]
    BY <2>1, <2>3, <2>4, <2>5, <2>6
  <2> QED BY <2>1, <2>4, <2>5, <2>7 DEF s, W
<1>3. ASSUME NEW i \in 1 .. Len(trace), NEW j \in 1 .. Len(trace), i < j,
             trace[i].sig = trace[j].sig, Cardinality(U(i)) = Cardinality(U(j))
      PROVE  FALSE
  <2>1. U(i) \in SUBSET U(j) /\ j \in U(j) /\ j \notin U(i)
    BY <1>1, <1>3
  <2>2. IsFiniteSet(U(j))
    BY <1>2
  <2> HIDE DEF U
  <2>3. U(j) = U(i)
    BY <1>3, <2>1, <2>2, FS_Subset
  <2> QED BY <2>1, <2>3
<1>4. \A i : CallNumber(i) = Cardinality(U(i))
  BY DEF CallNumber
<1>5. ASSUME NEW i \in 1 .. Len(trace)
      PROVE  trace[i].sig \in DOMAIN fourByte /\ CallNumber(i) \in 1 .. fourByte[trace[i].sig]
  <2>1. fourByte[trace[i].sig] \in Nat
    BY <1>2, CountedCallsFinite
  <2> HIDE DEF U
  <2> QED BY <1>2, <1>4, <2>1
<1>6. ASSUME NEW i \in 1 .. Len(trace), NEW j \in 1 .. Len(trace),
             trace[i].sig = trace[j].sig, CallNumber(i) = CallNumber(j)
      PROVE  i = j
  <2>1. Cardinality(U(i)) = Cardinality(U(j))
    BY <1>4, <1>6
  <2> HIDE DEF U
  <2>2. ~(i < j) /\ ~(j < i)
    BY <1>3, <1>6, <2>1
  <2> QED BY <1>1, <2>2
<1> QED BY <1>5, <1>6

LEMMA MissingExpected ==
  ASSUME CanCompare, Comparable, NEW f \in Hidden, \A i \in DOMAIN trace : trace[i].sig # f.sig
  PROVE  Expected # Len(trace) /\ f.sig \in MissingSignatures
<1> DEFINE D == 1 .. Len(trace)
           hidden == <<f.sig, 1>>
           R == CountedCalls \ {hidden}
           g == [i \in D |-> <<trace[i].sig, CallNumber(i)>>]
<1>1. Len(trace) \in Nat /\ DOMAIN trace = D
  BY TreeCalls DEF CanCompare
<1>2. f.sig \in DOMAIN fourByte
  BY DEF CanCompare, FourBytes, Counted
<1>3. hidden \in CountedCalls
  <2>1. 1 \in 1 .. fourByte[f.sig]
    BY <1>2, CountedCallsFinite
  <2> QED BY <1>2, <2>1 DEF CountedCalls
<1>4. ASSUME NEW i \in D PROVE g[i] \in R
  <2>1. trace[i].sig \in DOMAIN fourByte /\ CallNumber(i) \in 1 .. fourByte[trace[i].sig]
    BY NumbersDiffer
  <2>2. <<trace[i].sig, CallNumber(i)>> \in CountedCalls
    BY <2>1 DEF CountedCalls
  <2>3. trace[i].sig # f.sig
    BY <1>1
  <2> QED BY <2>2, <2>3
<1>5. ASSUME NEW i \in D, NEW j \in D, g[i] = g[j] PROVE i = j
  <2>1. trace[i].sig = trace[j].sig /\ CallNumber(i) = CallNumber(j)
    BY <1>5
  <2> QED BY <2>1, NumbersDiffer
<1>6. g \in [D -> R] /\ DOMAIN g = D
  BY <1>4
<1> HIDE DEF g
<1>7. g \in Injection(D, R)
  BY <1>5, <1>6 DEF Injection, IsInjective
<1>8. IsFiniteSet(CountedCalls)
  BY CountedCallsFinite
<1>9. IsFiniteSet(R) /\ Cardinality(R) = Cardinality(CountedCalls) - 1
  BY <1>3, <1>8, FS_RemoveElement
<1> HIDE DEF R, D
<1>10. Cardinality(D) =< Cardinality(R)
  BY <1>7, <1>9, FS_Injection
<1>11. Cardinality(D) = IF 1 > Len(trace) THEN 0 ELSE Len(trace) - 1 + 1
  BY <1>1, FS_Interval DEF D
<1>12. Cardinality(CountedCalls) \in Nat
  BY <1>8, FS_CardinalityType
<1>13. Expected # Len(trace)
  BY <1>1, <1>9, <1>10, <1>11, <1>12 DEF Expected
<1>14. f.sig \in MissingSignatures
  BY <1>2 DEF MissingSignatures
<1> QED BY <1>13, <1>14

LEMMA MissingReportedStep ==
  ASSUME TraceInv, MissingCallsReported, [Next]_vars
  PROVE  MissingCallsReported'
<1>1. CASE pc' # "draw"
  BY <1>1 DEF MissingCallsReported
<1>2. CASE pc' = "draw" /\ UNCHANGED vars
  <2>1. UNCHANGED <<pc, trace, faults, fourByte, calls>>
    BY <1>2 DEF vars, traceVars
  <2>2. Counted(trace)' = Counted(trace) /\ \A s, size : Times(trace, s, size)' = Times(trace, s, size)
    BY <2>1 DEF Counted, Times, Hidden
  <2> QED BY <2>1, <2>2 DEF MissingCallsReported
<1>3. CASE CheckForMissingCalls
  <2>1. UNCHANGED <<trace, faults, fourByte>>
    BY <1>3 DEF CheckForMissingCalls
  <2>2. Counted(trace)' = Counted(trace) /\ \A s, size : Times(trace, s, size)' = Times(trace, s, size)
    BY <2>1 DEF Counted, Times, Hidden
  <2> SUFFICES ASSUME fourByte # <<>>, Comparable, NEW f \in faults, f.kind = "hidden",
                      \A i \in DOMAIN trace : trace[i].sig # f.sig
               PROVE  \E i \in DOMAIN calls' :
                         calls'[i] \in {NoData("0x", f.sig), NoData(Empty, "noData")}
    BY <2>1, <2>2 DEF MissingCallsReported, Comparable
  <2>3. CanCompare
    BY <1>3 DEF CanCompare, CheckForMissingCalls, TraceInv, StageInv, Walking
  <2>4. Expected # Len(trace) /\ f.sig \in MissingSignatures
    BY <2>3, MissingExpected DEF Hidden
  <2>5. PICK i \in 1 .. Len(calls') : calls'[i] = MissingCall(f.sig)
    BY <1>3, <2>4, MissingCallsAdded
  <2>6. DOMAIN calls' = 1 .. Len(calls')
    BY <1>3, MissingCallsAdded
  <2> QED BY <2>5, <2>6 DEF MissingCall
<1>4. ASSUME pc' = "draw", Next PROVE CheckForMissingCalls
  BY <1>4 DEF Next, TxStep, RevertReason, NotReverted, DecodeNothing, DecodeInputsFails, DecodeEvents,
       TraceStep, SkipTracing, StartTrace, FetchFails, NothingToDecode, FetchTraces, GatherFails,
       MainCallFails, MainCall, ProcessCallFails, ProcessCall, PrintOnly, DrawGraph, Return, GoOn
<1> QED BY <1>1, <1>2, <1>3, <1>4

(***************************************************************************)
(* checkForMissingCalls: for any tree and any hidden calls, when no        *)
(* contract was created and every method was called with one size of       *)
(* arguments, the numbers of calls in the two traces differ if a method    *)
(* was only seen by the 4byte tracer, and its call is listed.              *)
(***************************************************************************)
THEOREM MissingCallsAreReported == Spec => []MissingCallsReported
<1>1. Init => MissingCallsReported
  BY DEF Init, TxInit, MissingCallsReported
<1>2. TxInv /\ TraceInv /\ MissingCallsReported /\ [Next]_vars
        => (TxInv /\ TraceInv /\ MissingCallsReported)'
  BY TxInvStep, TraceInvStep, MissingReportedStep
<1> QED BY <1>1, <1>2, TxInvInit, TraceInvInit, PTL DEF Spec

-----------------------------------------------------------------------------
(***************************************************************************)
(* The graph.                                                              *)
(***************************************************************************)
LEMMA HashIsNode ==
  ASSUME calls \in Seq(DecodedCalls), NEW i \in 1 .. Len(calls)
  PROVE  Hash(calls, i) \in Nodes(calls) /\ calls[Hash(calls, i)] = calls[i]
<1> DEFINE S(k) == {j \in DOMAIN calls : calls[j] = calls[k]}
           m == Hash(calls, i)
<1>1. DOMAIN calls = 1 .. Len(calls) /\ Len(calls) \in Nat
  OBVIOUS
<1>2. S(i) \in SUBSET Nat /\ S(i) # {} /\ m = Min(S(i))
  BY <1>1 DEF Hash
<1> HIDE DEF m
<1>3. m \in S(i)
  BY <1>2, MinIsLeast
<1>4. S(m) = S(i)
  BY <1>3
<1>5. Hash(calls, m) = m
  BY <1>2, <1>4 DEF Hash
<1>6. m \in DOMAIN calls /\ calls[m] = calls[i]
  BY <1>3
<1> QED BY <1>5, <1>6 DEF Nodes, m

\* The caller of a call is found, before it and as a node.
LEMMA ParentIsNode ==
  ASSUME CallsInv, NEW i \in 1 .. Len(calls), calls[i].parent # Empty
  PROVE  \E m \in Nodes(calls) :
            m < i /\ calls[m].sig = calls[i].parent /\ ParentNode(calls, i) = {m}
<1> DEFINE same == {j \in DOMAIN calls : calls[j].sig = calls[i].parent}
           m == Min(same)
<1>1. DOMAIN calls = 1 .. Len(calls) /\ Len(calls) \in Nat /\ calls \in Seq(DecodedCalls)
  BY DEF CallsInv
<1>2. PICK p \in 1 .. i - 1 : calls[p].sig = calls[i].parent
  BY DEF CallsInv
<1>3. p \in same /\ same \in SUBSET Nat /\ same # {}
  BY <1>1, <1>2
<1>4. m \in same /\ \A j \in same : m =< j
  BY <1>3, MinIsLeast
<1>5. ParentNode(calls, i) = IF m =< i THEN {m} ELSE {0}
  <2>1. same # {}
    BY <1>3
  <2>2. ParentNode(calls, i) = IF same = {} THEN {} ELSE {IF Min(same) =< i THEN Min(same) ELSE 0}
    BY DEF ParentNode
  <2> HIDE DEF same
  <2> QED BY <2>1, <2>2
<1> HIDE DEF m
<1>6. m \in Nat /\ m < i
  BY <1>1, <1>2, <1>3, <1>4
<1>7. m \in Nodes(calls)
  <2> DEFINE S == {j \in DOMAIN calls : calls[j] = calls[m]}
  <2>1. S \in SUBSET same /\ m \in S
    BY <1>4
  <2>2. \A j \in S : m =< j
    BY <1>4, <2>1
  <2>3. S \in SUBSET Nat
    BY <1>1
  <2> HIDE DEF S, same
  <2>4. Min(S) = m
    BY <2>1, <2>2, <2>3, MinUnique
  <2> QED BY <1>4, <2>4 DEF Nodes, Hash, S, same
<1>8. calls[m].sig = calls[i].parent
  BY <1>4
<1>9. ParentNode(calls, i) = {m}
  BY <1>1, <1>5, <1>6
<1> QED BY <1>6, <1>7, <1>8, <1>9

(***************************************************************************)
(* generateDotGraph: for any tree, any calls that fail to decode and any   *)
(* missing calls, every node whose call has a caller is reached by exactly *)
(* one edge, from an earlier node with its caller's signature.             *)
(***************************************************************************)
THEOREM GraphIsOfCalls == Spec => []GraphFollowsCalls
<1>1. TxInv /\ TraceInv /\ [Next]_vars => (TxInv /\ TraceInv)'
  BY TxInvStep, TraceInvStep
<1>2. TraceInv => GraphFollowsCalls
  <2> SUFFICES ASSUME TraceInv PROVE GraphFollowsCalls
    OBVIOUS
  <2>1. CASE graph = NoGraph
    BY <2>1 DEF GraphFollowsCalls, NoGraph
  <2>2. CASE graph # NoGraph
    <3>1. graph.nodes = Nodes(calls) /\ graph.edges = CallEdges(calls)
      BY <2>2 DEF TraceInv, GraphInv, generateDotGraph
    <3>2. CallsInv /\ Nodes(calls) \in SUBSET (1 .. Len(calls))
      BY DEF TraceInv, CallsInv, Nodes
    <3>3. ASSUME NEW i \in Nodes(calls), calls[i].parent # Empty
          PROVE  \E p \in Nodes(calls) :
                    /\ p < i /\ calls[p].sig = calls[i].parent
                    /\ {e \in CallEdges(calls) : e[2] = i} = {<<p, i>>}
      <4>1. PICK m \in Nodes(calls) :
              m < i /\ calls[m].sig = calls[i].parent /\ ParentNode(calls, i) = {m}
        BY <3>2, <3>3, ParentIsNode
      <4>2. {e \in CallEdges(calls) : e[2] = i} = {<<m, i>>}
        <5>1. <<m, i>> \in CallEdges(calls)
          BY <3>3, <4>1 DEF CallEdges
        <5>2. ASSUME NEW e \in CallEdges(calls), e[2] = i PROVE e = <<m, i>>
          <6>1. PICK k \in Nodes(calls) : e \in ParentNode(calls, k) \X {k}
            BY DEF CallEdges
          <6>2. k = i
            BY <5>2, <6>1
          <6> QED BY <4>1, <6>1, <6>2
        <5> QED BY <5>1, <5>2
      <4> QED BY <4>1, <4>2
    <3>4. ASSUME NEW e \in CallEdges(calls) PROVE e[1] \in Nodes(calls)
      <4>1. PICK k \in Nodes(calls) : calls[k].parent # Empty /\ e \in ParentNode(calls, k) \X {k}
        BY DEF CallEdges
      <4>2. PICK m \in Nodes(calls) : ParentNode(calls, k) = {m}
        BY <3>2, <4>1, ParentIsNode
      <4> QED BY <4>1, <4>2
    <3> QED BY <3>1, <3>3, <3>4 DEF GraphFollowsCalls
  <2> QED BY <2>1, <2>2
<1> QED BY <1>1, <1>2, TxInvInit, TraceInvInit, PTL DEF Spec

-----------------------------------------------------------------------------
(***************************************************************************)
(* The way to the reverted call.  Following the callers of a call backwards*)
(* leads to the first call, and a shortest chain visits no signature twice.*)
(***************************************************************************)
\* The chains of n signatures from the first call to signature t.
ChainsTo(n, t) ==
    {p \in [1 .. n -> Signatures(calls)] :
        /\ p[1] = calls[1].sig /\ p[n] = t
        /\ \A k \in 1 .. n - 1 : Calls(calls, p[k], p[k + 1])}

LEMMA ChainExtended ==
  ASSUME NEW n \in Nat \ {0}, NEW s, NEW p \in ChainsTo(n, s),
         NEW t \in Signatures(calls), Calls(calls, s, t)
  PROVE  ChainsTo(n + 1, t) # {}
<1> DEFINE q == [k \in 1 .. n + 1 |-> IF k =< n THEN p[k] ELSE t]
<1>1. /\ p \in [1 .. n -> Signatures(calls)] /\ p[1] = calls[1].sig /\ p[n] = s
      /\ \A k \in 1 .. n - 1 : Calls(calls, p[k], p[k + 1])
  BY DEF ChainsTo
<1>2. q \in [1 .. n + 1 -> Signatures(calls)]
  BY <1>1
<1>3. q[1] = calls[1].sig /\ q[n + 1] = t /\ q[n] = s
  BY <1>1
<1>4. ASSUME NEW k \in 1 .. (n + 1) - 1 PROVE Calls(calls, q[k], q[k + 1])
  <2>1. CASE k = n
    BY <1>3, <2>1
  <2>2. CASE k # n
    <3>1. k \in 1 .. n - 1 /\ q[k] = p[k] /\ q[k + 1] = p[k + 1]
      BY <2>2
    <3> QED BY <1>1, <3>1
  <2> QED BY <2>1, <2>2
<1> HIDE DEF q
<1>5. q \in ChainsTo(n + 1, t)
  BY <1>2, <1>3, <1>4 DEF ChainsTo
<1> QED BY <1>5

\* By the least call of the tree that the first call is not linked to.
LEMMA ChainExists ==
  ASSUME CallsInv, NEW i \in 1 .. Len(calls), calls[i].sig \in Sigs
  PROVE  \E n \in Nat \ {0} : ChainsTo(n, calls[i].sig) # {}
<1> DEFINE Linked(j) == \E n \in Nat \ {0} : ChainsTo(n, calls[j].sig) # {}
           B == {j \in 1 .. Len(calls) : calls[j].sig \in Sigs /\ ~Linked(j)}
<1>1. Len(calls) \in Nat /\ DOMAIN calls = 1 .. Len(calls) /\ calls \in Seq(DecodedCalls)
  BY DEF CallsInv
<1>2. SUFFICES ASSUME B # {} PROVE FALSE
  OBVIOUS
<1>3. B \in SUBSET Nat
  BY <1>1
<1>4. PICK j \in B : \A k \in B : j =< k
  BY <1>2, <1>3, LeastNumber
<1>5. j \in 1 .. Len(calls) /\ calls[j].sig \in Sigs /\ ~Linked(j)
  BY <1>4
<1>6. \A k \in 1 .. Len(calls) : calls[k].sig \in Signatures(calls)
  BY <1>1 DEF Signatures
<1>7. j # 1
  <2> SUFFICES Linked(1)
    BY <1>5
  <2> DEFINE q == [k \in 1 .. 1 |-> calls[1].sig]
  <2>1. q \in ChainsTo(1, calls[1].sig)
    BY <1>1, <1>5, <1>6 DEF ChainsTo
  <2> QED BY <2>1
<1>8. calls[j].parent # Empty
  BY <1>5, <1>7 DEF CallsInv
<1>9. PICK p \in 1 .. j - 1 : calls[p].sig = calls[j].parent
  BY <1>5, <1>8 DEF CallsInv
<1>10. p \in 1 .. Len(calls) /\ ~(j =< p)
  BY <1>1, <1>5
<1>11. calls[p].sig \in Sigs
  <2>1. calls[j] \in DecodedCalls
    BY <1>1, <1>5
  <2>2. calls[j].parent \in Sigs \cup {Empty}
    BY <2>1 DEF DecodedCalls
  <2> QED BY <1>8, <1>9, <2>2
<1>12. Linked(p)
  BY <1>4, <1>10, <1>11
<1>13. PICK n \in Nat \ {0} : ChainsTo(n, calls[p].sig) # {}
  BY <1>12
<1>14. PICK q \in ChainsTo(n, calls[p].sig) : TRUE
  BY <1>13
<1>15. Calls(calls, calls[p].sig, calls[j].sig)
  BY <1>1, <1>5, <1>9 DEF Calls
<1>16. ChainsTo(n + 1, calls[j].sig) # {}
  BY <1>5, <1>6, <1>14, <1>15, ChainExtended
<1>17. n + 1 \in Nat \ {0}
  OBVIOUS
<1> QED BY <1>5, <1>16, <1>17

\* A chain that visits a signature twice has a shortcut.
LEMMA ChainShortcut ==
  ASSUME NEW n \in Nat \ {0}, NEW t, NEW p \in ChainsTo(n, t),
         NEW x \in 1 .. n, NEW y \in 1 .. n, x < y, p[x] = p[y]
  PROVE  n - (y - x) \in Nat \ {0} /\ ChainsTo(n - (y - x), t) # {}
<1> DEFINE g == y - x
           m == n - g
           q == [k \in 1 .. m |-> IF k =< x THEN p[k] ELSE p[k + g]]
<1>1. /\ p \in [1 .. n -> Signatures(calls)] /\ p[1] = calls[1].sig /\ p[n] = t
      /\ \A k \in 1 .. n - 1 : Calls(calls, p[k], p[k + 1])
  BY DEF ChainsTo
<1>2. g \in Nat \ {0} /\ x + g = y /\ m \in Nat \ {0} /\ m + g = n /\ x =< m
  OBVIOUS
<1> HIDE DEF g, m
<1>3. q \in [1 .. m -> Signatures(calls)]
  <2>1. ASSUME NEW k \in 1 .. m PROVE (IF k =< x THEN p[k] ELSE p[k + g]) \in Signatures(calls)
    <3>1. k \in 1 .. n /\ k + g \in 1 .. n
      BY <1>2
    <3> QED BY <1>1, <3>1
  <2> QED BY <2>1
<1>4. q[1] = calls[1].sig
  BY <1>1, <1>2
<1>5. q[m] = t
  <2>1. CASE m = x
    <3>1. n = y
      BY <1>2, <2>1
    <3> QED BY <1>1, <1>2, <2>1, <3>1
  <2>2. CASE m # x
    BY <1>1, <1>2, <2>2
  <2> QED BY <2>1, <2>2
<1>6. ASSUME NEW k \in 1 .. m - 1 PROVE Calls(calls, q[k], q[k + 1])
  <2>1. k \in 1 .. m /\ k + 1 \in 1 .. m
    BY <1>2
  <2>2. CASE k < x
    <3>1. q[k] = p[k] /\ q[k + 1] = p[k + 1] /\ k \in 1 .. n - 1
      BY <1>2, <2>1, <2>2
    <3> QED BY <1>1, <3>1
  <2>3. CASE k >= x
    <3>1. q[k] = p[k + g]
      BY <1>2, <2>1, <2>3
    <3>2. q[k + 1] = p[(k + g) + 1] /\ k + g \in 1 .. n - 1
      BY <1>2, <2>1, <2>3
    <3> QED BY <1>1, <3>1, <3>2
  <2> QED BY <1>2, <2>2, <2>3
<1> HIDE DEF q
<1>7. q \in ChainsTo(m, t)
  BY <1>3, <1>4, <1>5, <1>6 DEF ChainsTo
<1> QED BY <1>2, <1>7 DEF m, g

LEMMA ShortChainExists ==
  ASSUME CallsInv, NEW i \in 1 .. Len(calls), calls[i].sig \in Sigs
  PROVE  \E n \in 1 .. Cardinality(Signatures(calls)) : ChainsTo(n, calls[i].sig) # {}
<1> DEFINE t == calls[i].sig
           L == {n \in Nat \ {0} : ChainsTo(n, t) # {}}
           C == Cardinality(Signatures(calls))
<1>1. L # {} /\ L \in SUBSET Nat
  BY ChainExists
<1>2. PICK n \in L : \A m \in L : n =< m
  BY <1>1, LeastNumber
<1>3. IsFiniteSet(Signatures(calls))
  <2>1. IsFiniteSet(Sigs \cup {Empty})
    BY SigsFinite, FS_AddElement
  <2>2. IsFiniteSet((Sigs \cup {Empty}) \cup {"0x"})
    BY <2>1, FS_AddElement
  <2>3. Signatures(calls) \in SUBSET ((Sigs \cup {Empty}) \cup {"0x"})
    <3>1. ASSUME NEW k \in DOMAIN calls PROVE calls[k].sig \in (Sigs \cup {Empty}) \cup {"0x"}
      <4>1. calls[k] \in DecodedCalls
        BY DEF CallsInv
      <4> QED BY <4>1 DEF DecodedCalls
    <3> QED BY <3>1 DEF Signatures
  <2> QED BY <2>2, <2>3, FS_Subset
<1>4. C \in Nat
  BY <1>3, FS_CardinalityType
<1>5. PICK p \in ChainsTo(n, t) : TRUE
  BY <1>2
<1> HIDE DEF t, C
<1>6. n =< C
  <2> SUFFICES ASSUME n > C PROVE FALSE
    BY <1>4
  <2>1. IsFiniteSet(1 .. n) /\ Cardinality(1 .. n) = n
    <3>1. IsFiniteSet(1 .. n) /\ Cardinality(1 .. n) = (IF 1 > n THEN 0 ELSE n - 1 + 1)
      BY FS_Interval
    <3> QED BY <3>1
  <2>2. p \in [1 .. n -> Signatures(calls)]
    BY <1>5 DEF ChainsTo
  <2>3. Cardinality(Signatures(calls)) < Cardinality(1 .. n)
    BY <1>4, <2>1 DEF C
  <2>4. PICK x \in 1 .. n, y \in 1 .. n : x # y /\ p[x] = p[y]
    BY <1>3, <2>1, <2>2, <2>3, FS_PigeonHole
  <2>5. \E a, b \in 1 .. n : a < b /\ p[a] = p[b]
    <3>1. x < y \/ y < x
      BY <2>4
    <3> QED BY <2>4, <3>1
  <2>6. PICK a \in 1 .. n, b \in 1 .. n : a < b /\ p[a] = p[b]
    BY <2>5
  <2>7. n - (b - a) \in Nat \ {0} /\ ChainsTo(n - (b - a), t) # {}
    BY <1>5, <2>6, ChainShortcut
  <2>8. n =< n - (b - a)
    BY <1>2, <2>7
  <2> QED BY <2>6, <2>8
<1>7. n \in 1 .. C
  BY <1>4, <1>6
<1> QED BY <1>2, <1>7 DEF t, C

(***************************************************************************)
(* findShortestPath and generateDotGraph: for any tree, in which any calls *)
(* failed, the error of a reverted transaction is joined to the last call  *)
(* that failed, and the way from the first call to it is found.            *)
(***************************************************************************)
THEOREM RevertIsHighlighted == Spec => []RevertHighlighted
<1>1. TxInv /\ TraceInv /\ [Next]_vars => (TxInv /\ TraceInv)'
  BY TxInvStep, TraceInvStep
<1>2. TxInv /\ TraceInv => RevertHighlighted
  <2> SUFFICES ASSUME TxInv, TraceInv, graph # NoGraph, reverted = TRUE
               PROVE  \E i \in DOMAIN calls :
                         /\ graph.last = Hash(calls, i)
                         /\ calls[i].err /\ \A j \in i + 1 .. Len(calls) : ~calls[j].err
                         /\ {1, graph.last} \subseteq graph.major
    BY DEF RevertHighlighted, TxInv
  <2>1. PICK path \in findShortestPath(calls) : graph = generateDotGraph(calls, reverted, path)
    BY DEF TraceInv, GraphInv
  <2>2. /\ CallsInv /\ calls # <<>> /\ calls \in Seq(DecodedCalls)
        /\ Len(calls) \in Nat /\ Len(calls) >= 1 /\ DOMAIN calls = 1 .. Len(calls)
    <3>1. CallsInv /\ calls # <<>>
      BY DEF TraceInv, GraphInv
    <3>2. calls \in Seq(DecodedCalls)
      BY <3>1 DEF CallsInv
    <3> QED BY <3>1, <3>2
  <2>3. calls[1].sig \in Sigs /\ calls[1].parent = Empty /\ calls[1].err = TRUE
    BY <2>2 DEF CallsInv
  <2> DEFINE F == FailedCalls(calls)
             i == Max(F)
  <2>4. 1 \in F /\ F \in SUBSET Nat /\ \A n \in F : n =< Len(calls)
    BY <2>2, <2>3 DEF FailedCalls
  <2>5. i \in F /\ \A n \in F : i >= n
    BY <2>2, <2>4, MaxIsLargest
  <2>6. i \in 1 .. Len(calls) /\ calls[i].err
    BY <2>2, <2>5 DEF FailedCalls
  <2>7. ASSUME NEW j \in i + 1 .. Len(calls) PROVE ~calls[j].err
    <3>1. j \in 1 .. Len(calls) /\ ~(i >= j)
      BY <2>2, <2>6
    <3> QED BY <2>2, <2>5, <3>1 DEF FailedCalls
  <2>8. End(calls) = i
    BY <2>4 DEF End
  <2>9. Root(calls) = 1
    <3> DEFINE S == {k \in DOMAIN calls : calls[k].parent = Empty}
    <3>1. S \in SUBSET Nat /\ 1 \in S /\ \A k \in S : 1 =< k
      BY <2>2, <2>3
    <3> HIDE DEF S
    <3>2. Min(S) = 1
      BY <3>1, MinUnique
    <3> QED BY <3>2 DEF Root, S
  <2>10. graph.last = Hash(calls, i)
    <3>1. LastNode(calls, TRUE) = Hash(calls, i)
      <4>1. F # {}
        BY <2>4
      <4> QED BY <4>1 DEF LastNode
    <3> QED BY <2>1, <3>1 DEF generateDotGraph
  <2> DEFINE t == calls[i].sig
             lengths == {n \in 1 .. Cardinality(Signatures(calls)) : Chains(calls, n) # {}}
  <2>11. \A n : Chains(calls, n) = ChainsTo(n, t)
    BY <2>8, <2>9 DEF Chains, ChainsTo
  <2>12. lengths # {} /\ lengths \in SUBSET Nat /\ \A n \in lengths : n >= 1
    <3>1. t \in Sigs
      BY <2>2, <2>6 DEF CallsInv
    <3>2. \E n \in 1 .. Cardinality(Signatures(calls)) : ChainsTo(n, t) # {}
      BY <2>2, <2>6, <3>1, ShortChainExists
    <3> QED BY <2>11, <3>2
  <2>13. path \in Chains(calls, Min(lengths))
    BY <2>12 DEF findShortestPath
  <2>14. Min(lengths) \in Nat /\ Min(lengths) >= 1
    <3> HIDE DEF lengths
    <3>1. Min(lengths) \in lengths
      BY <2>12, MinIsLeast
    <3> QED BY <2>12, <3>1
  <2> DEFINE n == Min(lengths)
  <2> HIDE DEF n, lengths, i, F, t
  <2>15. path \in ChainsTo(n, t)
    BY <2>11, <2>13 DEF n
  <2>16. 1 \in DOMAIN path /\ n \in DOMAIN path /\ path[1] = calls[1].sig /\ path[n] = t
    BY <2>14, <2>15 DEF ChainsTo, n
  <2>17. Hash(calls, i) \in Nodes(calls) /\ calls[Hash(calls, i)].sig = t
    BY <2>2, <2>6, HashIsNode DEF t
  <2>18. 1 \in Nodes(calls)
    <3> DEFINE S == {j \in DOMAIN calls : calls[j] = calls[1]}
    <3>1. S \in SUBSET Nat /\ 1 \in S /\ \A k \in S : 1 =< k
      BY <2>2
    <3> HIDE DEF S
    <3>2. Min(S) = 1
      BY <3>1, MinUnique
    <3> QED BY <2>2, <3>2 DEF Nodes, Hash, S
  <2>19. graph.major = {k \in Nodes(calls) : \E j \in DOMAIN path : path[j] = calls[k].sig}
    BY <2>1 DEF generateDotGraph
  <2>20. {1, graph.last} \subseteq graph.major
    BY <2>10, <2>16, <2>17, <2>18, <2>19
  <2> QED BY <2>2, <2>6, <2>7, <2>10, <2>20
<1> QED BY <1>1, <1>2, TxInvInit, TraceInvInit, PTL DEF Spec

=============================================================================
