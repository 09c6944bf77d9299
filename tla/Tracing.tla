------------------------------- MODULE Tracing -------------------------------
(***************************************************************************)
(* TraceGethTX (tracing.go), called by Client.Decode for a decoded         *)
(* transaction: fetch the traces, rebuild the list of calls with nesting   *)
(* and callers, add the calls that the call trace lacks, draw the graph.   *)
(*                                                                         *)
(* A call trace is a tree; it is kept as the sequence of its calls in the  *)
(* order of the recursion, each with its depth, so that the calls below    *)
(* call i are those after it that are deeper, up to the first that is not. *)
(***************************************************************************)
EXTENDS TxDecoding, DotGraph, SequencesExt

CONSTANTS
    MainSig,      \* selector of the transaction
    SubSigs,      \* selectors of subcalls: the first four bytes of their input
    Known,        \* selectors of methods in the store
    MaxCalls,     \* bound: calls of a transaction
    MaxSpecial,   \* bound: calls that fail, or that the 4byte tracer does not count
    MaxFaults     \* bound: faults in the traces of one transaction

ASSUME TracingAssumption ==
    /\ IsFiniteSet(SubSigs)
    /\ Known \subseteq SubSigs \cup {MainSig}
    /\ {Empty, "0x"} \cap (SubSigs \cup {MainSig}) = {}
    /\ MaxCalls \in Nat \ {0} /\ MaxSpecial \in Nat /\ MaxFaults \in Nat

VARIABLES
    trace,         \* CallTrace: the calls, with depth, selector, data, error, counted
    faults,        \* what is wrong with the traces of this transaction
    fourByte,      \* FourByte: how often each selector was called
    at,            \* the recursion of processCallsFn is at this call
    methodCounter, \* and at this entry of methods
    parents,       \* the callers on its stack; nestingLevel is their number
    calls,         \* decodedCalls
    graph,         \* the DOT file
    traceErr       \* what TraceGethTX returned

traceVars == <<trace, faults, fourByte, at, methodCounter, parents, calls, graph, traceErr>>
vars == <<pc, txVars, traceVars>>

\* data stands for the arguments and their size, and all else that tells calls
\* of one method apart.
Data == {1, 2}

\* An output that is not hexadecimal, an input without a selector, a call that
\* only the 4byte tracer reports.
Faults == [kind : {"output", "input"}, call : 1 .. MaxCalls, sig : {Empty}]
          \cup [kind : {"hidden"}, call : {0}, sig : SubSigs]

NoGraph == [nodes |-> {}, edges |-> {}, last |-> 0, major |-> {}]

Init ==
    /\ TxInit
    /\ trace = <<>> /\ faults = {} /\ fourByte = <<>>
    /\ at = 0 /\ methodCounter = 0 /\ parents = <<>>
    /\ calls = <<>> /\ graph = NoGraph /\ traceErr = None

NestingLevel == Len(parents)

-----------------------------------------------------------------------------
(***************************************************************************)
(* The node's answers.                                                     *)
(***************************************************************************)
\* Depths of a tree with n calls: a call is at most one deeper than the one
\* before it.
Shapes(n) ==
    {d \in [1 .. n -> 0 .. n - 1] :
        /\ d[1] = 0
        /\ \A i \in 2 .. n : d[i] >= 1 /\ d[i] =< d[i - 1] + 1}

\* A transaction reverted if and only if its first call failed; a call may
\* catch the errors of those it makes.  The call tracer also reports creations
\* and calls to precompiled contracts, which the 4byte tracer does not count.
IsTrace(t) ==
    \E n \in 1 .. MaxCalls :
    \E d \in Shapes(n), s \in [2 .. n -> SubSigs], da \in [2 .. n -> Data],
       e \in SUBSET (2 .. n), u \in SUBSET (1 .. n) :
        /\ Cardinality(e \cup u) =< MaxSpecial
        /\ t = [i \in 1 .. n |->
                   [depth |-> d[i],
                    sig |-> IF i = 1 THEN MainSig ELSE s[i],
                    data |-> IF i = 1 THEN 1 ELSE da[i],
                    err |-> IF i = 1 THEN reverted ELSE i \in e,
                    counted |-> i \notin u]]

\* The 4byte tracer counts the other calls by selector and size; it may see
\* calls that the call tracer does not report.
Hidden == {f \in faults : f.kind = "hidden"}

Counted(t) ==
    {t[i].sig : i \in {j \in DOMAIN t : t[j].counted}} \cup {f.sig : f \in Hidden}

Times(t, s, size) ==
    Cardinality({i \in DOMAIN t : t[i].sig = s /\ t[i].counted /\ t[i].data = size})
        + Cardinality({f \in Hidden : f.sig = s /\ size = 1})

\* Client.Decode: the level of tracing asks for no trace.
SkipTracing ==
    /\ pc = "decoded"
    /\ pc' = "returned"
    /\ UNCHANGED <<txVars, traceVars>>

\* TraceGethTX is told whether there was an error; what has been found about
\* the transaction is not used from here on, and forgotten.
StartTrace ==
    /\ pc = "decoded"
    /\ pc' = "fetch"
    /\ revertErr' = IF revertErr = None THEN None ELSE "plain"
    /\ replay' = None /\ code' = NoCode /\ hint' = None /\ logs' = <<>> /\ decoded' = Default
    /\ UNCHANGED <<reverted, store, traceVars>>

Return(err) == pc' = "returned" /\ traceErr' = err

\* trace4Byte.  A selector that was called with two sizes of arguments has two
\* entries in the answer, and the later one in the order of the map is kept.
FourBytes(t) ==
    {[s \in Counted(t) |-> Times(t, s, size[s])] : size \in
        {z \in [Counted(t) -> Data] : \A s \in Counted(t) : Times(t, s, z[s]) > 0}}

\* traceCallTracer fails.
FetchFails ==
    /\ pc = "fetch"
    /\ Return("rpc")
    /\ UNCHANGED <<txVars, trace, faults, fourByte, at, methodCounter, parents, calls, graph>>

\* Without a store there are no decoded calls and no graph.
NothingToDecode ==
    /\ pc = "fetch" /\ ~store
    /\ Return(None)
    /\ UNCHANGED <<txVars, trace, faults, fourByte, at, methodCounter, parents, calls, graph>>

\* The 4byte trace may be missing, and the trace of the opcodes is not used.
FetchTraces ==
    /\ pc = "fetch" /\ store
    /\ faults' \in {F \in SUBSET Faults : Cardinality(F) =< MaxFaults}
    /\ IsTrace(trace')
    /\ \A f \in faults' : f.call =< Len(trace')
    /\ fourByte' \in FourBytes(trace)' \cup {<<>>}
    /\ pc' = "main"
    /\ UNCHANGED <<txVars, at, methodCounter, parents, calls, graph, traceErr>>

-----------------------------------------------------------------------------
(***************************************************************************)
(* DecodeTrace.                                                            *)
(***************************************************************************)
\* methods: the selectors, gathered in the order of the recursion.
Methods == [i \in DOMAIN trace |-> trace[i].sig]

NoSelector == \E f \in faults : f.kind = "input"

DecodedCall(sig, parent, nesting, c) ==
    [sig |-> sig, parent |-> parent, nesting |-> nesting,
     method |-> IF sig \in Known THEN sig ELSE "unknown", data |-> c.data, err |-> c.err]

NoData(sig, method) ==
    [sig |-> sig, parent |-> Empty, nesting |-> 0, method |-> method, data |-> 0, err |-> FALSE]

\* decodeCall fails only for an output that it tries to decode.
Malformed(i) == [kind |-> "output", call |-> i, sig |-> Empty] \in faults
DecodeFails(sig, i) == sig \in Known /\ Malformed(i)

\* A call without a selector, such as a plain transfer, fails the whole trace.
GatherFails ==
    /\ pc = "main" /\ NoSelector
    /\ Return("selector")
    /\ UNCHANGED <<txVars, trace, faults, fourByte, at, methodCounter, parents, calls, graph>>

MainCallFails ==
    /\ pc = "main" /\ ~NoSelector
    /\ DecodeFails(Methods[1], 1)
    /\ Return("mainCall")
    /\ UNCHANGED <<txVars, trace, faults, fourByte, at, methodCounter, parents, calls, graph>>

MainCall ==
    /\ pc = "main" /\ ~NoSelector
    /\ ~DecodeFails(Methods[1], 1)
    /\ calls' = <<DecodedCall(Methods[1], Empty, 0, trace[1])>>
    /\ at' = 2 /\ methodCounter' = 0 /\ parents' = <<Methods[1]>>
    /\ pc' = IF Len(trace) = 1 THEN "missing" ELSE "process"
    /\ UNCHANGED <<txVars, trace, faults, fourByte, graph, traceErr>>

\* The first call that is not below call i.
AfterSubcalls(i) ==
    Min({j \in i + 1 .. Len(trace) : trace[j].depth =< trace[i].depth} \cup {Len(trace) + 1})

\* processCallsFn goes on with call j: returning from a level drops its caller.
GoOn(j, stack) ==
    /\ at' = j
    /\ parents' = IF j > Len(trace) THEN <<>> ELSE SubSeq(stack, 1, trace[j].depth)
    /\ pc' = IF j > Len(trace) THEN "missing" ELSE "process"

ProcessCallFails ==
    LET sig == Methods[methodCounter + 2] IN
    /\ pc = "process"
    /\ DecodeFails(sig, at)
    /\ methodCounter' = methodCounter + 1
    /\ calls' = Append(calls, NoData(Empty, "failed"))
    /\ GoOn(AfterSubcalls(at), parents)
    /\ UNCHANGED <<txVars, trace, faults, fourByte, graph, traceErr>>

\* Mutant of ProcessCall: the callees of a call are attributed to its caller.
ProcessCallKeepsCaller ==
    LET sig == Methods[methodCounter + 2] IN
    /\ pc = "process"
    /\ ~DecodeFails(sig, at)
    /\ methodCounter' = methodCounter + 1
    /\ calls' = Append(calls, DecodedCall(sig, Last(parents), NestingLevel, trace[at]))
    /\ GoOn(at + 1, Append(parents, Last(parents)))
    /\ UNCHANGED <<txVars, trace, faults, fourByte, graph, traceErr>>

\* The signature is the next of methods, which need not be the call's own:
\* the subcalls of a call that failed to decode have not been counted.
ProcessCall ==
    LET sig == Methods[methodCounter + 2] IN
    /\ pc = "process"
    /\ ~DecodeFails(sig, at)
    /\ methodCounter' = methodCounter + 1
    /\ calls' = Append(calls, DecodedCall(sig, Last(parents), NestingLevel, trace[at]))
    /\ GoOn(at + 1, Append(parents, sig))
    /\ UNCHANGED <<txVars, trace, faults, fourByte, graph, traceErr>>

\* Mutant of Expected: every selector is expected once.
ExpectedOnce == Cardinality(DOMAIN fourByte)

\* The calls of the 4byte trace, numbered by selector.
CountedCalls == UNION {{s} \X (1 .. fourByte[s]) : s \in DOMAIN fourByte}

Expected == Cardinality(CountedCalls)

MissingSignatures == {s \in DOMAIN fourByte : \A i \in DOMAIN trace : trace[i].sig # s}

\* checkForMissingCalls.  The signature of a missing call is written with 0x,
\* unlike any other.
CheckForMissingCalls ==
    /\ pc = "missing"
    /\ IF Expected = Len(trace)
       THEN UNCHANGED calls
       ELSE \E order \in SetToSeqs(MissingSignatures) :
               calls' = calls \o [i \in DOMAIN order |->
                   IF order[i] \in Known THEN NoData("0x", order[i]) ELSE NoData(Empty, "noData")]
    /\ pc' = "draw"
    /\ UNCHANGED <<txVars, trace, faults, fourByte, at, methodCounter, parents, graph, traceErr>>

-----------------------------------------------------------------------------
\* trace_outputs lacks "dot".
PrintOnly ==
    /\ pc = "draw"
    /\ Return(None)
    /\ UNCHANGED <<txVars, trace, faults, fourByte, at, methodCounter, parents, calls, graph>>

\* The index -1 of a reverted transaction without a failed call.
DrawGraph ==
    /\ pc = "draw"
    /\ \E path \in findShortestPath(calls) :
          graph' = generateDotGraph(calls, revertErr # None, path)
    /\ IF graph'.last = -1
       THEN pc' = "panic" /\ UNCHANGED traceErr
       ELSE \E err \in {None, "file"} : Return(err)
    /\ UNCHANGED <<txVars, trace, faults, fourByte, at, methodCounter, parents, calls>>

TraceStep ==
    \/ SkipTracing \/ StartTrace
    \/ FetchFails \/ NothingToDecode \/ FetchTraces
    \/ GatherFails \/ MainCallFails \/ MainCall
    \/ ProcessCallFails \/ ProcessCall
    \/ CheckForMissingCalls
    \/ PrintOnly \/ DrawGraph

Next ==
    \/ TxStep /\ UNCHANGED traceVars
    \/ TraceStep

Spec == Init /\ [][Next]_vars

-----------------------------------------------------------------------------
Caller(i) == Max({j \in 1 .. i - 1 : trace[j].depth = trace[i].depth - 1})

\* The calls up to the first one whose subcalls were skipped.
Aligned ==
    {i \in DOMAIN trace :
        \A j \in 1 .. i - 1 : Malformed(j) => AfterSubcalls(j) = j + 1}

(***************************************************************************)
(* DecodeTrace gives every call of the tree its own selector, its depth    *)
(* and its caller's selector, although it reads the selectors from a list  *)
(* of its own: as long as no call that makes calls has failed to decode.   *)
(* The counter never runs past that list (the error "method counter        *)
(* exceeds the number of methods").                                        *)
(***************************************************************************)
CallsMatchTrace ==
    /\ pc = "process" => methodCounter + 1 < Len(trace)
    /\ \A i \in Aligned :
          i < at /\ calls[i].method # "failed" =>
              /\ calls[i].sig = trace[i].sig
              /\ calls[i].nesting = trace[i].depth
              /\ calls[i].parent = IF i = 1 THEN Empty ELSE trace[Caller(i)].sig

(***************************************************************************)
(* checkForMissingCalls: a method that only the 4byte tracer saw is listed *)
(* if the two traces can be compared: no contract was created, no          *)
(* precompiled contract was called and no method was called with           *)
(* arguments of two sizes.                                                 *)
(***************************************************************************)
MissingCallsReported ==
    pc = "draw" /\ fourByte # <<>>
    /\ (\A i \in DOMAIN trace : trace[i].counted)
    /\ (\A s \in Counted(trace) : \E size \in Data :
            \A other \in Data \ {size} : Times(trace, s, other) = 0) =>
        \A f \in faults :
            f.kind = "hidden" /\ (\A i \in DOMAIN trace : trace[i].sig # f.sig) =>
                \E i \in DOMAIN calls : calls[i] \in {NoData("0x", f.sig), NoData(Empty, "noData")}

(***************************************************************************)
(* generateDotGraph: every decoded call that has a caller is reached by    *)
(* one edge, from a node drawn before it, which stands for a call of its   *)
(* caller's method; no edge leaves a node that does not exist.             *)
(***************************************************************************)
GraphFollowsCalls ==
    /\ \A i \in graph.nodes :
          calls[i].parent # Empty =>
              \E p \in graph.nodes :
                  /\ p < i /\ calls[p].sig = calls[i].parent
                  /\ {e \in graph.edges : e[2] = i} = {<<p, i>>}
    /\ \A e \in graph.edges : e[1] \in graph.nodes

(***************************************************************************)
(* The graph of a reverted transaction joins the error to the last call    *)
(* that failed, never to a call that is not there, and highlights that     *)
(* call and the first one.                                                 *)
(***************************************************************************)
RevertHighlighted ==
    graph # NoGraph /\ reverted =>
        \E i \in DOMAIN calls :
            /\ graph.last = Hash(calls, i)
            /\ calls[i].err /\ \A j \in i + 1 .. Len(calls) : ~calls[j].err
            /\ {1, graph.last} \subseteq graph.major
=============================================================================
