------------------------------ MODULE DotGraph ------------------------------
(***************************************************************************)
(* The DOT graph of the decoded calls of a transaction (dot_graph.go), as  *)
(* a function of the list of calls.  A node is the index of the first call *)
(* with its hash; labels, colours and tooltips are left out, except the    *)
(* style that marks the nodes on the way to the reverted call.             *)
(***************************************************************************)
EXTENDS Integers, Sequences, FiniteSets, FiniteSetsExt

\* The empty string.
Empty == "empty"

\* hashCall: calls that agree in every field have one node, the first's.
Hash(calls, i) == Min({j \in DOMAIN calls : calls[j] = calls[i]})
Nodes(calls) == {i \in DOMAIN calls : Hash(calls, i) = i}

FailedCalls(calls) == {i \in DOMAIN calls : calls[i].err}

-----------------------------------------------------------------------------
(***************************************************************************)
(* findShortestPath, by signature, from the first call without a parent to *)
(* the last call with an error or else the last call.                      *)
(***************************************************************************)
Root(calls) == Min({i \in DOMAIN calls : calls[i].parent = Empty})
End(calls) == IF FailedCalls(calls) = {} THEN Len(calls) ELSE Max(FailedCalls(calls))

\* A caller and a callee, by signature, are an edge of the search.
Calls(calls, s, t) == \E i \in DOMAIN calls : calls[i].parent = s /\ calls[i].sig = t

Signatures(calls) == {calls[i].sig : i \in DOMAIN calls}

Chains(calls, n) ==
    {p \in [1 .. n -> Signatures(calls)] :
        /\ p[1] = calls[Root(calls)].sig /\ p[n] = calls[End(calls)].sig
        /\ \A k \in 1 .. n - 1 : Calls(calls, p[k], p[k + 1])}

\* Mutant of findShortestPath: the search ends at the first failed call.
findShortestPathToFirst(calls) ==
    LET upTo == IF FailedCalls(calls) = {} THEN calls
                ELSE SubSeq(calls, 1, Min(FailedCalls(calls)))
        lengths == {n \in 1 .. Cardinality(Signatures(calls)) : Chains(upTo, n) # {}}
    IN  IF lengths = {} THEN {<<>>} ELSE Chains(upTo, Min(lengths))

\* The shortest chains, which repeat no signature; breadth-first search returns
\* one of them.
findShortestPath(calls) ==
    LET lengths == {n \in 1 .. Cardinality(Signatures(calls)) : Chains(calls, n) # {}}
    IN  IF lengths = {} THEN {<<>>} ELSE Chains(calls, Min(lengths))

-----------------------------------------------------------------------------
\* Mutant of ParentNode: the caller is searched from the end of the list.
ParentNodeLast(calls, i) ==
    LET same == {j \in DOMAIN calls : calls[j].sig = calls[i].parent}
    IN  IF same = {} THEN {} ELSE {IF Max(same) =< i THEN Max(same) ELSE 0}

\* The first call with the signature of the caller; 0 is the identifier that
\* the map returns for a call without a node.
ParentNode(calls, i) ==
    LET same == {j \in DOMAIN calls : calls[j].sig = calls[i].parent}
    IN  IF same = {} THEN {} ELSE {IF Min(same) =< i THEN Min(same) ELSE 0}

CallEdges(calls) ==
    UNION {ParentNode(calls, i) \X {i} : i \in {j \in Nodes(calls) : calls[j].parent # Empty}}

\* The call that the node of the error, or the end node, is joined to; -1 is
\* the index that the loop over the errors starts from.
LastNode(calls, reverted) ==
    CASE reverted /\ FailedCalls(calls) = {} -> -1
      [] reverted /\ FailedCalls(calls) # {} -> Hash(calls, Max(FailedCalls(calls)))
      [] OTHER                               -> Hash(calls, Len(calls))

\* "start" leads to the first call, whose node has identifier 1.
generateDotGraph(calls, reverted, path) ==
    [nodes |-> Nodes(calls), edges |-> CallEdges(calls), last |-> LastNode(calls, reverted),
     major |-> {i \in Nodes(calls) : \E k \in DOMAIN path : path[k] = calls[i].sig}]
=============================================================================
