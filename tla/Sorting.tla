------------------------------- MODULE Sorting -------------------------------
(***************************************************************************)
(* What the sort functions of Go's library return, and sums, in a form     *)
(* that can be evaluated and reasoned about.                               *)
(***************************************************************************)
EXTENDS Integers, Sequences, FiniteSets

\* The members of a finite set of numbers, ascending.
InOrder(S) ==
    [j \in 1 .. Cardinality(S) |->
        CHOOSE i \in S : Cardinality({k \in S : k =< i}) = j]

\* The place of element i once the sequence is sorted; equal elements keep
\* their order.
Place(s, i) == Cardinality({j \in DOMAIN s : s[j] < s[i] \/ (s[j] = s[i] /\ j =< i)})

Ascending(s) == [k \in DOMAIN s |-> s[CHOOSE i \in DOMAIN s : Place(s, i) = k]]

SumOf(s) ==
    LET upTo[i \in 0 .. Len(s)] == IF i = 0 THEN 0 ELSE upTo[i - 1] + s[i]
    IN  upTo[Len(s)]
=============================================================================
