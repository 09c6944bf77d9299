------------------------------- MODULE KeyPool -------------------------------
(***************************************************************************)
(* What the pool of synced keys promises, without channels, goroutines and *)
(* nonces: a key is lent to one caller per copy and comes back or is       *)
(* lost, and only a refresh makes another copy of a key.  After one        *)
(* refresh, the one at start-up, a key is in one place at a time.          *)
(* NonceManager implements this specification.                             *)
(***************************************************************************)
EXTENDS Naturals

CONSTANT Keys

VARIABLES
    idle,       \* copies of a key that wait for a caller
    lent,       \* copies of a key that have been handed out
    refreshes   \* calls of UpdateNonces so far

vars == <<idle, lent, refreshes>>

Init ==
    /\ idle = [k \in Keys |-> 0]
    /\ lent = [k \in Keys |-> 0]
    /\ refreshes = 0

Refresh ==
    /\ refreshes' = refreshes + 1
    /\ UNCHANGED <<idle, lent>>

\* No more copies of a key than refreshes.
Add(k) ==
    /\ idle[k] + lent[k] < refreshes
    /\ idle' = [idle EXCEPT ![k] = @ + 1]
    /\ UNCHANGED <<lent, refreshes>>

Take(k) ==
    /\ idle[k] > 0
    /\ idle' = [idle EXCEPT ![k] = @ - 1]
    /\ lent' = [lent EXCEPT ![k] = @ + 1]
    /\ UNCHANGED refreshes

GiveBack(k) ==
    /\ lent[k] > 0
    /\ lent' = [lent EXCEPT ![k] = @ - 1]
    /\ idle' = [idle EXCEPT ![k] = @ + 1]
    /\ UNCHANGED refreshes

Lose(k) ==
    /\ lent[k] > 0
    /\ lent' = [lent EXCEPT ![k] = @ - 1]
    /\ UNCHANGED <<idle, refreshes>>

Next ==
    \/ Refresh
    \/ \E k \in Keys : Add(k) \/ Take(k) \/ GiveBack(k) \/ Lose(k)

Spec == Init /\ [][Next]_vars
==============================================================================
