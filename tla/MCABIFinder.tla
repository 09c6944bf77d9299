----------------------------- MODULE MCABIFinder -----------------------------
(* ABIFinder for TLC: A shares a method with B and another with C, and B has *)
(* one of its own.                                                            *)
EXTENDS ABIFinder, TLC

CONSTANTS A, B, C

MCMethods == (A :> {"ab", "ac"}) @@ (B :> {"ab", "b"}) @@ (C :> {"ac"})

FinderSymmetry == Permutations(Finders)
==============================================================================
