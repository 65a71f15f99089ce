------------------------------ MODULE MCImports ------------------------------
(* Small instances of Imports for TLC. *)
EXTENDS Imports, TLC

CONSTANTS i1, i2, k1, r1, r2, w1, w2, j1, j2, j3

\* Every upload is the same file for the same table.
SameKey == [i \in Imports |-> k1]

Symmetric == Permutations(Requests) \cup Permutations(Workers) \cup Permutations(Jobs)
=============================================================================
