---------------------------- MODULE MCConnections ----------------------------
(* Small instances of ConnectionManager for TLC. *)
EXTENDS ConnectionManager, TLC

Symmetric == Permutations(Users \ Foreign) \cup Permutations(Entries)
=============================================================================
