---------------------------- MODULE MCUsageLedger ----------------------------
(* Small instance of UsageLedger for TLC. *)
EXTENDS UsageLedger, TLC
CONSTANTS v1, v2, w1, w2
MCVisitors == {v1, v2}
MCWorkers == {w1, w2}
Symmetry == Permutations(MCVisitors) \cup Permutations(MCWorkers)
=============================================================================
