------------------------------ MODULE MCChatApi ------------------------------
(* Small instances of ChatApi for TLC: all requests come from one visitor. *)
EXTENDS ChatApi, TLC
CONSTANTS r1, r2, r3, r4, v1
ThreeRequests == {r1, r2, r3}
FourRequests == {r1, r2, r3, r4}
OneVisitor == {v1}
FromOne == [r \in Requests |-> v1]
Symmetry == Permutations(Requests)
=============================================================================
