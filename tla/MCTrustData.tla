---------------------------- MODULE MCTrustData -----------------------------
(* Concurrent requests on two lists that are children of one composite.    *)
EXTENDS TrustData, TLC

CONSTANTS q1, q2, la, lb, ga

MCGroupOf == [l \in Leaves |-> ga]

MCSymmetry == Permutations({q1, q2}) \cup Permutations({la, lb})
=============================================================================
