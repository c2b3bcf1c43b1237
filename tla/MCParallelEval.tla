--------------------------- MODULE MCParallelEval ---------------------------
(* Three registries, two of which share a name, as Register permits.       *)
EXTENDS ParallelEval, TLC

CONSTANTS q1, q2, ra, rb, rc, na, nb

MCNameOf  == (ra :> na) @@ (rb :> na) @@ (rc :> nb)
MCIdsOf   == (ra :> {"idA"}) @@ (rb :> {"idA", "idB"}) @@ (rc :> {"idC"})
=============================================================================
