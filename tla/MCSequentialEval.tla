-------------------------- MODULE MCSequentialEval --------------------------
(* Two registries with breakers of their own, shared by the requests.      *)
EXTENDS SequentialEval, TLC

CONSTANTS q1, q2, ra, rb, na, nb

MCNameOf == (ra :> na) @@ (rb :> nb)
MCIdsOf  == (ra :> {"idA"}) @@ (rb :> {"idB"})
MCOrder  == <<ra, rb>>
=============================================================================
