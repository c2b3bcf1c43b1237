------------------------ MODULE MCCompositeRegistry -------------------------
(* The root combines a leaf, a nested composite of two leaves and a        *)
(* composite without children.                                             *)
EXTENDS CompositeRegistry, TLC

CONSTANTS a, b, c, root, inner, empty

MCBuilt == [n \in Leaves |-> 0] @@ (empty :> 1) @@ (inner :> 2) @@ (root :> 3)

MCChildren == (root :> {a, inner, empty}) @@ (inner :> {b, c}) @@ (empty :> {})
=============================================================================
