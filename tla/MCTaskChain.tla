----------------------------- MODULE MCTaskChain ------------------------------
(* The shape of a template creation: a root, a job that depends on it and    *)
(* anchors the finalize tree, and the knot child that the first step carries *)
(* with two steps of its own, one below the other.                           *)
EXTENDS TaskChain, TLC

CONSTANTS carry, publish, release

root == 1
anchor == 2
knot == 3

ChainJobs == {root, anchor, knot}
ChainSteps == {carry, publish, release}
ChainUp == (root :> None) @@ (anchor :> root) @@ (knot :> None)
ChainCarrier == (root :> None) @@ (anchor :> None) @@ (knot :> carry)
ChainUnder == (carry :> anchor) @@ (publish :> knot) @@ (release :> publish)
ChainOf == (carry :> anchor) @@ (publish :> knot) @@ (release :> knot)

Symmetry == Permutations(Dispatches)
=============================================================================
