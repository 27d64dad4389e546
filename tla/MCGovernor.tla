----------------------------- MODULE MCGovernor ------------------------------
(* TLC instances of Governor: heavy jobs (template) of one category, on a    *)
(* lane of the category, or on the flat lane for the liveness run.           *)
EXTENDS Governor, TLC

CONSTANTS h1, h2, template, heavy, category

LaneOf == [j \in Jobs |-> template]
SlotsOf == [l \in Lanes |-> {heavy, category}]
Caps == (heavy :> 1) @@ (category :> 2)

Symmetry == Permutations(Workers) \union Permutations(Jobs)
=============================================================================
