----------------------------- MODULE MCSessions ------------------------------
EXTENDS Sessions, TLC

\* Sessions and requests are interchangeable.
Symmetry == Permutations(Ids) \union Permutations(Requests)
=============================================================================
