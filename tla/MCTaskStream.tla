---------------------------- MODULE MCTaskStream ----------------------------
(* TLC instances of TaskStream.                                            *)
EXTENDS TaskStream, TLC

Symmetry == Permutations(Consumers)
=============================================================================
