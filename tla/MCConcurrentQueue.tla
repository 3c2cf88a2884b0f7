------------------------- MODULE MCConcurrentQueue --------------------------
(* TLC instances of ConcurrentQueue.                                       *)
EXTENDS ConcurrentQueue, TLC

\* malloc may return any free address: addresses are interchangeable.
Symmetry == Permutations(Nodes)
=============================================================================
