------------------------------ MODULE MCHQueue -------------------------------
(* Instances of HQueue for TLC.                                            *)
EXTENDS HQueue, TLC

\* Producers are alike, and so are consumers.
Symmetric == Permutations(Producers) \cup Permutations(Consumers)
=============================================================================
