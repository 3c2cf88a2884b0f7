------------------------------ MODULE MCMemPool ------------------------------
(* Instances of MemPool for TLC.                                           *)
EXTENDS MemPool

\* Continuous requests of aligned pieces, and of pieces that need alignment.
AlignedLists   == {<<2>>, <<1, 1>>, <<1, 2, 1>>}
UnalignedLists == {<<1, 2>>, <<2, 1>>}
NoLists        == {}
=============================================================================
