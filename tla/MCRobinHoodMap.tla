--------------------------- MODULE MCRobinHoodMap ---------------------------
(* TLC instances of RobinHoodMap.                                          *)
EXTENDS RobinHoodMap
=============================================================================
