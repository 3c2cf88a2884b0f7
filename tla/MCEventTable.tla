---------------------------- MODULE MCEventTable ----------------------------
(* TLC instances of EventTable.                                            *)
EXTENDS EventTable
=============================================================================
