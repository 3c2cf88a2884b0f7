------------------------------ MODULE MCTcpComm ------------------------------
(* Instances of TcpComm for TLC.                                           *)
EXTENDS TcpComm
=============================================================================
