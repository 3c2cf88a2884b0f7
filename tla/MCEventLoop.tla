---------------------------- MODULE MCEventLoop -----------------------------
(* TLC instances of EventLoop.                                             *)
EXTENDS EventLoop
=============================================================================
