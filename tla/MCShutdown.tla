------------------------------ MODULE MCShutdown ------------------------------
(* Instances of Shutdown for TLC. *)
EXTENDS Shutdown

CONSTANTS r1, r2, r3

ThreeRequests == {r1, r2, r3}
===============================================================================
