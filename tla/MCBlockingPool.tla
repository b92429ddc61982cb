---------------------------- MODULE MCBlockingPool ----------------------------
(* Instances of BlockingPool for TLC. *)
EXTENDS BlockingPool, TLC

CONSTANTS r1, r2, r3, r4

FourRequests == {r1, r2, r3, r4}

\* Slots are interchangeable, and no run of this module checks liveness.
Symmetry == Permutations(Requests)
===============================================================================
