------------------------------ MODULE MCPhpCount ------------------------------
(* Instances of PhpCount for TLC. *)
EXTENDS PhpCount, TLC

CONSTANTS r1, r2, p1, v1, v2

TwoRequests == {r1, r2}
OnePage     == {p1}
OneVisitor  == {v1}
TwoVisitors == {v1, v2}

\* Slots, pages and visitors are interchangeable.
Symmetry == Permutations(Requests) \cup Permutations(Pages) \cup Permutations(Visitors)
===============================================================================
