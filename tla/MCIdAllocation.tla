--------------------------- MODULE MCIdAllocation ---------------------------
(* Instances of IdAllocation for TLC. *)
EXTENDS IdAllocation, TLC

CONSTANTS r1, r2, r3

TwoRequests   == {r1, r2}
ThreeRequests == {r1, r2, r3}
BothServices  == {"purchase", "project"}
TwoKinds      == {"A", "R"}

Symmetry == Permutations(ThreeRequests) \cup Permutations(TwoRequests)
==============================================================================
