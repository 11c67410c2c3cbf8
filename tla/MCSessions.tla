----------------------------- MODULE MCSessions -----------------------------
(* Instances of Sessions for TLC. *)
EXTENDS Sessions, TLC

CONSTANTS r1, r2, a1, a2, n1, n2

TwoRequests == {r1, r2}
TwoAccounts == {a1, a2}
TwoNames    == {n1, n2}
TwoServices == {"profile", "asset"}
First       == [account |-> a1, name |-> n1]
Second      == [account |-> a2, name |-> n2]
TwoOthers   == {[first |-> "Finance", all |-> {"Finance", "Direksi"}]}

(* Requests are interchangeable. *)
Symmetry == Permutations(TwoRequests)
=============================================================================
