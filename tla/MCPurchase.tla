----------------------------- MODULE MCPurchase -----------------------------
(* Instances of Purchase for TLC. *)
EXTENDS Purchase, TLC

CONSTANTS r1, r2, p1, p2

OneRequest  == {r1}
TwoRequests == {r1, r2}
OnePlate    == {p1}
TwoPlates   == {p1, p2}
OneItem     == {1}
OneOrder    == {{1}}
TwoOrders   == {{1}, {1, 2}}
AllOrders   == {{1}, {2}, {1, 2}}
TwoItems    == {1, 2}

AllRoles    == {"Direksi", "Finance", "Operasional", "Admin"}
TwoRoles    == {"Finance", "Operasional"}
ThreeRoles  == {"Finance", "Operasional", "Admin"}

BothKinds    == {"Resource", "Aset"}
OnlyResource == {"Resource"}
OnlyAset     == {"Aset"}

Symmetry == Permutations(TwoRequests)
==============================================================================
