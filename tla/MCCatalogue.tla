---------------------------- MODULE MCCatalogue ----------------------------
(* Instances of Catalogue for TLC. *)
EXTENDS Catalogue, TLC

CONSTANTS j1, j2, i1, i2, s1, s2, p1

TwoJobs   == {j1, j2}
OneItem   == {i1}
TwoItems  == {i1, i2}
OneSupplier  == {s1}
TwoSuppliers == {s1, s2}
OnePurchase  == {p1}
One       == {1}
BackOrForth == {-1, 1}
ZeroOne   == {0, 1}

(* Handlers are interchangeable, and so are items and suppliers. *)
CatalogueSymmetry ==
  Permutations(TwoJobs) \cup Permutations(TwoItems) \cup Permutations(TwoSuppliers)
============================================================================
