------------------------------ MODULE MCProject ------------------------------
(* Instances of Project for TLC. *)
EXTENDS Project, TLC

CONSTANTS r1, r2, i1, i2, p1

OneRequest  == {r1}
TwoRequests == {r1, r2}
OneItem     == {i1}
TwoItems    == {i1, i2}
OneOfEach   == [Item -> 0..1]
ZeroOrOne   == {0, 1}
ShortOrOne  == {-1, 1}
OnePlate    == {p1}
OneOrNone   == {{}, {p1}}
Operator    == {"Operasional"}
Everyone    == {"Operasional", "Direksi"}

(* Requests are interchangeable, and so are items. *)
Symmetry == Permutations(TwoRequests) \cup Permutations(TwoItems)
==============================================================================
