------------------------------ MODULE MCBooking ------------------------------
(* Instances of Booking for TLC.  Time is in half days. *)
EXTENDS Booking, TLC

CONSTANTS r1, r2, p1, p2, j1, j2

OneRequest  == {r1}
TwoRequests == {r1, r2}
OnePlate    == {p1}
TwoPlates   == {p1, p2}
OneProject  == {j1}
TwoProjects == {j1, j2}

(* Windows that share a boundary, and two of the three that share none. *)
Touching  == {[from |-> 1, to |-> 2], [from |-> 2, to |-> 3]}
ThreeWindows == Touching \cup {[from |-> 3, to |-> 4]}
OneStart  == {0}
TwoStarts == {0, 5}
NoForm    == {}
Typed     == {"Tersedia", "Dalam Aktivitas"}

(* Plates are interchangeable, and so are requests. *)
Symmetry == Permutations(TwoPlates) \cup Permutations(TwoRequests)
==============================================================================
