----------------------------- MODULE MCReports -----------------------------
(* Instances of Reports for TLC. *)
EXTENDS Reports, TLC

CONSTANTS l1, l2, c1, c2

TwoLines == {l1, l2}
TwoRows  == {c1, c2}

(* The calendar is one of 2020 to 2025.                                    *)
In2020 == -4

(* The last day of a year and the first of the next, the day after a 29     *)
(* February, and the first day of a quarter; the last two months begin      *)
(* within a week: 31 December 2023, 1 January, 1 March and 1 October 2024.  *)
EdgeDays == {-1, 0, 60, 274}

ReportsSymmetry == Permutations(TwoLines) \cup Permutations(TwoRows)
============================================================================
