------------------------------ MODULE Calendar ------------------------------
(***************************************************************************)
(* What the asset service promises about the bookings of its vehicles,     *)
(* with every operation indivisible: a reservation takes all the vehicles  *)
(* it asks for, for one period, if each is free during all of it, or none; *)
(* and what is held is only ever given up.  Booking.tla is the service     *)
(* that is meant to implement it.                                          *)
(***************************************************************************)
EXTENDS Integers

CONSTANTS Plate, Window

VARIABLE held   \* the periods for which vehicles are held

Init == held = {}

(* Both ends of a period belong to it.                                     *)
FreeDuring(plates, w) ==
  \A b \in held : b.plate \in plates => w.to < b.window.from \/ b.window.to < w.from

Reserve ==
  \E plates \in SUBSET Plate, w \in Window :
    /\ FreeDuring(plates, w)
    /\ held' = held \cup {[plate |-> p, window |-> w] : p \in plates}

GiveUp == held' \subseteq held

Next == Reserve \/ GiveUp

Spec == Init /\ [][Next]_held
=============================================================================
