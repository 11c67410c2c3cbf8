------------------------------ MODULE MCPhotos ------------------------------
(* Instances of Photos for TLC. *)
EXTENDS Photos, TLC

CONSTANTS h1, h2, q1, q2, t1, t2, m1, m2

TwoClerks == {h1, h2}
TwoPlates == {q1, q2}
TwoTypes  == {t1, t2}
TwoImages == {m1, m2}
=============================================================================
