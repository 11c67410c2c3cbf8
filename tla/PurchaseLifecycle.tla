-------------------------- MODULE PurchaseLifecycle --------------------------
(***************************************************************************)
(* What the purchase service promises about one procurement request, with  *)
(* every operation indivisible: the status advances Diajukan -> Disetujui  *)
(* -> Diproses -> Selesai, Ditolak and Dibatalkan are terminal branches    *)
(* off that path, a purchase is completed only once what was bought has    *)
(* been handed over, and it is paid at most once, while in motion.         *)
(* Purchase.tla is the service that is meant to implement it.              *)
(***************************************************************************)

VARIABLES
  status,      \* the status of the purchase
  paid,        \* has its payment been confirmed?
  handedOver   \* has what was bought been handed to the service that owns it?

vars == <<status, paid, handedOver>>

Init ==
  /\ status = "Diajukan"
  /\ ~paid
  /\ ~handedOver

(* Direksi or Finance decides on the submission. *)
Decide ==
  /\ status = "Diajukan"
  /\ status' \in {"Disetujui", "Ditolak"}
  /\ UNCHANGED <<paid, handedOver>>

(* Operasional takes an approved purchase up, or drops it. *)
Process ==
  /\ status = "Disetujui"
  /\ status' \in {"Diproses", "Dibatalkan"}
  /\ UNCHANGED <<paid, handedOver>>

HandOver ==
  /\ status = "Diproses"
  /\ handedOver' = TRUE
  /\ UNCHANGED <<status, paid>>

Complete ==
  /\ status = "Diproses"
  /\ handedOver
  /\ status' = "Selesai"
  /\ UNCHANGED <<paid, handedOver>>

Cancel ==
  /\ status = "Diproses"
  /\ status' = "Dibatalkan"
  /\ UNCHANGED <<paid, handedOver>>

Pay ==
  /\ status \in {"Diproses", "Selesai"}
  /\ ~paid
  /\ paid' = TRUE
  /\ UNCHANGED <<status, handedOver>>

Next == Decide \/ Process \/ HandOver \/ Complete \/ Cancel \/ Pay

Spec == Init /\ [][Next]_vars

==============================================================================
