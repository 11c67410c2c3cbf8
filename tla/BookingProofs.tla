---------------------------- MODULE BookingProofs ----------------------------
(***************************************************************************)
(* Proofs about Booking, for any number of concurrent requests, vehicles,  *)
(* projects and windows, and any bounds.                                   *)
(***************************************************************************)
EXTENDS Booking, TLAPS

-----------------------------------------------------------------------------
(* Type correctness.  The parts of TypeOK are proved action by action; what *)
(* a handler becomes is a handler.                                          *)

LEMMA InitType == Init => TypeOK
  BY DEF Init, TypeOK, Asset, AssetStatus, Handler, History

(* The program counter of a handler says which record it is.               *)
LEMMA HandlerOf ==
  ASSUME NEW h \in Handler
  PROVE  /\ h.pc \in {"overlap", "insert"} => h \in Reserving
         /\ h.pc = "saveRow" => h \in Updating
         /\ h.pc \in {"setAll", "list"} => h \in Listing
         /\ h.pc \in {"sync", "count", "syncSave"} => h \in Syncing
         /\ h.pc \in {"conflict", "takeOut", "record", "post"} => h \in Repairing
         /\ h.pc \in {"fetch", "release", "close"} => h \in Completing
         /\ h.pc \in {"edit", "delete"} => h \in Editing
  BY DEF Handler, Idle, Reserving, Updating, Listing, Syncing, Repairing, Completing, Editing

LEMMA SyncType ==
  ASSUME NEW status \in ReservationStatus, NEW plates \in SUBSET Plate
  PROVE  SyncOf(status, plates) \in Handler
  BY DEF SyncOf, Handler, Idle, Syncing

LEMMA BecomeType ==
  ASSUME req \in [Request -> Handler], NEW r \in Request, NEW h \in Handler, Become(r, h)
  PROVE  req' \in [Request -> Handler]
  BY DEF Become

LEMMA EnterType ==
  ASSUME TypeOK, NEW r \in Request, NEW h \in Handler, Enter(r, h),
         UNCHANGED <<asset, bookings, jobs, ledger>>
  PROVE  TypeOK'
<1>1. req' \in [Request -> Handler]
  BY BecomeType DEF TypeOK, Enter
<1>2. history' \in History
  BY DEF TypeOK, Enter, History
<1>3. QED BY <1>1, <1>2 DEF TypeOK, Enter

LEMMA ReceiveType ==
  ASSUME TypeOK, NEW r \in Request, Receive(r)
  PROVE  TypeOK'
<1> USE DEF TypeOK
<1>1. ASSUME NEW project \in Project, NEW plates \in SUBSET Plate, NEW w \in Window,
             Reserve(r, project, plates, w)
      PROVE  TypeOK'
  <2>1. [pc |-> "overlap", n |-> started, project |-> project,
         plates |-> plates, window |-> w] \in Handler
    BY DEF Handler, Reserving
  <2>2. QED BY <1>1, <2>1, EnterType DEF Reserve
<1>2. ASSUME NEW b \in bookings, NEW status \in ReservationStatus, UpdateStatus(r, b, status)
      PROVE  TypeOK'
  <2>1. [pc |-> "saveRow", row |-> SetStatus(b, status)] \in Handler
    BY DEF Handler, Updating, SetStatus, Reservation
  <2>2. QED BY <1>2, <2>1, EnterType DEF UpdateStatus
<1>3. ASSUME NEW project \in Project, NEW status \in ReservationStatus,
             UpdateProjectStatus(r, project, status)
      PROVE  TypeOK'
  <2>1. [pc |-> "setAll", project |-> project, status |-> status] \in Handler
    BY DEF Handler, Listing
  <2>2. QED BY <1>3, <2>1, EnterType DEF UpdateProjectStatus
<1>4. ASSUME NEW p \in Plate, NEW start \in Start, CreateMaintenance(r, p, start)
      PROVE  TypeOK'
  <2>1. [pc |-> "conflict", n |-> started, plate |-> p, start |-> start,
         copy |-> asset[p]] \in Handler
    BY DEF Handler, Repairing
  <2>2. QED BY <1>4, <2>1, EnterType DEF CreateMaintenance
<1>5. ASSUME NEW p \in Plate, NEW status \in FormStatus, UpdateAsset(r, p, status)
      PROVE  TypeOK'
  <2>1. [asset[p] EXCEPT !.status = status] \in Asset
    BY FormAssumption DEF Asset, AssetStatus
  <2>2. [pc |-> "edit", plate |-> p, typed |-> TRUE,
         copy |-> [asset[p] EXCEPT !.status = status]] \in Handler
    BY <2>1 DEF Handler, Editing
  <2>3. QED BY <1>5, <2>2, EnterType DEF UpdateAsset
<1>6. ASSUME NEW p \in Plate, SetSupplier(r, p)
      PROVE  TypeOK'
  <2>1. [pc |-> "edit", plate |-> p, typed |-> FALSE, copy |-> asset[p]] \in Handler
    BY DEF Handler, Editing
  <2>2. QED BY <1>6, <2>1, EnterType DEF SetSupplier
<1>7. ASSUME NEW p \in Plate, DeleteAsset(r, p)
      PROVE  TypeOK'
  <2>1. [pc |-> "delete", plate |-> p] \in Handler
    BY DEF Handler, Editing
  <2>2. QED BY <1>7, <2>1, EnterType DEF DeleteAsset
<1>8. ASSUME NEW job \in jobs, Complete(r, job)
      PROVE  TypeOK'
  <2>1. [pc |-> "fetch", job |-> job] \in Handler
    BY DEF Handler, Completing
  <2>2. QED BY <1>8, <2>1, EnterType DEF Complete
<1>9. QED BY <1>1, <1>2, <1>3, <1>4, <1>5, <1>6, <1>7, <1>8 DEF Receive

(* What a handler may write to the vehicle is a vehicle.                   *)
LEMMA SaveAssetType ==
  ASSUME asset \in [Plate -> Asset], NEW p \in Plate, NEW copy \in Asset, SaveAsset(p, copy)
  PROVE  asset' \in [Plate -> Asset]
  BY DEF SaveAsset

LEMMA ProceedType ==
  ASSUME req \in [Request -> Handler], NEW r \in Request, NEW pc, NEW h \in Handler,
         Proceed(r, pc, h)
  PROVE  req' \in [Request -> Handler] /\ UNCHANGED <<started, faults>>
  BY BecomeType DEF Proceed

LEMMA CalendarType ==
  ASSUME TypeOK, NEW r \in Request,
         \/ FindOverlapping(r) \/ CreateReservations(r) \/ SaveReservation(r)
         \/ SetReservationStatusForProject(r) \/ FindReservationsByProject(r)
  PROVE  TypeOK'
<1> USE DEF TypeOK
<1>0. req[r] \in Handler /\ Idle \in Handler
  BY DEF Handler
<1>1. CASE FindOverlapping(r)
  <2>1. req[r] \in Reserving
    BY <1>0, <1>1, HandlerOf DEF FindOverlapping
  <2>2. [req[r] EXCEPT !.pc = "insert"] \in Handler
    BY <2>1 DEF Reserving, Handler
  <2>3. (IF Booked(req[r].plates, req[r].window)
           THEN Idle ELSE [req[r] EXCEPT !.pc = "insert"]) \in Handler
    BY <1>0, <2>2
  <2>4. QED BY <1>1, <2>3, ProceedType DEF FindOverlapping
<1>2. CASE CreateReservations(r)
  <2>1. req[r] \in Reserving
    BY <1>0, <1>2, HandlerOf DEF CreateReservations
  <2>2. bookings' \subseteq Reservation
    BY <1>2, <2>1 DEF CreateReservations, Reserving, Reservation, ReservationStatus
  <2>3. QED BY <1>0, <1>2, <2>2, ProceedType DEF CreateReservations
<1>3. CASE SaveReservation(r)
  <2>1. req[r].row \in Reservation
    BY <1>0, <1>3, HandlerOf DEF SaveReservation, Updating
  <2>2. bookings' \subseteq Reservation /\ history' \in History
    BY <1>3, <2>1 DEF SaveReservation, WriteBookings, History
  <2>3. SyncOf(req[r].row.status, {req[r].row.plate}) \in Handler
    BY <2>1, SyncType DEF Reservation
  <2>4. QED BY <1>3, <2>2, <2>3, ProceedType DEF SaveReservation
<1>4. CASE SetReservationStatusForProject(r)
  <2>1. req[r] \in Listing
    BY <1>0, <1>4, HandlerOf DEF SetReservationStatusForProject
  <2>2. /\ \A b \in bookings : SetStatus(b, req[r].status) \in Reservation
        /\ history' \in History
    <3>1. req[r].status \in ReservationStatus
      BY <2>1 DEF Listing
    <3>2. \A b \in bookings : SetStatus(b, req[r].status) \in Reservation
      BY <3>1 DEF SetStatus, Reservation
    <3>3. history' \in History
      BY <1>4 DEF SetReservationStatusForProject, WriteBookings, History
    <3>4. QED BY <3>2, <3>3
  <2>3. [req[r] EXCEPT !.pc = "list"] \in Handler
    BY <2>1 DEF Listing, Handler
  <2>4. bookings' \subseteq Reservation
    BY <1>4, <2>2 DEF SetReservationStatusForProject, WriteBookings, Moved
  <2>5. QED BY <1>4, <2>2, <2>3, <2>4, ProceedType DEF SetReservationStatusForProject
<1>5. CASE FindReservationsByProject(r)
  <2>1. req[r] \in Listing
    BY <1>0, <1>5, HandlerOf DEF FindReservationsByProject
  <2>2. {b.plate : b \in {c \in bookings : c.project = req[r].project}} \in SUBSET Plate
    BY DEF Reservation
  <2>3. SyncOf(req[r].status, {b.plate : b \in {c \in bookings : c.project = req[r].project}})
          \in Handler
    BY <2>1, <2>2, SyncType DEF Listing
  <2>4. QED BY <1>5, <2>3, ProceedType DEF FindReservationsByProject
<1>6. QED BY <1>1, <1>2, <1>3, <1>4, <1>5

LEMMA NextPlateType ==
  ASSUME NEW h \in Syncing, NEW p
  PROVE  NextPlate(h, p) \in Handler
  BY SyncType DEF Syncing, NextPlate

LEMMA VehicleType ==
  ASSUME TypeOK, NEW r \in Request,
         SyncAssetStatus(r) \/ CountActiveReservations(r) \/ SyncSave(r)
  PROVE  TypeOK'
<1> USE DEF TypeOK
<1>0. req[r] \in Syncing
  BY HandlerOf DEF SyncAssetStatus, CountActiveReservations, SyncSave
<1>1. CASE SyncAssetStatus(r)
  <2> DEFINE h == req[r]
             next(p) == IF ~Found(p) THEN NextPlate(h, p)
               ELSE IF h.status = "Dilaksanakan"
                 THEN [pc |-> "syncSave", status |-> h.status, plates |-> h.plates, plate |-> p,
                       copy |-> [asset[p] EXCEPT !.status = "Dalam Aktivitas"]]
                 ELSE [pc |-> "count", status |-> h.status, plates |-> h.plates, plate |-> p,
                       copy |-> asset[p]]
  <2>1. PICK p \in h.plates : Proceed(r, "sync", next(p))
    BY <1>1 DEF SyncAssetStatus
  <2>2. p \in Plate /\ h.status \in ReservationStatus /\ h.plates \in SUBSET Plate
    BY <1>0 DEF Syncing
  <2>3. [asset[p] EXCEPT !.status = "Dalam Aktivitas"] \in Asset /\ asset[p] \in Asset
    BY <2>2 DEF Asset, AssetStatus
  <2>4. /\ [pc |-> "syncSave", status |-> h.status, plates |-> h.plates, plate |-> p,
            copy |-> [asset[p] EXCEPT !.status = "Dalam Aktivitas"]] \in Handler
        /\ [pc |-> "count", status |-> h.status, plates |-> h.plates, plate |-> p,
            copy |-> asset[p]] \in Handler
    BY <2>2, <2>3 DEF Handler, Syncing
  <2>5. next(p) \in Handler
    BY <1>0, <2>4, NextPlateType
  <2> HIDE DEF next
  <2>6. QED BY <1>1, <2>1, <2>5, ProceedType DEF SyncAssetStatus
<1>2. CASE CountActiveReservations(r)
  <2>1. /\ req[r].plate \in Plate /\ req[r].copy \in Asset
        /\ req[r].status \in ReservationStatus /\ req[r].plates \in SUBSET Plate
    BY <1>0, <1>2 DEF CountActiveReservations, Syncing
  <2>2. [req[r] EXCEPT !.pc = "syncSave", !.copy.status = "Tersedia"] \in Handler
    BY <1>0, <1>2, <2>1 DEF CountActiveReservations, Syncing, Handler, Asset, AssetStatus
  <2>3. NextPlate(req[r], req[r].plate) \in Handler
    BY <1>0, NextPlateType
  <2>4. QED BY <1>2, <2>2, <2>3, ProceedType DEF CountActiveReservations
<1>3. CASE SyncSave(r)
  <2>1. req[r].plate \in Plate /\ req[r].copy \in Asset
    BY <1>0, <1>3 DEF SyncSave, Syncing
  <2>2. NextPlate(req[r], req[r].plate) \in Handler
    BY <1>0, NextPlateType
  <2>3. QED BY <1>3, <2>1, <2>2, SaveAssetType, ProceedType DEF SyncSave
<1>4. QED BY <1>1, <1>2, <1>3

LEMMA WorkshopType ==
  ASSUME TypeOK, NEW r \in Request,
         \/ CheckReservationConflict(r) \/ TakeOut(r) \/ RecordJob(r) \/ ReportToFinance(r)
         \/ FetchAsset(r) \/ Release(r) \/ SaveMaintenance(r)
  PROVE  TypeOK'
<1> USE DEF TypeOK
<1>0. req[r] \in Handler /\ Idle \in Handler
  BY DEF Handler
<1>1. CASE CheckReservationConflict(r)
  <2>1. req[r] \in Repairing /\ req[r].pc = "conflict"
    BY <1>0, <1>1, HandlerOf DEF CheckReservationConflict
  <2>2. [req[r] EXCEPT !.pc = "takeOut", !.copy.status = "Sedang Maintenance"] \in Handler
    BY <2>1 DEF Repairing, Handler, Asset, AssetStatus
  <2>3. QED BY <1>0, <1>1, <2>2, ProceedType DEF CheckReservationConflict
<1>2. CASE TakeOut(r)
  <2>1. req[r] \in Repairing /\ req[r].pc = "takeOut"
    BY <1>0, <1>2, HandlerOf DEF TakeOut
  <2>2. /\ req[r].plate \in Plate /\ req[r].copy \in Asset
        /\ [req[r] EXCEPT !.pc = "record"] \in Handler
    BY <2>1 DEF Repairing, Handler
  <2>3. QED BY <1>2, <2>2, SaveAssetType, ProceedType DEF TakeOut
<1>3. CASE RecordJob(r)
  <2>1. req[r] \in Repairing /\ req[r].pc = "record"
    BY <1>0, <1>3, HandlerOf DEF RecordJob
  <2>2. /\ [id |-> req[r].n, plate |-> req[r].plate, open |-> TRUE] \in Job
        /\ [pc |-> "post", n |-> req[r].n] \in Handler
    BY <2>1 DEF Repairing, Handler, Job
  <2>3. QED BY <1>3, <2>2, ProceedType DEF RecordJob
<1>4. CASE ReportToFinance(r)
  <2>1. req[r].n \in Nat
    BY <1>0, <1>4, HandlerOf DEF ReportToFinance, Repairing
  <2>2. QED BY <1>0, <1>4, <2>1, ProceedType DEF ReportToFinance
<1>5. CASE FetchAsset(r)
  <2>1. req[r].job \in Job
    BY <1>0, <1>5, HandlerOf DEF FetchAsset, Completing
  <2>2. [asset[req[r].job.plate] EXCEPT !.status = "Tersedia"] \in Asset
    BY <2>1 DEF Job, Asset, AssetStatus
  <2>3. [pc |-> "release", job |-> req[r].job,
         copy |-> [asset[req[r].job.plate] EXCEPT !.status = "Tersedia"]] \in Handler
    BY <2>1, <2>2 DEF Handler, Completing
  <2>4. QED BY <1>0, <1>5, <2>3, ProceedType DEF FetchAsset
<1>6. CASE Release(r)
  <2>1. req[r] \in Completing /\ req[r].pc = "release"
    BY <1>0, <1>6, HandlerOf DEF Release
  <2>2. /\ req[r].job.plate \in Plate /\ req[r].copy \in Asset
        /\ [pc |-> "close", job |-> req[r].job] \in Handler
    BY <2>1 DEF Completing, Handler, Job
  <2>3. QED BY <1>6, <2>2, SaveAssetType, ProceedType DEF Release
<1>7. CASE SaveMaintenance(r)
  <2>1. jobs' \subseteq Job
    BY <1>7 DEF SaveMaintenance, Job
  <2>2. QED BY <1>0, <1>7, <2>1, ProceedType DEF SaveMaintenance
<1>8. QED BY <1>1, <1>2, <1>3, <1>4, <1>5, <1>6, <1>7

LEMMA EditType ==
  ASSUME TypeOK, NEW r \in Request, SaveEdit(r) \/ SoftDelete(r)
  PROVE  TypeOK'
<1> USE DEF TypeOK
<1>0. req[r] \in Editing /\ Idle \in Handler
  BY HandlerOf DEF SaveEdit, SoftDelete, Handler
<1>1. CASE SaveEdit(r)
  <2>1. req[r].plate \in Plate /\ req[r].copy \in Asset /\ req[r].typed \in BOOLEAN
    BY <1>0, <1>1 DEF SaveEdit, Editing
  <2>2. history' \in History
    BY <1>1, <2>1 DEF SaveEdit, History
  <2>3. QED BY <1>0, <1>1, <2>1, <2>2, SaveAssetType, ProceedType DEF SaveEdit
<1>2. CASE SoftDelete(r)
  <2>1. asset' \in [Plate -> Asset]
    BY <1>2 DEF SoftDelete, Asset
  <2>2. QED BY <1>0, <1>2, <2>1, ProceedType DEF SoftDelete
<1>3. QED BY <1>1, <1>2

LEMMA FaultType ==
  ASSUME TypeOK, NEW r \in Request, Stop(r) \/ SyncSkipped(r)
  PROVE  TypeOK'
<1> USE DEF TypeOK
<1>1. CASE Stop(r)
  BY <1>1 DEF Stop, Fault, Become, Handler
<1>2. CASE SyncSkipped(r)
  <2>1. req[r] \in Syncing
    BY <1>2, HandlerOf DEF SyncSkipped
  <2>2. NextPlate(req[r], req[r].plate) \in Handler
    BY <2>1, NextPlateType
  <2>3. QED BY <1>2, <2>2, BecomeType DEF SyncSkipped, Fault
<1>3. QED BY <1>1, <1>2

LEMMA NextType == TypeOK /\ [Next]_vars => TypeOK'
<1>1. ASSUME TypeOK, NEW r \in Request, Continue(r) PROVE TypeOK'
  BY <1>1, CalendarType, VehicleType, WorkshopType, EditType DEF Continue
<1>2. ASSUME TypeOK, Next PROVE TypeOK'
  BY <1>1, <1>2, ReceiveType, FaultType DEF Next
<1>3. ASSUME TypeOK, UNCHANGED vars PROVE TypeOK'
  BY <1>3 DEF TypeOK, vars
<1>4. QED BY <1>2, <1>3

(* Every variable keeps its type whatever the requests and faults do.      *)
THEOREM TypeCorrect == Spec => []TypeOK
  BY InitType, NextType, PTL DEF Spec

-----------------------------------------------------------------------------
(* The calendar.  Most steps leave it alone, and make r neither a Reserve   *)
(* nor the holder of a booking to be saved.                                 *)

Elsewhere(r) ==
  /\ bookings' = bookings
  /\ started <= started'
  /\ history.together => history'.together
  /\ history.revived => history'.revived
  /\ ~InReserve(req'[r]) /\ req'[r].pc # "saveRow"
  /\ \A s \in Request \ {r} : req'[s] = req[s]

LEMMA ElsewhereInv ==
  ASSUME IInv, TypeOK', NEW r \in Request, Elsewhere(r)
  PROVE  IInv'
<1> USE DEF Elsewhere
<1>1. KeyInv'
  <2>1. \A b \in bookings' : b.call < started'
    BY DEF IInv, TypeOK, KeyInv, Reservation
  <2>2. ASSUME NEW s \in Request, InReserve(req'[s])
        PROVE  /\ req'[s].n < started'
               /\ \A b \in bookings' : b.call # req'[s].n
               /\ \A t \in Request : InReserve(req'[t]) /\ req'[s].n = req'[t].n => s = t
    <3>1. s # r /\ req'[s] = req[s] /\ req[s] \in Handler
      BY <2>2 DEF IInv, TypeOK
    <3>2. req[s].n \in Nat
      BY <2>2, <3>1, HandlerOf DEF InReserve, Reserving
    <3>3. QED BY <2>2, <3>1, <3>2 DEF IInv, TypeOK, KeyInv
  <2>3. \A s \in Request : req'[s].pc = "saveRow" =>
          \E b \in bookings' : req'[s].row = SetStatus(b, req'[s].row.status)
    BY DEF IInv, KeyInv
  <2>4. QED BY <2>1, <2>2, <2>3 DEF IInv, KeyInv, InReserve, SameRow
<1>2. CalendarInv'
  BY DEF IInv, CalendarInv, NoDoubleBooking, Booked, InReserve
<1>3. QED BY <1>1, <1>2 DEF IInv

LEMMA SyncElsewhere ==
  ASSUME NEW status, NEW plates
  PROVE  ~InReserve(SyncOf(status, plates)) /\ SyncOf(status, plates).pc # "saveRow"
  BY DEF SyncOf, InReserve, Idle

LEMMA VehicleElsewhere ==
  ASSUME TypeOK, NEW r \in Request,
         SyncAssetStatus(r) \/ CountActiveReservations(r) \/ SyncSave(r)
  PROVE  Elsewhere(r)
<1> USE DEF TypeOK
<1>0. req[r] \in Syncing
  BY HandlerOf DEF SyncAssetStatus, CountActiveReservations, SyncSave
<1>1. /\ bookings' = bookings /\ history' = history /\ started' = started
      /\ \A s \in Request \ {r} : req'[s] = req[s]
  BY DEF SyncAssetStatus, CountActiveReservations, SyncSave, Proceed, Become
<1>2. ~InReserve(req'[r]) /\ req'[r].pc # "saveRow"
  <2>1. CASE SyncAssetStatus(r)
    <3> DEFINE h == req[r]
               next(p) == IF ~Found(p) THEN NextPlate(h, p)
                 ELSE IF h.status = "Dilaksanakan"
                   THEN [pc |-> "syncSave", status |-> h.status, plates |-> h.plates,
                         plate |-> p, copy |-> [asset[p] EXCEPT !.status = "Dalam Aktivitas"]]
                   ELSE [pc |-> "count", status |-> h.status, plates |-> h.plates,
                         plate |-> p, copy |-> asset[p]]
    <3>1. PICK p \in h.plates : Proceed(r, "sync", next(p))
      BY <2>1 DEF SyncAssetStatus
    <3>2. req'[r] = next(p)
      BY <3>1 DEF Proceed, Become
    <3>3. \/ next(p) = NextPlate(h, p)
          \/ next(p).pc \in {"syncSave", "count"}
      OBVIOUS
    <3> HIDE DEF next
    <3>4. CASE next(p) = NextPlate(h, p)
      BY <3>2, <3>4, SyncElsewhere DEF NextPlate
    <3>5. CASE next(p).pc \in {"syncSave", "count"}
      BY <3>2, <3>5 DEF InReserve
    <3>6. QED BY <3>3, <3>4, <3>5
  <2>2. CASE CountActiveReservations(r)
    <3>1. [req[r] EXCEPT !.pc = "syncSave", !.copy.status = "Tersedia"].pc = "syncSave"
      BY <1>0, <2>2 DEF CountActiveReservations, Syncing
    <3>2. QED BY <2>2, <3>1, SyncElsewhere
              DEF CountActiveReservations, Proceed, Become, NextPlate, InReserve
  <2>3. CASE SyncSave(r)
    BY <2>3, SyncElsewhere DEF SyncSave, Proceed, Become, NextPlate, InReserve
  <2>4. QED BY <2>1, <2>2, <2>3
<1>3. QED BY <1>1, <1>2 DEF Elsewhere

LEMMA WorkshopElsewhere ==
  ASSUME TypeOK, NEW r \in Request,
         \/ CheckReservationConflict(r) \/ TakeOut(r) \/ RecordJob(r) \/ ReportToFinance(r)
         \/ FetchAsset(r) \/ Release(r) \/ SaveMaintenance(r) \/ SaveEdit(r) \/ SoftDelete(r)
  PROVE  Elsewhere(r)
<1> USE DEF TypeOK
<1>1. /\ bookings' = bookings /\ started' = started
      /\ \A s \in Request \ {r} : req'[s] = req[s]
  BY DEF CheckReservationConflict, TakeOut, RecordJob, ReportToFinance, FetchAsset, Release,
     SaveMaintenance, SaveEdit, SoftDelete, Proceed, Become
<1>2. history'.together = history.together /\ history'.revived = history.revived
  BY DEF CheckReservationConflict, TakeOut, RecordJob, ReportToFinance, FetchAsset, Release,
     SaveMaintenance, SaveEdit, SoftDelete, History
<1>3. ~InReserve(req'[r]) /\ req'[r].pc # "saveRow"
  <2>0. req[r] \in Handler
    OBVIOUS
  <2>1. CASE CheckReservationConflict(r)
    <3>1. req[r] \in Repairing /\ req[r].pc = "conflict"
      BY <2>0, <2>1, HandlerOf DEF CheckReservationConflict
    <3>2. [req[r] EXCEPT !.pc = "takeOut", !.copy.status = "Sedang Maintenance"].pc = "takeOut"
      BY <3>1 DEF Repairing
    <3>3. QED BY <2>1, <3>2 DEF CheckReservationConflict, Proceed, Become, InReserve, Idle
  <2>2. CASE TakeOut(r)
    <3>1. req[r] \in Repairing /\ req[r].pc = "takeOut"
      BY <2>0, <2>2, HandlerOf DEF TakeOut
    <3>2. [req[r] EXCEPT !.pc = "record"].pc = "record"
      BY <3>1 DEF Repairing
    <3>3. QED BY <2>2, <3>2 DEF TakeOut, Proceed, Become, InReserve
  <2>3. CASE RecordJob(r) \/ ReportToFinance(r) \/ FetchAsset(r) \/ Release(r)
    BY <2>3 DEF RecordJob, ReportToFinance, FetchAsset, Release, Proceed, Become, InReserve, Idle
  <2>4. CASE SaveMaintenance(r) \/ SaveEdit(r) \/ SoftDelete(r)
    BY <2>4 DEF SaveMaintenance, SaveEdit, SoftDelete, Proceed, Become, InReserve, Idle
  <2>5. QED BY <2>1, <2>2, <2>3, <2>4
<1>4. QED BY <1>1, <1>2, <1>3 DEF Elsewhere

LEMMA EnterElsewhere ==
  ASSUME TypeOK, NEW r \in Request, NEW h, Enter(r, h), bookings' = bookings,
         ~InReserve(h), h.pc # "saveRow"
  PROVE  Elsewhere(r)
  BY DEF TypeOK, Enter, Become, History, Elsewhere

LEMMA FaultElsewhere ==
  ASSUME TypeOK, NEW r \in Request, Stop(r) \/ SyncSkipped(r)
  PROVE  Elsewhere(r)
  BY SyncElsewhere DEF TypeOK, Stop, SyncSkipped, NextPlate, Become, Idle, InReserve, Elsewhere

-----------------------------------------------------------------------------
(* Reserve.                                                                *)

LEMMA ReserveInv ==
  ASSUME IInv, NEW r \in Request, NEW project \in Project, NEW plates \in SUBSET Plate,
         NEW w \in Window, Reserve(r, project, plates, w)
  PROVE  KeyInv' /\ CalendarInv'
<1>0. TypeOK
  BY DEF IInv
<1>1. /\ req'[r].pc = "overlap" /\ req'[r].n = started
      /\ \A s \in Request \ {r} : req'[s] = req[s]
      /\ bookings' = bookings /\ started' = started + 1
      /\ req[r].pc = "idle"
  BY <1>0 DEF Reserve, Enter, Become, TypeOK
<1>2. /\ history'.revived = history.revived
      /\ ~history'.together =>
           ~history.together /\ \A s \in Request \ {r} : ~InReserve(req[s])
  BY <1>0, <1>1 DEF Reserve, Enter, InReserve, TypeOK, History
<1>3. KeyInv'
  <2>1. \A b \in bookings' : b.call < started' /\ b.call # started
    BY <1>0, <1>1 DEF IInv, KeyInv, TypeOK, Reservation
  <2>2. ASSUME NEW s \in Request, InReserve(req'[s])
        PROVE  /\ req'[s].n < started'
               /\ \A b \in bookings' : b.call # req'[s].n
               /\ \A t \in Request : InReserve(req'[t]) /\ req'[s].n = req'[t].n => s = t
    <3>1. \A t \in Request \ {r} : InReserve(req'[t]) => req'[t].n \in Nat /\ req'[t].n < started
      BY <1>0, <1>1, HandlerOf DEF IInv, KeyInv, TypeOK, InReserve, Reserving
    <3>2. CASE s = r
      BY <1>0, <1>1, <2>1, <3>1, <3>2 DEF TypeOK
    <3>3. CASE s # r
      BY <1>0, <1>1, <2>2, <3>1, <3>3 DEF IInv, KeyInv, TypeOK
    <3>4. QED BY <3>2, <3>3
  <2>3. \A s \in Request : req'[s].pc = "saveRow" =>
          \E b \in bookings' : req'[s].row = SetStatus(b, req'[s].row.status)
    BY <1>1 DEF IInv, KeyInv
  <2>4. QED BY <1>1, <2>1, <2>2, <2>3 DEF IInv, KeyInv, InReserve, SameRow
<1>4. CalendarInv'
  BY <1>1, <1>2 DEF IInv, CalendarInv, NoDoubleBooking, Booked, InReserve
<1>5. QED BY <1>3, <1>4

(* The handler that is already in Reserve goes on, or gives up.            *)
LEMMA FindOverlappingInv ==
  ASSUME IInv, NEW r \in Request, FindOverlapping(r)
  PROVE  KeyInv' /\ CalendarInv'
<1>0. TypeOK /\ req[r] \in Reserving /\ req[r].pc = "overlap"
  BY HandlerOf DEF IInv, TypeOK, FindOverlapping
<1>1. /\ UNCHANGED <<bookings, started, history>>
      /\ \A s \in Request \ {r} : req'[s] = req[s]
      /\ req'[r] = IF Booked(req[r].plates, req[r].window)
                     THEN Idle ELSE [req[r] EXCEPT !.pc = "insert"]
  BY <1>0 DEF FindOverlapping, Proceed, Become, TypeOK
<1>2. \/ req'[r].pc = "idle"
      \/ /\ req'[r].pc = "insert" /\ req'[r].n = req[r].n
         /\ req'[r].plates = req[r].plates /\ req'[r].window = req[r].window
         /\ ~Booked(req[r].plates, req[r].window)
  BY <1>0, <1>1 DEF Reserving, Idle
<1>3. \A s \in Request : InReserve(req'[s]) => InReserve(req[s]) /\ req'[s].n = req[s].n
  BY <1>0, <1>1, <1>2 DEF InReserve
<1>4. KeyInv'
  <2>1. \A s \in Request : req'[s].pc = "saveRow" => req'[s] = req[s]
    BY <1>1, <1>2
  <2>2. \A s \in Request : InReserve(req'[s]) =>
          /\ req'[s].n < started'
          /\ \A b \in bookings' : b.call # req'[s].n
          /\ \A t \in Request : InReserve(req'[t]) /\ req'[s].n = req'[t].n => s = t
    BY <1>1, <1>3 DEF IInv, KeyInv
  <2>3. \A s \in Request : req'[s].pc = "saveRow" =>
          \E b \in bookings' : req'[s].row = SetStatus(b, req'[s].row.status)
    BY <1>1, <2>1 DEF IInv, KeyInv
  <2>4. QED BY <1>1, <2>2, <2>3 DEF IInv, KeyInv, SameRow, InReserve
<1>5. CalendarInv'
  <2>1. \A s \in Request : req'[s].pc = "insert" =>
          \/ req'[s] = req[s]
          \/ ~Booked(req'[s].plates, req'[s].window)
    BY <1>1, <1>2
  <2>2. QED BY <1>1, <1>3, <2>1 DEF IInv, CalendarInv, NoDoubleBooking, Booked, InReserve
<1>6. QED BY <1>4, <1>5

LEMMA OverlapsSymmetric ==
  ASSUME NEW v \in Window, NEW w \in Window, Overlaps(v, w)
  PROVE  Overlaps(w, v)
  BY WindowAssumption DEF Overlaps

LEMMA CreateReservationsInv ==
  ASSUME IInv, NEW r \in Request, CreateReservations(r)
  PROVE  KeyInv' /\ CalendarInv'
<1> DEFINE h == req[r]
           row(p) == [call |-> h.n, plate |-> p, project |-> h.project,
                      window |-> h.window, status |-> "Direncanakan"]
<1>0. TypeOK /\ h \in Reserving /\ h.pc = "insert"
  BY HandlerOf DEF IInv, TypeOK, CreateReservations
<1>1. /\ UNCHANGED <<started, history>>
      /\ \A s \in Request \ {r} : req'[s] = req[s]
      /\ req'[r].pc = "idle"
      /\ bookings' = bookings \cup {row(p) : p \in h.plates}
  BY <1>0 DEF CreateReservations, Proceed, Become, TypeOK, Idle
<1>2. \A b \in bookings' \ bookings :
        /\ b.call = h.n /\ b.plate \in h.plates /\ b.window = h.window
        /\ \A c \in bookings' \ bookings : b.plate = c.plate => b = c
  BY <1>1
<1>3. KeyInv'
  <2>1. \A b, c \in bookings' : SameRow(b, c) => b = c
    BY <1>0, <1>2 DEF IInv, KeyInv, SameRow, InReserve
  <2>2. \A b \in bookings' : b.call < started'
    BY <1>0, <1>1, <1>2 DEF IInv, KeyInv, InReserve
  <2>3. \A s \in Request : InReserve(req'[s]) =>
          /\ req'[s].n < started'
          /\ \A b \in bookings' : b.call # req'[s].n
          /\ \A t \in Request : InReserve(req'[t]) /\ req'[s].n = req'[t].n => s = t
    BY <1>0, <1>1, <1>2 DEF IInv, KeyInv, InReserve
  <2>4. \A s \in Request : req'[s].pc = "saveRow" =>
          \E b \in bookings' : req'[s].row = SetStatus(b, req'[s].row.status)
    BY <1>1 DEF IInv, KeyInv
  <2>5. QED BY <2>1, <2>2, <2>3, <2>4 DEF KeyInv, InReserve, SameRow
<1>4. CalendarInv'
  <2> SUFFICES ASSUME ~history.together, ~history.revived
               PROVE  /\ NoDoubleBooking'
                      /\ \A s \in Request : ~InReserve(req'[s])
    BY <1>1 DEF CalendarInv, InReserve
  <2>1. /\ NoDoubleBooking
        /\ ~Booked(h.plates, h.window)
        /\ \A s \in Request \ {r} : ~InReserve(req[s])
    BY <1>0 DEF IInv, CalendarInv, InReserve
  <2>2. \A b \in bookings' : b.window \in Window
    BY <1>0, <1>2 DEF TypeOK, Reservation, Reserving
  <2>3. ASSUME NEW b \in bookings', NEW c \in bookings', b.plate = c.plate,
               Active(b), Active(c), Overlaps(b.window, c.window)
        PROVE  b = c
    <3>1. CASE b \in bookings /\ c \in bookings
      BY <2>1, <2>3, <3>1 DEF NoDoubleBooking
    <3>2. CASE b \in bookings /\ c \notin bookings
      BY <1>2, <2>1, <2>3, <3>2 DEF Booked
    <3>3. CASE b \notin bookings /\ c \in bookings
      BY <1>2, <2>1, <2>2, <2>3, <3>3, OverlapsSymmetric DEF Booked
    <3>4. CASE b \notin bookings /\ c \notin bookings
      BY <1>2, <2>3, <3>4
    <3>5. QED BY <3>1, <3>2, <3>3, <3>4
  <2>4. QED BY <1>1, <2>1, <2>3 DEF NoDoubleBooking, InReserve
<1>5. QED BY <1>3, <1>4

-----------------------------------------------------------------------------
(* Changes of status: every stored booking keeps all but its status.       *)

Restatused ==
  /\ \A c \in bookings' : \E b \in bookings : c = SetStatus(b, c.status)
  /\ \A b \in bookings : \E c \in bookings' : c = SetStatus(b, c.status)
  /\ \A c, d \in bookings' : SameRow(c, d) => c = d

LEMMA SetStatusKeeps ==
  ASSUME NEW b \in Reservation, NEW status \in ReservationStatus
  PROVE  /\ SetStatus(b, status) \in Reservation
         /\ SetStatus(b, status).call = b.call /\ SetStatus(b, status).plate = b.plate
         /\ SetStatus(b, status).window = b.window /\ SetStatus(b, status).status = status
         /\ SetStatus(b, b.status) = b
         /\ \A t \in ReservationStatus : SetStatus(SetStatus(b, status), t) = SetStatus(b, t)
  BY DEF SetStatus, Reservation

LEMMA RestatusedInv ==
  ASSUME IInv, TypeOK', NEW r \in Request, Restatused,
         started' = started,
         history' = [history EXCEPT !.revived = @ \/ Revives(bookings, bookings')],
         ~InReserve(req'[r]), req'[r].pc # "saveRow",
         \A s \in Request \ {r} : req'[s] = req[s]
  PROVE  KeyInv' /\ CalendarInv'
<1>0. TypeOK
  BY DEF IInv
<1>1. \A c \in bookings' : \E b \in bookings :
        /\ SameRow(b, c) /\ b.window = c.window /\ b.plate = c.plate /\ b.call = c.call
  <2> SUFFICES ASSUME NEW c \in bookings'
               PROVE  \E b \in bookings :
                 /\ SameRow(b, c) /\ b.window = c.window /\ b.plate = c.plate /\ b.call = c.call
    OBVIOUS
  <2>1. PICK b \in bookings : c = SetStatus(b, c.status)
    BY DEF Restatused
  <2>2. b \in Reservation /\ c.status \in ReservationStatus
    BY <1>0 DEF TypeOK, Reservation
  <2>3. QED BY <2>1, <2>2, SetStatusKeeps DEF SameRow
<1>2. KeyInv'
  <2>1. \A b \in bookings' : b.call < started'
    BY <1>1 DEF IInv, KeyInv
  <2>2. \A s \in Request : InReserve(req'[s]) =>
          /\ req'[s].n < started'
          /\ \A b \in bookings' : b.call # req'[s].n
          /\ \A t \in Request : InReserve(req'[t]) /\ req'[s].n = req'[t].n => s = t
    BY <1>1 DEF IInv, KeyInv
  <2>3. ASSUME NEW s \in Request, req'[s].pc = "saveRow"
        PROVE  \E c \in bookings' : req'[s].row = SetStatus(c, req'[s].row.status)
    <3> DEFINE row == req[s].row
    <3>1. s # r /\ req'[s] = req[s] /\ req[s] \in Handler
      BY <1>0, <2>3 DEF TypeOK
    <3>2. row \in Reservation
      BY <2>3, <3>1, HandlerOf DEF Updating
    <3>3. PICK b \in bookings : row = SetStatus(b, row.status)
      BY <2>3, <3>1 DEF IInv, KeyInv
    <3>4. PICK c \in bookings' : c = SetStatus(b, c.status)
      BY DEF Restatused
    <3>5. b \in Reservation /\ c.status \in ReservationStatus /\ row.status \in ReservationStatus
      BY <1>0, <3>2 DEF TypeOK, Reservation
    <3>6. SetStatus(c, row.status) = SetStatus(b, row.status)
      BY <3>4, <3>5, SetStatusKeeps
    <3>7. QED BY <3>1, <3>3, <3>6
  <2>4. QED BY <2>1, <2>2, <2>3 DEF Restatused, KeyInv, InReserve, SameRow
<1>3. CalendarInv'
  <2> SUFFICES ASSUME ~history'.together, ~history'.revived PROVE
                 /\ NoDoubleBooking'
                 /\ \A s, t \in Request : InReserve(req'[s]) /\ InReserve(req'[t]) => s = t
                 /\ \A s \in Request : req'[s].pc = "insert" =>
                      (~Booked(req[s].plates, req[s].window))'
    BY DEF CalendarInv, InReserve
  <2>1. ~history.together /\ ~history.revived /\ ~Revives(bookings, bookings')
    BY <1>0 DEF TypeOK, History
  <2>2. \A c \in bookings' : Active(c) => \E b \in bookings :
          SameRow(b, c) /\ Active(b) /\ b.window = c.window /\ b.plate = c.plate
    BY <1>1, <2>1 DEF Revives
  <2>3. NoDoubleBooking'
    <3> SUFFICES ASSUME NEW c \in bookings', NEW d \in bookings', c.plate = d.plate,
                        Active(c), Active(d), Overlaps(c.window, d.window)
                 PROVE  c = d
      BY DEF NoDoubleBooking
    <3>1. PICK a \in bookings : SameRow(a, c) /\ Active(a) /\ a.window = c.window /\ a.plate = c.plate
      BY <2>2
    <3>2. PICK b \in bookings : SameRow(b, d) /\ Active(b) /\ b.window = d.window /\ b.plate = d.plate
      BY <2>2
    <3>3. a = b
      BY <2>1, <3>1, <3>2 DEF IInv, CalendarInv, NoDoubleBooking
    <3>4. QED BY <3>1, <3>2, <3>3 DEF SameRow, Restatused
  <2>4. \A s \in Request :
          req'[s].pc = "insert" => (~Booked(req[s].plates, req[s].window))'
    BY <2>1, <2>2 DEF IInv, CalendarInv, Booked, InReserve
  <2>5. \A s, t \in Request : InReserve(req'[s]) /\ InReserve(req'[t]) => s = t
    BY <2>1 DEF IInv, CalendarInv
  <2>6. QED BY <2>3, <2>4, <2>5
<1>4. QED BY <1>2, <1>3

LEMMA SaveReservationInv ==
  ASSUME IInv, TypeOK', NEW r \in Request, SaveReservation(r)
  PROVE  KeyInv' /\ CalendarInv'
<1> DEFINE row == req[r].row
           new(b) == IF SameRow(b, row) THEN row ELSE b
<1>0. TypeOK /\ row \in Reservation
  BY HandlerOf DEF IInv, TypeOK, SaveReservation, Updating
<1>1. /\ started' = started /\ bookings' = {new(b) : b \in bookings}
      /\ history' = [history EXCEPT !.revived = @ \/ Revives(bookings, bookings')]
      /\ req' = [req EXCEPT ![r] = SyncOf(row.status, {row.plate})]
  BY DEF SaveReservation, WriteBookings, Proceed, Become
<1>2. PICK old \in bookings : row = SetStatus(old, row.status)
  BY DEF SaveReservation, IInv, KeyInv
<1>3. \A b \in bookings : b \in Reservation
  BY <1>0 DEF TypeOK
<1>4. SameRow(old, row) /\ row.status \in ReservationStatus
  BY <1>0, <1>2, <1>3, SetStatusKeeps DEF SameRow, Reservation
<1>5. \A b \in bookings : new(b) = SetStatus(b, new(b).status) /\ SameRow(new(b), b)
  <2> SUFFICES ASSUME NEW b \in bookings
               PROVE  new(b) = SetStatus(b, new(b).status) /\ SameRow(new(b), b)
    OBVIOUS
  <2>1. CASE SameRow(b, row)
    <3>1. b = old
      BY <1>4, <2>1 DEF IInv, KeyInv, SameRow
    <3>2. QED BY <1>2, <1>4, <2>1, <3>1 DEF SameRow
  <2>2. CASE ~SameRow(b, row)
    BY <1>3, <2>2, SetStatusKeeps DEF SameRow, Reservation
  <2>3. QED BY <2>1, <2>2
<1> HIDE DEF new
<1>6. Restatused
  BY <1>1, <1>5 DEF Restatused, IInv, KeyInv, SameRow
<1>7. /\ ~InReserve(req'[r]) /\ req'[r].pc # "saveRow"
      /\ \A s \in Request \ {r} : req'[s] = req[s]
  BY <1>0, <1>1, SyncElsewhere DEF TypeOK
<1>8. QED BY <1>1, <1>6, <1>7, RestatusedInv

LEMMA SetAllInv ==
  ASSUME IInv, TypeOK', NEW r \in Request, SetReservationStatusForProject(r)
  PROVE  KeyInv' /\ CalendarInv'
<1> DEFINE h == req[r]
           new(b) == IF b.project = h.project THEN SetStatus(b, h.status) ELSE b
<1>0. TypeOK /\ h \in Listing
  BY HandlerOf DEF IInv, TypeOK, SetReservationStatusForProject
<1>1. /\ started' = started /\ bookings' = {new(b) : b \in bookings}
      /\ history' = [history EXCEPT !.revived = @ \/ Revives(bookings, bookings')]
      /\ req' = [req EXCEPT ![r] = [h EXCEPT !.pc = "list"]]
  BY DEF SetReservationStatusForProject, WriteBookings, Moved, Proceed, Become
<1>2. \A b \in bookings : b \in Reservation
  BY <1>0 DEF TypeOK
<1>3. h.status \in ReservationStatus
  BY <1>0 DEF Listing
<1>4. \A b \in bookings : new(b) = SetStatus(b, new(b).status) /\ SameRow(new(b), b)
  <2> SUFFICES ASSUME NEW b \in bookings
               PROVE  new(b) = SetStatus(b, new(b).status) /\ SameRow(new(b), b)
    OBVIOUS
  <2>1. CASE b.project = h.project
    BY <1>2, <1>3, <2>1, SetStatusKeeps DEF SameRow
  <2>2. CASE b.project # h.project
    BY <1>2, <2>2, SetStatusKeeps DEF SameRow, Reservation
  <2>3. QED BY <2>1, <2>2
<1> HIDE DEF new
<1>5. Restatused
  BY <1>1, <1>4 DEF Restatused, IInv, KeyInv, SameRow
<1>6. [h EXCEPT !.pc = "list"].pc = "list"
  BY <1>0 DEF Listing
<1>7. /\ ~InReserve(req'[r]) /\ req'[r].pc # "saveRow"
      /\ \A s \in Request \ {r} : req'[s] = req[s]
  BY <1>0, <1>1, <1>6 DEF TypeOK, InReserve
<1>8. QED BY <1>1, <1>5, <1>7, RestatusedInv

(* A request to change one booking has just read it.                       *)
LEMMA UpdateStatusInv ==
  ASSUME IInv, NEW r \in Request, NEW b \in bookings, NEW status \in ReservationStatus,
         UpdateStatus(r, b, status)
  PROVE  KeyInv' /\ CalendarInv'
<1>0. TypeOK /\ b \in Reservation
  BY DEF IInv, TypeOK
<1>1. /\ req'[r] = [pc |-> "saveRow", row |-> SetStatus(b, status)]
      /\ \A s \in Request \ {r} : req'[s] = req[s]
      /\ bookings' = bookings /\ started' = started + 1
  BY <1>0 DEF UpdateStatus, Enter, Become, TypeOK
<1>2. /\ ~InReserve(req'[r])
      /\ history'.revived = history.revived
      /\ history.together => history'.together
  BY <1>0, <1>1 DEF UpdateStatus, Enter, InReserve, TypeOK, History
<1>3. KeyInv'
  <2>1. \A c \in bookings' : c.call < started'
    BY <1>0, <1>1 DEF IInv, KeyInv, TypeOK, Reservation
  <2>2. ASSUME NEW s \in Request, InReserve(req'[s])
        PROVE  /\ req'[s].n < started'
               /\ \A c \in bookings' : c.call # req'[s].n
               /\ \A t \in Request : InReserve(req'[t]) /\ req'[s].n = req'[t].n => s = t
    <3>1. s # r /\ req'[s] = req[s] /\ req[s] \in Handler
      BY <1>0, <1>1, <1>2, <2>2 DEF TypeOK
    <3>2. req[s].n \in Nat
      BY <2>2, <3>1, HandlerOf DEF InReserve, Reserving
    <3>3. QED BY <1>0, <1>1, <1>2, <2>2, <3>1, <3>2 DEF IInv, KeyInv, TypeOK
  <2>3. \A s \in Request : req'[s].pc = "saveRow" =>
          \E c \in bookings' : req'[s].row = SetStatus(c, req'[s].row.status)
    <3>1. SetStatus(b, status).status = status
      BY <1>0, SetStatusKeeps
    <3>2. QED BY <1>1, <3>1 DEF IInv, KeyInv
  <2>4. QED BY <1>1, <2>1, <2>2, <2>3 DEF IInv, KeyInv, InReserve, SameRow
<1>4. CalendarInv'
  BY <1>1, <1>2 DEF IInv, CalendarInv, NoDoubleBooking, Booked, InReserve
<1>5. QED BY <1>3, <1>4

-----------------------------------------------------------------------------

LEMMA InitInv == Init => IInv
  BY InitType DEF Init, Idle, IInv, KeyInv, CalendarInv, NoDoubleBooking, InReserve

LEMMA ReceiveInv ==
  ASSUME IInv, NEW r \in Request, Receive(r)
  PROVE  IInv'
<1>1. TypeOK /\ TypeOK'
  BY ReceiveType DEF IInv
<1>2. CASE \E project \in Project, plates \in SUBSET Plate, w \in Window :
             Reserve(r, project, plates, w)
  BY <1>1, <1>2, ReserveInv DEF IInv
<1>3. CASE \E b \in bookings, status \in ReservationStatus : UpdateStatus(r, b, status)
  BY <1>1, <1>3, UpdateStatusInv DEF IInv
<1>4. CASE \E project \in Project, status \in ReservationStatus :
             UpdateProjectStatus(r, project, status)
  <2>1. Elsewhere(r)
    BY <1>1, <1>4, EnterElsewhere DEF UpdateProjectStatus, InReserve
  <2>2. QED BY <1>1, <2>1, ElsewhereInv
<1>5. CASE \E p \in Plate :
             \/ \E start \in Start : CreateMaintenance(r, p, start)
             \/ \E status \in FormStatus : UpdateAsset(r, p, status)
             \/ SetSupplier(r, p)
             \/ DeleteAsset(r, p)
  <2>1. Elsewhere(r)
    BY <1>1, <1>5, EnterElsewhere
    DEF CreateMaintenance, UpdateAsset, SetSupplier, DeleteAsset, InReserve
  <2>2. QED BY <1>1, <2>1, ElsewhereInv
<1>6. CASE \E job \in jobs : Complete(r, job)
  <2>1. Elsewhere(r)
    BY <1>1, <1>6, EnterElsewhere DEF Complete, InReserve
  <2>2. QED BY <1>1, <2>1, ElsewhereInv
<1>7. QED BY <1>2, <1>3, <1>4, <1>5, <1>6 DEF Receive

LEMMA ContinueInv ==
  ASSUME IInv, NEW r \in Request, Continue(r)
  PROVE  IInv'
<1>1. TypeOK /\ TypeOK'
  BY CalendarType, VehicleType, WorkshopType, EditType DEF IInv, Continue
<1>2. CASE FindOverlapping(r) \/ CreateReservations(r)
  BY <1>1, <1>2, FindOverlappingInv, CreateReservationsInv DEF IInv
<1>3. CASE SaveReservation(r) \/ SetReservationStatusForProject(r)
  BY <1>1, <1>3, SaveReservationInv, SetAllInv DEF IInv
<1>4. CASE FindReservationsByProject(r)
  <2>1. Elsewhere(r)
    BY <1>1, <1>4, SyncElsewhere DEF FindReservationsByProject, Proceed, Become, Elsewhere, TypeOK
  <2>2. QED BY <1>1, <2>1, ElsewhereInv
<1>5. CASE SyncAssetStatus(r) \/ CountActiveReservations(r) \/ SyncSave(r)
  BY <1>1, <1>5, VehicleElsewhere, ElsewhereInv
<1>6. CASE \/ CheckReservationConflict(r) \/ TakeOut(r) \/ RecordJob(r) \/ ReportToFinance(r)
           \/ FetchAsset(r) \/ Release(r) \/ SaveMaintenance(r) \/ SaveEdit(r) \/ SoftDelete(r)
  BY <1>1, <1>6, WorkshopElsewhere, ElsewhereInv
<1>7. QED BY <1>2, <1>3, <1>4, <1>5, <1>6 DEF Continue

LEMMA NextInv == IInv /\ [Next]_vars => IInv'
<1>1. ASSUME IInv, NEW r \in Request, Stop(r) \/ SyncSkipped(r) PROVE IInv'
  BY <1>1, FaultType, FaultElsewhere, ElsewhereInv DEF IInv
<1>2. ASSUME IInv, Next PROVE IInv'
  BY <1>1, <1>2, ReceiveInv, ContinueInv DEF Next
<1>3. ASSUME IInv, UNCHANGED vars PROVE IInv'
  BY <1>3 DEF IInv, TypeOK, KeyInv, CalendarInv, NoDoubleBooking, Booked, vars
<1>4. QED BY <1>2, <1>3

THEOREM Inductive == Spec => []IInv
  BY InitInv, NextInv, PTL DEF Spec

(* No vehicle is booked twice for one time, as long as no two Reserve calls *)
(* overlap and no ended booking is revived: status changes, maintenance,    *)
(* edits and faults may happen at any point of a Reserve.                   *)
THEOREM CalendarStaysClear == Spec => []CalendarClear
<1>1. IInv => CalendarClear
  BY DEF IInv, CalendarInv, CalendarClear
<1>2. QED BY <1>1, Inductive, PTL
-----------------------------------------------------------------------------
(* The vehicles, one request after the other.  Of the handlers only r is at *)
(* work, so what a vehicle still waits for is due from r.                    *)

VehicleOf(h, p) ==
  /\ asset[p].status = "Dalam Aktivitas" /\ Found(p) => HasActive(p) \/ Returns(h, p)
  /\ asset[p].status = "Sedang Maintenance" => HasOpen(p) \/ Records(h, p)

SeesAll(h) == SeesBookings(h) /\ SeesVehicle(h) /\ SeesJobs(h)

AtWork(r) ==
  /\ JobInv
  /\ SeesAll(req[r])
  /\ \A p \in Plate \ history.typed : VehicleOf(req[r], p)

OthersIdle(r) == \A s \in Request \ {r} : req[s].pc = "idle"

LEMMA AtWorkOf ==
  ASSUME VehicleInv, ~history.raced, faults = 0, NEW r \in Request, OthersIdle(r)
  PROVE  AtWork(r)
<1>1. ASSUME NEW p \in Plate \ history.typed PROVE VehicleOf(req[r], p)
  <2>1. \A s \in Request \ {r} : ~Returns(req[s], p) /\ ~Records(req[s], p)
    BY DEF OthersIdle, Returns, Records
  <2>2. QED BY <2>1 DEF VehicleInv, VehicleOf
<1>2. QED BY <1>1 DEF VehicleInv, AtWork, SeesAll

LEMMA OfAtWork ==
  ASSUME NEW r \in Request, OthersIdle(r)', AtWork(r)'
  PROVE  VehicleInv'
<1>1. \A s, t \in Request : req'[s].pc # "idle" /\ req'[t].pc # "idle" => s = t
  BY DEF OthersIdle
<1>2. ASSUME NEW s \in Request \ {r}
      PROVE  (SeesBookings(req[s]) /\ SeesVehicle(req[s]) /\ SeesJobs(req[s]))'
  BY DEF OthersIdle, SeesBookings, SeesVehicle, SeesJobs
<1>3. \A s \in Request : (SeesBookings(req[s]) /\ SeesVehicle(req[s]) /\ SeesJobs(req[s]))'
  BY <1>2 DEF AtWork, SeesAll
<1>4. ASSUME NEW p \in Plate \ history'.typed
      PROVE  /\ asset'[p].status = "Dalam Aktivitas" /\ Found(p)' =>
                  HasActive(p)' \/ \E s \in Request : Returns(req[s], p)'
             /\ asset'[p].status = "Sedang Maintenance" =>
                  HasOpen(p)' \/ \E s \in Request : Records(req[s], p)'
  BY DEF AtWork, VehicleOf
<1>5. JobInv'
  BY DEF AtWork
<1>6. QED BY <1>1, <1>3, <1>4, <1>5 DEF VehicleInv

(* A handler that begins sees the vehicle and the jobs as they are.         *)
LEMMA ReceiveVehicle ==
  ASSUME TypeOK, NEW r \in Request, AtWork(r), Receive(r)
  PROVE  AtWork(r)'
<1>0. req \in [Request -> Handler] /\ started \in Nat /\ history \in History
  BY DEF TypeOK
<1>1. /\ UNCHANGED <<asset, bookings, jobs, ledger>> /\ started' = started + 1
      /\ history'.typed = history.typed /\ req[r].pc = "idle"
  BY <1>0 DEF Receive, Reserve, UpdateStatus, UpdateProjectStatus, CreateMaintenance,
     UpdateAsset, SetSupplier, DeleteAsset, Complete, Enter, History
<1>2. JobInv'
  BY <1>0, <1>1 DEF AtWork, JobInv, TypeOK, Job
<1>3. \A p \in Plate \ history'.typed : VehicleOf(req[r], p)'
  BY <1>1 DEF AtWork, VehicleOf, Found, HasActive, HasOpen, Returns, Records
<1>4. ASSUME NEW h, Enter(r, h) PROVE req'[r] = h
  BY <1>0, <1>4 DEF Enter, Become
<1>5. SeesAll(req[r])'
  <2>1. ASSUME req'[r].pc \in {"overlap", "saveRow", "setAll", "delete"} PROVE SeesAll(req[r])'
    BY <2>1 DEF SeesAll, SeesBookings, SeesVehicle, SeesJobs
  <2>2. ASSUME NEW project \in Project, NEW plates \in SUBSET Plate, NEW w \in Window,
               Reserve(r, project, plates, w)
        PROVE  SeesAll(req[r])'
    <3>1. req'[r].pc = "overlap"
      BY <1>0, <2>2 DEF Reserve, Enter, Become
    <3>2. QED BY <2>1, <3>1
  <2>3. ASSUME NEW b \in bookings, NEW status \in ReservationStatus, UpdateStatus(r, b, status)
        PROVE  SeesAll(req[r])'
    <3>1. req'[r].pc = "saveRow"
      BY <1>4, <2>3 DEF UpdateStatus
    <3>2. QED BY <2>1, <3>1
  <2>4. ASSUME NEW project \in Project, NEW status \in ReservationStatus,
               UpdateProjectStatus(r, project, status)
        PROVE  SeesAll(req[r])'
    <3>1. req'[r].pc = "setAll"
      BY <1>4, <2>4 DEF UpdateProjectStatus
    <3>2. QED BY <2>1, <3>1
  <2>5. ASSUME NEW p \in Plate, NEW start \in Start, CreateMaintenance(r, p, start)
        PROVE  SeesAll(req[r])'
    <3>1. req'[r].pc = "conflict" /\ req'[r].n = started
      BY <1>0, <2>5 DEF CreateMaintenance, Enter, Become
    <3>2. \A j \in jobs : j.id # started
      BY <1>0 DEF AtWork, JobInv, TypeOK, Job
    <3>3. QED BY <1>0, <1>1, <3>1, <3>2 DEF SeesAll, SeesBookings, SeesVehicle, SeesJobs
  <2>6. ASSUME NEW p \in Plate, NEW status \in FormStatus, UpdateAsset(r, p, status)
        PROVE  SeesAll(req[r])'
    <3>1. req'[r].pc = "edit" /\ req'[r].typed = TRUE
      BY <1>4, <2>6 DEF UpdateAsset
    <3>2. QED BY <3>1 DEF SeesAll, SeesBookings, SeesVehicle, SeesJobs
  <2>7. ASSUME NEW p \in Plate, SetSupplier(r, p)
        PROVE  SeesAll(req[r])'
    <3>1. req'[r].pc = "edit" /\ req'[r].plate = p /\ req'[r].copy = asset[p]
      BY <1>4, <2>7 DEF SetSupplier
    <3>2. QED BY <1>1, <3>1 DEF SeesAll, SeesBookings, SeesVehicle, SeesJobs
  <2>8. ASSUME NEW p \in Plate, DeleteAsset(r, p)
        PROVE  SeesAll(req[r])'
    <3>1. req'[r].pc = "delete"
      BY <1>4, <2>8 DEF DeleteAsset
    <3>2. QED BY <2>1, <3>1
  <2>9. ASSUME NEW job \in jobs, Complete(r, job)
        PROVE  SeesAll(req[r])'
    <3>1. req'[r].pc = "fetch" /\ req'[r].job = job
      BY <1>4, <2>9 DEF Complete
    <3>2. QED BY <1>1, <3>1, <2>9 DEF SeesAll, SeesBookings, SeesVehicle, SeesJobs
  <2>10. QED BY <2>2, <2>3, <2>4, <2>5, <2>6, <2>7, <2>8, <2>9 DEF Receive
<1>6. QED BY <1>2, <1>3, <1>5 DEF AtWork

(* Bookings change: each vehicle that loses its last live one is on the     *)
(* list of those to return.                                                 *)
LEMMA BookingsVehicle ==
  ASSUME TypeOK, KeyInv, NEW r \in Request, AtWork(r),
         \/ FindOverlapping(r) \/ CreateReservations(r) \/ SaveReservation(r)
         \/ SetReservationStatusForProject(r) \/ FindReservationsByProject(r)
  PROVE  AtWork(r)'
<1>0. /\ req \in [Request -> Handler] /\ req[r] \in Handler /\ bookings \subseteq Reservation
      /\ history \in History
  BY DEF TypeOK
<1>1. /\ UNCHANGED <<asset, jobs, started>> /\ history'.typed = history.typed
      /\ req[r].pc \in {"overlap", "insert", "saveRow", "setAll", "list"}
  BY <1>0 DEF FindOverlapping, CreateReservations, SaveReservation, WriteBookings,
     SetReservationStatusForProject, FindReservationsByProject, Proceed, History
<1>2. JobInv'
  BY <1>1 DEF AtWork, JobInv
(* What is left to show when the next state of r is a step of this kind.    *)
<1>3. ASSUME req'[r].pc \in {"idle", "insert", "list", "sync"}, SeesBookings(req[r])',
             \A p \in Plate : HasActive(p) => HasActive(p)' \/ Returns(req[r], p)',
             \A p \in Plate : Returns(req[r], p) => Returns(req[r], p)'
      PROVE  AtWork(r)'
  <2>1. SeesAll(req[r])'
    BY <1>3 DEF SeesAll, SeesVehicle, SeesJobs
  <2>2. \A p \in Plate \ history'.typed : VehicleOf(req[r], p)'
    BY <1>1, <1>3 DEF AtWork, VehicleOf, Found, HasOpen, Records
  <2>3. QED BY <1>2, <2>1, <2>2 DEF AtWork
<1>4. ASSUME req[r].pc # "list" PROVE \A p \in Plate : ~Returns(req[r], p)
  BY <1>1, <1>4 DEF Returns
<1>5. CASE FindOverlapping(r)
  <2>1. req'[r].pc \in {"idle", "insert"} /\ bookings' = bookings /\ req[r].pc = "overlap"
    <3>1. req[r] \in Reserving
      BY <1>0, <1>5, HandlerOf DEF FindOverlapping
    <3>2. QED BY <1>0, <1>5, <3>1 DEF FindOverlapping, Proceed, Become, Reserving, Idle
  <2>2. QED BY <1>3, <1>4, <2>1 DEF HasActive, SeesBookings
<1>6. CASE CreateReservations(r)
  <2>1. req'[r].pc = "idle" /\ bookings \subseteq bookings' /\ req[r].pc = "insert"
    BY <1>0, <1>6 DEF CreateReservations, Proceed, Become, Idle
  <2>2. QED BY <1>3, <1>4, <2>1 DEF HasActive, SeesBookings
<1>7. CASE SaveReservation(r)
  <2>1. PICK row \in Reservation :
          /\ row = req[r].row /\ req[r].pc = "saveRow"
          /\ bookings' = {IF SameRow(b, row) THEN row ELSE b : b \in bookings}
          /\ req'[r] = SyncOf(row.status, {row.plate})
    BY <1>0, <1>7, HandlerOf DEF SaveReservation, WriteBookings, Proceed, Become, Updating
  <2>2. PICK c \in bookings : row = SetStatus(c, row.status)
    BY <2>1 DEF KeyInv
  <2>3. row \in bookings'
    <3>1. SameRow(c, row)
      BY <1>0, <2>2 DEF SetStatus, SameRow, Reservation
    <3>2. QED BY <2>1, <3>1
  <2>4. \A b \in bookings : b.plate # row.plate => b \in bookings'
    BY <2>1 DEF SameRow
  <2>5. row.status \in Live => HasActive(row.plate)'
    BY <2>3 DEF HasActive, Active
  <2>6. row.status \in Live \cup Ended
    BY <2>1 DEF Reservation, ReservationStatus, Live, Ended
  <2>7. CASE row.status = "Direncanakan"
    <3>1. req'[r].pc = "idle"
      BY <2>1, <2>7 DEF SyncOf, Idle
    <3>2. QED BY <1>3, <1>4, <2>1, <2>4, <2>5, <2>7, <3>1 DEF SeesBookings, HasActive, Live
  <2>8. CASE row.status # "Direncanakan"
    <3>1. req'[r] = [pc |-> "sync", status |-> row.status, plates |-> {row.plate}]
      BY <2>1, <2>8 DEF SyncOf
    <3>2. SeesBookings(req[r])'
      BY <2>5, <2>6, <2>8, <3>1 DEF SeesBookings, Live
    <3>3. row.status \in Ended => Returns(req[r], row.plate)'
      BY <3>1 DEF Returns
    <3>4. ASSUME NEW p \in Plate, HasActive(p)
          PROVE  HasActive(p)' \/ Returns(req[r], p)'
      BY <2>4, <2>5, <2>6, <3>3, <3>4 DEF HasActive
    <3>5. QED BY <1>3, <1>4, <2>1, <3>1, <3>2, <3>4
  <2>9. QED BY <2>7, <2>8
<1>8. CASE SetReservationStatusForProject(r)
  <2> DEFINE h == req[r]
  <2>1. /\ h.pc = "setAll" /\ h.status \in ReservationStatus
        /\ bookings' = Moved(h.project, h.status)
        /\ req'[r] = [h EXCEPT !.pc = "list"] /\ h \in Listing
    BY <1>0, <1>8, HandlerOf
    DEF SetReservationStatusForProject, WriteBookings, Proceed, Become, Listing
  <2>2. req'[r].pc = "list" /\ req'[r].status = h.status /\ req'[r].project = h.project
    BY <2>1 DEF Listing
  <2> HIDE DEF h
  <2>3. ASSUME NEW b \in bookings
        PROVE  /\ SetStatus(b, h.status).plate = b.plate
               /\ SetStatus(b, h.status).project = b.project
               /\ SetStatus(b, h.status).status = h.status
    BY <1>0, <2>3 DEF SetStatus, Reservation
  <2>4. \A b \in bookings : IF b.project = h.project THEN SetStatus(b, h.status) \in bookings'
                                                    ELSE b \in bookings'
    BY <2>1 DEF Moved
  <2>5. \A b \in bookings' : b.project = h.project => b.status = h.status
    BY <2>1, <2>3 DEF Moved
  <2>6. SeesBookings(req[r])'
    BY <2>2, <2>5 DEF SeesBookings
  <2>7. ASSUME NEW p \in Plate, HasActive(p)
        PROVE  HasActive(p)' \/ Returns(req[r], p)'
    <3>1. PICK b \in bookings : b.plate = p /\ Active(b)
      BY <2>7 DEF HasActive
    <3>2. CASE b.project # h.project
      BY <2>4, <3>1, <3>2 DEF HasActive
    <3>3. CASE b.project = h.project
      <4>1. SetStatus(b, h.status) \in bookings'
        BY <2>4, <3>3
      <4>2. CASE h.status \in Live
        BY <2>3, <3>1, <4>1, <4>2 DEF HasActive, Active
      <4>3. CASE h.status \in Ended
        BY <2>2, <2>3, <3>1, <3>3, <4>1, <4>3 DEF Returns
      <4>4. QED BY <2>1, <4>2, <4>3 DEF ReservationStatus, Live, Ended
    <3>4. QED BY <3>2, <3>3
  <2>8. req[r].pc # "list"
    BY <2>1 DEF h
  <2>9. QED BY <1>3, <1>4, <2>2, <2>6, <2>7, <2>8
<1>9. CASE FindReservationsByProject(r)
  <2> DEFINE h == req[r]
             plates == {b.plate : b \in {c \in bookings : c.project = h.project}}
  <2>1. /\ h.pc = "list" /\ h.status \in ReservationStatus
        /\ bookings' = bookings /\ req'[r] = SyncOf(h.status, plates)
        /\ \A b \in bookings : b.project = h.project => b.status = h.status
    BY <1>0, <1>9, HandlerOf
    DEF FindReservationsByProject, Proceed, Become, Listing, AtWork, SeesAll, SeesBookings
  <2>2. \A p \in plates : \E b \in bookings : b.plate = p /\ b.status = h.status
    BY <2>1
  <2>3. \A p : Returns(h, p) => h.status \in Ended /\ p \in plates
    BY <2>1 DEF Returns
  <2> HIDE DEF plates, h
  <2>4. \/ req'[r].pc = "idle" /\ (h.status = "Direncanakan" \/ plates = {})
        \/ /\ req'[r].pc = "sync" /\ req'[r].status = h.status /\ req'[r].plates = plates
           /\ h.status # "Direncanakan"
    BY <2>1 DEF SyncOf, Idle
  <2>5. SeesBookings(req[r])'
    BY <2>1, <2>2, <2>4
    DEF SeesBookings, HasActive, Active, Live, Ended, ReservationStatus
  <2>6. \A p \in Plate : Returns(h, p) => Returns(req[r], p)'
    BY <2>3, <2>4 DEF Returns, Ended
  <2>7. \A p \in Plate : Returns(req[r], p) => Returns(req[r], p)'
    BY <2>6 DEF h
  <2>8. QED BY <1>3, <2>1, <2>4, <2>5, <2>7 DEF HasActive
<1>10. QED BY <1>5, <1>6, <1>7, <1>8, <1>9

Busy == "Dalam Aktivitas"

Marked(row, to) == [row EXCEPT !.status = to]

Holding(pc, h, p, copy) ==
  [pc |-> pc, status |-> h.status, plates |-> h.plates, plate |-> p, copy |-> copy]

LEMMA MarkedStatus ==
  ASSUME NEW row \in Asset, NEW to
  PROVE  Marked(row, to).status = to
  BY DEF Marked, Asset

LEMMA HoldingFields ==
  ASSUME NEW pc, NEW h, NEW p, NEW copy
  PROVE  /\ Holding(pc, h, p, copy).pc = pc
         /\ Holding(pc, h, p, copy).status = h.status
         /\ Holding(pc, h, p, copy).plates = h.plates
         /\ Holding(pc, h, p, copy).plate = p
         /\ Holding(pc, h, p, copy).copy = copy
  BY DEF Holding

(* Going through the vehicles of ended bookings: each is returned, or has   *)
(* another booking, before it is left.                                      *)
LEMMA SyncVehicle ==
  ASSUME TypeOK, NEW r \in Request, AtWork(r),
         SyncAssetStatus(r) \/ CountActiveReservations(r) \/ SyncSave(r)
  PROVE  AtWork(r)'
<1> DEFINE h == req[r]
<1>0. /\ req \in [Request -> Handler] /\ h \in Syncing /\ asset \in [Plate -> Asset]
      /\ h.pc \in {"sync", "count", "syncSave"} /\ h.plates \subseteq Plate
  <2>1. h \in Handler /\ h.pc \in {"sync", "count", "syncSave"}
    BY DEF TypeOK, SyncAssetStatus, CountActiveReservations, SyncSave
  <2>2. h \in Syncing
    BY <2>1, HandlerOf
  <2>3. QED BY <2>1, <2>2 DEF TypeOK, Syncing
<1>1. UNCHANGED <<bookings, jobs, history, started>>
  BY DEF SyncAssetStatus, CountActiveReservations, SyncSave, Proceed
<1>2. JobInv'
  BY <1>1 DEF AtWork, JobInv
<1>3. \/ h.status \in Ended
      \/ h.status = "Dilaksanakan" /\ \A p \in h.plates : HasActive(p)
  BY <1>0 DEF AtWork, SeesAll, SeesBookings
<1>4. \A p \in Plate \ history.typed : VehicleOf(h, p)
  BY DEF AtWork
(* The handler leaves vehicle q for the next one.                           *)
<1>5. ASSUME NEW q \in h.plates, req'[r] = NextPlate(h, q),
             \A p \in Plate \ {q} : asset'[p] = asset[p],
             q \notin history.typed => VehicleOf(Idle, q)'
      PROVE  AtWork(r)'
  <2>1. \/ /\ req'[r].pc = "idle"
           /\ h.plates \ {q} = {}
        \/ /\ req'[r].pc = "sync" /\ req'[r].status = h.status
           /\ req'[r].plates = h.plates \ {q}
    BY <1>3, <1>5 DEF NextPlate, SyncOf, Idle, Ended
  <2>2. SeesAll(req[r])'
    BY <1>1, <1>3, <2>1 DEF SeesAll, SeesBookings, SeesVehicle, SeesJobs, HasActive
  <2>3. ASSUME NEW p \in Plate \ history.typed, p # q PROVE VehicleOf(req[r], p)'
    <3>1. Returns(h, p) => Returns(req[r], p)'
      BY <1>0, <2>1, <2>3 DEF Returns
    <3>2. VehicleOf(h, p) /\ asset'[p] = asset[p] /\ ~Records(h, p)
      BY <1>0, <1>4, <1>5, <2>3 DEF Records
    <3>3. QED BY <1>1, <3>1, <3>2 DEF VehicleOf, Found, HasActive, HasOpen
  <2>4. q \notin history.typed => VehicleOf(req[r], q)'
    BY <1>5 DEF VehicleOf, Returns, Records, Idle
  <2>5. QED BY <1>1, <1>2, <2>2, <2>3, <2>4 DEF AtWork
(* The handler goes on with vehicle q, which it has read.                   *)
<1>6. ASSUME asset' = asset, req'[r].pc \in {"count", "syncSave"},
             req'[r].status = h.status, req'[r].plates = h.plates, SeesVehicle(req[r])'
      PROVE  AtWork(r)'
  <2>1. SeesAll(req[r])'
    BY <1>1, <1>3, <1>6 DEF SeesAll, SeesBookings, SeesJobs, HasActive
  <2>2. \A p \in Plate \ history'.typed : VehicleOf(req[r], p)'
    BY <1>0, <1>1, <1>4, <1>6 DEF VehicleOf, Found, HasActive, HasOpen, Returns, Records
  <2>3. QED BY <1>2, <2>1, <2>2 DEF AtWork
<1>7. CASE SyncAssetStatus(r)
  <2>1. PICK q \in h.plates :
          req'[r] = IF ~Found(q) THEN NextPlate(h, q)
            ELSE IF h.status = "Dilaksanakan"
              THEN Holding("syncSave", h, q, Marked(asset[q], Busy))
              ELSE Holding("count", h, q, asset[q])
    BY <1>0, <1>7 DEF SyncAssetStatus, Proceed, Become, Holding, Marked, Busy
  <2>2. asset' = asset
    BY <1>7 DEF SyncAssetStatus
  <2>3. CASE ~Found(q)
    <3>1. q \notin history.typed => VehicleOf(Idle, q)'
      BY <1>0, <1>1, <1>4, <2>2, <2>3 DEF VehicleOf, Found, HasOpen, Records
    <3>2. QED BY <1>5, <2>1, <2>2, <2>3, <3>1
  <2>4. CASE Found(q) /\ h.status = "Dilaksanakan"
    <3>1. req'[r] = Holding("syncSave", h, q, Marked(asset[q], Busy))
      BY <2>1, <2>4
    <3>2. asset[q] \in Asset
      BY <1>0, <2>1
    <3>3. /\ req'[r].pc = "syncSave" /\ req'[r].status = h.status
          /\ req'[r].plates = h.plates /\ req'[r].plate = q
          /\ req'[r].copy.status = Busy
      <4>1. Marked(asset[q], Busy).status = Busy
        BY <3>2, MarkedStatus
      <4>2. /\ req'[r].pc = "syncSave" /\ req'[r].status = h.status
            /\ req'[r].plates = h.plates /\ req'[r].plate = q
            /\ req'[r].copy = Marked(asset[q], Busy)
        BY <3>1, HoldingFields
      <4>3. QED BY <4>1, <4>2
    <3>4. SeesVehicle(req[r])'
      BY <2>1, <2>4, <3>3 DEF SeesVehicle, Ended, Busy
    <3>5. QED BY <1>6, <2>2, <3>3, <3>4
  <2>5. CASE Found(q) /\ h.status # "Dilaksanakan"
    <3>1. /\ req'[r].pc = "count" /\ req'[r].status = h.status
          /\ req'[r].plates = h.plates /\ req'[r].plate = q /\ req'[r].copy = asset[q]
      BY <2>1, <2>5, HoldingFields
    <3>2. SeesVehicle(req[r])'
      BY <1>3, <2>1, <2>2, <2>5, <3>1 DEF SeesVehicle
    <3>3. QED BY <1>6, <2>2, <3>1, <3>2
  <2>6. QED BY <2>3, <2>4, <2>5
<1>8. CASE CountActiveReservations(r)
  <2>1. PICK q \in h.plates : /\ h.pc = "count" /\ q = h.plate /\ h.copy = asset[q]
                              /\ h.status \in Ended /\ q \in Plate
    BY <1>0, <1>8 DEF CountActiveReservations, Proceed, AtWork, SeesAll, SeesVehicle
  <2>2. asset' = asset
    BY <1>8 DEF CountActiveReservations
  <2>3. req'[r] = IF HasActive(q) \/ h.copy.status = "Sedang Maintenance"
                    THEN NextPlate(h, q)
                    ELSE [h EXCEPT !.pc = "syncSave", !.copy.status = "Tersedia"]
    BY <1>0, <1>8, <2>1 DEF CountActiveReservations, Proceed, Become, HasActive
  <2>4. CASE HasActive(q) \/ h.copy.status = "Sedang Maintenance"
    <3>1. q \notin history.typed => VehicleOf(Idle, q)'
      BY <1>1, <1>4, <2>1, <2>2, <2>4 DEF VehicleOf, Found, HasActive, HasOpen, Records
    <3>2. QED BY <1>5, <2>1, <2>2, <2>3, <2>4, <3>1
  <2>5. CASE ~(HasActive(q) \/ h.copy.status = "Sedang Maintenance")
    <3>0. /\ h \in [pc : {"count", "syncSave"}, status : ReservationStatus,
                  plates : SUBSET Plate, plate : Plate, copy : Asset]
          /\ h.copy \in [status : AssetStatus, deleted : BOOLEAN]
      BY <1>0, <2>1 DEF Syncing, Asset
    <3>1. /\ req'[r].pc = "syncSave" /\ req'[r].status = h.status
          /\ req'[r].plates = h.plates /\ req'[r].plate = h.plate
          /\ req'[r].copy.status = "Tersedia"
      <4>1. req'[r] = [h EXCEPT !.pc = "syncSave", !.copy.status = "Tersedia"]
        BY <2>3, <2>5
      <4>2. QED BY <3>0, <4>1
    <3>2. SeesVehicle(req[r])'
      BY <2>1, <3>1 DEF SeesVehicle
    <3>3. QED BY <1>6, <2>2, <3>1, <3>2
  <2>6. QED BY <2>4, <2>5
<1>9. CASE SyncSave(r)
  <2>1. PICK q \in h.plates :
        /\ h.pc = "syncSave" /\ q = h.plate /\ q \in Plate
        /\ h.copy.status = IF h.status \in Ended THEN "Tersedia" ELSE "Dalam Aktivitas"
    BY <1>0, <1>9 DEF SyncSave, AtWork, SeesAll, SeesVehicle
  <2>2. /\ asset' = [asset EXCEPT ![q] = h.copy] /\ req'[r] = NextPlate(h, q)
    BY <1>0, <1>9, <2>1 DEF SyncSave, SaveAsset, Proceed, Become
  <2>3. /\ asset'[q].status = IF h.status \in Ended THEN "Tersedia" ELSE "Dalam Aktivitas"
        /\ \A p \in Plate \ {q} : asset'[p] = asset[p]
    BY <1>0, <2>1, <2>2
  <2>4. VehicleOf(Idle, q)'
    BY <1>1, <1>3, <2>1, <2>3 DEF VehicleOf, HasActive
  <2>5. QED BY <1>5, <2>1, <2>2, <2>3, <2>4
<1>10. QED BY <1>7, <1>8, <1>9

Shop == "Sedang Maintenance"

(* A vehicle goes to the workshop before its job is recorded, and leaves it *)
(* before the job is closed.                                                *)
LEMMA WorkshopVehicle ==
  ASSUME TypeOK, NEW r \in Request, AtWork(r),
         \/ CheckReservationConflict(r) \/ TakeOut(r) \/ RecordJob(r) \/ ReportToFinance(r)
         \/ FetchAsset(r) \/ Release(r) \/ SaveMaintenance(r)
  PROVE  AtWork(r)'
<1>0. /\ req \in [Request -> Handler] /\ req[r] \in Handler /\ asset \in [Plate -> Asset]
      /\ jobs \subseteq Job /\ started \in Nat
  BY DEF TypeOK
<1>1. /\ UNCHANGED <<bookings, history, started>>
      /\ req[r].pc \in {"conflict", "takeOut", "record", "post", "fetch", "release", "close"}
  BY DEF CheckReservationConflict, TakeOut, RecordJob, ReportToFinance, FetchAsset, Release,
     SaveMaintenance, Proceed
<1>2. JobInv /\ SeesVehicle(req[r]) /\ SeesJobs(req[r])
  BY DEF AtWork, SeesAll
<1>3. ASSUME NEW p \in Plate \ history.typed
      PROVE  /\ asset[p].status = Busy /\ Found(p) => HasActive(p)
             /\ asset[p].status = Shop => HasOpen(p) \/ Records(req[r], p)
  BY <1>1 DEF AtWork, VehicleOf, Returns, Busy, Shop
(* What is left to show for a next state of r of this kind.                 *)
<1>4. ASSUME JobInv', SeesVehicle(req[r])', SeesJobs(req[r])',
             req'[r].pc \in {"idle", "takeOut", "record", "post", "release", "close"},
             \A p \in Plate \ history.typed :
               /\ asset'[p].status = Busy => asset'[p] = asset[p]
               /\ asset'[p].status = Shop => HasOpen(p)' \/ Records(req[r], p)'
      PROVE  AtWork(r)'
  <2>1. SeesBookings(req[r])'
    BY <1>4 DEF SeesBookings
  <2>2. \A p \in Plate \ history'.typed : VehicleOf(req[r], p)'
    BY <1>1, <1>3, <1>4 DEF VehicleOf, Found, HasActive, Busy, Shop
  <2>3. QED BY <1>4, <2>1, <2>2 DEF AtWork, SeesAll
<1>5. CASE CheckReservationConflict(r)
  <2>1. /\ req[r] \in Repairing /\ req[r].pc = "conflict"
        /\ UNCHANGED <<asset, jobs>>
    BY <1>0, <1>5, HandlerOf DEF CheckReservationConflict
  <2>2. \/ req'[r] = Idle
        \/ req'[r] = [req[r] EXCEPT !.pc = "takeOut", !.copy.status = Shop]
    BY <1>0, <1>5 DEF CheckReservationConflict, Proceed, Become, Shop
  <2>3. JobInv' /\ \A p \in Plate : HasOpen(p) = HasOpen(p)' /\ ~Records(req[r], p)
    BY <1>1, <1>2, <2>1 DEF JobInv, HasOpen, Records
  <2>4. CASE req'[r] = Idle
    <3>1. req'[r].pc = "idle"
      BY <2>4 DEF Idle
    <3>2. SeesVehicle(req[r])' /\ SeesJobs(req[r])'
      BY <3>1 DEF SeesVehicle, SeesJobs
    <3>3. QED BY <1>3, <1>4, <2>1, <2>3, <3>1, <3>2
  <2>5. CASE req'[r] = [req[r] EXCEPT !.pc = "takeOut", !.copy.status = Shop]
    <3>1. req[r].copy \in [status : AssetStatus, deleted : BOOLEAN]
      BY <2>1 DEF Repairing, Asset
    <3>2. /\ req'[r].pc = "takeOut" /\ req'[r].n = req[r].n
          /\ req'[r].copy.status = Shop
      BY <2>1, <2>5, <3>1 DEF Repairing
    <3>3. SeesVehicle(req[r])' /\ SeesJobs(req[r])'
      BY <1>1, <1>2, <2>1, <3>2 DEF SeesVehicle, SeesJobs, Shop
    <3>4. QED BY <1>3, <1>4, <2>1, <2>3, <3>2, <3>3
  <2>6. QED BY <2>2, <2>4, <2>5
<1>6. CASE TakeOut(r)
  <2>1. PICK q \in Plate, c \in Asset :
          /\ q = req[r].plate /\ c = req[r].copy /\ req[r].pc = "takeOut" /\ c.status = Shop
          /\ req[r] \in Repairing /\ jobs' = jobs
    BY <1>0, <1>2, <1>6, HandlerOf DEF TakeOut, Repairing, SeesVehicle, Shop
  <2>2. asset' = [asset EXCEPT ![q] = c] /\ req'[r] = [req[r] EXCEPT !.pc = "record"]
    BY <1>0, <1>6, <2>1 DEF TakeOut, SaveAsset, Proceed, Become
  <2>3. req'[r].pc = "record" /\ req'[r].plate = q /\ req'[r].n = req[r].n
    BY <2>1, <2>2 DEF Repairing
  <2>4. JobInv' /\ SeesVehicle(req[r])' /\ SeesJobs(req[r])'
    BY <1>1, <1>2, <2>1, <2>3 DEF JobInv, SeesVehicle, SeesJobs
  <2>5. ASSUME NEW p \in Plate \ history.typed
        PROVE  /\ asset'[p].status = Busy => asset'[p] = asset[p]
               /\ asset'[p].status = Shop => HasOpen(p)' \/ Records(req[r], p)'
    <3>1. CASE p = q
      <4>1. asset'[p].status = Shop
        BY <1>0, <2>1, <2>2, <3>1
      <4>2. Records(req[r], p)'
        BY <2>3, <3>1 DEF Records
      <4>3. QED BY <4>1, <4>2 DEF Busy, Shop
    <3>2. CASE p # q
      <4>1. asset'[p] = asset[p]
        BY <1>0, <2>2, <3>2
      <4>2. QED BY <1>3, <2>1, <4>1 DEF HasOpen, Records
    <3>3. QED BY <3>1, <3>2
  <2>6. QED BY <1>4, <2>3, <2>4, <2>5
<1>7. CASE RecordJob(r)
  <2>1. /\ req[r].pc = "record" /\ req[r].n \in Nat /\ asset' = asset
        /\ jobs' = jobs \cup {[id |-> req[r].n, plate |-> req[r].plate, open |-> TRUE]}
        /\ req'[r] = [pc |-> "post", n |-> req[r].n]
    BY <1>0, <1>7, HandlerOf DEF RecordJob, Proceed, Become, Repairing
  <2>2. JobInv'
    <3>1. PICK k : k = [id |-> req[r].n, plate |-> req[r].plate, open |-> TRUE]
      OBVIOUS
    <3>2. k.id < started /\ \A j \in jobs : j.id # k.id
      BY <1>2, <2>1, <3>1 DEF SeesJobs
    <3>3. jobs' = jobs \cup {k}
      BY <2>1, <3>1
    <3>4. QED BY <1>1, <1>2, <3>2, <3>3 DEF JobInv
  <2>3. SeesVehicle(req[r])' /\ SeesJobs(req[r])'
    BY <2>1 DEF SeesVehicle, SeesJobs
  <2>4. ASSUME NEW p \in Plate, HasOpen(p) \/ Records(req[r], p) PROVE HasOpen(p)'
    <3>1. CASE HasOpen(p)
      BY <2>1, <3>1 DEF HasOpen
    <3>2. CASE Records(req[r], p)
      <4>1. PICK k : k = [id |-> req[r].n, plate |-> req[r].plate, open |-> TRUE]
        OBVIOUS
      <4>2. k.plate = p /\ k.open /\ k \in jobs'
        BY <2>1, <3>2, <4>1 DEF Records
      <4>3. QED BY <4>2 DEF HasOpen
    <3>3. QED BY <2>4, <3>1, <3>2
  <2>6. QED BY <1>3, <1>4, <2>1, <2>2, <2>3, <2>4
<1>8. CASE ReportToFinance(r)
  <2>1. req'[r].pc = "idle" /\ UNCHANGED <<asset, jobs>> /\ req[r].pc = "post"
    BY <1>0, <1>8 DEF ReportToFinance, Proceed, Become, Idle
  <2>2. JobInv' /\ SeesVehicle(req[r])' /\ SeesJobs(req[r])'
    BY <1>1, <1>2, <2>1 DEF JobInv, SeesVehicle, SeesJobs
  <2>3. QED BY <1>3, <1>4, <2>1, <2>2 DEF HasOpen, Records
<1>9. CASE FetchAsset(r)
  <2>1. PICK job \in jobs : /\ job = req[r].job /\ req[r].pc = "fetch"
                            /\ UNCHANGED <<asset, jobs>>
    BY <1>2, <1>9 DEF FetchAsset, SeesJobs
  <2>2. \/ req'[r] = Idle
        \/ req'[r] = [pc |-> "release", job |-> job,
                      copy |-> [asset[job.plate] EXCEPT !.status = "Tersedia"]]
    BY <1>0, <1>9, <2>1 DEF FetchAsset, Proceed, Become
  <2>3. JobInv'
    BY <1>1, <1>2, <2>1 DEF JobInv
  <2>4. CASE req'[r] = Idle
    <3>1. req'[r].pc = "idle"
      BY <2>4 DEF Idle
    <3>2. SeesVehicle(req[r])' /\ SeesJobs(req[r])'
      BY <3>1 DEF SeesVehicle, SeesJobs
    <3>3. QED BY <1>3, <1>4, <2>1, <2>3, <3>1, <3>2 DEF HasOpen, Records
  <2>5. CASE req'[r] = [pc |-> "release", job |-> job,
                        copy |-> [asset[job.plate] EXCEPT !.status = "Tersedia"]]
    <3>1. asset[job.plate] \in [status : AssetStatus, deleted : BOOLEAN]
      BY <1>0, <2>1 DEF Job, Asset
    <3>2. /\ req'[r].pc = "release" /\ req'[r].job = job
          /\ req'[r].copy.status = "Tersedia"
      BY <2>5, <3>1
    <3>3. SeesVehicle(req[r])' /\ SeesJobs(req[r])'
      BY <2>1, <3>2 DEF SeesVehicle, SeesJobs
    <3>4. QED BY <1>3, <1>4, <2>1, <2>3, <3>2, <3>3 DEF HasOpen, Records
  <2>6. QED BY <2>2, <2>4, <2>5
<1>10. CASE Release(r)
  <2>1. PICK job \in jobs, c \in Asset :
          /\ job = req[r].job /\ c = req[r].copy /\ req[r].pc = "release"
          /\ c.status = "Tersedia" /\ jobs' = jobs
    BY <1>0, <1>2, <1>10, HandlerOf DEF Release, SeesJobs, SeesVehicle, Completing
  <2>2. /\ asset' = [asset EXCEPT ![job.plate] = c]
        /\ req'[r] = [pc |-> "close", job |-> job] /\ job.plate \in Plate
    BY <1>0, <1>10, <2>1 DEF Release, SaveAsset, Proceed, Become, Job
  <2>3. /\ asset'[job.plate].status = "Tersedia"
        /\ \A p \in Plate : p # job.plate => asset'[p] = asset[p]
    BY <1>0, <2>1, <2>2
  <2>4. JobInv' /\ SeesVehicle(req[r])' /\ SeesJobs(req[r])'
    BY <1>1, <1>2, <2>1, <2>2, <2>3 DEF JobInv, SeesVehicle, SeesJobs
  <2>5. ASSUME NEW p \in Plate \ history.typed
        PROVE  /\ asset'[p].status = Busy => asset'[p] = asset[p]
               /\ asset'[p].status = Shop => HasOpen(p)' \/ Records(req[r], p)'
    <3>1. CASE p = job.plate
      BY <2>3, <3>1 DEF Busy, Shop
    <3>2. CASE p # job.plate
      BY <1>3, <2>1, <2>3, <3>2 DEF HasOpen, Records
    <3>3. QED BY <3>1, <3>2
  <2>6. QED BY <1>4, <2>2, <2>4, <2>5
<1>11. CASE SaveMaintenance(r)
  <2>1. PICK job \in jobs :
          /\ job = req[r].job /\ req[r].pc = "close" /\ asset[job.plate].status = "Tersedia"
    BY <1>2, <1>11 DEF SaveMaintenance, SeesJobs, SeesVehicle
  <2>2. /\ jobs' = {IF j.id = job.id THEN [j EXCEPT !.open = FALSE] ELSE j : j \in jobs}
        /\ req'[r].pc = "idle" /\ asset' = asset
    BY <1>0, <1>11, <2>1 DEF SaveMaintenance, Proceed, Become, Idle
  <2>3. \A j \in jobs' : \E i \in jobs :
          j.id = i.id /\ j = IF i.id = job.id THEN [i EXCEPT !.open = FALSE] ELSE i
    <3>1. \A j \in jobs : [j EXCEPT !.open = FALSE].id = j.id
      BY <1>0 DEF Job
    <3>2. QED BY <2>2, <3>1
  <2>4. JobInv'
    <3>1. ASSUME NEW j \in jobs', NEW k \in jobs', j.id = k.id PROVE j = k
      <4>1. PICK a \in jobs :
              j.id = a.id /\ j = IF a.id = job.id THEN [a EXCEPT !.open = FALSE] ELSE a
        BY <2>3
      <4>2. PICK b \in jobs :
              k.id = b.id /\ k = IF b.id = job.id THEN [b EXCEPT !.open = FALSE] ELSE b
        BY <2>3
      <4>3. a = b
        BY <1>2, <3>1, <4>1, <4>2 DEF JobInv
      <4>4. QED BY <4>1, <4>2, <4>3
    <3>2. \A j \in jobs' : j.id < started
      BY <1>2, <2>3 DEF JobInv
    <3>3. QED BY <1>1, <3>1, <3>2 DEF JobInv
  <2>5. ASSUME NEW p \in Plate, HasOpen(p), p # job.plate PROVE HasOpen(p)'
    <3>1. PICK j \in jobs : j.plate = p /\ j.open
      BY <2>5 DEF HasOpen
    <3>2. j.id # job.id
      BY <1>2, <2>5, <3>1 DEF JobInv
    <3>3. j \in jobs'
      BY <2>2, <3>2
    <3>4. QED BY <3>1, <3>3 DEF HasOpen
  <2>6. SeesVehicle(req[r])' /\ SeesJobs(req[r])'
    BY <2>2 DEF SeesVehicle, SeesJobs
  <2>7. ASSUME NEW p \in Plate \ history.typed, asset'[p].status = Shop
        PROVE  HasOpen(p)'
    <3>1. p # job.plate
      BY <2>1, <2>2, <2>7 DEF Shop
    <3>2. HasOpen(p)
      BY <1>3, <2>1, <2>2, <2>7 DEF Records
    <3>3. QED BY <2>5, <3>1, <3>2
  <2>8. QED BY <1>4, <2>2, <2>4, <2>6, <2>7
<1>12. QED BY <1>5, <1>6, <1>7, <1>8, <1>9, <1>10, <1>11

(* An edit that did not type a status puts back the one it has read.        *)
LEMMA EditVehicle ==
  ASSUME TypeOK, NEW r \in Request, AtWork(r), SaveEdit(r) \/ SoftDelete(r)
  PROVE  AtWork(r)'
<1>0. /\ req \in [Request -> Handler] /\ req[r] \in Handler /\ asset \in [Plate -> Asset]
      /\ history \in History
  BY DEF TypeOK
<1>1. /\ UNCHANGED <<bookings, jobs, started>> /\ req[r].pc \in {"edit", "delete"}
      /\ req'[r].pc = "idle"
  BY <1>0 DEF SaveEdit, SoftDelete, Proceed, Become, Idle
<1>2. JobInv' /\ SeesAll(req[r])'
  BY <1>1 DEF AtWork, JobInv, SeesAll, SeesBookings, SeesVehicle, SeesJobs
<1>3. ASSUME NEW p \in Plate \ history'.typed
      PROVE  /\ p \notin history.typed
             /\ asset'[p].status = asset[p].status
             /\ Found(p)' => Found(p)
  <2>1. CASE SaveEdit(r)
    <3>1. PICK q \in Plate : /\ q = req[r].plate /\ req[r].pc = "edit"
                             /\ req[r].typed \/ req[r].copy = asset[q]
      BY <1>0, <2>1, HandlerOf DEF SaveEdit, Editing, AtWork, SeesAll, SeesVehicle
    <3>2. asset' = [asset EXCEPT ![q] = req[r].copy]
      BY <2>1, <3>1 DEF SaveEdit, SaveAsset
    <3>3. history'.typed = IF req[r].typed THEN history.typed \cup {q} ELSE history.typed
      BY <1>0, <2>1, <3>1 DEF SaveEdit, History
    <3>4. p \notin history.typed /\ asset'[p] = asset[p]
      BY <1>0, <1>3, <3>1, <3>2, <3>3
    <3>5. QED BY <3>4 DEF Found
  <2>2. CASE SoftDelete(r)
    <3>1. /\ history' = history
          /\ asset' = [asset EXCEPT ![req[r].plate].deleted = TRUE]
      BY <2>2 DEF SoftDelete
    <3>2. asset[p] \in [status : AssetStatus, deleted : BOOLEAN]
      BY <1>0 DEF Asset
    <3>3. CASE p = req[r].plate
      <4>1. asset'[p] = [asset[p] EXCEPT !.deleted = TRUE]
        BY <1>0, <3>1, <3>3
      <4>2. asset'[p].status = asset[p].status /\ asset'[p].deleted = TRUE
        BY <3>2, <4>1
      <4>3. QED BY <1>3, <3>1, <4>2 DEF Found
    <3>4. CASE p # req[r].plate
      <4>1. asset'[p] = asset[p]
        BY <1>0, <3>1, <3>4
      <4>2. QED BY <1>3, <3>1, <4>1 DEF Found
    <3>5. QED BY <3>3, <3>4
  <2>3. QED BY <2>1, <2>2
<1>4. ASSUME NEW p \in Plate \ history'.typed PROVE VehicleOf(req[r], p)'
  <2>1. VehicleOf(req[r], p) /\ ~Returns(req[r], p) /\ ~Records(req[r], p)
    BY <1>1, <1>3 DEF AtWork, Returns, Records
  <2>2. QED BY <1>1, <1>3, <2>1 DEF VehicleOf, HasActive, HasOpen
<1>5. QED BY <1>2, <1>4 DEF AtWork

LEMMA NextVehicle == IInv /\ VehicleInv /\ [Next]_vars => VehicleInv'
<1>1. ASSUME IInv, VehicleInv, NEW r \in Request, Receive(r) PROVE VehicleInv'
  <2>0. TypeOK
    BY <1>1 DEF IInv
  <2>1. PICK h : Enter(r, h)
    BY <1>1 DEF Receive, Reserve, UpdateStatus, UpdateProjectStatus, CreateMaintenance,
       UpdateAsset, SetSupplier, DeleteAsset, Complete
  <2>2. CASE history'.raced \/ faults' # 0
    BY <2>2 DEF VehicleInv
  <2>3. CASE ~history'.raced /\ faults' = 0
    <3>1. /\ ~history.raced /\ faults = 0
          /\ \A s \in Request \ {r} : req[s].pc = "idle" /\ req'[s] = req[s]
      BY <2>0, <2>1, <2>3 DEF Enter, Become, TypeOK, History
    <3>2. QED BY <1>1, <2>0, <3>1, AtWorkOf, OfAtWork, ReceiveVehicle DEF OthersIdle
  <2>4. QED BY <2>2, <2>3
<1>2. ASSUME IInv, VehicleInv, NEW r \in Request, Continue(r) PROVE VehicleInv'
  <2>0. TypeOK /\ KeyInv
    BY <1>2 DEF IInv
  <2>1. PICK pc, h : Proceed(r, pc, h) /\ pc # "idle" /\ history'.raced = history.raced
    <3>1. PICK pc, h : Proceed(r, pc, h) /\ pc # "idle"
      BY <1>2 DEF Continue, FindOverlapping, CreateReservations, SaveReservation,
         SetReservationStatusForProject, FindReservationsByProject, SyncAssetStatus,
         CountActiveReservations, SyncSave, CheckReservationConflict, TakeOut, RecordJob,
         ReportToFinance, FetchAsset, Release, SaveMaintenance, SaveEdit, SoftDelete
    <3>2. history'.raced = history.raced
      BY <1>2, <2>0 DEF Continue, FindOverlapping, CreateReservations, SaveReservation,
         SetReservationStatusForProject, FindReservationsByProject, SyncAssetStatus,
         CountActiveReservations, SyncSave, CheckReservationConflict, TakeOut, RecordJob,
         ReportToFinance, FetchAsset, Release, SaveMaintenance, SaveEdit, SoftDelete,
         WriteBookings, TypeOK, History
    <3>3. QED BY <3>1, <3>2
  <2>2. CASE history'.raced \/ faults' # 0
    BY <2>2 DEF VehicleInv
  <2>3. CASE ~history'.raced /\ faults' = 0
    <3>1. /\ ~history.raced /\ faults = 0 /\ req[r].pc # "idle"
          /\ \A s \in Request \ {r} : req'[s] = req[s]
      BY <2>0, <2>1, <2>3 DEF Proceed, Become, TypeOK
    <3>2. OthersIdle(r) /\ OthersIdle(r)'
      BY <1>2, <3>1 DEF VehicleInv, OthersIdle
    <3>3. AtWork(r)
      BY <1>2, <3>1, <3>2, AtWorkOf
    <3>4. AtWork(r)'
      BY <1>2, <2>0, <3>3, BookingsVehicle, SyncVehicle, WorkshopVehicle, EditVehicle
      DEF Continue
    <3>5. QED BY <3>2, <3>4, OfAtWork
  <2>4. QED BY <2>2, <2>3
<1>3. ASSUME IInv, NEW r \in Request, Stop(r) \/ SyncSkipped(r) PROVE VehicleInv'
  <2>1. faults' # 0
    BY <1>3 DEF Stop, SyncSkipped, Fault, IInv, TypeOK
  <2>2. QED BY <2>1 DEF VehicleInv
<1>4. ASSUME VehicleInv, UNCHANGED vars PROVE VehicleInv'
  <2>1. /\ asset' = asset /\ bookings' = bookings /\ jobs' = jobs /\ req' = req
        /\ started' = started /\ faults' = faults /\ history' = history
    BY <1>4 DEF vars
  <2>2. JobInv => JobInv'
    BY <2>1 DEF JobInv
  <2>3. ASSUME NEW h, SeesBookings(h) /\ SeesVehicle(h) /\ SeesJobs(h)
        PROVE  SeesBookings(h)' /\ SeesVehicle(h)' /\ SeesJobs(h)'
    BY <2>1, <2>3 DEF SeesBookings, SeesVehicle, SeesJobs, HasActive
  <2>4. ASSUME NEW h, NEW p \in Plate
        PROVE  /\ HasActive(p)' = HasActive(p) /\ HasOpen(p)' = HasOpen(p)
               /\ Found(p)' = Found(p) /\ Returns(h, p)' = Returns(h, p)
               /\ Records(h, p)' = Records(h, p)
    BY <2>1 DEF HasActive, HasOpen, Found, Returns, Records
  <2>5. QED BY <1>4, <2>1, <2>2, <2>3, <2>4 DEF VehicleInv
<1>5. QED BY <1>1, <1>2, <1>3, <1>4 DEF Next

LEMMA InitVehicle == Init => VehicleInv
<1> SUFFICES ASSUME Init PROVE VehicleInv
  OBVIOUS
<1>1. /\ \A r \in Request : req[r].pc = "idle"
      /\ jobs = {} /\ \A p \in Plate : asset[p].status = "Tersedia"
  BY DEF Init, Idle
<1>2. JobInv
  BY <1>1 DEF JobInv
<1>3. \A r \in Request : SeesBookings(req[r]) /\ SeesVehicle(req[r]) /\ SeesJobs(req[r])
  BY <1>1 DEF SeesBookings, SeesVehicle, SeesJobs
<1>4. \A p \in Plate : asset[p].status # Busy /\ asset[p].status # Shop
  BY <1>1 DEF Busy, Shop
<1>5. QED BY <1>1, <1>2, <1>3, <1>4 DEF VehicleInv, Busy, Shop

(* The calendar and the vehicles, as the run checks them.                   *)
THEOREM BookingIsSound == Spec => []BookingInv
  BY InitInv, NextInv, InitVehicle, NextVehicle, PTL DEF Spec, BookingInv

(* One request after the other and without a fault, a vehicle is in use     *)
(* only while it has a live booking, however its bookings came to an end.   *)
THEOREM VehiclesComeBack == Spec => []ReturnedToPool
<1>1. BookingInv => ReturnedToPool
  BY DEF BookingInv, VehicleInv, ReturnedToPool, Orderly, HasActive, Returns
<1>2. QED BY <1>1, BookingIsSound, PTL

(* One request after the other and without a fault, a vehicle is in the     *)
(* workshop only with an open job, whose completion brings it back.         *)
THEOREM WorkshopIsForJobs == Spec => []WorkshopHasJob
<1>1. BookingInv => WorkshopHasJob
  BY DEF BookingInv, VehicleInv, WorkshopHasJob, Orderly, HasOpen, Records
<1>2. QED BY <1>1, BookingIsSound, PTL

-----------------------------------------------------------------------------
(* The bookings implement the calendar.  A reservation takes effect when    *)
(* its bookings are inserted: CalendarInv says that the vehicles, which     *)
(* were found free by an earlier statement, are free still.                *)

LEMMA FreeOfBookings ==
  ASSUME TypeOK, NEW plates \in SUBSET Plate, NEW w \in Window, ~Booked(plates, w)
  PROVE  Agenda!FreeDuring(plates, w)
<1>. SUFFICES ASSUME NEW b \in bookings, Active(b), b.plate \in plates
              PROVE  w.to < b.window.from \/ b.window.to < w.from
  BY DEF Agenda!FreeDuring, Held
<1>1. ~Overlaps(b.window, w)  BY DEF Booked
<1>2. b.window \in Window  BY DEF TypeOK, Reservation
<1>3. /\ b.window.from \in Int /\ b.window.to \in Int
      /\ w.from \in Int /\ w.to \in Int
  BY <1>2, WindowAssumption
<1>. QED  BY <1>1, <1>3 DEF Overlaps

LEMMA InsertIsReserve ==
  ASSUME IInv, Calm, NEW r \in Request, CreateReservations(r)
  PROVE  Agenda!Reserve
<1>. DEFINE h == req[r]
           row(p) == [call |-> h.n, plate |-> p, project |-> h.project,
                      window |-> h.window, status |-> "Direncanakan"]
           slot(b) == [plate |-> b.plate, window |-> b.window]
<1>1. TypeOK /\ h \in Reserving /\ h.pc = "insert"
  BY HandlerOf DEF IInv, TypeOK, CreateReservations
<1>2. h.plates \in SUBSET Plate /\ h.window \in Window  BY <1>1 DEF Reserving
<1>3. bookings' = bookings \cup {row(p) : p \in h.plates}  BY DEF CreateReservations
<1>4. ~Booked(h.plates, h.window)  BY <1>1 DEF IInv, CalendarInv, Calm
<1>5. Agenda!FreeDuring(h.plates, h.window)  BY <1>1, <1>2, <1>4, FreeOfBookings
<1>6. \A p : Active(row(p)) /\ slot(row(p)) = [plate |-> p, window |-> h.window]
  BY DEF Active, Live
<1>7. Held' = Held \cup {[plate |-> p, window |-> h.window] : p \in h.plates}
  <2>1. Held = {slot(b) : b \in {c \in bookings : Active(c)}}  BY DEF Held
  <2>2. Held' = {slot(b) : b \in {c \in bookings' : Active(c)}}  BY DEF Held, Active
  <2>. HIDE DEF row, slot
  <2>3. {c \in bookings' : Active(c)}
          = {c \in bookings : Active(c)} \cup {row(p) : p \in h.plates}
    BY <1>3, <1>6
  <2>4. Held' = {slot(b) : b \in {c \in bookings : Active(c)}}
                 \cup {slot(row(p)) : p \in h.plates}
    BY <2>2, <2>3
  <2>. QED  BY <1>6, <2>1, <2>4
<1>. QED  BY <1>2, <1>5, <1>7 DEF Agenda!Reserve

(* A change of status that makes no ended booking live only gives up.       *)
LEMMA RestatusedGivesUp ==
  ASSUME TypeOK, Restatused, ~Revives(bookings, bookings')
  PROVE  Agenda!GiveUp
<1>. SUFFICES ASSUME NEW c \in bookings', Active(c)
              PROVE  [plate |-> c.plate, window |-> c.window] \in Held
  BY DEF Agenda!GiveUp, Held, Active
<1>1. PICK b \in bookings : c = SetStatus(b, c.status)  BY DEF Restatused
<1>2. b \in Reservation  BY DEF TypeOK
<1>3. c.call = b.call /\ c.plate = b.plate /\ c.window = b.window
  BY <1>1, <1>2 DEF SetStatus, Reservation
<1>4. Active(b)  BY <1>3 DEF Revives, SameRow
<1>. QED  BY <1>3, <1>4 DEF Held

LEMMA SavedRestatuses ==
  ASSUME IInv, TypeOK', NEW r \in Request, SaveReservation(r)
  PROVE  Restatused
<1>. DEFINE row == req[r].row
           new(b) == IF SameRow(b, row) THEN row ELSE b
<1>0. TypeOK /\ row \in Reservation
  BY HandlerOf DEF IInv, TypeOK, SaveReservation, Updating
<1>1. bookings' = {new(b) : b \in bookings}
  BY DEF SaveReservation, WriteBookings
<1>2. PICK old \in bookings : row = SetStatus(old, row.status)
  BY DEF SaveReservation, IInv, KeyInv
<1>3. \A b \in bookings : b \in Reservation  BY <1>0 DEF TypeOK
<1>4. SameRow(old, row)  BY <1>0, <1>2, <1>3, SetStatusKeeps DEF SameRow, Reservation
<1>5. \A b \in bookings : new(b) = SetStatus(b, new(b).status) /\ SameRow(new(b), b)
  <2>. SUFFICES ASSUME NEW b \in bookings
                PROVE  new(b) = SetStatus(b, new(b).status) /\ SameRow(new(b), b)
    OBVIOUS
  <2>1. CASE SameRow(b, row)
    <3>1. b = old  BY <1>4, <2>1 DEF IInv, KeyInv, SameRow
    <3>. QED  BY <1>2, <1>4, <2>1, <3>1 DEF SameRow
  <2>2. CASE ~SameRow(b, row)
    BY <1>3, <2>2, SetStatusKeeps DEF SameRow, Reservation
  <2>. QED  BY <2>1, <2>2
<1>. HIDE DEF new
<1>. QED  BY <1>1, <1>5 DEF Restatused, IInv, KeyInv, SameRow

LEMMA SetAllRestatuses ==
  ASSUME IInv, NEW r \in Request, SetReservationStatusForProject(r)
  PROVE  Restatused
<1>. DEFINE h == req[r]
           new(b) == IF b.project = h.project THEN SetStatus(b, h.status) ELSE b
<1>0. TypeOK /\ h \in Listing
  BY HandlerOf DEF IInv, TypeOK, SetReservationStatusForProject
<1>1. bookings' = {new(b) : b \in bookings}
  BY DEF SetReservationStatusForProject, WriteBookings, Moved
<1>2. (\A b \in bookings : b \in Reservation) /\ h.status \in ReservationStatus
  BY <1>0 DEF TypeOK, Listing
<1>3. \A b \in bookings : new(b) = SetStatus(b, new(b).status) /\ SameRow(new(b), b)
  <2>. SUFFICES ASSUME NEW b \in bookings
                PROVE  new(b) = SetStatus(b, new(b).status) /\ SameRow(new(b), b)
    OBVIOUS
  <2>1. CASE b.project = h.project  BY <1>2, <2>1, SetStatusKeeps DEF SameRow
  <2>2. CASE b.project # h.project
    BY <1>2, <2>2, SetStatusKeeps DEF SameRow, Reservation
  <2>. QED  BY <2>1, <2>2
<1>. HIDE DEF new
<1>. QED  BY <1>1, <1>3 DEF Restatused, IInv, KeyInv, SameRow

(* Every other step leaves the bookings alone.                              *)
LEMMA BookingsStay ==
  ASSUME NEW r \in Request,
         Receive(r) \/ Continue(r) \/ Stop(r) \/ SyncSkipped(r),
         ~CreateReservations(r), ~SaveReservation(r), ~SetReservationStatusForProject(r)
  PROVE  bookings' = bookings
<1>1. CASE Receive(r)
  BY <1>1 DEF Receive, Reserve, UpdateStatus, UpdateProjectStatus, CreateMaintenance,
              UpdateAsset, SetSupplier, DeleteAsset, Complete
<1>2. CASE Continue(r)
  BY <1>2 DEF Continue, FindOverlapping, FindReservationsByProject, SyncAssetStatus,
              CountActiveReservations, SyncSave, CheckReservationConflict, TakeOut, RecordJob,
              ReportToFinance, FetchAsset, Release, SaveMaintenance, SaveEdit, SoftDelete
<1>3. CASE Stop(r) \/ SyncSkipped(r)  BY <1>3 DEF Stop, SyncSkipped
<1>. QED  BY <1>1, <1>2, <1>3

LEMMA KeepsCalendarStep == IInv /\ IInv' /\ [Next]_vars => (Calm' => [Agenda!Next]_Held)
<1>. SUFFICES ASSUME IInv, IInv', [Next]_vars, Calm'  PROVE [Agenda!Next]_Held
  OBVIOUS
<1>0. TypeOK /\ TypeOK'  BY DEF IInv
<1>1. ASSUME bookings' = bookings  PROVE [Agenda!Next]_Held
  BY <1>1 DEF Held, Active
<1>2. ASSUME NEW r \in Request, CreateReservations(r)  PROVE Agenda!Next
  <2>1. Calm  BY <1>2 DEF Calm, CreateReservations
  <2>. QED  BY <1>2, <2>1, InsertIsReserve DEF Agenda!Next
<1>3. ASSUME NEW r \in Request, SaveReservation(r) \/ SetReservationStatusForProject(r)
      PROVE  Agenda!Next
  <2>1. history' = [history EXCEPT !.revived = @ \/ Revives(bookings, bookings')]
    BY <1>3 DEF SaveReservation, SetReservationStatusForProject, WriteBookings
  <2>2. ~Revives(bookings, bookings')  BY <1>0, <2>1 DEF Calm, TypeOK, History
  <2>3. Restatused  BY <1>0, <1>3, SavedRestatuses, SetAllRestatuses
  <2>. QED  BY <1>0, <2>2, <2>3, RestatusedGivesUp DEF Agenda!Next
<1>4. CASE UNCHANGED vars  BY <1>1, <1>4 DEF vars
<1>5. CASE Next
  <2>1. PICK r \in Request : Receive(r) \/ Continue(r) \/ Stop(r) \/ SyncSkipped(r)
    BY <1>5 DEF Next
  <2>2. CASE CreateReservations(r)  BY <1>2, <2>2
  <2>3. CASE SaveReservation(r) \/ SetReservationStatusForProject(r)  BY <1>3, <2>3
  <2>4. CASE ~CreateReservations(r) /\ ~SaveReservation(r)
             /\ ~SetReservationStatusForProject(r)
    BY <1>1, <2>1, <2>4, BookingsStay
  <2>. QED  BY <2>2, <2>3, <2>4
<1>. QED  BY <1>4, <1>5

LEMMA InitCalendar == Init => Agenda!Init
BY DEF Init, Agenda!Init, Held

(* Reserve, and the changes of status: seen from outside the bookings are   *)
(* a calendar, step by step, until two Reserve calls overlap or an ended    *)
(* booking is made live again.                                             *)
THEOREM BookingsKeepCalendar == Spec => KeepsCalendar
<1>1. Spec => [][Calm' => [Agenda!Next]_Held]_vars
  BY Inductive, KeepsCalendarStep, PTL DEF Spec
<1>. QED  BY <1>1, InitCalendar, PTL DEF Spec, KeepsCalendar

(* So where neither ever happens, the service implements the calendar.      *)
THEOREM CalmImplementsCalendar == Spec /\ []Calm => Agenda!Spec
<1>1. [Next]_vars /\ IInv /\ IInv' /\ Calm' => [Agenda!Next]_Held  BY KeepsCalendarStep
<1>. QED  BY <1>1, InitCalendar, Inductive, PTL DEF Spec, Agenda!Spec

-----------------------------------------------------------------------------
(* Every handler comes to an end.  A handler that brings vehicles up to     *)
(* date is always at one of those still left for it.                       *)

Placed(h) == h.pc \in {"count", "syncSave"} => h.plate \in h.plates

PlateInv == \A r \in Request : Placed(req[r])

LEMMA Stages ==
  /\ Stage("idle") = 0
  /\ \A pc \in {"syncSave", "insert", "post", "close", "edit", "delete"} : Stage(pc) = 1
  /\ \A pc \in {"count", "overlap", "release"} : Stage(pc) = 2
  /\ \A pc \in {"sync", "fetch"} : Stage(pc) = 3
  /\ Stage("record") = 4
  /\ \A pc \in {"list", "saveRow", "takeOut"} : Stage(pc) = 5
  /\ \A pc \in {"setAll", "conflict"} : Stage(pc) = 6
BY DEF Stage

LEMMA HandlerStage ==
  ASSUME NEW h \in Handler, h.pc # "idle"
  PROVE  Stage(h.pc) \in 1..6
<1>1. h.pc \in {"overlap", "insert", "saveRow", "setAll", "list", "sync", "count", "syncSave",
                "conflict", "takeOut", "record", "post", "fetch", "release", "close",
                "edit", "delete"}
  BY DEF Handler, Idle, Reserving, Updating, Listing, Syncing, Repairing, Completing, Editing
<1>. QED  BY <1>1, Stages

(* The ways of coming closer.                                               *)
LEMMA LowerCloser ==
  ASSUME NEW g, NEW h, Stage(g.pc) < Stage(h.pc), ~InSync(g) \/ ~InSync(h)
  PROVE  Closer(g, h)
BY DEF Closer

LEMMA IdleCloser ==
  ASSUME NEW h \in Handler, h.pc # "idle"
  PROVE  Closer(Idle, h) /\ Placed(Idle)
<1>1. Idle.pc = "idle" /\ ~InSync(Idle)  BY DEF Idle, InSync
<1>2. Stage(Idle.pc) < Stage(h.pc)  BY <1>1, HandlerStage, Stages
<1>. QED  BY <1>1, <1>2, LowerCloser DEF Placed

LEMMA NextPlateCloser ==
  ASSUME NEW h \in Syncing, NEW p \in h.plates
  PROVE  Closer(NextPlate(h, p), h) /\ Placed(NextPlate(h, p))
<1>0. PICK g : g = NextPlate(h, p)  OBVIOUS
<1>1. h.pc \in {"sync", "count", "syncSave"}  BY DEF Syncing
<1>2. CASE g = Idle
  <2>1. h \in Handler /\ h.pc # "idle"  BY <1>1 DEF Handler
  <2>. QED  BY <1>0, <1>2, <2>1, IdleCloser
<1>3. CASE g # Idle
  <2>1. g = [pc |-> "sync", status |-> h.status, plates |-> h.plates \ {p}]
    BY <1>0, <1>3 DEF NextPlate, SyncOf
  <2>2. g.pc = "sync" /\ g.plates = h.plates \ {p}  BY <2>1
  <2>. QED  BY <1>0, <1>1, <2>2 DEF Closer, InSync, Placed
<1>. QED  BY <1>2, <1>3

LEMMA SyncOfCloser ==
  ASSUME NEW h \in Handler, h.pc \in {"saveRow", "list"}, NEW status, NEW plates
  PROVE  Closer(SyncOf(status, plates), h) /\ Placed(SyncOf(status, plates))
<1>1. SyncOf(status, plates).pc \in {"idle", "sync"}  BY DEF SyncOf, Idle
<1>2. Stage(SyncOf(status, plates).pc) < Stage(h.pc)  BY <1>1, Stages
<1>3. ~InSync(h)  BY DEF InSync
<1>. QED  BY <1>1, <1>2, <1>3, LowerCloser DEF Placed

(* A handler that becomes g is closer to its answer.                        *)
ComesCloser(r) == \E g : Become(r, g) /\ Closer(g, req[r]) /\ Placed(g)

LEMMA CalendarCloser ==
  ASSUME TypeOK, NEW r \in Request,
         \/ FindOverlapping(r) \/ CreateReservations(r) \/ SaveReservation(r)
         \/ SetReservationStatusForProject(r) \/ FindReservationsByProject(r)
  PROVE  ComesCloser(r)
<1>. DEFINE h == req[r]
<1>0. h \in Handler  BY DEF TypeOK
<1>1. CASE FindOverlapping(r)
  <2>1. h.pc = "overlap" /\ h \in Reserving  BY <1>0, <1>1, HandlerOf DEF FindOverlapping
  <2>2. PICK g \in {Idle, [h EXCEPT !.pc = "insert"]} : Become(r, g)
    BY <1>1 DEF FindOverlapping, Proceed
  <2>3. CASE g = Idle  BY <1>0, <2>1, <2>2, <2>3, IdleCloser DEF ComesCloser
  <2>4. CASE g = [h EXCEPT !.pc = "insert"]
    <3>1. g.pc = "insert"  BY <2>1, <2>4 DEF Reserving
    <3>2. Closer(g, h) /\ Placed(g)  BY <2>1, <3>1, Stages DEF Closer, InSync, Placed
    <3>. QED  BY <2>2, <3>2 DEF ComesCloser
  <2>. QED  BY <2>2, <2>3, <2>4
<1>2. CASE CreateReservations(r)
  <2>1. h.pc # "idle" /\ Become(r, Idle)  BY <1>2 DEF CreateReservations, Proceed
  <2>. QED  BY <1>0, <2>1, IdleCloser DEF ComesCloser
<1>3. CASE SaveReservation(r)
  <2>1. h.pc = "saveRow" /\ Become(r, SyncOf(h.row.status, {h.row.plate}))
    BY <1>3 DEF SaveReservation, Proceed
  <2>. QED  BY <1>0, <2>1, SyncOfCloser DEF ComesCloser
<1>4. CASE SetReservationStatusForProject(r)
  <2>. DEFINE g == [h EXCEPT !.pc = "list"]
  <2>1. h.pc = "setAll" /\ Become(r, g)  BY <1>4 DEF SetReservationStatusForProject, Proceed
  <2>2. h \in Listing  BY <1>0, <2>1, HandlerOf
  <2>3. g.pc = "list"  BY <2>2 DEF Listing
  <2>4. Closer(g, h) /\ Placed(g)  BY <2>1, <2>3, Stages DEF Closer, InSync, Placed
  <2>. QED  BY <2>1, <2>4 DEF ComesCloser
<1>5. CASE FindReservationsByProject(r)
  <2>1. h.pc = "list" /\ \E plates : Become(r, SyncOf(h.status, plates))
    BY <1>5 DEF FindReservationsByProject, Proceed
  <2>. QED  BY <1>0, <2>1, SyncOfCloser DEF ComesCloser
<1>. QED  BY <1>1, <1>2, <1>3, <1>4, <1>5

LEMMA SyncCloser ==
  ASSUME TypeOK, NEW r \in Request, Placed(req[r]),
         \/ SyncAssetStatus(r) \/ CountActiveReservations(r) \/ SyncSave(r)
         \/ SyncSkipped(r)
  PROVE  ComesCloser(r)
<1>. DEFINE h == req[r]
<1>0. h \in Syncing
  BY HandlerOf DEF TypeOK, SyncAssetStatus, CountActiveReservations, SyncSave, SyncSkipped
<1>1. ASSUME NEW p \in h.plates, Become(r, NextPlate(h, p))  PROVE ComesCloser(r)
  BY <1>0, <1>1, NextPlateCloser DEF ComesCloser
<1>2. CASE SyncAssetStatus(r)
  <2>1. PICK p \in h.plates : \E g :
          /\ Become(r, g)
          /\ \/ g = NextPlate(h, p)
             \/ g = [pc |-> "syncSave", status |-> h.status, plates |-> h.plates, plate |-> p,
                     copy |-> [asset[p] EXCEPT !.status = "Dalam Aktivitas"]]
             \/ g = [pc |-> "count", status |-> h.status, plates |-> h.plates, plate |-> p,
                     copy |-> asset[p]]
    BY <1>2 DEF SyncAssetStatus, Proceed
  <2>0. PICK g :
          /\ Become(r, g)
          /\ \/ g = NextPlate(h, p)
             \/ g = [pc |-> "syncSave", status |-> h.status, plates |-> h.plates, plate |-> p,
                     copy |-> [asset[p] EXCEPT !.status = "Dalam Aktivitas"]]
             \/ g = [pc |-> "count", status |-> h.status, plates |-> h.plates, plate |-> p,
                     copy |-> asset[p]]
    BY <2>1
  <2>2. CASE g = NextPlate(h, p)  BY <1>1, <2>0, <2>2
  <2>3. CASE g # NextPlate(h, p)
    <3>1. g.pc \in {"syncSave", "count"} /\ g.plates = h.plates /\ g.plate = p
      <4>1. CASE g = [pc |-> "syncSave", status |-> h.status, plates |-> h.plates, plate |-> p,
                      copy |-> [asset[p] EXCEPT !.status = "Dalam Aktivitas"]]
        BY <4>1
      <4>2. CASE g = [pc |-> "count", status |-> h.status, plates |-> h.plates, plate |-> p,
                      copy |-> asset[p]]
        BY <4>2
      <4>. QED  BY <2>0, <2>3, <4>1, <4>2
    <3>2. h.pc = "sync"  BY <1>2 DEF SyncAssetStatus
    <3>3. Stage(g.pc) < Stage(h.pc)  BY <3>1, <3>2, Stages
    <3>4. Closer(g, h) /\ Placed(g)  BY <3>1, <3>3 DEF Closer, Placed
    <3>. QED  BY <2>0, <3>4 DEF ComesCloser
  <2>. QED  BY <2>2, <2>3
<1>3. CASE CountActiveReservations(r)
  <2>. DEFINE g == [h EXCEPT !.pc = "syncSave", !.copy.status = "Tersedia"]
  <2>1. h.pc = "count" /\ (Become(r, NextPlate(h, h.plate)) \/ Become(r, g))
    BY <1>3 DEF CountActiveReservations, Proceed
  <2>2. h.plate \in h.plates  BY <2>1 DEF Placed
  <2>3. CASE Become(r, NextPlate(h, h.plate))  BY <1>1, <2>2, <2>3
  <2>4. CASE Become(r, g)
    <3>1. g.pc = "syncSave" /\ g.plates = h.plates /\ g.plate = h.plate
      BY <1>0, <2>1 DEF Syncing
    <3>2. Stage(g.pc) < Stage(h.pc)  BY <2>1, <3>1, Stages
    <3>3. Closer(g, h) /\ Placed(g)  BY <2>2, <3>1, <3>2 DEF Closer, Placed
    <3>. QED  BY <2>4, <3>3 DEF ComesCloser
  <2>. QED  BY <2>1, <2>3, <2>4
<1>4. CASE SyncSave(r) \/ SyncSkipped(r)
  <2>1. h.pc \in {"count", "syncSave"} /\ Become(r, NextPlate(h, h.plate))
    BY <1>4 DEF SyncSave, SyncSkipped, Proceed
  <2>. QED  BY <1>1, <2>1 DEF Placed
<1>. QED  BY <1>2, <1>3, <1>4

LEMMA WorkshopCloser ==
  ASSUME TypeOK, NEW r \in Request,
         \/ CheckReservationConflict(r) \/ TakeOut(r) \/ RecordJob(r) \/ ReportToFinance(r)
         \/ FetchAsset(r) \/ Release(r) \/ SaveMaintenance(r)
         \/ SaveEdit(r) \/ SoftDelete(r)
  PROVE  ComesCloser(r)
<1>. DEFINE h == req[r]
<1>0. h \in Handler  BY DEF TypeOK
<1>1. ASSUME NEW g, Become(r, g), Stage(g.pc) < Stage(h.pc), ~InSync(h),
             g.pc \notin {"count", "syncSave"}
      PROVE  ComesCloser(r)
  BY <1>1, LowerCloser DEF ComesCloser, Placed
<1>2. CASE CheckReservationConflict(r)
  <2>. DEFINE g == [h EXCEPT !.pc = "takeOut", !.copy.status = "Sedang Maintenance"]
  <2>1. h.pc = "conflict" /\ (Become(r, Idle) \/ Become(r, g))
    BY <1>2 DEF CheckReservationConflict, Proceed
  <2>2. CASE Become(r, Idle)  BY <1>0, <2>1, <2>2, IdleCloser DEF ComesCloser
  <2>3. CASE Become(r, g)
    <3>1. h \in Repairing  BY <1>0, <2>1, HandlerOf
    <3>2. g.pc = "takeOut"  BY <2>1, <3>1 DEF Repairing
    <3>. HIDE DEF g
    <3>. QED  BY <1>1, <2>1, <2>3, <3>2, Stages DEF InSync
  <2>. QED  BY <2>1, <2>2, <2>3
<1>3. CASE TakeOut(r)
  <2>. DEFINE g == [h EXCEPT !.pc = "record"]
  <2>1. h.pc = "takeOut" /\ Become(r, g)  BY <1>3 DEF TakeOut, Proceed
  <2>2. h \in Repairing  BY <1>0, <2>1, HandlerOf
  <2>3. g.pc = "record"  BY <2>1, <2>2 DEF Repairing
  <2>. HIDE DEF g
  <2>. QED  BY <1>1, <2>1, <2>3, Stages DEF InSync
<1>4. CASE RecordJob(r)
  <2>. DEFINE g == [pc |-> "post", n |-> h.n]
  <2>1. h.pc = "record" /\ Become(r, g) /\ g.pc = "post"  BY <1>4 DEF RecordJob, Proceed
  <2>. HIDE DEF g
  <2>. QED  BY <1>1, <2>1, Stages DEF InSync
<1>5. CASE ReportToFinance(r) \/ SaveMaintenance(r) \/ SaveEdit(r) \/ SoftDelete(r)
  <2>1. h.pc # "idle" /\ Become(r, Idle)
    BY <1>5 DEF ReportToFinance, SaveMaintenance, SaveEdit, SoftDelete, Proceed
  <2>. QED  BY <1>0, <2>1, IdleCloser DEF ComesCloser
<1>6. CASE FetchAsset(r)
  <2>1. h.pc = "fetch" /\ \E g : Become(r, g) /\ (g = Idle \/ g.pc = "release")
    BY <1>6 DEF FetchAsset, Proceed
  <2>2. PICK g : Become(r, g) /\ (g = Idle \/ g.pc = "release")  BY <2>1
  <2>3. CASE g = Idle  BY <1>0, <2>1, <2>2, <2>3, IdleCloser DEF ComesCloser
  <2>4. CASE g.pc = "release"  BY <1>1, <2>1, <2>2, <2>4, Stages DEF InSync
  <2>. QED  BY <2>2, <2>3, <2>4
<1>7. CASE Release(r)
  <2>. DEFINE g == [pc |-> "close", job |-> h.job]
  <2>1. h.pc = "release" /\ Become(r, g) /\ g.pc = "close"  BY <1>7 DEF Release, Proceed
  <2>. HIDE DEF g
  <2>. QED  BY <1>1, <2>1, Stages DEF InSync
<1>. QED  BY <1>2, <1>3, <1>4, <1>5, <1>6, <1>7

LEMMA ContinueCloser ==
  ASSUME TypeOK, NEW r \in Request, Placed(req[r]), Continue(r) \/ SyncSkipped(r)
  PROVE  ComesCloser(r)
BY CalendarCloser, SyncCloser, WorkshopCloser DEF Continue

(* What HandlersEnd says of one step.                                       *)
HandlersEndStep ==
  \A r \in Request :
    /\ Continue(r) \/ SyncSkipped(r) => Closer(req'[r], req[r])
    /\ req[r].pc # "idle" => req'[r] = req[r] \/ Closer(req'[r], req[r])

LEMMA EndStep == TypeOK /\ PlateInv /\ [Next]_vars => PlateInv' /\ HandlersEndStep
<1>. SUFFICES ASSUME TypeOK, PlateInv, [Next]_vars  PROVE PlateInv' /\ HandlersEndStep
  OBVIOUS
<1>0. req \in [Request -> Handler] /\ \A r \in Request : req[r] \in Handler /\ Placed(req[r])
  BY DEF TypeOK, PlateInv
<1>1. \A r \in Request : Continue(r) \/ SyncSkipped(r) => Closer(req'[r], req[r])
  <2>. SUFFICES ASSUME NEW r \in Request, Continue(r) \/ SyncSkipped(r)
                PROVE  Closer(req'[r], req[r])
    OBVIOUS
  <2>1. ComesCloser(r)  BY <1>0, ContinueCloser
  <2>. QED  BY <1>0, <2>1 DEF ComesCloser, Become
<1>. DEFINE Fine(r) == /\ Placed(req'[r])
                       /\ req[r].pc # "idle" => req'[r] = req[r] \/ Closer(req'[r], req[r])
<1>2. ASSUME \A r \in Request : Fine(r)  PROVE PlateInv' /\ HandlersEndStep
  <2>1. PlateInv'  BY <1>2 DEF PlateInv, Placed
  <2>. QED  BY <1>1, <1>2, <2>1 DEF HandlersEndStep
<1>3. CASE UNCHANGED vars  BY <1>0, <1>2, <1>3 DEF vars
<1>4. ASSUME NEW s \in Request, NEW g, Become(s, g), Placed(g),
             req[s].pc # "idle" => Closer(g, req[s])
      PROVE  PlateInv' /\ HandlersEndStep
  <2>1. req'[s] = g /\ \A t \in Request \ {s} : req'[t] = req[t]
    BY <1>0, <1>4 DEF Become
  <2>. QED  BY <1>0, <1>2, <1>4, <2>1
<1>5. ASSUME NEW s \in Request, Receive(s)  PROVE PlateInv' /\ HandlersEndStep
  <2>. DEFINE Enters == \E g : Enter(s, g) /\ g.pc \notin {"count", "syncSave"}
  <2>1. ASSUME NEW g, Enter(s, g), g.pc \notin {"count", "syncSave"}  PROVE Enters
    BY <2>1
  <2>2. ASSUME NEW project, NEW plates, NEW w, Reserve(s, project, plates, w)  PROVE Enters
    BY <2>1, <2>2 DEF Reserve
  <2>3. ASSUME NEW b, NEW status, UpdateStatus(s, b, status)  PROVE Enters
    BY <2>1, <2>3 DEF UpdateStatus
  <2>4. ASSUME NEW project, NEW status, UpdateProjectStatus(s, project, status)  PROVE Enters
    BY <2>1, <2>4 DEF UpdateProjectStatus
  <2>5. ASSUME NEW p, NEW start, CreateMaintenance(s, p, start)  PROVE Enters
    BY <2>1, <2>5 DEF CreateMaintenance
  <2>6. ASSUME NEW p, NEW status, UpdateAsset(s, p, status)  PROVE Enters
    BY <2>1, <2>6 DEF UpdateAsset
  <2>7. ASSUME NEW p, SetSupplier(s, p) \/ DeleteAsset(s, p)  PROVE Enters
    BY <2>1, <2>7 DEF SetSupplier, DeleteAsset
  <2>8. ASSUME NEW job, Complete(s, job)  PROVE Enters
    BY <2>1, <2>8 DEF Complete
  <2>. HIDE DEF Enters
  <2>9. Enters  BY <1>5, <2>2, <2>3, <2>4, <2>5, <2>6, <2>7, <2>8 DEF Receive
  <2>10. PICK g : Enter(s, g) /\ g.pc \notin {"count", "syncSave"}  BY <2>9 DEF Enters
  <2>. QED  BY <1>4, <2>10 DEF Enter, Placed
<1>6. ASSUME NEW s \in Request, Continue(s) \/ SyncSkipped(s)
      PROVE  PlateInv' /\ HandlersEndStep
  <2>1. ComesCloser(s)  BY <1>0, <1>6, ContinueCloser
  <2>. QED  BY <1>4, <2>1 DEF ComesCloser
<1>7. ASSUME NEW s \in Request, Stop(s)  PROVE PlateInv' /\ HandlersEndStep
  <2>1. req[s] \in Handler /\ req[s].pc # "idle" /\ Become(s, Idle)  BY <1>0, <1>7 DEF Stop
  <2>. QED  BY <1>4, <2>1, IdleCloser
<1>. QED  BY <1>3, <1>5, <1>6, <1>7 DEF Next

(* Every request of the asset service ends: each statement brings its       *)
(* handler closer to its answer or leaves it a vehicle less to bring up to  *)
(* date, and none is set back by the others or by a fault.                 *)
THEOREM HandlersComeToAnEnd == Spec => HandlersEnd
<1>1. Init => PlateInv  BY DEF Init, Idle, PlateInv, Placed
<1>2. TypeOK /\ PlateInv /\ [Next]_vars => PlateInv' /\ [HandlersEndStep]_vars  BY EndStep
<1>3. Spec => [][HandlersEndStep]_vars  BY <1>1, <1>2, TypeCorrect, PTL DEF Spec
<1>. QED  BY <1>3 DEF HandlersEnd, HandlersEndStep

==============================================================================
