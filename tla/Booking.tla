------------------------------- MODULE Booking -------------------------------
(***************************************************************************)
(* The vehicles of the asset service: bookings by projects, jobs in the    *)
(* workshop, and the status of the vehicle that both of them write.        *)
(*                                                                         *)
(* A request checks the calendar with one statement and writes with a      *)
(* later one; nothing is locked, and the tables have no constraint that    *)
(* would refuse an overlap.  The vehicle's row is read, changed and saved  *)
(* whole.  Each statement is one action.  A request may stop between two   *)
(* of them, except that keeping the vehicle's status in step with its      *)
(* bookings is best-effort: a failure there is skipped.                    *)
(*                                                                         *)
(* Abstracted: time is counted in half days; a request lists a vehicle     *)
(* once; names, prices, suppliers and photos are left out.                 *)
(***************************************************************************)
EXTENDS Integers

CONSTANTS
  Request,      \* the handlers that may be running at the same time
  Plate,        \* the registered vehicles
  Project,      \* the projects that book them
  Window,       \* the periods a booking may ask for
  Start,        \* the times at which maintenance may start
  FormStatus,   \* the statuses an operator may type for a vehicle
  MaxRequests,  \* bound: requests handled
  MaxFaults     \* bound: failed statements and stopped handlers

ASSUME WindowAssumption ==
  Window \subseteq {w \in [from : Int, to : Int] : w.from <= w.to}
ASSUME StartAssumption == Start \subseteq Int
ASSUME FormAssumption ==
  FormStatus \subseteq {"Tersedia", "Sedang Maintenance", "Dalam Aktivitas"}
ASSUME BoundAssumption == MaxRequests \in Nat /\ MaxFaults \in Nat

VARIABLES
  asset,     \* the vehicle's row
  bookings,  \* asset_reservations
  jobs,      \* maintenances
  ledger,    \* the jobs the finance service has an entry for
  req,       \* the running handlers
  started,   \* requests accepted so far, which also numbers new rows
  faults,    \* faults so far
  history    \* what has happened to the calendar; read by no handler

vars == <<asset, bookings, jobs, ledger, req, started, faults, history>>

AssetStatus == {"Tersedia", "Sedang Maintenance", "Dalam Aktivitas"}
Asset == [status : AssetStatus, deleted : BOOLEAN]

ReservationStatus == {"Direncanakan", "Dilaksanakan", "Selesai", "Batal"}
Live == {"Direncanakan", "Dilaksanakan"}

(* The call that inserted a booking and its vehicle stand for its uuid.    *)
Reservation == [call : Nat, plate : Plate, project : Project, window : Window,
                status : ReservationStatus]
Job == [id : Nat, plate : Plate, open : BOOLEAN]

Active(b) == b.status \in Live

(* Both ends of a window belong to it.                                     *)
Overlaps(v, w) == v.from <= w.to /\ v.to >= w.from

(* A handler: the work left for it, and what it has read.                  *)
Idle == [pc |-> "idle"]
Reserving == [pc : {"overlap", "insert"}, n : Nat, project : Project,
              plates : SUBSET Plate, window : Window]
Updating == [pc : {"saveRow"}, row : Reservation]
Listing == [pc : {"setAll", "list"}, project : Project, status : ReservationStatus]
Syncing == [pc : {"sync"}, status : ReservationStatus, plates : SUBSET Plate]
         \cup [pc : {"count", "syncSave"}, status : ReservationStatus,
               plates : SUBSET Plate, plate : Plate, copy : Asset]
Repairing == [pc : {"conflict", "takeOut", "record"}, n : Nat, plate : Plate,
              start : Start, copy : Asset]
         \cup [pc : {"post"}, n : Nat]
Completing == [pc : {"fetch", "close"}, job : Job]
         \cup [pc : {"release"}, job : Job, copy : Asset]
Editing == [pc : {"edit"}, plate : Plate, copy : Asset, typed : BOOLEAN]
         \cup [pc : {"delete"}, plate : Plate]
Handler == {Idle} \cup Reserving \cup Updating \cup Listing \cup Syncing
           \cup Repairing \cup Completing \cup Editing

InReserve(h) == h.pc \in {"overlap", "insert"}

History == [raced    : BOOLEAN,       \* two requests have run side by side
            together : BOOLEAN,       \* two Reserve calls have
            revived  : BOOLEAN,       \* an ended booking was made live again
            typed    : SUBSET Plate]  \* vehicles whose status was typed in

Init ==
  /\ asset = [p \in Plate |-> [status |-> "Tersedia", deleted |-> FALSE]]
  /\ bookings = {}
  /\ jobs = {}
  /\ ledger = {}
  /\ req = [r \in Request |-> Idle]
  /\ started = 0
  /\ faults = 0
  /\ history = [raced |-> FALSE, together |-> FALSE, revived |-> FALSE, typed |-> {}]

-----------------------------------------------------------------------------

Become(r, h) == req' = [req EXCEPT ![r] = h]

(* A request arrives; h is its handler's first state.                      *)
Enter(r, h) ==
  /\ req[r].pc = "idle"
  /\ started < MaxRequests
  /\ started' = started + 1
  /\ Become(r, h)
  /\ LET others == {req[s] : s \in Request \ {r}}
     IN history' = [history EXCEPT
          !.raced = @ \/ \E g \in others : g.pc # "idle",
          !.together = @ \/ (InReserve(h) /\ \E g \in others : InReserve(g))]
  /\ UNCHANGED faults

(* A handler goes on; what it may change besides is named by the action.   *)
Proceed(r, pc, h) ==
  /\ req[r].pc = pc
  /\ Become(r, h)
  /\ UNCHANGED <<started, faults>>

(* FindByPlatNomor does not see a deleted vehicle.                         *)
Found(p) == ~asset[p].deleted

-----------------------------------------------------------------------------
(* Slips: definitions of this module as a careless change to the code would *)
(* leave them.  None is part of the specification; each breaks a property.  *)

(* a booking under way no longer seen by the calendar *)
BookedPlanned(plates, w) ==
  \E b \in bookings : /\ b.plate \in plates /\ b.status = "Direncanakan"
                      /\ Overlaps(b.window, w)

(* the vehicle saved with the status of the finished job *)
SaveFinished(p, copy) == asset' = [asset EXCEPT ![p] = [copy EXCEPT !.status = "Selesai"]]

(* a project's own bookings left out, as on an edit *)
FindOtherProjects(r) ==
  /\ req[r].pc = "overlap"
  /\ Proceed(r, "overlap",
       IF \E b \in bookings : /\ b.plate \in req[r].plates /\ b.project # req[r].project
                              /\ Active(b) /\ Overlaps(b.window, req[r].window)
         THEN Idle ELSE [req[r] EXCEPT !.pc = "insert"])
  /\ UNCHANGED <<asset, bookings, jobs, ledger, history>>

(* the vehicle left out when its bookings are counted *)
CountStops(r) ==
  /\ Proceed(r, "count", Idle)
  /\ UNCHANGED <<asset, bookings, jobs, ledger, history>>

(* the job closed, the vehicle left where it is *)
ReleaseNothing(r) ==
  /\ req[r].pc = "release"
  /\ Proceed(r, "release", [pc |-> "close", job |-> req[r].job])
  /\ UNCHANGED <<asset, bookings, jobs, ledger, history>>

-----------------------------------------------------------------------------
(* repo.Save writes every column, which also undeletes the row.            *)
SaveAsset(p, copy) == asset' = [asset EXCEPT ![p] = copy]

(* FindOverlappingReservations: the live bookings of these vehicles.        *)
Booked(plates, w) ==
  \E b \in bookings : b.plate \in plates /\ Active(b) /\ Overlaps(b.window, w)

-----------------------------------------------------------------------------
(* Reserve: the vehicles are looked up, then the calendar, then a booking  *)
(* of each is inserted in one statement.                                   *)

Reserve(r, project, plates, w) ==
  /\ plates # {}
  /\ \A p \in plates : Found(p) /\ asset[p].status # "Sedang Maintenance"
  /\ Enter(r, [pc |-> "overlap", n |-> started, project |-> project,
               plates |-> plates, window |-> w])
  /\ UNCHANGED <<asset, bookings, jobs, ledger>>

FindOverlapping(r) ==
  /\ req[r].pc = "overlap"
  /\ Proceed(r, "overlap", IF Booked(req[r].plates, req[r].window)
                             THEN Idle ELSE [req[r] EXCEPT !.pc = "insert"])
  /\ UNCHANGED <<asset, bookings, jobs, ledger, history>>

CreateReservations(r) ==
  /\ req[r].pc = "insert"
  /\ bookings' = bookings \cup
       {[call |-> req[r].n, plate |-> p, project |-> req[r].project,
         window |-> req[r].window, status |-> "Direncanakan"] : p \in req[r].plates}
  /\ Proceed(r, "insert", Idle)
  /\ UNCHANGED <<asset, jobs, ledger, history>>

-----------------------------------------------------------------------------
(* Changing the status of bookings, by any valid status from any other.    *)

SetStatus(b, status) == [b EXCEPT !.status = status]

SameRow(b, c) == b.call = c.call /\ b.plate = c.plate

(* Nothing is synchronised for a booking put back to Direncanakan.         *)
SyncOf(status, plates) ==
  IF status = "Direncanakan" \/ plates = {}
    THEN Idle ELSE [pc |-> "sync", status |-> status, plates |-> plates]

Revives(old, new) == \E b \in old, c \in new : SameRow(b, c) /\ ~Active(b) /\ Active(c)

WriteBookings(new) ==
  /\ bookings' = new
  /\ history' = [history EXCEPT !.revived = @ \/ Revives(bookings, new)]

UpdateStatus(r, b, status) ==
  /\ b \in bookings
  /\ Enter(r, [pc |-> "saveRow", row |-> SetStatus(b, status)])
  /\ UNCHANGED <<asset, bookings, jobs, ledger>>

SaveReservation(r) ==
  /\ req[r].pc = "saveRow"
  /\ LET row == req[r].row
     IN /\ WriteBookings({IF SameRow(b, row) THEN row ELSE b : b \in bookings})
        /\ Proceed(r, "saveRow", SyncOf(row.status, {row.plate}))
  /\ UNCHANGED <<asset, jobs, ledger>>

(* One UPDATE for every booking of the project, ended ones included.       *)
Moved(project, status) ==
  {IF b.project = project THEN SetStatus(b, status) ELSE b : b \in bookings}

UpdateProjectStatus(r, project, status) ==
  /\ Enter(r, [pc |-> "setAll", project |-> project, status |-> status])
  /\ UNCHANGED <<asset, bookings, jobs, ledger>>

SetReservationStatusForProject(r) ==
  /\ req[r].pc = "setAll"
  /\ WriteBookings(Moved(req[r].project, req[r].status))
  /\ Proceed(r, "setAll", [req[r] EXCEPT !.pc = "list"])
  /\ UNCHANGED <<asset, jobs, ledger>>

FindReservationsByProject(r) ==
  /\ req[r].pc = "list"
  /\ Proceed(r, "list", SyncOf(req[r].status,
                 {b.plate : b \in {c \in bookings : c.project = req[r].project}}))
  /\ UNCHANGED <<asset, bookings, jobs, ledger, history>>

-----------------------------------------------------------------------------
(* syncAssetStatus, for one vehicle after the other.                       *)

NextPlate(h, p) == SyncOf(h.status, h.plates \ {p})

SyncAssetStatus(r) ==
  /\ req[r].pc = "sync"
  /\ LET h == req[r]
     IN \E p \in h.plates :
          Proceed(r, "sync",
            IF ~Found(p) THEN NextPlate(h, p)
            ELSE IF h.status = "Dilaksanakan"
              THEN [pc |-> "syncSave", status |-> h.status, plates |-> h.plates, plate |-> p,
                    copy |-> [asset[p] EXCEPT !.status = "Dalam Aktivitas"]]
              ELSE [pc |-> "count", status |-> h.status, plates |-> h.plates, plate |-> p,
                    copy |-> asset[p]])
  /\ UNCHANGED <<asset, bookings, jobs, ledger, history>>

CountActiveReservations(r) ==
  /\ req[r].pc = "count"
  /\ LET h == req[r]
         stays == \/ \E b \in bookings : b.plate = h.plate /\ Active(b)
                  \/ h.copy.status = "Sedang Maintenance"
     IN Proceed(r, "count",
          IF stays THEN NextPlate(h, h.plate)
                   ELSE [h EXCEPT !.pc = "syncSave", !.copy.status = "Tersedia"])
  /\ UNCHANGED <<asset, bookings, jobs, ledger, history>>

SyncSave(r) ==
  /\ req[r].pc = "syncSave"
  /\ SaveAsset(req[r].plate, req[r].copy)
  /\ Proceed(r, "syncSave", NextPlate(req[r], req[r].plate))
  /\ UNCHANGED <<bookings, jobs, ledger, history>>

-----------------------------------------------------------------------------
(* Maintenance: refused inside a live booking and less than a day before a *)
(* planned one.                                                            *)

CreateMaintenance(r, p, start) ==
  /\ Found(p) /\ asset[p].status \notin {"Sedang Maintenance", "Dalam Aktivitas"}
  /\ Enter(r, [pc |-> "conflict", n |-> started, plate |-> p, start |-> start,
               copy |-> asset[p]])
  /\ UNCHANGED <<asset, bookings, jobs, ledger>>

Conflicts(p, start) ==
  \E b \in bookings :
    /\ b.plate = p /\ Active(b)
    /\ \/ b.window.from <= start /\ start <= b.window.to
       \/ b.status = "Direncanakan" /\ start < b.window.from /\ b.window.from - start < 2

CheckReservationConflict(r) ==
  /\ req[r].pc = "conflict"
  /\ LET h == req[r]
     IN Proceed(r, "conflict",
          IF Conflicts(h.plate, h.start) THEN Idle
          ELSE [h EXCEPT !.pc = "takeOut", !.copy.status = "Sedang Maintenance"])
  /\ UNCHANGED <<asset, bookings, jobs, ledger, history>>

TakeOut(r) ==
  /\ req[r].pc = "takeOut"
  /\ SaveAsset(req[r].plate, req[r].copy)
  /\ Proceed(r, "takeOut", [req[r] EXCEPT !.pc = "record"])
  /\ UNCHANGED <<bookings, jobs, ledger, history>>

RecordJob(r) ==
  /\ req[r].pc = "record"
  /\ jobs' = jobs \cup {[id |-> req[r].n, plate |-> req[r].plate, open |-> TRUE]}
  /\ Proceed(r, "record", [pc |-> "post", n |-> req[r].n])
  /\ UNCHANGED <<asset, bookings, ledger, history>>

(* POST /lapkeu/add; a failure is only logged.                             *)
ReportToFinance(r) ==
  /\ req[r].pc = "post"
  /\ ledger' \in {ledger, ledger \cup {req[r].n}}
  /\ Proceed(r, "post", Idle)
  /\ UNCHANGED <<asset, bookings, jobs, history>>

Complete(r, job) ==
  /\ job \in jobs /\ job.open
  /\ Enter(r, [pc |-> "fetch", job |-> job])
  /\ UNCHANGED <<asset, bookings, jobs, ledger>>

FetchAsset(r) ==
  /\ req[r].pc = "fetch"
  /\ LET job == req[r].job
     IN Proceed(r, "fetch",
          IF Found(job.plate)
            THEN [pc |-> "release", job |-> job,
                  copy |-> [asset[job.plate] EXCEPT !.status = "Tersedia"]]
            ELSE Idle)
  /\ UNCHANGED <<asset, bookings, jobs, ledger, history>>

Release(r) ==
  /\ req[r].pc = "release"
  /\ SaveAsset(req[r].job.plate, req[r].copy)
  /\ Proceed(r, "release", [pc |-> "close", job |-> req[r].job])
  /\ UNCHANGED <<bookings, jobs, ledger, history>>

SaveMaintenance(r) ==
  /\ req[r].pc = "close"
  /\ jobs' = {IF j.id = req[r].job.id THEN [j EXCEPT !.open = FALSE] ELSE j : j \in jobs}
  /\ Proceed(r, "close", Idle)
  /\ UNCHANGED <<asset, bookings, ledger, history>>

-----------------------------------------------------------------------------
(* Edits of the vehicle itself.                                            *)

(* UpdateAsset writes the status the form was sent with.                   *)
UpdateAsset(r, p, status) ==
  /\ Found(p)
  /\ Enter(r, [pc |-> "edit", plate |-> p, typed |-> TRUE,
               copy |-> [asset[p] EXCEPT !.status = status]])
  /\ UNCHANGED <<asset, bookings, jobs, ledger>>

(* SetSupplier writes the status it read.                                  *)
SetSupplier(r, p) ==
  /\ Found(p)
  /\ Enter(r, [pc |-> "edit", plate |-> p, typed |-> FALSE, copy |-> asset[p]])
  /\ UNCHANGED <<asset, bookings, jobs, ledger>>

SaveEdit(r) ==
  /\ req[r].pc = "edit"
  /\ SaveAsset(req[r].plate, req[r].copy)
  /\ history' = [history EXCEPT !.typed = IF req[r].typed THEN @ \cup {req[r].plate} ELSE @]
  /\ Proceed(r, "edit", Idle)
  /\ UNCHANGED <<bookings, jobs, ledger>>

DeleteAsset(r, p) ==
  /\ Found(p)
  /\ Enter(r, [pc |-> "delete", plate |-> p])
  /\ UNCHANGED <<asset, bookings, jobs, ledger>>

SoftDelete(r) ==
  /\ req[r].pc = "delete"
  /\ asset' = [asset EXCEPT ![req[r].plate].deleted = TRUE]
  /\ Proceed(r, "delete", Idle)
  /\ UNCHANGED <<bookings, jobs, ledger, history>>

-----------------------------------------------------------------------------
(* A statement fails or the handler is stopped before it.  While a vehicle *)
(* is synchronised the failure is logged, and the next vehicle follows.    *)

Fault == faults < MaxFaults /\ faults' = faults + 1

Stop(r) ==
  /\ req[r].pc # "idle"
  /\ Fault
  /\ Become(r, Idle)
  /\ UNCHANGED <<asset, bookings, jobs, ledger, started, history>>

SyncSkipped(r) ==
  /\ req[r].pc \in {"count", "syncSave"}
  /\ Fault
  /\ Become(r, NextPlate(req[r], req[r].plate))
  /\ UNCHANGED <<asset, bookings, jobs, ledger, started, history>>

-----------------------------------------------------------------------------

Receive(r) ==
  \/ \E project \in Project, plates \in SUBSET Plate, w \in Window :
       Reserve(r, project, plates, w)
  \/ \E b \in bookings, status \in ReservationStatus : UpdateStatus(r, b, status)
  \/ \E project \in Project, status \in ReservationStatus :
       UpdateProjectStatus(r, project, status)
  \/ \E p \in Plate :
       \/ \E start \in Start : CreateMaintenance(r, p, start)
       \/ \E status \in FormStatus : UpdateAsset(r, p, status)
       \/ SetSupplier(r, p)
       \/ DeleteAsset(r, p)
  \/ \E job \in jobs : Complete(r, job)

Continue(r) ==
  \/ FindOverlapping(r) \/ CreateReservations(r)
  \/ SaveReservation(r) \/ SetReservationStatusForProject(r) \/ FindReservationsByProject(r)
  \/ SyncAssetStatus(r) \/ CountActiveReservations(r) \/ SyncSave(r)
  \/ CheckReservationConflict(r) \/ TakeOut(r) \/ RecordJob(r) \/ ReportToFinance(r)
  \/ FetchAsset(r) \/ Release(r) \/ SaveMaintenance(r)
  \/ SaveEdit(r) \/ SoftDelete(r)

Next == \E r \in Request : Receive(r) \/ Continue(r) \/ Stop(r) \/ SyncSkipped(r)

Spec == Init /\ [][Next]_vars

-----------------------------------------------------------------------------
(* Properties.                                                             *)

TypeOK ==
  /\ asset \in [Plate -> Asset]
  /\ bookings \subseteq Reservation
  /\ jobs \subseteq Job
  /\ ledger \subseteq Nat
  /\ req \in [Request -> Handler]
  /\ started \in Nat
  /\ faults \in Nat
  /\ history \in History

NoDoubleBooking ==
  \A b, c \in bookings :
    b.plate = c.plate /\ Active(b) /\ Active(c) /\ Overlaps(b.window, c.window) => b = c

(* A vehicle is booked once at a time, as long as no two Reserve calls run  *)
(* side by side and no ended booking is made live again: changes of status, *)
(* maintenance and edits of the vehicle may interleave with Reserve freely. *)
CalendarClear == ~history.together /\ ~history.revived => NoDoubleBooking

(* One request has followed the other, each to its end.                    *)
Orderly == ~history.raced /\ faults = 0 /\ \A r \in Request : req[r].pc = "idle"

(* syncAssetStatus: a vehicle returns to the pool once its last live        *)
(* booking is finished or cancelled, by itself or with its project.         *)
ReturnedToPool ==
  Orderly => \A p \in Plate \ history.typed :
    asset[p].status = "Dalam Aktivitas" /\ Found(p) =>
      \E b \in bookings : b.plate = p /\ Active(b)

(* A vehicle is in the workshop only while a job of its is open, so that    *)
(* completing the job can bring it back.                                    *)
WorkshopHasJob ==
  Orderly => \A p \in Plate \ history.typed :
    asset[p].status = "Sedang Maintenance" => \E j \in jobs : j.plate = p /\ j.open

(* syncAssetStatus: a vehicle in the workshop stays there when its bookings *)
(* end.  It does not if one of them had started in the meantime.            *)
StaysInWorkshop ==
  Orderly => \A p \in Plate \ history.typed :
    asset[p].status = "Tersedia" => ~\E j \in jobs : j.plate = p /\ j.open

(* Seen from outside, the bookings are a calendar in which a reservation of *)
(* several vehicles is one step, taken only if all of them are free; under  *)
(* the same proviso.                                                        *)
Calm == ~history.together /\ ~history.revived
Held == {[plate |-> b.plate, window |-> b.window] : b \in {c \in bookings : Active(c)}}

Agenda == INSTANCE Calendar WITH held <- Held

KeepsCalendar == Agenda!Init /\ [][Calm' => [Agenda!Next]_Held]_vars

(* Every handler ends: with each statement and each call it comes closer to *)
(* its answer, or has a vehicle less to bring up to date.                   *)
Stage(pc) ==
  CASE pc \in {"setAll", "conflict"} -> 6
    [] pc \in {"list", "saveRow", "takeOut"} -> 5
    [] pc = "record" -> 4
    [] pc \in {"sync", "fetch"} -> 3
    [] pc \in {"count", "overlap", "release"} -> 2
    [] pc \in {"syncSave", "insert", "post", "close", "edit", "delete"} -> 1
    [] OTHER -> 0

InSync(h) == h.pc \in {"sync", "count", "syncSave"}

Closer(g, h) ==
  IF InSync(g) /\ InSync(h) /\ g.plates # h.plates
    THEN g.plates \subseteq h.plates
    ELSE Stage(g.pc) < Stage(h.pc)

HandlersEnd ==
  [][\A r \in Request :
       /\ Continue(r) \/ SyncSkipped(r) => Closer(req'[r], req[r])
       /\ req[r].pc # "idle" => req'[r] = req[r] \/ Closer(req'[r], req[r])]_vars

-----------------------------------------------------------------------------
(* Why the calendar stays clear: a Reserve that has seen no overlap sees    *)
(* none until it inserts, since only it may add a live booking; and a row   *)
(* that is saved late still differs from the stored one in its status only. *)

CalendarInv ==
  ~history.together /\ ~history.revived =>
    /\ NoDoubleBooking
    /\ \A r, s \in Request : InReserve(req[r]) /\ InReserve(req[s]) => r = s
    /\ \A r \in Request :
         req[r].pc = "insert" => ~Booked(req[r].plates, req[r].window)

KeyInv ==
  /\ \A b, c \in bookings : SameRow(b, c) => b = c
  /\ \A b \in bookings : b.call < started
  /\ \A r \in Request : InReserve(req[r]) =>
       /\ req[r].n < started
       /\ \A b \in bookings : b.call # req[r].n
       /\ \A s \in Request : InReserve(req[s]) /\ req[r].n = req[s].n => r = s
  /\ \A r \in Request : req[r].pc = "saveRow" =>
       \E b \in bookings : req[r].row = SetStatus(b, req[r].row.status)

IInv == TypeOK /\ KeyInv /\ CalendarInv

(* Why a vehicle ends where its bookings and jobs say: one request after    *)
(* the other, what the handler at work has read is still so, and what it    *)
(* has begun it will finish.                                                *)
Ended == {"Selesai", "Batal"}
HasActive(p) == \E b \in bookings : b.plate = p /\ Active(b)
HasOpen(p)   == \E j \in jobs : j.plate = p /\ j.open

SeesBookings(h) ==
  /\ h.pc = "list" => \A b \in bookings : b.project = h.project => b.status = h.status
  /\ h.pc \in {"sync", "count", "syncSave"} =>
       \/ h.status \in Ended
       \/ h.status = "Dilaksanakan" /\ \A p \in h.plates : HasActive(p)

SeesVehicle(h) ==
  /\ h.pc \in {"count", "syncSave"} => h.plate \in h.plates
  /\ h.pc = "count" => h.copy = asset[h.plate] /\ h.status \in Ended
  /\ h.pc = "syncSave" =>
       h.copy.status = IF h.status \in Ended THEN "Tersedia" ELSE "Dalam Aktivitas"
  /\ h.pc = "takeOut" => h.copy.status = "Sedang Maintenance"
  /\ h.pc = "release" => h.copy.status = "Tersedia"
  /\ h.pc = "close" => asset[h.job.plate].status = "Tersedia"
  /\ h.pc = "edit" => h.typed \/ h.copy = asset[h.plate]

SeesJobs(h) ==
  /\ h.pc \in {"conflict", "takeOut", "record"} =>
       h.n < started /\ \A j \in jobs : j.id # h.n
  /\ h.pc \in {"fetch", "release", "close"} => h.job \in jobs

(* The handler is on its way to return the vehicle, or to record its job.   *)
Returns(h, p) ==
  /\ h.pc \in {"list", "sync", "count", "syncSave"} /\ h.status \in Ended
  /\ IF h.pc = "list" THEN \E b \in bookings : b.project = h.project /\ b.plate = p
                      ELSE p \in h.plates

Records(h, p) == h.pc = "record" /\ h.plate = p

JobInv == \A j \in jobs : j.id < started /\ \A k \in jobs : j.id = k.id => j = k

VehicleInv ==
  ~history.raced /\ faults = 0 =>
    /\ \A r, s \in Request : req[r].pc # "idle" /\ req[s].pc # "idle" => r = s
    /\ JobInv
    /\ \A r \in Request :
         SeesBookings(req[r]) /\ SeesVehicle(req[r]) /\ SeesJobs(req[r])
    /\ \A p \in Plate \ history.typed :
         /\ asset[p].status = "Dalam Aktivitas" /\ Found(p) =>
              HasActive(p) \/ \E r \in Request : Returns(req[r], p)
         /\ asset[p].status = "Sedang Maintenance" =>
              HasOpen(p) \/ \E r \in Request : Records(req[r], p)

BookingInv == IInv /\ VehicleInv

=============================================================================
