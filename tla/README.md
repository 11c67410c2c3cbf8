# KAMIS back end: specification, model checking and proofs

KAMIS is the back end of a construction and equipment business: five Go services
(purchase, asset, project, resource, profile) and a finance ledger, each with its own
PostgreSQL database, calling one another over HTTP with no message queue, no
distributed transaction and no shared lock. This directory holds TLA+ modules that
model the services as they are written, TLC configurations that check them on small
instances, and TLAPS proofs of what matters most.

Paths below are relative to `src/KAMIS-BE-GO/`.

## 1. Inventory

How every service works. A handler runs in its own goroutine and, for one request,
reads a row, checks it, calls other services and writes the row back. The repositories
use GORM's `Save`, which writes every column of the copy that was read; there is no
version column, and, with one exception (stock in the resource service), no
`SELECT ... FOR UPDATE`. PostgreSQL runs at READ COMMITTED, so any other request may run
between two statements of a handler. Calls to other services go through
`pkg/httpx/client.go` with a five second timeout: a call may take effect although its
caller sees an error. Nothing is persisted about a request in progress, so a handler
that stops leaves what it has done so far.

| component | state it keeps | operations | talks to |
|---|---|---|---|
| purchase lifecycle (`services/purchase`, `status_service.go`) | row (type, status, payment, price), lines in `resource_temps`, audit log | advance, cancel, confirm payment | resource (`addToDb`), asset (`addAsset`), finance (`lapkeu/add`) |
| purchase creation and listing (`purchase_service.go`, repository) | ids counted per day, lines, staged asset | add, update, list, detail | profile (supplier names, add purchase to supplier) |
| asset reservations (`services/asset`, `reservation_service.go`) | `asset_reservations`, status of the vehicle | reserve, status of one booking, status of a project's bookings | called by project |
| asset maintenance (`maintenance_service.go`) | `maintenances`, status of the vehicle | create, complete | finance |
| asset register (`asset_service.go`) | vehicles, photos | add, update, set supplier, delete | blob store; called by purchase |
| project (`services/project`) | project row, vehicles and resources it uses, audit log | add, update, status, payment and refund | asset (reserve), resource (stock), profile (client), finance |
| resource (`services/resource`) | resources with a stock, links to suppliers | add, edit, add or deduct stock, link | called by purchase, project and profile |
| accounts and sessions (`services/profile`, `user_service.go`) | users, their roles, refresh tokens | login, refresh, logout, add and edit users | - |
| suppliers and clients (`supplier_service.go`, `client_service.go`) | suppliers with three link tables, clients | add, edit, add a purchase, list | resource, asset, project |
| finance ledger (`services/finance`, `lapkeu_service.go`) | one entry per source | record (upsert), remove | called by all others |
| finance reports (`report_service.go`, `pkg/reporting`) | none | aggregations | - |
| tokens and roles (`pkg/auth`) | signing and verifying keys | issue, verify | all services |
| service clients (`pkg/httpx/client.go`) | none | calls with a timeout | all services |
| blob store (`pkg/blob`) | files | put, get, delete | asset |
| helpers (`pkg/database`, `config`, `metrics`, `page`, `jsontime`) | none | - | - |

What is hard about each, and what makes it correct:

- **Purchase.** Row copies that outlive the check they were made under; a delivery loop
  that may fail half-way and is retried from its first line; a lost reply to `addAsset`.
  Correct when a purchase is never completed without a delivery, never combines a
  payment with a status in which payment is refused, never gets past submission without
  an approval by Direksi or Finance, delivers each line once, and leaves a ledger and an
  audit trail that agree with the row.
- **Bookings and maintenance.** The calendar is read by one statement and written by
  another; two different parts of the service keep the status of a vehicle. Correct when
  a vehicle has one live booking at a time, comes back to the pool when its last booking
  ends, and is in the workshop exactly while a job is open.
- **Project.** A saga over stock and bookings with hand-written compensation; payment,
  refund, ledger entry. Correct when what a failed create took is given back, when an
  ended project holds nothing, and when ledger and payment agree.
- **Id allocation (purchase, project).** Ids are counted, not drawn from a sequence, and
  a bounded number of attempts is made. Correct when ids are unique and a lone creator
  always gets one.
- **Resource stock.** Row lock for changes, none for edits. Correct when no
  deduction takes out more than there is and no change is lost. (A stock may be below zero:
  `addToDb` adds any amount.)
- **Accounts and sessions.** A refresh token is read, judged, revoked and replaced by
  four statements; an account and its roles are saved in two transactions. Correct when a
  token buys nothing once it has been spent, nothing survives a replay, roles are those of
  the login until the next one, and a login gets the roles that were asked for last.
- **Supplier links.** Kept on both sides by two services, the second told after the first
  has committed. Correct when both agree once everything has run to its end.
- **Reports.** Labels of bars come from Go and groups from SQL, windows end at 23:59:59
  or at a midnight, "this month" has no fixed length. Correct when bars, totals, panels and
  lists of one range tell the same, and a period is compared with its like.
- **Vehicles and their photos.** The file is stored before the row, and removed after it.
  Correct when a vehicle shows its own photo and no photo is left without a vehicle.
- **Key rotation.** Three deployments, service by service. Correct when a token that has
  not expired is accepted everywhere at each step.
- **Fan-out in lists.** At most eight calls at a time. Correct when every answer is
  collected and all workers end.

Every hazard, with its line and the properties that would catch it, is in
`PROJECT.json` under `hazards`.

## 2. Plan

The order is by how much of the system's promise depends on the part.

| # | module(s) | models | abstract specification | status |
|---|---|---|---|---|
| 1 | `Purchase` | the life of one purchase | `PurchaseLifecycle` | checked, proved |
| 2 | `Booking` | bookings, maintenance, vehicle status | `NoDoubleBooking` of an atomic calendar | checked, proved |
| 3 | `IdAllocation` | `CreateWithGeneratedID` of purchase and project | `OwnRow`: an insert that never lands on a row that is there | checked, proved |
| 4 | `Project` | create saga, edits, status, payment, refund; composes an abstract calendar, stock and ledger | `Balanced`: a project that holds what its usages say, or nothing | checked, proved |
| 5 | `KeyRing`, `Sessions` | rotation of signing keys; accounts, login, refresh, replay, logout, roles carried by a token | `SingleUse`: each token buys at most what was under way when it was spent | checked, proved |
| 6 | `Catalogue` | stock under row locks and edits without; the two sides of a supplier's links; purchases attached to suppliers | a counter (`NoChangeLost`), a relation kept twice (`SidesAgree`) | checked, proved |
| 7 | `Reports` | windows, bars, charts, panels and lists over a ledger and a table that change | the rows themselves, counted by their days | checked, proved |
| 8 | `Photos` | vehicles and the blob store | a photo per vehicle (`ShowsItsPhoto`) | checked, proved |

`MCParts` composes 5 to 8 for checking. Every property of a passing run is a theorem
but one: `ResourceCompletes`, which is about liveness. `Calendar` is the abstract
specification that `Booking` is proved to implement when Reserve calls do not overlap.

## 3. Modules and how they correspond to the code

`PROJECT.json` maps every definition to its lines. The conventions common to all:

- One action per database statement or call to another service. A handler's check and
  the read it rests on are its first action; its local variables are the record `req[r]`,
  whose `pc` says which statement comes next.
- `req[r].copy` is the Go struct that was read and changed in memory; `Save` writes it
  whole.
- A handler may stop before any statement (`Stop`, `Mishap`, `Halt`); a call may take
  effect although the handler sees a failure (`ReplyLost`, `CreateAssetFails`).
  `MaxFaults` (`MaxMishaps`, `MaxFailures`) bounds both.
- `history` (with `attempts`, `started` and `faults`; `past` and `annals` in later
  modules) is read by no guard that models code; it records what has happened so that
  properties can speak of it.
- Under the heading *Slips* each module keeps some of its definitions as a careless
  change to the code would leave them. They are no part of the specification: replacing
  the definition by its slip breaks a property, which shows that the property depends
  on that code.

### Purchase

`Purchase.tla` is one purchase after its insertion, with any number of requests on it
side by side: `AdvanceStatus`, `CancelStatus`, `ConfirmPayment` (status_service.go) and
`UpdatePurchase` (purchase_service.go). `advance` and `abandon` are the two status
machines with the roles that may take each step, `resolve` is the common check.
Completion goes through `deliver()`: `FindLinesFor` reads the live lines, `AddToDb`
credits the next line by name, `RegisterAsset` registers a vehicle under the plate the
operator typed, which `RegisterRefused` refuses if it is known. `Save`,
`ReportToLedger`, `AppendLog` are the writes in the order of the code.
`PurchaseLifecycle.tla` is what the service promises, each operation indivisible.

### Booking

`Booking.tla` is the asset service's calendar: `Reserve` and its two later statements,
`UpdateStatus`, `UpdateProjectStatus`, the loop `syncAssetStatus` after both
(`SyncAssetStatus`, `CountActiveReservations`, `SyncSave`, each skipped when it fails),
`CreateMaintenance` (`CheckReservationConflict`, `TakeOut`, `RecordJob`,
`ReportToFinance`), `Complete` (`FetchAsset`, `Release`, `SaveMaintenance`) and the
edits of a vehicle that write its status (`UpdateAsset`, `SetSupplier`, `DeleteAsset`).
`Calendar.tla` is what the bookings look like from outside: `Reserve` takes all the
vehicles it asks for in one step, if each is free during the whole period, or none; what is
held is otherwise only given up. `Held`, the vehicles and periods of the active bookings,
maps the one to the other.
Time is counted in half days, so that windows may touch and the one-day margin of
maintenance has an inside and an outside. `Found` is the soft delete.

### Id allocation

`IdAllocation.tla` is `CreateWithGeneratedID`, which the purchase and the project service
both have; the variable `service` says whose rows these are. A transaction is two
actions: `CountToday` reads the count (READ COMMITTED hides what others have not
committed), `Insert` or `Collide` inserts under the number that follows, and a collision
counts again with the next attempt, `MaxIDAttempts` times. `Midnight` moves the day: the
id has the day on which the request began, `created_date` the one of the first insert.
Only a project may be removed again (`EffectsFail`, `Delete`). `history` is in the
handlers here: `alone` says that no other creation or removal has touched the table
while this one ran.

### Project

`Project.tla` follows one project id. `AddProject` plans (`PlanSale` or
`PlanDistribution`, reads only), inserts row and usages (`Insert`), then takes the stock
line by line (`DeductStock`) or books the vehicles (`Reserve`); when that fails,
`ReturnStock` gives back the lines in `done` and `Delete` removes the row, so that the id
may be given out again. `UpdateProject` reads the present usages (`CurrentUsage`), plans
against them, then `Save`, `ReplaceUsage`, `AppendLog` and, best-effort, `Settle` for
each line that differs or `Release` and `Rebook` for the vehicles. `UpdateStatus` and
`UpdatePayment` are check, `Save`, `AppendLog` and then `Release` or `SyncLedger`.
`Skip` is a swallowed call that does not arrive; `EffectLost` is a call of `applyEffects`
that fails, with its effect or without. The calendar of the asset service is a set of
vehicles per project (`Booking` has its races), the stock of the resource service is
atomic (its changes are under a row lock), and the users that the model does not follow
change both at any time (`OthersUseStock`, `OthersUsePlates`). `drawn` is what has been
taken for this project; no service stores it, and the properties compare it with the
usages. A request lists an item or a vehicle once.

### Keys and sessions

`KeyRing.tla` is `pkg/auth`: the profile service signs with one private key
(`GenerateMulti`), every service verifies by itself with the list of public keys it was
started with (`Parse`), and a route asks for one of some roles (`Admitted`). `AcceptNext`,
`SwitchKey` and `DropKey` are the three deployments of a rotation in the order for which
the verifier takes a list; who deploys is outside the repository. A clock counts in units
of which a token lives `AccessTTL`.

`Sessions.tla` adds the profile service's `user_service.go`. `Login` finds the account,
`ReadRoles` its roles, `Issue` saves a refresh token with them and hands out both tokens.
`Refresh` reads the token and judges it as read (`Judged`): one that is revoked leads to
`RevokeAllFor`, a usable one to `Spend` and `Issue`, whether or not `Spend` was the one to
revoke it. `AddUser` and `EnsureAdmin` are `Create` and then `ReplaceRoles`, `UpdateUser`
is `Save` and then `ReplaceRoles` if roles were named. A token is known by the number of
the request it was issued to, so that "asked for before" is a comparison of numbers. A key
is changed in the profile service only while it has no request (`Restarted`): another
list of keys is another process, which begins when the one before it has drained.

### Catalogue

`Catalogue.tla` is the resource service and the suppliers of the profile service.
`ChangeStock`, `Lock`, `Write` are `UpdateStock`, which holds the row from its read on;
`AddStockToDB` is the same without the check that the amount is positive, so `StockUpdate`
may be any integers, and an addition is never refused. `EditItem` and `SaveItem` are `UpdateResource`, which does not, and waits only for the row
to be let go. `AddResource` inserts an item with its first supplier, if the name is still
new (`CreateWithSupplier`); that there is such a supplier is not asked, and a new one gets
an id that no request has named (`Unused`). `AddSupplier` and `UpdateSupplier` validate the items against
the catalogue, save (`CreateSupplier`, `SaveSupplier` with the collections that `FindByID`
did not load), and have the resource service `Compare` and then `Unlink` and `LinkExisting`
one link at a time. `AddPurchase` and `AttachToSupplier` are the purchase service's
committed purchase and the best-effort call that lists it with its supplier. `past.torn`
holds the suppliers whose sides were written by two requests at a time or by one that was
cut short, `past.takenBack` what `addToDb` took from each stock by adding less than nothing.

### Reports

`Reports.tla` has days as numbers and months and years over them, leap days included.
`RangeWindow`, `SummaryWindows`, `Periods` and `WeekLabel` are `pkg/reporting`, with
`AddDate` as Go computes it (a day that a month does not have runs into the next);
`PeriodOf` is what `to_char` and `date_trunc` make of a row. `ActivityLine`,
`SummaryByRange` and `ListByRange` count projects and purchases; `IncomeExpenseChart`,
`ExpenseChart` and `FinancialSummary` add up the ledger with its NULLs. The actions are
what the reports are about: days pass, rows are submitted and settled, ledger entries are
recorded, replaced and removed.

### Photos

`Photos.tla` is the asset register with its blob store. `AddAsset` is `Put`, `CreateAsset`
and, when the insert is refused or fails, `Discard`; `DeleteAsset` is `SoftDelete` and
`Discard`; `UpdateAsset`, which stands for `SetSupplier` too, saves the row it has read
(`SaveVehicle`). `annals` records for which plates two registrations were at work on one
key, which a late save brought back, and which were inserted although `AddAsset` saw a
failure.

### Parts

`MCParts.tla` runs `Sessions`, `Catalogue`, `Reports` and `Photos` in one run: they share
no table, and each behaviour is one of any of them while the others stand still.

## 4. Runs

| run | instance | shows |
|---|---|---|
| `purchase_overlap` | two requests at once, both types, one line, two plates, roles Finance and Operasional, two deliveries, one fault | the invariants that must survive overlapping whole-row writes: a completed purchase was delivered, paid only in motion, approved first, no ledger entry that was not confirmed, stock never ahead of deliveries, audit trail complete |
| `purchase_serial` | one request at a time, every role, both types, every order of two items, three deliveries, two faults, fairness | the service implements `PurchaseLifecycle`; each line is delivered exactly once when nothing fails; the price is that of the live lines; a resource purchase in process ends |
| `purchase_reopened` (violated) | two requests, no faults | a terminal status can be left: a stale `Save` puts the earlier status back |
| `purchase_credited_twice` (violated) | one request, two lines, one fault | a retried delivery credits the first lines again |
| `booking` | two requests at once, one vehicle, one project, three windows, four requests, one fault | the calendar is clear unless two Reserve calls overlap or an ended booking is revived; a vehicle returns to the pool; it is in the workshop only with an open job |
| `double_booking` (violated) | two requests, no faults | two Reserve calls side by side book one vehicle twice |
| `workshop_left` (violated) | one request at a time, no faults | a vehicle leaves the workshop while its job is open, when a booking starts and ends in the meantime |
| `id_allocation` | two requests at once, four creations, both services, two kinds of id, two attempts, one midnight | no creation lands on another's row or removes it; a purchase that nobody disturbs gets an id |
| `project` | two requests of which one may overlap the other, four requests, two items, of each either one or one less than nothing, one vehicle, one fault | one after the other: stock, bookings, usages and ledger agree, and an edit never holds more or less than before or after; overlapping, with faults: rows are those the transitions allow, undoing gives back only what was taken |
| `stock_inflated` (violated) | one request at a time, one item, no faults | an edit that is refused its stock, and the edit after it, return what was never taken |
| `parts` | sessions: two accounts, two names, two services, four requests of which one may overlap another (three if one of them fails or the clock ticks), two keys, one tick; catalogue: two items, one supplier, one purchase, three requests of which two may overlap, one fault; reports: two rows, two ledger entries, two writes, on 31 December 2023, 1 January, 1 March and 1 October 2024; photos: two plates, two types, two images, three requests, one fault | refresh tokens are single-use and end with a replay, roles are those of the login and of the last edit, a rotation cuts nobody off; no deduction takes more out of a stock than there is and no change is lost, both sides of a supplier agree unless torn; bars, lists, panels and summaries tell the same and compare like with like; a vehicle shows its own photo and none is left behind |
| `links_lost` (violated) | two handlers one after the other, three requests, no faults | an edit of a supplier deletes the purchases listed with it |

**Bounds.** Two requests are enough for a check to be overtaken by a write, which is
every race of this code: each handler has at most one window between its read and its
write, and a third handler can only do what one of the two could do again. Items: the
delivery loop fails before, between or after lines with two of them. Two plates let the
operator answer a refused plate. Four requests take a project through creation, payment,
cancellation and refund; `MaxOverlaps` lets one of them overlap another (a creation and
an edit, two saves). Three windows give a pair that touches, one that
overlaps nothing, and one in the middle. `MaxAttempts` is the deliveries in a purchase's
life, `MaxRequests` the requests handled, `MaxFaults` the failed or lost calls: one
interrupts a handler anywhere, the second (`purchase_serial`) interrupts its retry. In
`parts` a behaviour of the sessions in which something fails or the clock ticks has a request
less (`EventForRequest`): four requests are a login, two exchanges of one token and the replay
that condemns it, which need neither. A behaviour of the reports has rows or entries
(`RowsOrEntries`), since no report looks at both. The days of the reports are the edges of the calendar: the last
day of a year and the first, the day after a leap day, the first of a quarter, months that
begin on and within a week, in a calendar of 2020 to 2025; two rows or entries are enough for one to be counted and the
other missed. `Level` and `Quantity` are one, `StockUpdate` one and minus one, and a project
begins with stocks of one or minus one (`stock_inflated`: none or one): what matters is a stock
that does not suffice, and one that is below zero. The proofs below need none of these bounds.

**Deadlock** is not checked: a purchase that is completed and paid, and a bounded number
of requests, really leave nothing to do.

**Fairness** is assumed in `FairSpec` of `Purchase` only. `WF_vars(Continue(r))`: a
running handler goes on, since each statement and call it waits for ends within the
client's timeout or with an error. `SF_vars(Retry(r))`: somebody keeps asking to
complete a purchase that is still in `Diproses`; no code does so, it is the operator on
whom the error path of `AdvanceStatus` relies, and the property is about what the
service then does. Faults are finitely many (`MaxFaults`). Strong fairness is needed
because a handler of another kind keeps disabling `Retry(r)` on the same slot.

## 5. Proofs

`PurchaseProofs.tla`, `BookingProofs.tla`, `IdAllocationProofs.tla`, `ProjectProofs.tla`,
`SessionsProofs.tla`, `CatalogueProofs.tla`, `ReportsProofs.tla` and `PartsProofs.tla` are
checked by TLAPS for every value of the constants: any number of concurrent requests, items,
vehicles, windows, services, keys, entries, rows and faults. They use the assumptions named
in the modules (`ItemAssumption`, `WindowAssumption`, ...) and no other; each is the type of
a constant. The calendar of the reports is the Gregorian one from any `MinYear` to any
`MaxYear`, and `DayAssumption` has their days begin three years into it, as far as a report
looks back, and end before its last year, into which the last week may run.

**Purchase.** `SelesaiDelivered` and the other invariants are not inductive: they speak
of the row, and the row is overwritten by copies made long before. `IInv` adds that
*every copy a handler may still write is sound*: `SoundRow` of the copy for a handler
about to save, `Delivering` for one on its way to `Selesai` (what it has credited is in
stock; everything but the delivery is in order). It is preserved because what a handler
has checked or delivered is recorded in state that only grows (`history`, `credited`,
`registered`), so soundness of a copy cannot be lost however long the handler waits
(lemmas `RowStays`, `HandlerStays`). `TerminalIsFinal` is not provable, and false: `Save`
may put back an earlier status, yet only one that was sound.
With one request at a time every copy is also *fresh*, one legal step from the row it
will replace (`Fresh`); from that, the specification implements `PurchaseLifecycle`
(`SerialRefinement`).
Two more invariants hold under any overlap. `AuditInv` says that, without a fault, what
the row shows or a copy will write is in the log, was saved by a handler that has still to
log it, or is the act of the handler that holds the copy; a handler that has saved always
goes on to log (`RecordedStays`), hence `TrailIsComplete`. `CreditInv` counts the
deliveries that may still credit a line (`Owing`): credits made and owed together never
exceed the deliveries started, hence `CreditedOncePerDelivery`. `OverlapInv` is the three
together, checked in `purchase_overlap`.
One request at a time and without a fault, `SerialInv` says at each stage of a handler
which lines have been credited (`Given`) and whose price the row and the copy show; with
`Fresh` it gives `DeliveryIsExact` and `PriceIsOfLines`.

**Booking.** `IInv` is typing, keys and `CalendarInv`: without overlapping Reserve calls
and revived bookings, a Reserve that found no overlap still finds none when it inserts,
as only it can add a live booking, and a booking that is saved late differs from the
stored one in nothing but its status, which is not made live. `CalendarStaysClear` follows.
`VehicleInv` is about requests that come one after the other, without a fault. What the
handler at work has read is still so (`SeesBookings`, `SeesVehicle`, `SeesJobs`), and a
vehicle that waits for something waits for that handler: shown in use, it has a live
booking or is among those the handler will return (`Returns`); in the workshop, it has an
open job or the handler is about to record one (`Records`). Jobs need ids of their own
(`JobInv`), as closing one must leave the others open. The proof goes by groups of
statements (`SyncVehicle`, `WorkshopVehicle`, `EditVehicle`, ...) for the one handler at
work (`AtWork`). Theorems: `BookingIsSound` (`BookingInv` is both invariants),
`CalendarStaysClear`, `VehiclesComeBack`, `WorkshopIsForJobs`.
`BookingsKeepCalendar` is the refinement of `Calendar` step by step: `KeepsCalendar` says that
every step after which no Reserve calls have overlapped and no ended booking was revived
(`Calm`) is one of `Calendar` or changes nothing there. The step that matters is
`CreateReservations`, whose check was made an action earlier: that the vehicles are still free is
`CalendarInv`. `Calm` can only be lost, so a behaviour that stays calm implements the whole of
`Calendar` (`CalmImplementsCalendar`); `double_booking` shows that the proviso is needed.

**Id allocation.** `OwnRow` needs that each handler has an identity of its own and each row
is inserted by one. `AloneSucceeds` needs to know how far numbers may run ahead of the
count: `Within` says that no number of a day reaches the count of that day plus the
attempts allowed, and it is preserved because the number a handler is about to insert
(`Numbered`) was computed from a count that has only grown since. From the count it has
just read, a handler that is alone therefore comes to a free number before its attempts
run out. The proof goes handler by handler (`Parts`), as each action moves one and
disturbs the others. Theorems: `Inductive`, `RowsAreOwn`, `AloneGetsAnId`.

**Project.** `RefundedIsCancelled` and `FinishedWasBegun` speak of a row that stale copies
overwrite, so `IInv` asks the same of every copy (`SoundRow`); it survives because a
transition is checked against a sound row and changes one of the two columns.
`NothingOverReturned` needs that creations come one at a time and that `drawn` covers
every line one of them has in `done`, or, while undoing, has left to return (`Covered`);
edits are excluded by `history.settled`, since `NotInflated` is false with them.
`Balanced`, `NetDelta` and `LedgerAgrees` are about requests that come one after the other,
without a fault. They speak of the moments between requests, and of one statement of an
edit; `SerialInv` says what holds at *every* statement of the handler at work (`At`): which
copy and which usages it has in hand and how they relate to the stored ones (`RowAt`,
`UsageAt`), how far the stock that the project has drawn is from the usages, line by line,
before and after the lines already settled or returned (`DrawnAt`), which vehicles are booked
(`BookedAt`), and what finance has still to be told (`LedgerAt`). `At(Idle)` is what holds
between requests. The part about rows and ledger survives edits whose stock was refused, the
part about stock does not (that is `stock_inflated`), hence `Undisturbed` in one property and
not in the other. The proof goes statement by statement (`PlanSaleAt`, `DeductStockAt`,
`SettleAt`, ...), and one lemma carries each of them over to the other handlers, which are
idle (`SeriallyKeeps`). `ProjectInv` is `IInv` and `SerialInv` together. Theorems:
`Inductive`, `RefundsAreOfCancelled`, `FinishedAreBegun`, `UndoIsExact`, `ProjectIsSound`,
`NothingIsLost` (`Balanced`), `EachItemOnce` (`NetDelta`), `LedgerIsOfPaid` (`LedgerAgrees`).

**Sessions.** `SingleUse` alone is not inductive: it must know that a handler which is
still to exchange a token read it before it was revoked. `HandlerInv` says so with the
handler's number (`h.n <= tokens[t].revoked`), which is kept because a revocation takes the
number of requests begun so far and is never overwritten (`Revoked`); `TokenInv` adds that
what a replay condemned was revoked by then, from which `ReplayEndsFamily` follows. A
handler's number is its own and free (`NumberIsFree`), so an issued token replaces none.
`RolesAsAsked` needs `AccountInv`: an account that was never edited twice at once has one
handler at work on it, the row it will write or grant to is there (`Staged`), and while no
grant is under way the roles are those asked for last.
For the keys, `RingInv` says that a token of an earlier key was signed before the switch,
so that it has expired when `MayDrop` holds. Theorems: `SessionsInOrder`,
`TokensAreSingleUse`, `ReplayLogsOut`, `RolesAreOfTheLogin`, `KeysRotateUnnoticed`,
`RolesAreAsAsked`.

**Catalogue.** `NeverOverdrawn` and `NoChangeLost` follow from `HolderInv`: whoever is
about to write a stock holds its row, and what it has read is still there, since an edit
waits for the holder. A stock may be below zero, since `addToDb` takes any amount;
`NeverOverdrawn` says that it is so by what `addToDb` took and by nothing else, as a deduction
never leaves less than nothing. `SidesAgree` needs `LinkInv`, which says of a handler between two
calls that the links there are, less those it will drop, with those it will add, are the
items it was asked for; it is kept as long as the supplier has one such handler. Theorems:
`CatalogueInOrder`, `StockStaysThere`, `ChangesAreKept`, `BothSidesAgree`. `HolderInv` also
rules out deadlock on the rows read FOR UPDATE (`NobodyWaitsForEver`): whoever waits for a
row waits for a handler that holds just that one, and that handler waits for nobody, its next
statement being the write that lets go.

**Reports.** `ReportsInv`, the inductive invariant, is short: the types, finitely many
entries and rows in use, entries with the sums that services send for their types, nothing
submitted on a day to come. The work is in what the definitions compute, which no invariant
says, and it is done in four layers.
*Sums*: the folds that add up a set are shown to have a value (`FoldExists`), whichever
element is taken first (`SumStep`), to split over disjoint sets (`SumUnion`), and to come to
the same when they are taken group by group (`SumOfGroups`), counting included
(`CountIsSum`). Each is an induction over finite sets, which `SubsetInduction` states with a
set of subsets in place of a predicate, and so within the prover's reach.
*The calendar*: every month has 28 to 31 days, December 31, and only February another length
than a year before (`MonthLength`), counting the leap years (`YearLength`); the first
days of months are in order (`StartsOrdered`, by a least counterexample: `LeastNumber`), and
every day lies in one month, which `MonthAt` finds (`MonthAtIs`).
*Windows*: the windows of a summary are whole months, quarters or years
(`SummaryWindowsAre`); moving both ends of one by a year, as `YearBefore` does, gives a whole
one again because it never ends in February (`YearBeforeIs`).
*Bars*: every day of a window has one among finitely many bars (`EveryDayHasABar`), be it
that the week of a day begins in the month before. With `ChartAddsUp` the groups of the
database then add up to the rows of the window, and what the other pieces of code count or
add up are the same rows, up to the ends of the window. Theorems: `ReportsSound`,
`SummariesCompareLikeWithLike`, `ChartsAddUp`, `CountsAgree`, `PanelsAgree`.

**Photos.** `ShowsItsPhoto` needs three things of the handlers: two of them at work on
one key of a plate without a row have raced (`AloneInv`), what is about to be named is
stored (`PutInv`), and nobody is about to touch the photo of a vehicle (`PhotoInv`). A key
belongs to one plate (`KeysInv`), so no other plate's handlers matter. For
`NothingLeftBehind`, `LeftInv` says that without a failure each photo that is stored is
named by a vehicle or in the hand of a handler about to name it or discard it. Theorems,
in `PartsProofs.tla`: `PhotosInOrder`, `PhotosAreShown`, `NothingIsLeft`.

**Parts.** `PartsInOrder` is `PartsInv` for `PartsSpec`, the four parts side by side. A
behaviour is one of one part from beginning to end (`part` never changes), so the invariants
of that part are kept by its own steps, as proved in its module, and nothing is said of the
others, which stand still.

**Handlers come to an end.** What can be proved of progress without fairness is that there
is a measure. `HandlersEnd` (`Purchase`, `Project`, `Booking`), `JobsEnd` (`Catalogue`) and
`CreationsEnd` (`IdAllocation`) say of every handler that each statement and call of its own
brings it closer to its answer, at a later `Stage`, or with a line, vehicle, link or attempt
less before it at the same one, and that nobody else sets it back. The lists are those of
one request and therefore finite, and the attempts are bounded, so a handler that goes on
ends, whatever the others write and whatever fails: no loop of the code can go round for
ever on rows that others keep changing. Stages alone are not enough where a loop passes
through several statements: the loop over the vehicles of a project reads, counts and saves
for each (`PlateInv`: the one being worked on is among those left), and a creation counts again
after a collision (`AttemptInv`: the attempt is within the bound). Theorems:
`HandlersComeToAnEnd` (three), `JobsComeToAnEnd`, `CreationsComeToAnEnd`.

TLC checks these invariants in the run `parts` (`PartsInv`), as it does the others in
their runs; `SerialInv` and `Fresh` of `Purchase` are the exceptions, being used for the
proofs alone.

TLC confirms `KeepsCalendar`, `HandlersEnd`, `JobsEnd`, `CreationsEnd` and
`WritersDoNotWait` when they are added as PROPERTY or INVARIANT to the configurations of
`booking`, `purchase_overlap`, `project`, `id_allocation` and, for the catalogue, to one
that gives `MCCatalogue` the values of `parts`; as theorems they need no run of their own.

Model-checked only: liveness (`ResourceCompletes`), which needs ENABLED and fairness that
the prover does not handle. The library's induction theorems and recursive operators are out of the
prover's reach; no module has a recursive operator, and where data calls for induction
(sums) it is by `SubsetInduction`.

## 6. Where code and comments disagree

The violated runs each quote a comment or document in `PROJECT.json` under
`findings`. Seen in the models and reported here without a run of their own:

- A payment can be lost: a status change that read the row before the payment saves it
  unpaid (`PaymentIsKept` is false with two requests); the ledger keeps the entry.
- Two edits side by side can leave the lines of one and the price of the other
  (`PriceOfLines` is false with two requests).
- An asset purchase whose `addAsset` reply is lost cannot be completed under that plate
  (`Completes` is false with one plate and a fault).
- `MaintenanceService.Complete` returns a vehicle to `Tersedia` whatever it is doing. A job
  whose insertion fails leaves its vehicle in the workshop with no job to complete
  (`maintenance_service.go:66`); `WorkshopHasJob` is asked without faults.
- `SetSupplier` and `UpdateAsset` save the row they read, so that the status of a vehicle can
  be put back to what it was before a booking or a job; `ReturnedToPool` and
  `WorkshopHasJob` are asked of requests that follow one another.
- A handler that stops between saving a purchase and logging it leaves a status that no
  entry explains; `AuditComplete` is asked without faults.
- An account whose creation or edit stops before `ReplaceRoles` has other roles than were
  asked for; `RolesAsAsked` excepts it.
- A lone creation can collide: a race leaves a number ahead of the count, and the next
  creation, with nobody else there, counts up to it. The comment at
  `purchase_repository.go:129-131` says that a collision takes two creates in the same
  millisecond window. Likewise an asset and a resource purchase that race can share one
  NNN, which lines 146-148 call one sequence.
- `AloneSucceeds` is false of projects: failed ones are hard-deleted, so that the count
  can fall behind by more than the attempts allowed. The id of a removed project is given
  out again, with whatever was left under it (a booking whose reply was lost).
- A payment is allowed again after a refund; `checkPaymentTransition` says that it
  "allows a payment once".
- A project cancelled between its insertion and its reservation keeps the vehicles, since
  nothing had been reserved when they were released; with overlap and no fault, `Balanced`
  is false. So is `LedgerAgrees`: a project paid before its effects failed is removed and
  keeps its ledger entry.
- Direksi may edit a project but not change stock or bookings, so the settlement of such
  an edit is always refused, and the refusal is only logged.
- A plate listed twice in one Reserve is booked twice: neither service removes
  duplicates.
- Two exchanges of one refresh token under way at once both succeed
  (`services/profile/internal/service/user_service.go:154` ignores whether it was the one
  to revoke it), though the comment at line 129 calls tokens single-use; `SingleUse` says
  that it takes such an overlap. For the same reason a token issued by an exchange that began
  before a replay outlives it.
- A stock can go below zero: `AddStockToDB` adds any amount, as its comment says
  (`services/resource/internal/service/resource_service.go:146-148`) and
  `resource_service_test.go:50-52` pins, so this is no disagreement, although the other two
  routes refuse an amount that is not positive. The models allow it (`NeverOverdrawn`,
  `StockLevel`).
- `UpdateResource` sets a stock without the lock that the other changes take, so it
  replaces whatever was committed since its user looked; `MIGRATION.md:395` says "Stock
  changes are always under a row lock".
- `AddResource` links an item to its first supplier on the side of the catalogue only; the
  profile service does not list it with the supplier, and the next edit of the supplier
  removes the link (`past.extra`).
- The list of purchases of a range includes those of the day after it
  (`CountsTellTheSame`), which for `LAST_YEAR` are the first of this year.
- A window ends at 23:59:59.0, so that what is recorded in the last second of a period,
  after that instant, is in no report although `EndOfDay` promises "everything recorded
  on the final date".
- Of two registrations of one plate, the loser removes the photo that the winner shows
  (`services/asset/internal/service/asset_service.go:185-188`); an edit that read a
  vehicle before its deletion brings it back, without its photo.

By reading only, without a model: the combined activity chart asks the purchase service
with `status=` where that reads `statusFilter`, so it always fails, and the roles it asks under
differ from those of its own route; the list by range of projects selects by the days a
project runs and not by when it was recorded; `ProfileHandler.Add` is called public and is
reached by Admin alone.

## 7. Not modelled

- Requests, responses, validation of form fields, wording and formatting; passwords,
  e-mail addresses and signatures, which are taken to be sound.
- Details, lists, paging and the fan-out that collects names or projects for a list: they
  read only. Each worker of the fan-out writes one entry under a mutex and gives its
  place back when it ends, and every call it waits for ends within the client's timeout.
- Clients: single rows that refer to nothing. Staged vehicles, a row and a photo under a
  random key, are inputs of `Purchase`.
- Of the reports: the combined activity chart, percentage changes, the list by range of
  projects. Services and database are taken to be in one time zone.
- Sizes: a stock, a price or a quantity past the range of its column is a statement that
  the database refuses, which the modules have as a failed one.
- `DeleteExpired` and `FindByUsername`, which no handler calls; the asset links of a
  supplier, which nothing writes. A purchase that changes its supplier stays listed with
  the one before as well, since only `AddPurchase` attaches.
- Database set-up, configuration, metrics, and the template service, a scaffold.

A service or a database that is restarted between two statements is a handler that stops
between them (`Stop`, `Mishap`, `Halt`), since nothing of a request in progress is kept;
loss of committed data is not considered.

## 8. How to run

    tlc -config booking.cfg MCBooking.tla
    tlc -config parts.cfg MCParts.tla        (about two minutes)
    tlapm ReportsProofs.tla

Each run's module and configuration are listed in `PROJECT.json`.
