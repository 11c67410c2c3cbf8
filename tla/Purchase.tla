------------------------------ MODULE Purchase ------------------------------
(***************************************************************************)
(* The life of one purchase in the purchase service, after AddPurchase has *)
(* inserted it: the requests /updatestatus/next, /updatestatus/cancel,     *)
(* /updatestatus/pembayaran and /update, as they run side by side.         *)
(*                                                                         *)
(* A handler reads the row, checks it, calls other services and writes the *)
(* WHOLE row back (GORM's Save) with no lock, no version column and no     *)
(* transaction around the three.  Each database statement and each call to *)
(* another service is one action here, and any other request may run in    *)
(* between.  A call may take effect and still be reported as an error (the *)
(* client's 5s timeout), and a handler may stop at any point (a refused    *)
(* call, a database error, a cancelled context, a crash): it never undoes  *)
(* anything.                                                               *)
(*                                                                         *)
(* Abstracted: a line item is one unit of a resource; the price of an      *)
(* order is named by the set of lines it was computed from; notes, dates,  *)
(* suppliers and messages are left out.                                    *)
(***************************************************************************)
EXTENDS Integers, FiniteSets

CONSTANTS
  Request,       \* the handlers that may be running at the same time
  Item,          \* catalogue items, numbered in the order of their names
  Order,         \* the sets of lines a resource purchase may have
  Plate,         \* the plates an operator may type when an asset arrives
  Kind,          \* the types the purchase may have been created with
  Role,          \* the roles of the users who send requests
  MaxAttempts,   \* bound: deliveries started over the purchase's life
  MaxFaults      \* bound: failed calls, lost replies and stopped handlers

ASSUME ItemAssumption == Item \subseteq Int
ASSUME OrderAssumption == Order \subseteq (SUBSET Item) \ {{}}
ASSUME KindAssumption == Kind \subseteq {"Resource", "Aset"}
ASSUME RoleAssumption == Role \subseteq {"Direksi", "Finance", "Operasional", "Admin"}
ASSUME BoundAssumption == MaxAttempts \in Nat /\ MaxFaults \in Nat

VARIABLES
  purchase,    \* the row of the purchases table
  lines,       \* its live rows in resource_temps
  log,         \* its rows in log_purchases, by the action they record
  credited,    \* units of each item added to the resource service's stock
  registered,  \* plates of the assets registered for this purchase
  ledger,      \* the finance service's entry for it, {} or {the amount}
  req,         \* the running handlers
  attempts,    \* deliveries started
  faults,      \* faults so far
  history      \* what has really happened; read by no handler

vars == <<purchase, lines, log, credited, registered, ledger, req,
          attempts, faults, history>>

Status   == {"Diajukan", "Disetujui", "Diproses", "Selesai", "Dibatalkan", "Ditolak"}
Terminal == {"Selesai", "Dibatalkan", "Ditolak"}
Price    == SUBSET Item                   \* {} is the price of a staged asset
Row      == [kind : {"Resource", "Aset"}, status : Status, paid : BOOLEAN, price : Price]
Action   == Status \cup {"bayar", "edit"} \* what a log entry says was done

(* A step of a status machine: where it leads and who may take it.         *)
Step(to, allowed) == [to |-> to, allowed |-> allowed]

(* A handler: where it is, the row as it will be saved, the role it runs   *)
(* under, the action it will log, the lines it works on and those still to *)
(* be credited.                                                            *)
PC == {"idle", "deliver", "credit", "lines", "save", "ledger", "log"}
Caller == Role \cup {"none"}
Handler == [pc : PC, role : Caller, act : Action, copy : Row,
            order : Price, todo : Price]

Idle == [pc |-> "idle", role |-> "none", act |-> "edit",
         copy |-> [kind |-> "Resource", status |-> "Diajukan", paid |-> FALSE, price |-> {}],
         order |-> {}, todo |-> {}]

History == [approvedBy : SUBSET Caller,   \* who saved an approval
            delivered  : SUBSET Price,    \* orders delivered to the last line
            confirmed  : SUBSET Price]    \* amounts saved as paid

Init ==
  /\ \E kind \in Kind :
       /\ lines \in IF kind = "Resource" THEN Order ELSE {{}}
       /\ purchase = [kind |-> kind, status |-> "Diajukan", paid |-> FALSE, price |-> lines]
  /\ log = {}
  /\ credited = [i \in Item |-> 0]
  /\ registered = {}
  /\ ledger = {}
  /\ req = [r \in Request |-> Idle]
  /\ attempts = 0
  /\ faults = 0
  /\ history = [approvedBy |-> {}, delivered |-> {}, confirmed |-> {}]

-----------------------------------------------------------------------------
(* How every handler begins, and how one goes on.                          *)

Start(r, pc, role, act, copy, order) ==
  /\ req[r].pc = "idle"
  /\ req' = [req EXCEPT ![r] = [pc |-> pc, role |-> role, act |-> act,
                                copy |-> copy, order |-> order, todo |-> {}]]
  /\ UNCHANGED <<purchase, lines, log, credited, registered, ledger, faults, history>>

Goto(r, pc) == req' = [req EXCEPT ![r].pc = pc]

-----------------------------------------------------------------------------
(* Slips: definitions of this module as a careless change to the code would *)
(* leave them.  None is part of the specification; each breaks a property.  *)

(* approval without separation of duties *)
advanceAnyone ==
  [s \in Status \ Terminal |->
     CASE s = "Diajukan"  -> Step("Disetujui", Role)
       [] s = "Disetujui" -> Step("Diproses", Role)
       [] s = "Diproses"  -> Step("Selesai", Role)]

(* the role check left to the router *)
resolveOpen(machine, role) == purchase.status \notin Terminal

(* a payment confirmed whatever the status *)
PayAnyStatus(r, role) ==
  /\ ~purchase.paid
  /\ role = "Finance"
  /\ Start(r, "save", role, "bayar", [purchase EXCEPT !.paid = TRUE], {})
  /\ UNCHANGED attempts

(* the ledger posted first, and the row never saved *)
PayLedgerFirst(r, role) ==
  /\ ~purchase.paid
  /\ purchase.status \in {"Diproses", "Selesai"}
  /\ role = "Finance"
  /\ Start(r, "ledger", role, "bayar", [purchase EXCEPT !.paid = TRUE], {})
  /\ UNCHANGED attempts

(* an edit that builds the row from the form, without its payment *)
EditUnpays(r, role, order) ==
  /\ purchase.status \notin Terminal
  /\ purchase.kind = "Resource" /\ order \in Order
  /\ Start(r, "lines", role, "edit",
           [purchase EXCEPT !.price = order, !.paid = FALSE], order)
  /\ UNCHANGED attempts

(* the lines of every purchase *)
FindAnyLines(r) ==
  /\ req[r].pc = "deliver" /\ req[r].copy.kind = "Resource"
  /\ req' = [req EXCEPT ![r].pc = "credit", ![r].order = lines, ![r].todo = Item]
  /\ UNCHANGED <<purchase, lines, log, credited, registered, ledger,
                 attempts, faults, history>>

(* lines that cannot be read taken for no lines *)
FindNoLines(r) ==
  /\ req[r].pc = "deliver" /\ req[r].copy.kind = "Resource"
  /\ Goto(r, "save")
  /\ UNCHANGED <<purchase, lines, log, credited, registered, ledger,
                 attempts, faults, history>>

(* stock deducted instead of added *)
DeductLine(r, i) ==
  /\ req[r].pc = "credit"
  /\ i \in req[r].todo
  /\ \A j \in req[r].todo : i <= j
  /\ credited' = [credited EXCEPT ![i] = @ - 1]

(* the client sends the same line again *)
SendAgain(r) ==
  /\ req[r].pc = "credit"
  /\ \E i \in req[r].todo : credited' = [credited EXCEPT ![i] = @ + 1]
  /\ UNCHANGED <<purchase, lines, log, registered, ledger, req,
                 attempts, faults, history>>

(* delivered, and not saved *)
CreditedUnsaved(r) ==
  /\ req[r].pc = "credit" /\ req[r].todo = {}
  /\ req' = [req EXCEPT ![r] = Idle]
  /\ history' = [history EXCEPT !.delivered = @ \cup {req[r].order}]
  /\ UNCHANGED <<purchase, lines, log, credited, registered, ledger, attempts, faults>>

(* any failure of addAsset taken for an asset that is already there *)
RegisterSkipped(r) ==
  /\ req[r].pc = "deliver" /\ req[r].copy.kind = "Aset"
  /\ Goto(r, "save")
  /\ UNCHANGED <<purchase, lines, log, credited, registered, ledger,
                 attempts, faults, history>>

(* new lines inserted, the old ones kept *)
AddLines(r) ==
  /\ req[r].pc = "lines"
  /\ lines' = lines \cup req[r].order
  /\ Goto(r, "save")
  /\ UNCHANGED <<purchase, log, credited, registered, ledger, attempts, faults, history>>

(* only changes of status logged *)
LogStatusOnly(r) ==
  /\ req[r].pc = "log"
  /\ log' = log \cup ({req[r].act} \ {"bayar"})
  /\ req' = [req EXCEPT ![r] = Idle]
  /\ UNCHANGED <<purchase, lines, credited, registered, ledger,
                 attempts, faults, history>>

-----------------------------------------------------------------------------
(* The status machines, and the checks a handler makes on the row it reads. *)

advance ==
  [s \in Status \ Terminal |->
     CASE s = "Diajukan"  -> Step("Disetujui", {"Direksi", "Finance"})
       [] s = "Disetujui" -> Step("Diproses", {"Operasional", "Admin"})
       [] s = "Diproses"  -> Step("Selesai", {"Operasional", "Admin"})]

abandon ==
  [s \in Status \ Terminal |->
     CASE s = "Diajukan"  -> Step("Ditolak", {"Direksi", "Finance"})
       [] s = "Disetujui" -> Step("Dibatalkan", {"Operasional", "Admin"})
       [] s = "Diproses"  -> Step("Dibatalkan", {"Operasional"})]

(* resolve() for one of the two machines: the row must be open and the     *)
(* caller's role one that may take the step from its status.               *)
resolve(machine, role) ==
  /\ purchase.status \notin Terminal
  /\ role \in machine[purchase.status].allowed

AdvanceStatus(r, role) ==
  /\ resolve(advance, role)
  /\ LET to == advance[purchase.status].to
         completes == to = "Selesai"
     IN /\ completes => attempts < MaxAttempts
        /\ attempts' = IF completes THEN attempts + 1 ELSE attempts
        /\ Start(r, IF completes THEN "deliver" ELSE "save", role, to,
                 [purchase EXCEPT !.status = to], {})

CancelStatus(r, role) ==
  /\ resolve(abandon, role)
  /\ LET to == abandon[purchase.status].to
     IN Start(r, "save", role, to, [purchase EXCEPT !.status = to], {})
  /\ UNCHANGED attempts

ConfirmPayment(r, role) ==
  /\ ~purchase.paid
  /\ purchase.status \notin {"Dibatalkan", "Diajukan", "Disetujui", "Ditolak"}
  /\ role = "Finance"
  /\ Start(r, "save", role, "bayar", [purchase EXCEPT !.paid = TRUE], {})
  /\ UNCHANGED attempts

(* A resource purchase is given new lines and their total; the price of an *)
(* asset purchase is fixed and lines are refused.                          *)
UpdatePurchase(r, role, order) ==
  /\ role \in {"Operasional", "Admin"}
  /\ purchase.status \notin Terminal
  /\ \/ /\ purchase.kind = "Resource" /\ order \in Order
        /\ Start(r, "lines", role, "edit", [purchase EXCEPT !.price = order], order)
     \/ /\ purchase.kind = "Aset" /\ order = {}
        /\ Start(r, "save", role, "edit", purchase, {})
  /\ UNCHANGED attempts

-----------------------------------------------------------------------------
(* deliver(): what was bought goes to the service that owns it.            *)

FindLinesFor(r) ==
  /\ req[r].pc = "deliver" /\ req[r].copy.kind = "Resource"
  /\ req' = [req EXCEPT ![r].pc = "credit", ![r].order = lines, ![r].todo = lines]
  /\ UNCHANGED <<purchase, lines, log, credited, registered, ledger,
                 attempts, faults, history>>

(* PUT /resource/addToDb for the next line by name.                        *)
NextLine(r, i) ==
  /\ req[r].pc = "credit"
  /\ i \in req[r].todo
  /\ \A j \in req[r].todo : i <= j
  /\ credited' = [credited EXCEPT ![i] = @ + 1]

AddToDb(r) ==
  /\ \E i \in Item :
       /\ NextLine(r, i)
       /\ req' = [req EXCEPT ![r].todo = @ \ {i}]
  /\ UNCHANGED <<purchase, lines, log, registered, ledger, attempts, faults, history>>

AllCredited(r) ==
  /\ req[r].pc = "credit" /\ req[r].todo = {}
  /\ Goto(r, "save")
  /\ history' = [history EXCEPT !.delivered = @ \cup {req[r].order}]
  /\ UNCHANGED <<purchase, lines, log, credited, registered, ledger, attempts, faults>>

(* POST /asset/addAsset, which refuses a plate it already knows.           *)
NewPlate(r, plate) ==
  /\ req[r].pc = "deliver" /\ req[r].copy.kind = "Aset"
  /\ plate \notin registered
  /\ registered' = registered \cup {plate}

RegisterAsset(r) ==
  /\ \E plate \in Plate : NewPlate(r, plate)
  /\ Goto(r, "save")
  /\ history' = [history EXCEPT !.delivered = @ \cup {{}}]
  /\ UNCHANGED <<purchase, lines, log, credited, ledger, attempts, faults>>

RegisterRefused(r) ==
  /\ req[r].pc = "deliver" /\ req[r].copy.kind = "Aset"
  /\ registered \cap Plate # {}
  /\ req' = [req EXCEPT ![r] = Idle]
  /\ UNCHANGED <<purchase, lines, log, credited, registered, ledger,
                 attempts, faults, history>>

-----------------------------------------------------------------------------
(* The writes.                                                             *)

(* Soft-deletes the old lines and inserts the new ones, in a transaction.  *)
ReplaceLines(r) ==
  /\ req[r].pc = "lines"
  /\ lines' = req[r].order
  /\ Goto(r, "save")
  /\ UNCHANGED <<purchase, log, credited, registered, ledger, attempts, faults, history>>

(* repo.Save: every column of the copy, over whatever the row holds now.   *)
Save(r) ==
  /\ req[r].pc = "save"
  /\ purchase' = req[r].copy
  /\ Goto(r, IF req[r].act = "bayar" THEN "ledger" ELSE "log")
  /\ history' = [history EXCEPT
       !.approvedBy = IF req[r].act = "Disetujui" THEN @ \cup {req[r].role} ELSE @,
       !.confirmed  = IF req[r].act = "bayar" THEN @ \cup {req[r].copy.price} ELSE @]
  /\ UNCHANGED <<lines, log, credited, registered, ledger, attempts, faults>>

(* POST /lapkeu/add overwrites the entry; a failure is only logged.        *)
ReportToLedger(r) ==
  /\ req[r].pc = "ledger"
  /\ ledger' \in {ledger, {req[r].copy.price}}
  /\ Goto(r, "log")
  /\ UNCHANGED <<purchase, lines, log, credited, registered, attempts, faults, history>>

AppendLog(r) ==
  /\ req[r].pc = "log"
  /\ log' = log \cup {req[r].act}
  /\ req' = [req EXCEPT ![r] = Idle]
  /\ UNCHANGED <<purchase, lines, credited, registered, ledger,
                 attempts, faults, history>>

-----------------------------------------------------------------------------
(* Faults.                                                                 *)

Fault == faults < MaxFaults /\ faults' = faults + 1

(* The next call or statement fails, or the handler is stopped before it.  *)
Stop(r) ==
  /\ req[r].pc # "idle"
  /\ Fault
  /\ req' = [req EXCEPT ![r] = Idle]
  /\ UNCHANGED <<purchase, lines, log, credited, registered, ledger, attempts, history>>

(* The delivery call takes effect, but the handler sees an error.          *)
ReplyLost(r) ==
  /\ \/ (\E i \in Item : NextLine(r, i)) /\ UNCHANGED registered
     \/ (\E plate \in Plate : NewPlate(r, plate)) /\ UNCHANGED credited
  /\ Fault
  /\ req' = [req EXCEPT ![r] = Idle]
  /\ UNCHANGED <<purchase, lines, log, ledger, attempts, history>>

-----------------------------------------------------------------------------

Receive(r) ==
  \E role \in Role :
    \/ AdvanceStatus(r, role)
    \/ CancelStatus(r, role)
    \/ ConfirmPayment(r, role)
    \/ \E order \in Price : UpdatePurchase(r, role, order)

Continue(r) ==
  \/ FindLinesFor(r) \/ AddToDb(r) \/ AllCredited(r)
  \/ RegisterAsset(r) \/ RegisterRefused(r)
  \/ ReplaceLines(r) \/ Save(r) \/ ReportToLedger(r) \/ AppendLog(r)

Next == \E r \in Request : Receive(r) \/ Continue(r) \/ Stop(r) \/ ReplyLost(r)

Spec == Init /\ [][Next]_vars

(* Fairness: a handler that is running goes on, since every call it makes  *)
(* ends within the client's timeout; and someone keeps asking to complete  *)
(* a purchase that is still in Diproses.                                   *)
Retry(r) == purchase.status = "Diproses" /\ \E role \in Role : AdvanceStatus(r, role)

FairSpec == Spec /\ \A r \in Request : WF_vars(Continue(r)) /\ SF_vars(Retry(r))

-----------------------------------------------------------------------------
(* Properties.                                                             *)

TypeOK ==
  /\ purchase \in Row
  /\ lines \in Price
  /\ log \in SUBSET Action
  /\ credited \in [Item -> Nat]
  /\ registered \in SUBSET Plate
  /\ ledger \in SUBSET Price
  /\ req \in [Request -> Handler]
  /\ attempts \in Nat
  /\ faults \in Nat
  /\ history \in History

(* A purchase is never Selesai with nothing delivered: some handler took   *)
(* one order to its last line, or an asset to its registration, before the *)
(* status was written.  This must survive stale writes, retries and edits. *)
Delivered ==
  IF purchase.kind = "Resource"
    THEN \E o \in history.delivered : o # {} /\ \A i \in o : credited[i] > 0
    ELSE registered # {}

SelesaiDelivered == purchase.status = "Selesai" => Delivered

(* The row never combines a payment with a status in which a payment is    *)
(* refused, however writes of whole rows overlap.                          *)
PaidInMotion ==
  purchase.paid => purchase.status \in {"Diproses", "Selesai", "Dibatalkan"}

(* Two pairs of eyes: a purchase that got past Diajukan, other than by     *)
(* being rejected, was approved, and only by Direksi or Finance.           *)
ApprovedFirst ==
  purchase.status \notin {"Diajukan", "Ditolak"} =>
    history.approvedBy # {} /\ history.approvedBy \subseteq {"Direksi", "Finance"}

(* The ledger holds no amount that was not first saved as paid.            *)
LedgerBacked == ledger \subseteq history.confirmed

(* One delivery credits a line at most once: stock is never ahead of the   *)
(* number of deliveries started.                                           *)
CreditedPerAttempt == \A i \in Item : credited[i] <= attempts

(* deliver() is to hand over exactly what was ordered: each line once and  *)
(* nothing else.  A retried delivery does not.                             *)
DeliveredExactly ==
  purchase.status = "Selesai" =>
    credited = [i \in Item |-> IF i \in lines THEN 1 ELSE 0]

(* As long as nothing fails, it does.                                      *)
DeliveredOnce == faults = 0 => DeliveredExactly

(* Nothing is running and nothing has failed.                              *)
Quiet == faults = 0 /\ \A r \in Request : req[r].pc = "idle"

(* Between requests, the price is the total of the live lines.             *)
PriceOfLines == Quiet => purchase.price = lines

(* Between requests, the audit trail explains the row: its status and its  *)
(* payment were logged.                                                    *)
AuditComplete ==
  Quiet => /\ purchase.status \in log \cup {"Diajukan"}
           /\ purchase.paid => "bayar" \in log

(* Selesai, Dibatalkan and Ditolak are never left.                         *)
TerminalIsFinal ==
  [][purchase.status \in Terminal => purchase'.status = purchase.status]_vars

(* A confirmed payment stays confirmed.                                    *)
PaymentIsKept == [][purchase.paid => purchase'.paid]_vars

(* Seen from outside, the service is the lifecycle it promises.            *)
Lifecycle == INSTANCE PurchaseLifecycle WITH
  status <- purchase.status,
  paid <- purchase.paid,
  handedOver <- history.delivered # {}

Implements == Lifecycle!Spec

(* A purchase being processed is eventually completed or cancelled, when   *)
(* faults are finitely many and completion is asked for again.             *)
Completes == purchase.status = "Diproses" ~> purchase.status \in Terminal

(* The same of resource purchases only: addToDb accepts a repeated line,   *)
(* where addAsset refuses a repeated plate.                                *)
ResourceCompletes ==
  purchase.kind = "Resource" /\ purchase.status = "Diproses"
    ~> purchase.status \in Terminal

(* Every handler ends: with each statement and each call it comes closer to *)
(* its answer, or has a line less to hand over, whatever the others write.  *)
Stage(pc) ==
  CASE pc = "deliver" -> 6 [] pc = "credit" -> 5 [] pc = "lines" -> 4 [] pc = "save" -> 3
    [] pc = "ledger" -> 2 [] pc = "log" -> 1 [] OTHER -> 0

Closer(g, h) ==
  \/ Stage(g.pc) < Stage(h.pc)
  \/ g.pc = h.pc /\ g.todo \subseteq h.todo /\ g.todo # h.todo

HandlersEnd ==
  [][\A r \in Request :
       /\ Continue(r) => Closer(req'[r], req[r])
       /\ req[r].pc # "idle" => req'[r] = req[r] \/ Closer(req'[r], req[r])]_vars

-----------------------------------------------------------------------------
(* Why the row stays sound although it is read, changed and written whole   *)
(* without a lock: every copy a handler may still write is the outcome of   *)
(* a legal step from a row that was once there.  What a handler has checked *)
(* or delivered stays true however long it waits, because history, stock    *)
(* and registrations only grow.                                             *)
Deciders == {"Direksi", "Finance"}
PaidStatus == {"Diproses", "Selesai", "Dibatalkan"}
NeedsApproval(row) == row.status \notin {"Diajukan", "Ditolak"}

SoundRow(row) ==
  /\ row.paid => row.status \in PaidStatus
  /\ NeedsApproval(row) => history.approvedBy # {}
  /\ row.status = "Selesai" => Delivered

(* On its way to Selesai, everything but the delivery is already in order.  *)
Delivering(h) ==
  /\ h.act = "Selesai" /\ h.copy.status = "Selesai"
  /\ history.approvedBy # {}
  /\ h.pc = "credit" =>
       /\ h.copy.kind = "Resource" /\ h.order # {}
       /\ \A i \in h.order \ h.todo : credited[i] > 0

(* A copy about to be written; an approval may be the first of its kind.    *)
Saving(h) ==
  \/ SoundRow(h.copy) /\ h.act # "Disetujui"
  \/ /\ h.act = "Disetujui" /\ h.role \in Deciders
     /\ h.copy.status = "Disetujui" /\ ~h.copy.paid

SoundHandler(h) ==
  /\ h.pc # "idle" => h.copy.kind = purchase.kind
  /\ h.pc \in {"deliver", "credit"} => Delivering(h)
  /\ h.pc \in {"lines", "save"} => Saving(h)
  /\ h.pc = "lines" => h.order # {}
  /\ h.pc = "ledger" => h.copy.price \in history.confirmed

IInv ==
  /\ TypeOK
  /\ SoundRow(purchase)
  /\ \A r \in Request : SoundHandler(req[r])
  /\ purchase.kind = "Resource" => lines # {}
  /\ history.approvedBy \subseteq Deciders
  /\ ledger \subseteq history.confirmed

(* One request at a time, nothing comes between a read and its write, and  *)
(* every copy is one legal step away from the row it will replace.         *)
Edge == {<<"Diajukan", "Disetujui">>, <<"Diajukan", "Ditolak">>,
         <<"Disetujui", "Diproses">>, <<"Disetujui", "Dibatalkan">>,
         <<"Diproses", "Selesai">>, <<"Diproses", "Dibatalkan">>}

FreshHandler(h) ==
  /\ h.pc \in {"deliver", "credit"} => h.act = "Selesai"
  /\ h.pc = "lines" => h.act = "edit"
  /\ h.pc \in {"deliver", "credit", "lines", "save"} =>
       \/ /\ h.act = "bayar"
          /\ h.copy.status = purchase.status /\ h.copy.paid
          /\ ~purchase.paid /\ purchase.status \in {"Diproses", "Selesai"}
       \/ /\ h.act = "edit"
          /\ h.copy.status = purchase.status /\ h.copy.paid = purchase.paid
       \/ /\ <<purchase.status, h.act>> \in Edge
          /\ h.copy.status = h.act /\ h.copy.paid = purchase.paid
          /\ h.act = "Selesai" /\ h.pc = "save" => history.delivered # {}

Fresh == \A r \in Request : FreshHandler(req[r])

(* However requests overlap, no act is forgotten as long as nothing fails:  *)
(* what the row shows, or will show once a copy is written, is in the log,  *)
(* was saved by a handler that has still to log it, or is about to be saved *)
(* by the one that did it.                                                  *)
Recorded(act) ==
  \/ act \in log
  \/ \E r \in Request : req[r].pc \in {"ledger", "log"} /\ req[r].act = act

Explained(row, own) ==
  /\ row.status \notin {"Diajukan", own} => Recorded(row.status)
  /\ row.paid /\ own # "bayar" => Recorded("bayar")

AuditInv ==
  faults = 0 =>
    /\ Explained(purchase, "edit")
    /\ \A r \in Request : req[r].pc \in {"deliver", "credit", "lines", "save"} =>
         Explained(req[r].copy, req[r].act)

(* Each delivery may still credit a line only until it has.                 *)
Owing(i) == {r \in Request : \/ req[r].pc = "deliver"
                             \/ req[r].pc = "credit" /\ i \in req[r].todo}

CreditInv ==
  \A i \in Item : /\ IsFiniteSet(Owing(i))
                  /\ credited[i] + Cardinality(Owing(i)) <= attempts

OverlapInv == IInv /\ AuditInv /\ CreditInv

(* One request at a time and nothing failing, a delivery hands over the     *)
(* lines the purchase has, line by line, and an edit that has put its lines *)
(* in place is about to write their price.                                  *)
Given(set) == credited = [i \in Item |-> IF i \in set THEN 1 ELSE 0]

SerialHandler(h) ==
  /\ h.pc \in {"deliver", "credit", "save"} => h.copy.price = lines
  /\ h.pc \in {"deliver", "credit", "lines"} => purchase.price = lines
  /\ h.pc = "save" /\ h.act # "edit" => purchase.price = lines
  /\ h.pc \in {"idle", "ledger", "log"} => purchase.price = lines
  /\ h.pc = "lines" =>
       /\ h.copy.price = h.order
       /\ purchase.kind = "Resource" /\ purchase.status # "Selesai"
  /\ h.pc \in {"deliver", "lines"} => Given({})
  /\ h.pc = "credit" => h.todo \subseteq lines /\ Given(lines \ h.todo)
  /\ h.pc = "save" => IF h.copy.status = "Selesai" THEN Given(lines) ELSE Given({})
  /\ h.pc \in {"deliver", "credit", "lines"} => purchase.status # "Selesai"
  /\ h.pc \in {"idle", "ledger", "log"} =>
       IF purchase.status = "Selesai" THEN Given(lines) ELSE Given({})

SerialInv ==
  faults = 0 =>
    /\ purchase.kind = "Aset" => lines = {}
    /\ \A r \in Request : SerialHandler(req[r])

==============================================================================
