------------------------------ MODULE Project ------------------------------
(***************************************************************************)
(* The life of one project in the project service: its creation, which     *)
(* takes stock from the resource service or books vehicles with the asset  *)
(* service and undoes its own work if it cannot finish, then the edits and *)
(* the changes of status and payment that other requests make to it.       *)
(*                                                                         *)
(* A handler reads the row, checks it, saves it whole, and only then tells *)
(* the other services, with nothing to tie the steps together.  Each       *)
(* statement and each call is one action.  Other projects, purchases and   *)
(* edits of the catalogue change the stock and the calendar in between.    *)
(*                                                                         *)
(* Abstracted: all bookings are for one window; prices, dates, names and   *)
(* clients are left out, and so is the text of the audit trail, but not    *)
(* the step that appends to it, since an error there ends the handler.     *)
(***************************************************************************)
EXTENDS Integers

CONSTANTS
  Request,      \* the handlers that may be running at the same time
  Item,         \* items of the catalogue
  Sale,         \* the quantities of each that a sale may ask for
  StockLevel,   \* the stocks an item may have; addToDb may take one below zero
  Fleet,        \* the sets of vehicles that a distribution may ask for
  Plate,        \* the vehicles
  Editor,       \* the roles of those who edit
  MaxRequests,  \* bound: requests handled
  MaxOverlaps,  \* bound: those that arrive while another is running
  MaxFaults     \* bound: failed calls, lost replies and stopped handlers

ASSUME SaleAssumption == Sale \subseteq [Item -> Nat]
ASSUME StockAssumption == StockLevel \subseteq Int
ASSUME FleetAssumption == Fleet \subseteq SUBSET Plate
ASSUME EditorAssumption == Editor \subseteq {"Operasional", "Direksi"}
ASSUME BoundAssumption ==
  MaxRequests \in Nat /\ MaxOverlaps \in Nat /\ MaxFaults \in Nat

VARIABLES
  kind,      \* the letter its id opens with, so one project has one kind
  project,   \* its row, or None
  usage,     \* its resource and asset usage rows
  stock,     \* the catalogue of the resource service
  drawn,     \* what has been taken from the catalogue for this project
  booked,    \* the vehicles with a live booking for it
  others,    \* the vehicles with one for another project
  ledger,    \* has the finance service an entry for it?
  req,       \* the running handlers
  started,   \* requests accepted so far
  faults,    \* faults so far
  history    \* what has happened to it; read by no handler

vars == <<kind, project, usage, stock, drawn, booked, others, ledger, req,
          started, faults, history>>

Status  == {"Direncanakan", "Dilaksanakan", "Selesai", "Batal"}
Payment == {"BelumLunas", "TelahLunas", "Dikembalikan"}
Kind    == {"sale", "distribution"}
Row     == [status : Status, pay : Payment]
None    == [status |-> "none"]

Usage   == [lines : [Item -> Nat], plates : SUBSET Plate]
Nothing == [lines |-> [i \in Item |-> 0], plates |-> {}]

(* A sale draws on the catalogue, a distribution on the vehicles.          *)
Wanted ==
  IF kind = "sale" THEN {[Nothing EXCEPT !.lines = l] : l \in Sale}
                   ELSE {[Nothing EXCEPT !.plates = f] : f \in Fleet}

Lines(u) == {i \in Item : u.lines[i] > 0}

Active(row) == row.status \notin {"Selesai", "Batal"}

(* A handler: the row as it will be saved, the usage that is asked for and *)
(* the one the project had, and the lines still to be dealt with.          *)
PC == {"idle", "usage", "plan", "insert", "effects", "giveBack", "remove", "save",
       "replace", "log", "settle", "release", "rebook", "ledger"}
Handler == [pc : PC, act : {"create", "edit", "status", "pay", "none"},
            role : {"Operasional", "Direksi", "Finance"}, copy : Row,
            want : Usage, held : Usage, todo : SUBSET Item, done : SUBSET Item]

NewRow == [status |-> "Direncanakan", pay |-> "BelumLunas"]

Asked(pc, act, role, copy, want) ==
  [pc |-> pc, act |-> act, role |-> role, copy |-> copy, want |-> want,
   held |-> Nothing, todo |-> Lines(want), done |-> {}]

Idle == Asked("idle", "none", "Operasional", NewRow, Nothing)

History == [overlaps : Nat,      \* requests that arrived while another was running
            refused : BOOLEAN,   \* another service has refused an edit
            settled : BOOLEAN,   \* an edit has moved stock
            begun : BOOLEAN]     \* it was once saved as Dilaksanakan

Init ==
  /\ kind \in Kind
  /\ project = None
  /\ usage = Nothing
  /\ stock \in [Item -> StockLevel]
  /\ drawn = [i \in Item |-> 0]
  /\ booked = {}
  /\ others = {}
  /\ ledger = FALSE
  /\ req = [r \in Request |-> Idle]
  /\ started = 0
  /\ faults = 0
  /\ history = [overlaps |-> 0, refused |-> FALSE, settled |-> FALSE, begun |-> FALSE]

-----------------------------------------------------------------------------

Become(r, h) == req' = [req EXCEPT ![r] = h]

(* A request arrives; h is its handler's first state.                      *)
Enter(r, h) ==
  /\ req[r].pc = "idle"
  /\ started < MaxRequests
  /\ started' = started + 1
  /\ Become(r, h)
  /\ IF \A s \in Request : req[s].pc = "idle"
       THEN UNCHANGED history
       ELSE /\ history.overlaps < MaxOverlaps
            /\ history' = [history EXCEPT !.overlaps = @ + 1]
  /\ UNCHANGED <<kind, project, usage, stock, drawn, booked, others, ledger, faults>>

(* PUT add-stock and deduct-stock, under a row lock: a deduction is refused *)
(* if it would leave less than nothing, an addition (n < 0) never.          *)
CanTake(i, n) == n > 0 => stock[i] >= n

(* What is asked of the stock before anything is taken.                    *)
InStock(i, n) == stock[i] >= n

Take(i, n) ==
  /\ stock' = [stock EXCEPT ![i] = @ - n]
  /\ drawn' = [drawn EXCEPT ![i] = @ + n]

(* POST reserve refuses a vehicle that has a live booking, its own too.     *)
Free(plates) == plates \cap (others \cup booked) = {}

(* The token of the user is passed on, and only some may write elsewhere.  *)
MayWrite(role) == role = "Operasional"

-----------------------------------------------------------------------------
(* Slips: definitions of this module as a careless change to the code would *)
(* leave them.  None is part of the specification; each breaks a property.  *)

(* the line that failed given back with those that did not *)
UnwindingAll(h) == [h EXCEPT !.pc = "giveBack", !.todo = h.done \cup h.todo]

(* a project that is over moved back *)
CheckStatusOfEnded(row, status) ==
  /\ ~(row.status = "Dilaksanakan" /\ status = "Direncanakan")
  /\ ~(row.status = "Direncanakan" /\ status = "Selesai")

(* a project finished without having been carried out *)
CheckStatusLoosely(row, status) ==
  Active(row) /\ ~(row.status = "Dilaksanakan" /\ status = "Direncanakan")

(* any paid project refunded *)
CheckPaymentLoosely(row, pay) == (pay = "Dikembalikan") = (row.pay = "TelahLunas")

(* a cancelled project keeps its vehicles *)
AfterLogFinished(h) ==
  CASE h.act = "edit" /\ kind = "sale" -> [h EXCEPT !.pc = "settle"]
    [] h.act = "edit" /\ kind = "distribution" -> [h EXCEPT !.pc = "release"]
    [] h.act = "status" /\ h.copy.status = "Selesai" -> [h EXCEPT !.pc = "release"]
    [] h.act = "pay" /\ h.copy.pay # "BelumLunas" -> [h EXCEPT !.pc = "ledger"]
    [] OTHER -> Idle

(* the sign of the difference the wrong way round *)
SettleBackwards(r) ==
  /\ req[r].pc = "settle"
  /\ \E i \in req[r].todo :
       LET less == req[r].held.lines[i] - req[r].want.lines[i]
       IN /\ CanTake(i, less)
          /\ Take(i, less)
          /\ Become(r, [req[r] EXCEPT !.todo = @ \ {i}])
  /\ UNCHANGED <<kind, project, usage, booked, others, ledger, started, faults, history>>

(* a refund posted like a payment *)
SyncLedgerPosts(r) ==
  /\ req[r].pc = "ledger"
  /\ ledger' = TRUE
  /\ Become(r, Idle)
  /\ UNCHANGED <<kind, project, usage, stock, drawn, booked, others, started, faults, history>>

-----------------------------------------------------------------------------
(* AddProject, up to the insert: planUsage checks what is asked for and     *)
(* changes nothing.                                                        *)

AddProject(r, want) ==
  /\ project = None
  /\ \A s \in Request : req[s].act # "create"
  /\ want \in Wanted
  /\ Enter(r, Asked("plan", "create", "Operasional", NewRow, want))

Planned(h) == [h EXCEPT !.pc = IF h.act = "create" THEN "insert" ELSE "save"]

Checked(h, i) == IF h.todo = {i} THEN Planned(h) ELSE [h EXCEPT !.todo = @ \ {i}]

(* Stock that the project gives back counts towards what it can take.      *)
PlanSale(r) ==
  /\ req[r].pc = "plan" /\ kind = "sale"
  /\ LET h == req[r]
     IN \/ h.todo = {} /\ Become(r, Planned(h))
        \/ \E i \in h.todo :
             Become(r, IF InStock(i, h.want.lines[i] - h.held.lines[i])
                         THEN Checked(h, i) ELSE Idle)
  /\ UNCHANGED <<kind, project, usage, stock, drawn, booked, others, ledger,
                 started, faults, history>>

(* On an edit the project's own bookings do not count.                      *)
PlanDistribution(r) ==
  /\ req[r].pc = "plan" /\ kind = "distribution"
  /\ LET h == req[r]
         available == IF h.act = "edit" THEN MayWrite(h.role) /\ h.want.plates \cap others = {}
                                        ELSE Free(h.want.plates)
     IN Become(r, IF h.want.plates = {} \/ available THEN Planned(h) ELSE Idle)
  /\ UNCHANGED <<kind, project, usage, stock, drawn, booked, others, ledger,
                 started, faults, history>>

(* CreateWithGeneratedID: the row and its usages, in one transaction.  If    *)
(* the id is taken by now the project gets another, and is not this one.    *)
(* Usages that a removed project has left under the id join the new ones.   *)
Joined(u, v) == [lines |-> [i \in Item |-> u.lines[i] + v.lines[i]],
                 plates |-> u.plates \cup v.plates]

Insert(r) ==
  /\ req[r].pc = "insert"
  /\ IF project = None
       THEN /\ project' = req[r].copy
            /\ usage' = Joined(usage, req[r].want)
            /\ Become(r, [req[r] EXCEPT !.pc = "effects", !.todo = Lines(req[r].want)])
       ELSE Become(r, Idle) /\ UNCHANGED <<project, usage>>
  /\ UNCHANGED <<kind, stock, drawn, booked, others, ledger, started, faults, history>>

-----------------------------------------------------------------------------
(* applyEffects: the stock is taken line by line, or the vehicles booked;   *)
(* if that fails what was taken is given back and the project removed.      *)

Unwinding(h) ==
  [h EXCEPT !.pc = IF h.done = {} THEN "remove" ELSE "giveBack", !.todo = h.done]

Deducted(h, i) ==
  IF h.todo = {i} THEN Idle
                  ELSE [h EXCEPT !.todo = @ \ {i}, !.done = @ \cup {i}]

DeductStock(r) ==
  /\ req[r].pc = "effects" /\ kind = "sale"
  /\ LET h == req[r]
     IN \/ h.todo = {} /\ Become(r, Idle) /\ UNCHANGED <<stock, drawn>>
        \/ \E i \in h.todo :
             IF CanTake(i, h.want.lines[i])
               THEN /\ Take(i, h.want.lines[i])
                    /\ Become(r, Deducted(h, i))
               ELSE Become(r, Unwinding(h)) /\ UNCHANGED <<stock, drawn>>
  /\ UNCHANGED <<kind, project, usage, booked, others, ledger, started, faults, history>>

Reserve(r) ==
  /\ req[r].pc = "effects" /\ kind = "distribution"
  /\ LET plates == req[r].want.plates
     IN IF Free(plates)
          THEN booked' = booked \cup plates /\ Become(r, Idle)
          ELSE Become(r, Unwinding(req[r])) /\ UNCHANGED booked
  /\ UNCHANGED <<kind, project, usage, stock, drawn, others, ledger, started, faults, history>>

GivenBack(h, i) ==
  [h EXCEPT !.todo = @ \ {i}, !.pc = IF h.todo = {i} THEN "remove" ELSE "giveBack"]

ReturnStock(r) ==
  /\ req[r].pc = "giveBack"
  /\ \E i \in req[r].todo :
       /\ Take(i, -req[r].want.lines[i])
       /\ Become(r, GivenBack(req[r], i))
  /\ UNCHANGED <<kind, project, usage, booked, others, ledger, started, faults, history>>

Delete(r) ==
  /\ req[r].pc = "remove"
  /\ project' = None
  /\ usage' = Nothing
  /\ Become(r, Idle)
  /\ UNCHANGED <<kind, stock, drawn, booked, others, ledger, started, faults, history>>

-----------------------------------------------------------------------------
(* UpdateProject: what the project holds is read from its usages, the new   *)
(* set is planned against it, and the two are settled after the save.       *)

UpdateProject(r, role, want) ==
  /\ project # None /\ Active(project)
  /\ want \in Wanted
  /\ Enter(r, Asked("usage", "edit", role, project, want))

CurrentUsage(r) ==
  /\ req[r].pc = "usage"
  /\ Become(r, [req[r] EXCEPT !.pc = "plan", !.held = usage])
  /\ UNCHANGED <<kind, project, usage, stock, drawn, booked, others, ledger,
                 started, faults, history>>

(* UpdateStatus and UpdatePayment.                                          *)
CheckStatusTransition(row, status) ==
  /\ Active(row)
  /\ ~(row.status = "Dilaksanakan" /\ status = "Direncanakan")
  /\ ~(row.status = "Direncanakan" /\ status = "Selesai")

CheckPaymentTransition(row, pay) ==
  IF pay = "Dikembalikan" THEN row.status = "Batal" /\ row.pay = "TelahLunas"
                          ELSE row.pay # "TelahLunas"

UpdateStatus(r, status) ==
  /\ project # None /\ CheckStatusTransition(project, status)
  /\ Enter(r, Asked("save", "status", "Operasional",
                    [project EXCEPT !.status = status], Nothing))

UpdatePayment(r, pay) ==
  /\ project # None /\ CheckPaymentTransition(project, pay)
  /\ Enter(r, Asked("save", "pay", "Finance", [project EXCEPT !.pay = pay], Nothing))

(* Save writes every column as it was read, and inserts a row that is gone. *)
Save(r) ==
  /\ req[r].pc = "save"
  /\ project' = req[r].copy
  /\ Become(r, [req[r] EXCEPT !.pc = IF req[r].act = "edit" THEN "replace" ELSE "log"])
  /\ history' = [history EXCEPT !.begun = @ \/ req[r].copy.status = "Dilaksanakan"]
  /\ UNCHANGED <<kind, usage, stock, drawn, booked, others, ledger, started, faults>>

ReplaceUsage(r) ==
  /\ req[r].pc = "replace"
  /\ usage' = req[r].want
  /\ Become(r, [req[r] EXCEPT !.pc = "log"])
  /\ UNCHANGED <<kind, project, stock, drawn, booked, others, ledger, started, faults, history>>

(* What is left to do once the audit trail has its entry.                   *)
Changed(h) == {i \in Item : h.held.lines[i] # h.want.lines[i]}

AfterLog(h) ==
  CASE h.act = "edit" /\ kind = "sale"         -> [h EXCEPT !.pc = "settle", !.todo = Changed(h)]
    [] h.act = "edit" /\ kind = "distribution" -> [h EXCEPT !.pc = "release"]
    [] h.act = "status" /\ ~Active(h.copy)     -> [h EXCEPT !.pc = "release"]
    [] h.act = "pay" /\ h.copy.pay # "BelumLunas" -> [h EXCEPT !.pc = "ledger"]
    [] OTHER                                   -> Idle

AppendLog(r) ==
  /\ req[r].pc = "log"
  /\ Become(r, AfterLog(req[r]))
  /\ UNCHANGED <<kind, project, usage, stock, drawn, booked, others, ledger,
                 started, faults, history>>

-----------------------------------------------------------------------------
(* moveHoldings: every error is logged and swallowed, a refusal included.   *)

Refused == history' = [history EXCEPT !.refused = TRUE]

Settled(h, i) ==
  IF h.todo = {i} THEN Idle ELSE [h EXCEPT !.todo = @ \ {i}]

Settle(r) ==
  /\ req[r].pc = "settle"
  /\ LET h == req[r]
     IN \/ h.todo = {} /\ Become(r, Idle) /\ UNCHANGED <<stock, drawn, history>>
        \/ \E i \in h.todo :
             LET more == h.want.lines[i] - h.held.lines[i]
             IN /\ Become(r, Settled(h, i))
                /\ IF MayWrite(h.role) /\ CanTake(i, more)
                     THEN Take(i, more) /\ history' = [history EXCEPT !.settled = TRUE]
                     ELSE Refused /\ UNCHANGED <<stock, drawn>>
  /\ UNCHANGED <<kind, project, usage, booked, others, ledger, started, faults>>

(* The bookings are cancelled; an edit then books the vehicles it wants.    *)
Released(h) == IF h.act = "edit" THEN [h EXCEPT !.pc = "rebook"] ELSE Idle

Release(r) ==
  /\ req[r].pc = "release"
  /\ Become(r, Released(req[r]))
  /\ IF MayWrite(req[r].role) THEN booked' = {} /\ UNCHANGED history
                              ELSE Refused /\ UNCHANGED booked
  /\ UNCHANGED <<kind, project, usage, stock, drawn, others, ledger, started, faults>>

Rebook(r) ==
  /\ req[r].pc = "rebook"
  /\ Become(r, Idle)
  /\ LET plates == req[r].want.plates
     IN IF plates = {} \/ (MayWrite(req[r].role) /\ Free(plates))
          THEN booked' = booked \cup plates /\ UNCHANGED history
          ELSE Refused /\ UNCHANGED booked
  /\ UNCHANGED <<kind, project, usage, stock, drawn, others, ledger, started, faults>>

(* syncLedger: an entry when it is paid, none once it is refunded.          *)
SyncLedger(r) ==
  /\ req[r].pc = "ledger"
  /\ ledger' = (req[r].copy.pay = "TelahLunas")
  /\ Become(r, Idle)
  /\ UNCHANGED <<kind, project, usage, stock, drawn, booked, others, started, faults, history>>

-----------------------------------------------------------------------------
(* Faults.                                                                  *)

Fault == faults < MaxFaults /\ faults' = faults + 1

(* A handler dies or a statement fails.                                     *)
Stop(r) ==
  /\ Fault
  /\ req[r].pc # "idle"
  /\ Become(r, Idle)
  /\ UNCHANGED <<kind, project, usage, stock, drawn, booked, others, ledger, started, history>>

(* A call whose error is swallowed does not arrive.                         *)
Skip(r) ==
  /\ Fault
  /\ LET h == req[r]
     IN \/ h.pc = "giveBack" /\ \E i \in h.todo : Become(r, GivenBack(h, i))
        \/ h.pc = "settle" /\ \E i \in h.todo : Become(r, Settled(h, i))
        \/ h.pc = "release" /\ Become(r, Released(h))
        \/ h.pc \in {"rebook", "ledger"} /\ Become(r, Idle)
  /\ UNCHANGED <<kind, project, usage, stock, drawn, booked, others, ledger, started, history>>

(* A call of applyEffects fails, having taken effect or not: it is not in   *)
(* `done`, and so is never undone.                                          *)
EffectLost(r) ==
  /\ Fault
  /\ req[r].pc = "effects"
  /\ Become(r, Unwinding(req[r]))
  /\ \/ kind = "sale" /\ req[r].todo # {} /\ UNCHANGED <<stock, drawn, booked>>
     \/ \E i \in req[r].todo :
          /\ kind = "sale" /\ CanTake(i, req[r].want.lines[i])
          /\ Take(i, req[r].want.lines[i])
          /\ UNCHANGED booked
     \/ /\ kind = "distribution" /\ req[r].want.plates # {}
        /\ \/ Free(req[r].want.plates) /\ booked' = booked \cup req[r].want.plates
           \/ UNCHANGED booked
        /\ UNCHANGED <<stock, drawn>>
  /\ UNCHANGED <<kind, project, usage, others, ledger, started, history>>

-----------------------------------------------------------------------------
(* Other projects, purchases and edits of the catalogue and the vehicles.   *)
(* No sale looks at the calendar and no distribution at the stock, so each  *)
(* changes only where it can make a difference.                            *)

OthersUseStock ==
  /\ kind = "sale"
  /\ \E i \in Item, n \in StockLevel : stock' = [stock EXCEPT ![i] = n]
  /\ UNCHANGED <<kind, project, usage, drawn, booked, others, ledger, req,
                 started, faults, history>>

OthersUsePlates ==
  /\ kind = "distribution"
  /\ others' \in SUBSET (Plate \ booked)
  /\ UNCHANGED <<kind, project, usage, stock, drawn, booked, ledger, req,
                 started, faults, history>>

Receive(r) ==
  \/ \E want \in Wanted : AddProject(r, want)
  \/ \E role \in Editor, want \in Wanted : UpdateProject(r, role, want)
  \/ \E status \in Status : UpdateStatus(r, status)
  \/ \E pay \in Payment : UpdatePayment(r, pay)

Continue(r) ==
  \/ PlanSale(r) \/ PlanDistribution(r) \/ Insert(r)
  \/ DeductStock(r) \/ Reserve(r) \/ ReturnStock(r) \/ Delete(r)
  \/ CurrentUsage(r) \/ Save(r) \/ ReplaceUsage(r) \/ AppendLog(r)
  \/ Settle(r) \/ Release(r) \/ Rebook(r) \/ SyncLedger(r)

Next ==
  \/ \E r \in Request : Receive(r) \/ Continue(r) \/ Stop(r) \/ Skip(r) \/ EffectLost(r)
  \/ OthersUseStock
  \/ OthersUsePlates

Spec == Init /\ [][Next]_vars

-----------------------------------------------------------------------------
(* Properties.                                                             *)

TypeOK ==
  /\ kind \in Kind
  /\ project \in Row \cup {None}
  /\ usage \in Usage
  /\ stock \in [Item -> Int]
  /\ drawn \in [Item -> Int]
  /\ booked \subseteq Plate
  /\ others \subseteq Plate
  /\ ledger \in BOOLEAN
  /\ req \in [Request -> Handler]
  /\ started \in Nat
  /\ faults \in Nat
  /\ history \in History

(* One request has followed the other, no call has failed and no service    *)
(* has refused an edit what it was told it could have.                      *)
Undisturbed == history.overlaps = 0 /\ faults = 0 /\ ~history.refused
Quiet == \A r \in Request : req[r].pc = "idle"

(* Project.Active, applyEffects and moveHoldings: what the project has      *)
(* taken is what its usages say, a project that is over has no vehicles,    *)
(* and a creation that failed half-way leaves nothing behind, whatever the  *)
(* other users of the stock and the calendar did meanwhile.                 *)
Balanced ==
  Undisturbed /\ Quiet =>
    /\ drawn = usage.lines
    /\ booked = IF project # None /\ Active(project) THEN usage.plates ELSE {}
    /\ project = None => usage = Nothing

(* moveHoldings: "the net delta touches each item once", so that an edit    *)
(* never has more or less of an item than before or after it.               *)
NetDelta ==
  Undisturbed => \A r \in Request : req[r].pc = "settle" =>
    \A i \in Item : drawn[i] \in {req[r].held.lines[i], req[r].want.lines[i]}

(* syncLedger: finance has an entry for exactly the projects that are paid  *)
(* and not refunded.                                                        *)
LedgerAgrees ==
  history.overlaps = 0 /\ faults = 0 /\ Quiet =>
    (ledger <=> project # None /\ project.pay = "TelahLunas")

(* checkPaymentTransition: only a cancelled project is refunded.  This      *)
(* survives every overlap of the whole-row saves.                           *)
RefundedIsCancelled ==
  project # None /\ project.pay = "Dikembalikan" => project.status = "Batal"

(* checkStatusTransition: a project is carried out before it is finished.   *)
FinishedWasBegun ==
  project # None /\ project.status = "Selesai" => history.begun

(* applyEffects: undoing a creation gives back nothing but what it took,    *)
(* with any calls lost and any edits of the project side by side, as long   *)
(* as those move no stock.                                                  *)
NothingOverReturned == ~history.settled => \A i \in Item : drawn[i] >= 0

(* moveHoldings: the catalogue is never inflated by an edit.  It is when an *)
(* earlier edit was refused what it asked for, since the usages say         *)
(* otherwise.                                                               *)
NotInflated == \A i \in Item : drawn[i] >= 0

(* Every handler ends, what it has to undo included: with each statement    *)
(* and each call it comes closer to its answer, or has an item less before  *)
(* it, whatever the others do and whatever fails.                           *)
Stage(pc) ==
  CASE pc = "usage" -> 11 [] pc = "plan" -> 10 [] pc = "insert" -> 9 [] pc = "effects" -> 8
    [] pc = "giveBack" -> 7 [] pc = "remove" -> 6 [] pc = "save" -> 5 [] pc = "replace" -> 4
    [] pc = "log" -> 3 [] pc \in {"settle", "release"} -> 2
    [] pc \in {"rebook", "ledger"} -> 1 [] OTHER -> 0

Closer(g, h) ==
  \/ Stage(g.pc) < Stage(h.pc)
  \/ g.pc = h.pc /\ g.todo \subseteq h.todo /\ g.todo # h.todo

HandlersEnd ==
  [][\A r \in Request :
       /\ Continue(r) \/ Skip(r) => Closer(req'[r], req[r])
       /\ req[r].pc # "idle" => req'[r] = req[r] \/ Closer(req'[r], req[r])]_vars

-----------------------------------------------------------------------------
(* Why: every copy that may still be saved is itself sound, and a creation  *)
(* that is being carried out or undone is the only one.                     *)

SoundRow(row, begun) ==
  /\ row.pay = "Dikembalikan" => row.status = "Batal"
  /\ row.status = "Selesai" => begun

RowInv ==
  /\ project # None =>
       /\ SoundRow(project, history.begun)
       /\ project.status = "Dilaksanakan" => history.begun
  /\ \A r \in Request : SoundRow(req[r].copy, history.begun)

(* Only a creation inserts a row or undoes anything.                        *)
InOrder(h) ==
  /\ h.act = "create" => h.copy = NewRow
  /\ h.pc \in {"insert", "effects", "giveBack", "remove"} => h.act = "create"
  /\ h.pc \notin {"effects", "giveBack", "remove"} => h.done = {}

CreateInv ==
  /\ \A r \in Request : InOrder(req[r])
  /\ \A r, s \in Request : req[r].act = "create" /\ req[s].act = "create" => r = s

(* The lines that a creation has taken and not given back.                  *)
Taken(h) == IF h.pc = "effects" THEN h.done ELSE IF h.pc = "giveBack" THEN h.todo ELSE {}

Covered(h, d) == \A i \in Taken(h) : d[i] >= h.want.lines[i]

StockInv ==
  ~history.settled =>
    /\ \A i \in Item : drawn[i] >= 0
    /\ \A r \in Request : Covered(req[r], drawn)

IInv == TypeOK /\ RowInv /\ CreateInv /\ StockInv

(* Why the project has what its usages say when all is quiet: one request   *)
(* after the other and without a fault, what the handler h at work has read *)
(* is still so, and stock, bookings and ledger are what they should be at   *)
(* its statement.  At(Idle) is what holds between two requests.             *)
ActAt(h) ==
  /\ h.pc = "plan" => h.act \in {"create", "edit"}
  /\ h.pc \in {"usage", "replace", "settle", "rebook"} => h.act = "edit"
  /\ h.pc \in {"save", "log"} => h.act \in {"edit", "status", "pay"}
  /\ h.pc = "release" => h.act \in {"edit", "status"}
  /\ h.pc = "ledger" => h.act = "pay"
  /\ h.pc = "settle" => kind = "sale"
  /\ h.pc = "rebook" \/ (h.pc = "release" /\ h.act = "edit") => kind = "distribution"

(* A sale asks for no vehicles and a distribution for no stock.             *)
OfKind(u) == IF kind = "sale" THEN u.plates = {} ELSE u.lines = Nothing.lines

UsageAt(h) ==
  /\ project = None => usage = Nothing
  /\ OfKind(usage) /\ OfKind(h.want) /\ OfKind(h.held)
  /\ h.pc \in {"effects", "giveBack", "remove", "settle", "rebook"} => usage = h.want
  /\ h.act = "edit" /\ h.pc \in {"log", "release"} => usage = h.want
  /\ h.act = "edit" /\ h.pc \in {"plan", "save", "replace"} => h.held = usage
  /\ h.pc = "effects" => h.todo = Lines(h.want) \ h.done

RowAt(h) ==
  /\ h.act = "create" /\ h.pc \in {"plan", "insert"} => project = None
  /\ h.pc \in {"effects", "giveBack", "remove"} => project = NewRow
  /\ h.act = "edit" /\ h.pc # "idle" => project # None /\ project = h.copy /\ Active(project)
  /\ h.pc \in {"log", "release", "ledger"} => project # None /\ project = h.copy
  /\ h.act = "status" /\ h.pc = "release" => ~Active(h.copy)
  /\ h.act = "status" /\ h.pc = "save" =>
       project # None /\ Active(project) /\ h.copy.pay = project.pay
  /\ h.act = "pay" /\ h.pc = "save" =>
       /\ project # None /\ h.copy.status = project.status
       /\ h.copy.pay = "BelumLunas" => project.pay # "TelahLunas"

LedgerAt(h) ==
  IF h.act = "pay" /\ h.pc \in {"log", "ledger"}
    THEN h.copy.pay = "BelumLunas" => ~ledger
    ELSE ledger <=> project # None /\ project.pay = "TelahLunas"

(* The stock of an item, and the vehicles, that the project has.            *)
DrawnAt(h, i) ==
  CASE h.pc \in {"effects", "giveBack", "remove"} ->
         IF i \in Taken(h) THEN h.want.lines[i] ELSE 0
    [] h.pc = "log" /\ h.act = "edit" -> h.held.lines[i]
    [] h.pc = "settle" -> IF i \in h.todo THEN h.held.lines[i] ELSE h.want.lines[i]
    [] OTHER -> usage.lines[i]

BookedAt(h) ==
  CASE h.pc \in {"effects", "giveBack", "remove", "rebook"} -> {}
    [] h.pc \in {"log", "release"} /\ h.act = "edit" -> h.held.plates
    [] h.pc \in {"log", "release"} /\ h.act = "status" -> usage.plates
    [] OTHER -> IF project # None /\ Active(project) THEN usage.plates ELSE {}

At(h) ==
  /\ ActAt(h) /\ UsageAt(h) /\ RowAt(h) /\ LedgerAt(h)
  /\ ~history.refused => (\A i \in Item : drawn[i] = DrawnAt(h, i)) /\ booked = BookedAt(h)

SerialInv ==
  history.overlaps = 0 /\ faults = 0 =>
    /\ \A r, s \in Request : req[r].pc # "idle" /\ req[s].pc # "idle" => r = s
    /\ \A r \in Request : req[r].pc # "idle" => At(req[r])
    /\ Quiet => At(Idle)

ProjectInv == IInv /\ SerialInv

=============================================================================
