----------------------------- MODULE Catalogue -----------------------------
(***************************************************************************)
(* The catalogue of the resource service, and the suppliers of the profile *)
(* service that sell what is in it.  Which supplier sells which item is    *)
(* stored twice, once on each side, and brought into agreement by calls    *)
(* that follow the transaction they belong to; and the purchases placed    *)
(* with a supplier are listed with it by a call that may fail.             *)
(*                                                                         *)
(* Every statement is one action, but a change of stock: that reads, checks *)
(* and writes in one transaction, and holds the item's row from the read   *)
(* on.  Items and suppliers are never deleted.                             *)
(*                                                                         *)
(* Abstracted: an item is its name, a supplier its row.  Telephone numbers, *)
(* addresses, prices and descriptions are left out, and with them requests *)
(* that are turned away for what they say of those.  The assets of a       *)
(* supplier are left out: nothing writes that table.                       *)
(***************************************************************************)
EXTENDS Integers, FiniteSets

CONSTANTS
  Job,             \* the handlers that may be running at the same time
  Item, Supplier, Purchase,
  Quantity,        \* by how much add-stock and deduct-stock change a stock
  StockUpdate,     \* what addToDb adds to one: any number, below zero as well
  Level,           \* what a stock is set to
  MaxJobs,         \* bound: requests handled
  MaxJobOverlaps,  \* bound: those that arrive while another is running
  MaxMishaps       \* bound: failed statements and calls, stopped handlers

Nobody == "nobody"

ASSUME NobodyAssumption == Nobody \notin Job \cup Supplier
ASSUME QuantityAssumption ==
  Quantity \subseteq Nat \ {0} /\ StockUpdate \subseteq Int /\ Level \subseteq Nat
ASSUME JobAssumption == MaxJobs \in Nat /\ MaxJobOverlaps \in Nat /\ MaxMishaps \in Nat

VARIABLES
  listed,     \* resources: the items there are
  stock,      \* their stock
  holder,     \* who holds the row FOR UPDATE
  carried,    \* resource_suppliers: what the resource service has a supplier sell
  known,      \* suppliers
  sells,      \* supplier_resources: what the profile service has it sell
  bought,     \* supplier_purchases
  placed,     \* purchases: with whom each was placed
  work,       \* the running handlers
  begun, sideways, mishaps,  \* requests begun, those of them overlapping, faults
  past        \* read by no handler

shelf     == <<listed, stock, holder>>
supply    == <<carried, known, sells, bought, placed>>
counters  == <<begun, sideways, mishaps>>
catalogue == <<shelf, supply, counters, work, past>>

Step == {"rest", "lock", "write", "saveItem", "listItem", "validate", "create", "link",
         "saveSupplier", "compare", "attach"}
Act  == {"none", "add", "deduct", "edit", "list", "found", "change", "purchase"}

(* A handler: what it acts on, what it was given and what it has read.     *)
Task == [step : Step, act : Act, item : Item \cup {Nobody}, supplier : Supplier \cup {Nobody},
         purchase : Purchase \cup {Nobody}, amount : Int, read : Int,
         items : SUBSET Item, bought : SUBSET Purchase,
         todo : SUBSET Item, drop : SUBSET Item]

Rest == [step |-> "rest", act |-> "none", item |-> Nobody, supplier |-> Nobody,
         purchase |-> Nobody, amount |-> 0, read |-> 0,
         items |-> {}, bought |-> {}, todo |-> {}, drop |-> {}]

(* What the committed requests come to: the stock of each item, and what    *)
(* addToDb took from it by adding less than nothing, since the stock was    *)
(* last set outright; what each supplier was given beside its own list since *)
(* that list was last compared; the purchases that were listed; and the     *)
(* suppliers whose two sides were written by two requests at a time, or by  *)
(* one that was cut short.                                                  *)
Past == [owed : [Item -> Int], takenBack : [Item -> Nat],
         extra : [Supplier -> SUBSET Item],
         linked : [Supplier -> SUBSET Purchase], torn : SUBSET Supplier]

CatalogueInit ==
  /\ listed \in SUBSET Item
  /\ stock \in {f \in [Item -> Level \cup {0}] : \A i \in Item \ listed : f[i] = 0}
  /\ holder = [i \in Item |-> Nobody]
  /\ known \in SUBSET Supplier
  /\ carried = [s \in Supplier |-> {}]
  /\ sells = [s \in Supplier |-> {}]
  /\ bought = [s \in Supplier |-> {}]
  /\ placed = [p \in Purchase |-> Nobody]
  /\ work = [j \in Job |-> Rest]
  /\ begun = 0
  /\ sideways = 0
  /\ mishaps = 0
  /\ past = [owed |-> stock, takenBack |-> [i \in Item |-> 0], extra |-> carried,
             linked |-> bought, torn |-> {}]

-----------------------------------------------------------------------------
(* Handlers come, go on and end.                                           *)

Tied(t, s) == t.act \in {"list", "found", "change"} /\ t.supplier = s

(* The suppliers that a handler is at work on together with others than j.  *)
Shared(j, s) == \E k \in Job \ {j} : Tied(work[k], s)

Does(j, t) == work' = [work EXCEPT ![j] = t]

Comes(j, t) ==
  /\ work[j] = Rest
  /\ begun < MaxJobs
  /\ begun' = begun + 1
  /\ IF \A k \in Job : work[k] = Rest
       THEN UNCHANGED sideways
       ELSE sideways < MaxJobOverlaps /\ sideways' = sideways + 1
  /\ Does(j, t)
  /\ past' = [past EXCEPT !.torn =
       @ \cup {s \in Supplier : Tied(t, s) /\ Shared(j, s)}]
  /\ UNCHANGED mishaps

GoesOn(j, t) == Does(j, t) /\ UNCHANGED counters

-----------------------------------------------------------------------------
(* Slips: definitions of this module as a careless change to the code would *)
(* leave them.  None is part of the specification; each breaks a property.  *)

(* a deduction that checks the stock there is, not the one it would leave *)
EnoughBefore(t) == t.act = "deduct" => t.read >= 0

(* a stock read without the lock *)
FreeAnyway(j, i) == TRUE

(* an edit that adds what is missing and removes nothing *)
AddedOnly(s, items) == [todo |-> items \ carried[s], drop |-> {}]

-----------------------------------------------------------------------------
(* AddStock and DeductStock refuse an amount that is not positive, which    *)
(* AddStockToDB does not.  UpdateStock takes the row, reads the stock, and  *)
(* writes what the change makes of it, or lets go: a deduction is refused   *)
(* if it would leave less than nothing, an addition never.                  *)

ChangeStock(j, i, act, q) ==
  /\ i \in listed
  /\ Comes(j, [Rest EXCEPT !.step = "lock", !.act = act, !.item = i, !.amount = q])
  /\ UNCHANGED <<shelf, supply>>

AddStockToDB(j, i, q) == ChangeStock(j, i, "add", q)

Free(j, i) == holder[i] = Nobody

Lock(j) ==
  /\ work[j].step = "lock"
  /\ LET i == work[j].item
     IN /\ Free(j, i)
        /\ holder' = [holder EXCEPT ![i] = j]
        /\ GoesOn(j, [work[j] EXCEPT !.step = "write", !.read = stock[i]])
  /\ UNCHANGED <<listed, stock, supply, past>>

Enough(t) == t.act = "deduct" => t.read >= t.amount
Change(t) == IF t.act = "deduct" THEN -t.amount ELSE t.amount
Applied(t) == t.read + Change(t)
TakenBack(t) == IF t.act = "add" /\ t.amount < 0 THEN -t.amount ELSE 0

Write(j) ==
  /\ work[j].step = "write"
  /\ LET t == work[j]
     IN /\ IF Enough(t)
             THEN /\ stock' = [stock EXCEPT ![t.item] = Applied(t)]
                  /\ past' = [past EXCEPT !.owed[t.item] = @ + Change(t),
                                          !.takenBack[t.item] = @ + TakenBack(t)]
             ELSE UNCHANGED <<stock, past>>
        /\ holder' = [holder EXCEPT ![t.item] = Nobody]
  /\ GoesOn(j, Rest)
  /\ UNCHANGED <<listed, supply>>

-----------------------------------------------------------------------------
(* UpdateResource: the row is read, the given stock put in its place, and   *)
(* saved whole as soon as nobody holds it.                                  *)

EditItem(j, i, level) ==
  /\ i \in listed
  /\ Comes(j, [Rest EXCEPT !.step = "saveItem", !.act = "edit", !.item = i, !.amount = level])
  /\ UNCHANGED <<shelf, supply>>

SaveItem(j) ==
  /\ work[j].step = "saveItem"
  /\ LET t == work[j]
     IN /\ Free(j, t.item)
        /\ stock' = [stock EXCEPT ![t.item] = t.amount]
        /\ past' = [past EXCEPT !.owed[t.item] = t.amount, !.takenBack[t.item] = 0]
  /\ GoesOn(j, Rest)
  /\ UNCHANGED <<listed, holder, supply>>

(* AddResource: the name is looked up; the item and its first supplier are  *)
(* inserted together, and a name that is there by then is refused.  The     *)
(* profile service is not told, nor asked whether it has the supplier.      *)
AddResource(j, i, s, level) ==
  /\ i \notin listed
  /\ Comes(j, [Rest EXCEPT !.step = "listItem", !.act = "list", !.item = i,
                           !.supplier = s, !.amount = level])
  /\ UNCHANGED <<shelf, supply>>

CreateWithSupplier(j) ==
  /\ work[j].step = "listItem"
  /\ LET t == work[j]
     IN IF t.item \in listed THEN UNCHANGED <<listed, stock, carried, past>>
        ELSE /\ listed' = listed \cup {t.item}
             /\ stock' = [stock EXCEPT ![t.item] = t.amount]
             /\ carried' = [carried EXCEPT ![t.supplier] = @ \cup {t.item}]
             /\ past' = [past EXCEPT !.owed[t.item] = t.amount, !.takenBack[t.item] = 0,
                                     !.extra[t.supplier] = @ \cup {t.item}]
  /\ GoesOn(j, Rest)
  /\ UNCHANGED <<holder, known, sells, bought, placed>>

-----------------------------------------------------------------------------
(* AddSupplier and UpdateSupplier: the items are looked up in the catalogue, *)
(* unless there are none; the supplier is saved; the resource service is    *)
(* told.  The identifier of a new supplier is the database's.               *)

AddSupplier(j, items) ==
  /\ Comes(j, [Rest EXCEPT !.step = IF items = {} THEN "create" ELSE "validate",
                           !.act = "found", !.items = items])
  /\ UNCHANGED <<shelf, supply>>

(* FindByID: loadCollections is given a copy of the row and fills that in;  *)
(* the caller's collections stay empty.                                     *)
LoadCollections(s) == {}

UpdateSupplier(j, s, items) ==
  /\ s \in known
  /\ Comes(j, [Rest EXCEPT !.step = IF items = {} THEN "saveSupplier" ELSE "validate",
                           !.act = "change", !.supplier = s, !.items = items,
                           !.bought = LoadCollections(s)])
  /\ UNCHANGED <<shelf, supply>>

ValidateResourceIDs(j) ==
  /\ work[j].step = "validate"
  /\ LET t == work[j]
     IN GoesOn(j, IF ~(t.items \subseteq listed) THEN Rest
                  ELSE [t EXCEPT !.step = IF t.act = "found" THEN "create" ELSE "saveSupplier"])
  /\ UNCHANGED <<shelf, supply, past>>

(* The identifiers that the database may draw: none that a request has      *)
(* named before.                                                            *)
Unused(s) ==
  /\ s \notin known /\ carried[s] = {}
  /\ \A p \in Purchase : placed[p] # s
  /\ \A j \in Job : work[j].supplier # s

(* Create, with the links that replaceCollections writes.                   *)
CreateSupplier(j, s) ==
  /\ work[j].step = "create"
  /\ Unused(s)
  /\ known' = known \cup {s}
  /\ sells' = [sells EXCEPT ![s] = work[j].items]
  /\ LET t == work[j]
     IN GoesOn(j, IF t.items = {} THEN Rest
                  ELSE [t EXCEPT !.step = "link", !.supplier = s, !.todo = t.items])
  /\ UNCHANGED <<shelf, carried, bought, placed, past>>

(* Save: the three collections are replaced by those that were read, but    *)
(* for the items, which are the ones asked for.  From here on the two sides *)
(* are being brought together, unless another request is doing so too.      *)
SaveSupplier(j) ==
  /\ work[j].step = "saveSupplier"
  /\ LET t == work[j]  s == work[j].supplier
     IN /\ sells' = [sells EXCEPT ![s] = t.items]
        /\ bought' = [bought EXCEPT ![s] = t.bought]
        /\ past' = [past EXCEPT !.torn = IF Shared(j, s) THEN @ ELSE @ \ {s}]
        /\ GoesOn(j, [t EXCEPT !.step = "compare"])
  /\ UNCHANGED <<shelf, carried, known, placed>>

(* The resource service reads what the supplier is linked to, removes what  *)
(* is no longer wanted, and then adds what is missing, link by link.        *)
Compared(s, items) == [todo |-> items \ carried[s], drop |-> carried[s] \ items]

Compare(j) ==
  /\ work[j].step = "compare"
  /\ LET t == work[j]  c == Compared(work[j].supplier, work[j].items)
     IN /\ past' = [past EXCEPT !.extra[t.supplier] = {}]
        /\ GoesOn(j, IF c.todo \cup c.drop = {} THEN Rest
                     ELSE [t EXCEPT !.step = "link", !.todo = c.todo, !.drop = c.drop])
  /\ UNCHANGED <<shelf, supply>>

Unlink(j, i) ==
  /\ work[j].step = "link"
  /\ LET t == work[j]
     IN /\ i \in t.drop
        /\ carried' = [carried EXCEPT ![t.supplier] = @ \ {i}]
        /\ GoesOn(j, IF t.todo \cup t.drop = {i} THEN Rest ELSE [t EXCEPT !.drop = @ \ {i}])
  /\ UNCHANGED <<shelf, known, sells, bought, placed, past>>

LinkExisting(j, i) ==
  /\ work[j].step = "link"
  /\ LET t == work[j]
     IN /\ t.drop = {}
        /\ i \in t.todo
        /\ carried' = [carried EXCEPT ![t.supplier] = @ \cup {i}]
        /\ GoesOn(j, IF t.todo = {i} THEN Rest ELSE [t EXCEPT !.todo = @ \ {i}])
  /\ UNCHANGED <<shelf, known, sells, bought, placed, past>>

-----------------------------------------------------------------------------
(* AddPurchase of the purchase service: committed first, with whatever      *)
(* supplier it was given; that the supplier could not be told is logged.    *)

AddPurchase(j, p, s) ==
  /\ placed[p] = Nobody
  /\ Comes(j, [Rest EXCEPT !.step = "attach", !.act = "purchase", !.supplier = s, !.purchase = p])
  /\ placed' = [placed EXCEPT ![p] = s]
  /\ UNCHANGED <<shelf, carried, known, sells, bought>>

AttachToSupplier(j) ==
  /\ work[j].step = "attach"
  /\ LET t == work[j]
     IN IF t.supplier \in known
          THEN /\ bought' = [bought EXCEPT ![t.supplier] = @ \cup {t.purchase}]
               /\ past' = [past EXCEPT !.linked[t.supplier] = @ \cup {t.purchase}]
          ELSE UNCHANGED <<bought, past>>
  /\ GoesOn(j, Rest)
  /\ UNCHANGED <<shelf, carried, known, sells, placed>>

(* A statement or a call fails, a service does not answer or stops: the     *)
(* handler ends where it is, and the database lets go of what it held.  (An *)
(* unreachable catalogue is an empty one, which holds none of the items.)   *)
Mishap(j) ==
  /\ work[j] # Rest
  /\ mishaps < MaxMishaps
  /\ mishaps' = mishaps + 1
  /\ holder' = [i \in Item |-> IF holder[i] = j THEN Nobody ELSE holder[i]]
  /\ past' = [past EXCEPT !.torn =
       IF work[j].step \in {"compare", "link"} THEN @ \cup {work[j].supplier} ELSE @]
  /\ Does(j, Rest)
  /\ UNCHANGED <<listed, stock, supply, begun, sideways>>

CatalogueNext ==
  \/ \E j \in Job, i \in Item, act \in {"add", "deduct"}, q \in Quantity : ChangeStock(j, i, act, q)
  \/ \E j \in Job, i \in Item, q \in StockUpdate : AddStockToDB(j, i, q)
  \/ \E j \in Job, i \in Item, level \in Level :
       EditItem(j, i, level) \/ \E s \in Supplier : AddResource(j, i, s, level)
  \/ \E j \in Job, items \in SUBSET Item :
       AddSupplier(j, items) \/ \E s \in Supplier : UpdateSupplier(j, s, items)
  \/ \E j \in Job, p \in Purchase, s \in Supplier : AddPurchase(j, p, s)
  \/ \E j \in Job : \/ Lock(j) \/ Write(j) \/ SaveItem(j) \/ CreateWithSupplier(j)
                    \/ ValidateResourceIDs(j) \/ SaveSupplier(j) \/ Compare(j)
                    \/ AttachToSupplier(j) \/ Mishap(j)
                    \/ \E s \in Supplier : CreateSupplier(j, s)
                    \/ \E i \in Item : Unlink(j, i) \/ LinkExisting(j, i)

CatalogueSpec == CatalogueInit /\ [][CatalogueNext]_catalogue

-----------------------------------------------------------------------------
(* Properties.                                                             *)

CatalogueTypeOK ==
  /\ listed \in SUBSET Item
  /\ stock \in [Item -> Int]
  /\ holder \in [Item -> Job \cup {Nobody}]
  /\ carried \in [Supplier -> SUBSET Item]
  /\ known \in SUBSET Supplier
  /\ sells \in [Supplier -> SUBSET Item]
  /\ bought \in [Supplier -> SUBSET Purchase]
  /\ placed \in [Purchase -> Supplier \cup {Nobody}]
  /\ work \in [Job -> Task]
  /\ begun \in 0..MaxJobs
  /\ sideways \in 0..MaxJobOverlaps
  /\ mishaps \in 0..MaxMishaps
  /\ past \in Past

(* UpdateStock: "two concurrent deductions cannot both see the same         *)
(* starting stock", and so no number of them, in whatever order with        *)
(* additions and edits, takes out more than there is.  A stock may be below *)
(* zero all the same: addToDb "does not require" its amount "to be          *)
(* positive".  It is never further below than what addToDb took since the   *)
(* stock was last set outright.                                             *)
NeverOverdrawn == \A i \in Item : stock[i] + past.takenBack[i] >= 0

(* No change of stock is lost to another: since it was last set outright, by *)
(* an edit or when it was listed, the stock of an item has moved by exactly *)
(* the changes that were committed, whoever overlapped whom and whoever     *)
(* failed.  What an edit overwrites is lost, though: it sets what its user  *)
(* typed, whatever was committed since the user looked.                     *)
NoChangeLost == \A i \in Item : stock[i] = past.owed[i]

(* ResourceService.UpdateSupplier "makes resourceIDs the complete set of    *)
(* resources a supplier sells": once the last request about a supplier has  *)
(* ended, both services have it sell the same items, but for those it was   *)
(* given with AddResource, of which the profile service is not told.  That  *)
(* fails after two requests at a time, or after one that was cut short; the *)
(* next edit then repairs it.                                               *)
SidesAgree ==
  \A s \in known \ past.torn :
    (\A j \in Job : ~Tied(work[j], s)) => carried[s] = sells[s] \cup past.extra[s]

(* SupplierRepository.FindByID "returns the supplier with its three ID      *)
(* collections loaded", so that Save writes back what it was not asked to   *)
(* change: a purchase listed with a supplier stays listed.                  *)
LinksKept == \A s \in Supplier : past.linked[s] \subseteq bought[s]

(* Nobody waits for ever: who waits for a row FOR UPDATE waits for another  *)
(* that has read it, waits for nobody, and lets go with what it does next.  *)
Holds(j, i) == work[j].step = "write" /\ work[j].item = i
Waits(t) == t.step \in {"lock", "saveItem"} /\ holder[t.item] # Nobody

WritersDoNotWait ==
  \A j \in Job : Waits(work[j]) =>
    /\ holder[work[j].item] \in Job \ {j}
    /\ Holds(holder[work[j].item], work[j].item)

(* Every handler ends: with each statement and each call it comes closer to *)
(* its answer, or has a link less to write.                                 *)
StepsOff(step) ==
  CASE step = "validate" -> 5 [] step \in {"create", "saveSupplier"} -> 4
    [] step = "compare" -> 3 [] step \in {"lock", "link"} -> 2
    [] step = "rest" -> 0 [] OTHER -> 1

Closer(t, u) ==
  \/ StepsOff(t.step) < StepsOff(u.step)
  \/ /\ t.step = "link" /\ u.step = "link"
     /\ t.todo \subseteq u.todo /\ t.drop \subseteq u.drop
     /\ t.todo # u.todo \/ t.drop # u.drop

Carries(j) ==
  \/ Lock(j) \/ Write(j) \/ SaveItem(j) \/ CreateWithSupplier(j) \/ ValidateResourceIDs(j)
  \/ SaveSupplier(j) \/ Compare(j) \/ AttachToSupplier(j)
  \/ (\E s \in Supplier : CreateSupplier(j, s))
  \/ (\E i \in Item : Unlink(j, i) \/ LinkExisting(j, i))

JobsEnd ==
  [][\A j \in Job :
       /\ Carries(j) => Closer(work'[j], work[j])
       /\ work[j].step # "rest" => work'[j] = work[j] \/ Closer(work'[j], work[j])]_catalogue

-----------------------------------------------------------------------------
(* Why: who is about to write a stock holds the row, and has read what is   *)
(* in it still; and who is about to change links of a supplier has before   *)
(* it what the links lack of the list.                                      *)

HolderInv ==
  /\ \A j \in Job : work[j].step = "write" =>
       /\ holder[work[j].item] = j
       /\ work[j].read = stock[work[j].item]
  /\ \A i \in Item : holder[i] # Nobody => Holds(holder[i], i)

StepInv ==
  \A j \in Job : LET t == work[j] IN
    /\ t.step \in {"lock", "write"} => t.act \in {"add", "deduct"} /\ t.item \in listed
    /\ t.step = "saveItem" => t.act = "edit" /\ t.item \in listed /\ t.amount \in Nat
    /\ t.step = "listItem" => t.item \in Item /\ t.amount \in Nat
    /\ t.act = "list" => t.step = "listItem" /\ t.supplier \in Supplier
    /\ t.step = "validate" => t.act \in {"found", "change"}
    /\ t.step = "create" => t.act = "found"
    /\ t.act = "found" => t.step = "link" \/ (t.supplier = Nobody /\ t.drop = {})
    /\ t.step \in {"saveSupplier", "compare"} => t.act = "change"
    /\ t.step = "link" => t.act \in {"found", "change"} /\ t.supplier \in known
    /\ t.step = "listItem" => t.act = "list"
    /\ t.act = "change" => t.supplier \in known
    /\ t.step = "attach" => t.act = "purchase" /\ t.supplier \in Supplier
                                              /\ t.purchase \in Purchase

(* A supplier that is not there is linked to what was added under its name; *)
(* and one whose requests have come one at a time is linked to what it      *)
(* should be, but for what the request under way is about to do.            *)
LinkInv ==
  /\ \A s \in Supplier \ known : carried[s] = past.extra[s]
  /\ \A s \in known \ past.torn :
       /\ \A j, k \in Job : Tied(work[j], s) /\ Tied(work[k], s) => j = k
       /\ \A j \in Job : Tied(work[j], s) => LET t == work[j] IN
            /\ t.step \in {"compare", "link"} => sells[s] = t.items
            /\ t.step = "link" => /\ past.extra[s] = {}
                                 /\ (carried[s] \ t.drop) \cup t.todo = t.items
                                 /\ t.drop \cap t.items = {}
            /\ t.step \notin {"compare", "link"} => carried[s] = sells[s] \cup past.extra[s]

CatalogueInv ==
  /\ CatalogueTypeOK
  /\ StepInv /\ HolderInv /\ LinkInv
  /\ NeverOverdrawn /\ NoChangeLost /\ SidesAgree
=============================================================================
