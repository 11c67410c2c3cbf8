--------------------------- MODULE CatalogueProofs ---------------------------
(***************************************************************************)
(* Proofs about Catalogue, for any number of handlers, items, suppliers    *)
(* and faults: CatalogueInv is inductive.  A handler that is about to write *)
(* a stock holds its row, so no change is lost and no deduction takes more *)
(* than there is; and a request about a supplier that has it to itself     *)
(* leaves the two services in agreement.                                   *)
(***************************************************************************)
EXTENDS Catalogue, TLAPS

-----------------------------------------------------------------------------
(* Types, and what StepInv says of one handler.                            *)

StepOK(t, items, suppliers) ==
  /\ t.step \in {"lock", "write"} => t.act \in {"add", "deduct"} /\ t.item \in items
  /\ t.step = "saveItem" => t.act = "edit" /\ t.item \in items /\ t.amount \in Nat
  /\ t.step = "listItem" => t.item \in Item /\ t.amount \in Nat
  /\ t.act = "list" => t.step = "listItem" /\ t.supplier \in Supplier
  /\ t.step = "validate" => t.act \in {"found", "change"}
  /\ t.step = "create" => t.act = "found"
  /\ t.act = "found" => t.step = "link" \/ (t.supplier = Nobody /\ t.drop = {})
  /\ t.step \in {"saveSupplier", "compare"} => t.act = "change"
  /\ t.step = "link" => t.act \in {"found", "change"} /\ t.supplier \in suppliers
  /\ t.step = "listItem" => t.act = "list"
  /\ t.act = "change" => t.supplier \in suppliers
  /\ t.step = "attach" => t.act = "purchase" /\ t.supplier \in Supplier /\ t.purchase \in Purchase

LEMMA StepMeans == StepInv <=> \A j \in Job : StepOK(work[j], listed, known)
BY DEF StepInv, StepOK

LEMMA RestFine ==
  /\ Rest \in Task
  /\ \A items, suppliers : StepOK(Rest, items, suppliers)
  /\ \A s \in Supplier : ~Tied(Rest, s)
  /\ Rest.step = "rest"
BY DEF Rest, Task, Step, Act, StepOK, Tied

LEMMA StepStays ==
  ASSUME NEW t, NEW items, NEW more, NEW suppliers, NEW others,
         StepOK(t, items, suppliers), items \subseteq more, suppliers \subseteq others
  PROVE  StepOK(t, more, others)
BY DEF StepOK

LEMMA DoesType ==
  ASSUME CatalogueTypeOK, NEW j \in Job, NEW t \in Task, Does(j, t)
  PROVE  /\ work' \in [Job -> Task]
         /\ work'[j] = t
         /\ \A k \in Job \ {j} : work'[k] = work[k]
BY DEF CatalogueTypeOK, Does

-----------------------------------------------------------------------------
(* Stock.                                                                  *)

StockInv == HolderInv /\ NeverOverdrawn /\ NoChangeLost

(* A step that leaves every row alone, of a handler that holds none. *)
LEMMA StockUntouched ==
  ASSUME CatalogueTypeOK, StockInv, NEW j \in Job, NEW t \in Task, Does(j, t),
         work[j].step # "write", t.step # "write",
         UNCHANGED <<stock, holder>>,
         past'.owed = past.owed, past'.takenBack = past.takenBack
  PROVE  StockInv'
<1>1. work'[j] = t /\ \A k \in Job \ {j} : work'[k] = work[k]  BY DoesType
<1>2. HolderInv'
  <2>1. ASSUME NEW k \in Job, work'[k].step = "write"
        PROVE  holder'[work'[k].item] = k /\ work'[k].read = stock'[work'[k].item]
    BY <1>1, <2>1 DEF StockInv, HolderInv
  <2>2. ASSUME NEW i \in Item, holder'[i] # Nobody
        PROVE  Holds(holder[i], i)'
    <3>1. Holds(holder[i], i) /\ holder[i] \in Job
      BY <2>2, NobodyAssumption DEF StockInv, HolderInv, CatalogueTypeOK
    <3>. QED  BY <1>1, <3>1 DEF Holds
  <2>. QED  BY <2>1, <2>2 DEF HolderInv
<1>3. NeverOverdrawn' /\ NoChangeLost'
  BY DEF StockInv, NeverOverdrawn, NoChangeLost
<1>. QED  BY <1>2, <1>3 DEF StockInv

(* One row is written, by whom it belongs to or while it belongs to nobody. *)
LEMMA StockWritten ==
  ASSUME CatalogueTypeOK, StockInv, NEW j \in Job, Does(j, Rest),
         NEW i \in Item, NEW n \in Int, NEW m \in Nat, n + m >= 0,
         \A k \in Job : work[k].step = "write" => work[k].item \in Item,
         \A k \in Job \ {j} : ~Holds(k, i),
         stock' = [stock EXCEPT ![i] = n], past'.owed = [past.owed EXCEPT ![i] = n],
         past'.takenBack = [past.takenBack EXCEPT ![i] = m],
         \/ Holds(j, i) /\ holder' = [holder EXCEPT ![i] = Nobody]
         \/ work[j].step # "write" /\ UNCHANGED holder
  PROVE  StockInv'
<1>1. work'[j] = Rest /\ (\A k \in Job \ {j} : work'[k] = work[k])
  BY DoesType, RestFine
<1>2. /\ past.owed \in [Item -> Int] /\ past.takenBack \in [Item -> Nat]
      /\ stock \in [Item -> Int]
      /\ holder \in [Item -> Job \cup {Nobody}] /\ work \in [Job -> Task]
  BY DEF CatalogueTypeOK, Past
<1>3. HolderInv'
  <2>1. ASSUME NEW k \in Job, work'[k].step = "write"
        PROVE  holder'[work'[k].item] = k /\ work'[k].read = stock'[work'[k].item]
    <3>1. k # j /\ work'[k] = work[k]  BY <1>1, <2>1, RestFine
    <3>2. holder[work[k].item] = k /\ work[k].read = stock[work[k].item]
      BY <2>1, <3>1 DEF StockInv, HolderInv
    <3>3. work[k].item # i /\ work[k].item \in Item  BY <2>1, <3>1 DEF Holds
    <3>. QED  BY <1>2, <3>1, <3>2, <3>3
  <2>2. ASSUME NEW l \in Item, holder'[l] # Nobody
        PROVE  Holds(holder[l], l)'
    <3>1. holder'[l] = holder[l]  BY <1>2, <2>2
    <3>2. holder[l] \in Job /\ Holds(holder[l], l)
      BY <1>2, <2>2, <3>1, NobodyAssumption DEF StockInv, HolderInv
    <3>3. holder[l] # j  BY <1>2, <2>2, <3>1, <3>2 DEF Holds
    <3>. QED  BY <1>1, <3>1, <3>2, <3>3 DEF Holds
  <2>. QED  BY <2>1, <2>2 DEF HolderInv
<1>4. NeverOverdrawn' /\ NoChangeLost'
  BY <1>2 DEF StockInv, NeverOverdrawn, NoChangeLost
<1>. QED  BY <1>3, <1>4 DEF StockInv

-----------------------------------------------------------------------------
(* Links, supplier by supplier: the handlers tied to it, what it carries,   *)
(* what it sells, and what it was given beside that.                        *)

LinksOf(t, c, b, x) ==
  /\ t.step \in {"compare", "link"} => b = t.items
  /\ t.step = "link" => x = {} /\ (c \ t.drop) \cup t.todo = t.items /\ t.drop \cap t.items = {}
  /\ t.step \notin {"compare", "link"} => c = b \cup x

Orderly(w, s, c, b, x) ==
  /\ \A j, k \in Job : Tied(w[j], s) /\ Tied(w[k], s) => j = k
  /\ \A j \in Job : Tied(w[j], s) => LinksOf(w[j], c, b, x)
  /\ (\A j \in Job : ~Tied(w[j], s)) => c = b \cup x

LEMMA OrderlyMeans ==
  LinkInv /\ SidesAgree <=>
    /\ \A s \in Supplier \ known : carried[s] = past.extra[s]
    /\ \A s \in known \ past.torn : Orderly(work, s, carried[s], sells[s], past.extra[s])
BY DEF LinkInv, SidesAgree, Orderly, LinksOf

(* A step of a handler that is not tied to the supplier. *)
LEMMA OrderlyOther ==
  ASSUME NEW w, NEW v, NEW j \in Job, NEW t, NEW s, NEW c, NEW b, NEW x,
         Orderly(w, s, c, b, x), v[j] = t, \A k \in Job \ {j} : v[k] = w[k],
         ~Tied(w[j], s), ~Tied(t, s)
  PROVE  Orderly(v, s, c, b, x)
BY DEF Orderly

(* A step of the only handler that is. *)
LEMMA OrderlyAlone ==
  ASSUME NEW v, NEW j \in Job, NEW t, NEW s, NEW c, NEW b, NEW x,
         v[j] = t, \A k \in Job \ {j} : ~Tied(v[k], s),
         Tied(t, s) => LinksOf(t, c, b, x),
         ~Tied(t, s) => c = b \cup x
  PROVE  Orderly(v, s, c, b, x)
BY DEF Orderly

LEMMA OrderlyTied ==
  ASSUME NEW w, NEW j \in Job, NEW s, NEW c, NEW b, NEW x,
         Orderly(w, s, c, b, x), Tied(w[j], s)
  PROVE  LinksOf(w[j], c, b, x) /\ \A k \in Job \ {j} : ~Tied(w[k], s)
BY DEF Orderly

(* A step that writes no link, of a handler that goes on from no link to    *)
(* none, or ends; or that comes, and has the supplier to itself.            *)
LinksAlone(j, t) ==
  /\ Does(j, t)
  /\ UNCHANGED <<carried, known, sells>> /\ past'.extra = past.extra
  /\ \A s \in known \ past'.torn :
       /\ s \notin past.torn
       /\ Tied(work[j], s) => work[j].step \notin {"compare", "link"}
       /\ Tied(t, s) => /\ t.step \notin {"compare", "link"}
                        /\ Tied(work[j], s) \/ ~Shared(j, s)

LEMMA LinksUntouched ==
  ASSUME CatalogueTypeOK, LinkInv, SidesAgree, NEW j \in Job, NEW t \in Task, LinksAlone(j, t)
  PROVE  LinkInv' /\ SidesAgree'
<1>1. /\ work'[j] = t
      /\ \A k \in Job \ {j} : work'[k] = work[k]
  BY DoesType DEF LinksAlone
<1>2. ASSUME NEW s \in known' \ past'.torn
      PROVE  Orderly(work', s, carried'[s], sells'[s], past'.extra[s])
  <2>. DEFINE c == carried[s]  b == sells[s]  x == past.extra[s]
  <2>0. /\ s \in known \ past.torn
        /\ carried'[s] = c /\ sells'[s] = b /\ past'.extra[s] = x
    BY <1>2 DEF LinksAlone
  <2>1. Orderly(work, s, c, b, x)  BY <2>0, OrderlyMeans
  <2>2. CASE Tied(work[j], s)
    <3>1. LinksOf(work[j], c, b, x) /\ \A k \in Job \ {j} : ~Tied(work[k], s)
      BY <2>1, <2>2, OrderlyTied
    <3>2. c = b \cup x  BY <1>2, <2>0, <2>2, <3>1 DEF LinksAlone, LinksOf
    <3>3. Tied(t, s) => LinksOf(t, c, b, x)
      BY <1>2, <2>0, <3>2 DEF LinksAlone, LinksOf
    <3>4. \A k \in Job \ {j} : ~Tied(work'[k], s)  BY <1>1, <3>1
    <3>5. Orderly(work', s, c, b, x)
      <4>. HIDE DEF c, b, x
      <4>. QED  BY <1>1, <3>2, <3>3, <3>4, OrderlyAlone
    <3>. QED  BY <2>0, <3>5
  <2>3. CASE ~Tied(work[j], s) /\ ~Tied(t, s)
    <3>1. Orderly(work', s, c, b, x)
      <4>. HIDE DEF c, b, x
      <4>. QED  BY <1>1, <2>1, <2>3, OrderlyOther
    <3>. QED  BY <2>0, <3>1
  <2>4. CASE ~Tied(work[j], s) /\ Tied(t, s)
    <3>1. \A k \in Job \ {j} : ~Tied(work[k], s)
      BY <1>2, <2>0, <2>4 DEF LinksAlone, Shared
    <3>2. c = b \cup x  BY <2>1, <2>4, <3>1 DEF Orderly
    <3>3. LinksOf(t, c, b, x)  BY <1>2, <2>0, <2>4, <3>2 DEF LinksAlone, LinksOf
    <3>4. \A k \in Job \ {j} : ~Tied(work'[k], s)  BY <1>1, <3>1
    <3>5. Orderly(work', s, c, b, x)
      <4>. HIDE DEF c, b, x
      <4>. QED  BY <1>1, <3>2, <3>3, <3>4, OrderlyAlone
    <3>. QED  BY <2>0, <3>5
  <2>. QED  BY <2>2, <2>3, <2>4
<1>3. ASSUME NEW s \in Supplier \ known'  PROVE carried'[s] = past'.extra[s]
  BY <1>3, OrderlyMeans DEF LinksAlone
<1>. QED  BY <1>2, <1>3, OrderlyMeans DEF LinkInv, SidesAgree, Orderly, LinksOf

(* A step that writes links of one supplier, which the handler has to       *)
(* itself if they are to be in order.                                       *)
LEMMA LinksWritten ==
  ASSUME CatalogueTypeOK, LinkInv, SidesAgree, NEW j \in Job, NEW t \in Task, Does(j, t),
         NEW s \in Supplier, known \subseteq known', known' \subseteq known \cup {s},
         past.torn \subseteq past'.torn \cup {s},
         \A u \in Supplier \ {s} : /\ carried'[u] = carried[u] /\ sells'[u] = sells[u]
                                   /\ past'.extra[u] = past.extra[u]
                                   /\ ~Tied(work[j], u) /\ ~Tied(t, u),
         s \notin known' => carried'[s] = past'.extra[s],
         s \in known' \ past'.torn =>
           /\ \A k \in Job \ {j} : ~Tied(work[k], s)
           /\ Tied(t, s) => LinksOf(t, carried'[s], sells'[s], past'.extra[s])
           /\ ~Tied(t, s) => carried'[s] = sells'[s] \cup past'.extra[s]
  PROVE  LinkInv' /\ SidesAgree'
<1>1. /\ work'[j] = t
      /\ \A k \in Job \ {j} : work'[k] = work[k]
  BY DoesType
<1>2. ASSUME NEW u \in known' \ past'.torn
      PROVE  Orderly(work', u, carried'[u], sells'[u], past'.extra[u])
  <2>1. CASE u = s
    <3>. DEFINE c == carried'[s]  b == sells'[s]  x == past'.extra[s]
    <3>1. /\ \A k \in Job \ {j} : ~Tied(work'[k], s)
          /\ Tied(t, s) => LinksOf(t, c, b, x)
          /\ ~Tied(t, s) => c = b \cup x
      BY <1>1, <1>2, <2>1
    <3>2. Orderly(work', s, c, b, x)
      <4>. HIDE DEF c, b, x
      <4>. QED  BY <1>1, <3>1, OrderlyAlone
    <3>. QED  BY <2>1, <3>2
  <2>2. CASE u # s
    <3>. DEFINE c == carried[u]  b == sells[u]  x == past.extra[u]
    <3>1. u \in known \ past.torn /\ u \in Supplier \ {s}
      BY <1>2, <2>2 DEF CatalogueTypeOK
    <3>2. Orderly(work, u, c, b, x)  BY <3>1, OrderlyMeans
    <3>3. Orderly(work', u, c, b, x)
      <4>1. ~Tied(work[j], u) /\ ~Tied(t, u)  BY <3>1
      <4>. HIDE DEF c, b, x
      <4>. QED  BY <1>1, <3>2, <4>1, OrderlyOther
    <3>. QED  BY <3>1, <3>3
  <2>. QED  BY <2>1, <2>2
<1>3. ASSUME NEW u \in Supplier \ known'  PROVE carried'[u] = past'.extra[u]
  <2>1. CASE u = s  BY <1>3, <2>1
  <2>2. CASE u # s
    <3>1. u \in Supplier \ known  BY <1>3
    <3>. QED  BY <2>2, <3>1, OrderlyMeans
  <2>. QED  BY <2>1, <2>2
<1>. QED  BY <1>2, <1>3, OrderlyMeans DEF LinkInv, SidesAgree, Orderly, LinksOf

-----------------------------------------------------------------------------
(* Steps.                                                                  *)

ShelvesOK ==
  /\ listed \in SUBSET Item
  /\ stock \in [Item -> Int]
  /\ holder \in [Item -> Job \cup {Nobody}]
  /\ carried \in [Supplier -> SUBSET Item]
  /\ known \in SUBSET Supplier
  /\ sells \in [Supplier -> SUBSET Item]
  /\ bought \in [Supplier -> SUBSET Purchase]
  /\ placed \in [Purchase -> Supplier \cup {Nobody}]
  /\ begun \in 0..MaxJobs
  /\ sideways \in 0..MaxJobOverlaps
  /\ mishaps \in 0..MaxMishaps
  /\ past \in Past

LEMMA WorkBefore ==
  ASSUME CatalogueInv
  PROVE  /\ CatalogueTypeOK /\ ShelvesOK /\ StockInv /\ LinkInv /\ SidesAgree
         /\ \A j \in Job : work[j] \in Task /\ StepOK(work[j], listed, known)
BY StepMeans DEF CatalogueInv, CatalogueTypeOK, ShelvesOK, StockInv

LEMMA WorkAfter ==
  ASSUME CatalogueInv, NEW j \in Job, NEW t \in Task, Does(j, t),
         ShelvesOK', StockInv', LinkInv', SidesAgree',
         StepOK(t, listed', known'), listed \subseteq listed', known \subseteq known'
  PROVE  CatalogueInv'
<1>1. /\ work' \in [Job -> Task]
      /\ work'[j] = t
      /\ \A k \in Job \ {j} : work'[k] = work[k]
  BY WorkBefore, DoesType
<1>2. CatalogueTypeOK'  BY <1>1 DEF CatalogueTypeOK, ShelvesOK
<1>3. \A k \in Job : StepOK(work'[k], listed', known')
  <2>1. \A k \in Job \ {j} : StepOK(work[k], listed', known')  BY WorkBefore, StepStays
  <2>. QED  BY <1>1, <2>1
<1>4. StepInv'  BY <1>3 DEF StepInv, StepOK
<1>. QED  BY <1>2, <1>4 DEF CatalogueInv, StockInv

(* A step that writes neither stock nor links. *)
LEMMA WorkQuietly ==
  ASSUME CatalogueInv, NEW j \in Job, NEW t \in Task, LinksAlone(j, t), ShelvesOK',
         UNCHANGED shelf, past'.owed = past.owed, past'.takenBack = past.takenBack,
         StepOK(t, listed, known), work[j].step # "write", t.step # "write"
  PROVE  CatalogueInv'
<1>0. CatalogueTypeOK /\ StockInv /\ LinkInv /\ SidesAgree  BY WorkBefore
<1>1. Does(j, t) /\ known' = known  BY DEF LinksAlone
<1>2. StockInv'  BY <1>0, <1>1, StockUntouched DEF shelf
<1>3. LinkInv' /\ SidesAgree'  BY <1>0, LinksUntouched
<1>. QED  BY <1>1, <1>2, <1>3, WorkAfter DEF shelf

LEMMA ComingKeeps ==
  ASSUME CatalogueInv, NEW j \in Job, NEW t \in Task, Comes(j, t),
         UNCHANGED <<shelf, carried, known, sells, bought>>,
         placed' \in [Purchase -> Supplier \cup {Nobody}],
         StepOK(t, listed, known), t.step \notin {"write", "compare", "link"}
  PROVE  CatalogueInv'
<1>1. ShelvesOK /\ Does(j, t) /\ work[j] = Rest  BY WorkBefore DEF Comes
<1>2. /\ past' \in Past
      /\ past'.owed = past.owed /\ past'.takenBack = past.takenBack
      /\ past'.extra = past.extra
      /\ past'.torn = past.torn \cup {s \in Supplier : Tied(t, s) /\ Shared(j, s)}
  BY <1>1 DEF Comes, Past, ShelvesOK
<1>3. ShelvesOK'
  <2>1. begun' \in 0..MaxJobs /\ sideways' \in 0..MaxJobOverlaps /\ mishaps' \in 0..MaxMishaps
    BY <1>1, JobAssumption DEF Comes, ShelvesOK
  <2>. QED  BY <1>1, <1>2, <2>1 DEF ShelvesOK, shelf
<1>4. LinksAlone(j, t)
  <2>1. ASSUME NEW s \in known \ past'.torn
        PROVE  s \notin past.torn /\ ~Tied(work[j], s) /\ (Tied(t, s) => ~Shared(j, s))
    BY <1>1, <1>2, <2>1, RestFine DEF ShelvesOK
  <2>. QED  BY <1>1, <1>2, <2>1 DEF LinksAlone
<1>. QED  BY <1>1, <1>2, <1>3, <1>4, WorkQuietly, RestFine

-----------------------------------------------------------------------------
(* One lemma per action.                                                   *)

LEMMA ChangeStockKeeps ==
  ASSUME CatalogueInv, NEW j \in Job, NEW i \in Item, NEW act \in {"add", "deduct"},
         NEW q \in Int, ChangeStock(j, i, act, q)
  PROVE  CatalogueInv'
<1>. DEFINE t == [Rest EXCEPT !.step = "lock", !.act = act, !.item = i, !.amount = q]
<1>0. t \in Task /\ t.step = "lock" /\ t.act = act /\ t.item = i
  BY RestFine DEF Task, Step, Act
<1>1. t \in Task /\ StepOK(t, listed, known) /\ t.step = "lock"
  BY <1>0 DEF StepOK, ChangeStock
<1>2. ShelvesOK  BY WorkBefore
<1>. QED  BY <1>1, <1>2, ComingKeeps DEF ChangeStock, supply, ShelvesOK

LEMMA EditItemKeeps ==
  ASSUME CatalogueInv, NEW j \in Job, NEW i \in Item, NEW level \in Level, EditItem(j, i, level)
  PROVE  CatalogueInv'
<1>. DEFINE t == [Rest EXCEPT !.step = "saveItem", !.act = "edit", !.item = i, !.amount = level]
<1>0. /\ t \in Task /\ t.step = "saveItem" /\ t.act = "edit" /\ t.item = i
      /\ t.amount \in Nat
  <2>1. level \in Nat /\ level \in Int  BY QuantityAssumption
  <2>2. t \in Task  BY <2>1, RestFine DEF Task, Step, Act
  <2>. QED  BY <2>1, <2>2 DEF Rest
<1>1. t \in Task /\ StepOK(t, listed, known) /\ t.step = "saveItem"
  BY <1>0 DEF StepOK, EditItem
<1>2. ShelvesOK  BY WorkBefore
<1>. QED  BY <1>1, <1>2, ComingKeeps DEF EditItem, supply, ShelvesOK

LEMMA AddResourceKeeps ==
  ASSUME CatalogueInv, NEW j \in Job, NEW i \in Item, NEW s \in Supplier, NEW level \in Level,
         AddResource(j, i, s, level)
  PROVE  CatalogueInv'
<1>. DEFINE t == [Rest EXCEPT !.step = "listItem", !.act = "list", !.item = i,
                              !.supplier = s, !.amount = level]
<1>0. /\ t \in Task /\ t.step = "listItem" /\ t.act = "list" /\ t.item = i
      /\ t.supplier = s /\ t.amount \in Nat
  <2>1. level \in Nat /\ level \in Int  BY QuantityAssumption
  <2>2. t \in Task  BY <2>1, RestFine DEF Task, Step, Act
  <2>. QED  BY <2>1, <2>2 DEF Rest
<1>1. t \in Task /\ StepOK(t, listed, known) /\ t.step = "listItem"
  BY <1>0 DEF StepOK, AddResource
<1>2. ShelvesOK  BY WorkBefore
<1>. QED  BY <1>1, <1>2, ComingKeeps DEF AddResource, supply, ShelvesOK

LEMMA AddSupplierKeeps ==
  ASSUME CatalogueInv, NEW j \in Job, NEW items \in SUBSET Item, AddSupplier(j, items)
  PROVE  CatalogueInv'
<1>. DEFINE t == [Rest EXCEPT !.step = IF items = {} THEN "create" ELSE "validate",
                              !.act = "found", !.items = items]
<1>0. t \in Task /\ t.step \in {"create", "validate"} /\ t.act = "found" /\ t.supplier = Nobody /\ t.drop = {}
  BY RestFine DEF Task, Step, Act, Rest
<1>1. t \in Task /\ StepOK(t, listed, known) /\ t.step \in {"create", "validate"}
  BY <1>0 DEF StepOK
<1>2. ShelvesOK  BY WorkBefore
<1>. QED  BY <1>1, <1>2, ComingKeeps DEF AddSupplier, supply, ShelvesOK

LEMMA UpdateSupplierKeeps ==
  ASSUME CatalogueInv, NEW j \in Job, NEW s \in Supplier, NEW items \in SUBSET Item,
         UpdateSupplier(j, s, items)
  PROVE  CatalogueInv'
<1>. DEFINE t == [Rest EXCEPT !.step = IF items = {} THEN "saveSupplier" ELSE "validate",
                              !.act = "change", !.supplier = s, !.items = items,
                              !.bought = LoadCollections(s)]
<1>0. t \in Task /\ t.step \in {"saveSupplier", "validate"} /\ t.act = "change" /\ t.supplier = s
  BY RestFine DEF Task, Step, Act, LoadCollections
<1>1. t \in Task /\ StepOK(t, listed, known) /\ t.step \in {"saveSupplier", "validate"}
  BY <1>0 DEF StepOK, UpdateSupplier
<1>2. ShelvesOK  BY WorkBefore
<1>. QED  BY <1>1, <1>2, ComingKeeps DEF UpdateSupplier, supply, ShelvesOK

LEMMA AddPurchaseKeeps ==
  ASSUME CatalogueInv, NEW j \in Job, NEW p \in Purchase, NEW s \in Supplier, AddPurchase(j, p, s)
  PROVE  CatalogueInv'
<1>. DEFINE t == [Rest EXCEPT !.step = "attach", !.act = "purchase", !.supplier = s,
                              !.purchase = p]
<1>0. t \in Task /\ t.step = "attach" /\ t.act = "purchase" /\ t.supplier = s /\ t.purchase = p
  BY RestFine DEF Task, Step, Act
<1>1. t \in Task /\ StepOK(t, listed, known) /\ t.step = "attach"
  BY <1>0 DEF StepOK
<1>2. placed' \in [Purchase -> Supplier \cup {Nobody}]  BY WorkBefore DEF AddPurchase, ShelvesOK
<1>. QED  BY <1>1, <1>2, ComingKeeps DEF AddPurchase

(* A handler of the stock, whose supplier is nobody's business. *)
LEMMA StockLinks ==
  ASSUME CatalogueInv, NEW j \in Job, NEW t \in Task, Does(j, t),
         work[j].act \notin {"list", "found", "change"}, t.act \notin {"list", "found", "change"},
         UNCHANGED <<carried, known, sells>>, past'.extra = past.extra, past'.torn = past.torn
  PROVE  LinkInv' /\ SidesAgree'
<1>1. LinksAlone(j, t)  BY DEF LinksAlone, Tied
<1>. QED  BY <1>1, WorkBefore, LinksUntouched

LEMMA LockKeeps ==
  ASSUME CatalogueInv, NEW j \in Job, Lock(j)
  PROVE  CatalogueInv'
<1>. DEFINE i == work[j].item
            t == [work[j] EXCEPT !.step = "write", !.read = stock[i]]
<1>1. /\ CatalogueTypeOK /\ ShelvesOK /\ StockInv /\ work[j] \in Task
      /\ StepOK(work[j], listed, known) /\ work[j].step = "lock"
  BY WorkBefore DEF Lock
<1>2. i \in Item /\ i \in listed /\ work[j].act \in {"add", "deduct"}
  BY <1>1 DEF StepOK, ShelvesOK
<1>3. t \in Task /\ StepOK(t, listed, known) /\ t.act = work[j].act /\ t.item = i
                 /\ t.step = "write" /\ t.read = stock[i]
  BY <1>1, <1>2 DEF Task, Step, StepOK, ShelvesOK
<1>4. Does(j, t) /\ UNCHANGED counters /\ UNCHANGED <<listed, stock, supply, past>>
                 /\ holder[i] = Nobody /\ holder' = [holder EXCEPT ![i] = j]
  BY DEF Lock, GoesOn, Free
<1>5. ShelvesOK'  BY <1>1, <1>4 DEF ShelvesOK, supply, counters
<1>6. StockInv'
  <2>1. work'[j] = t /\ \A k \in Job \ {j} : work'[k] = work[k]  BY <1>1, <1>3, <1>4, DoesType
  <2>2. holder \in [Item -> Job \cup {Nobody}]  BY <1>1 DEF ShelvesOK
  <2>3. ASSUME NEW k \in Job, work'[k].step = "write"
        PROVE  holder'[work'[k].item] = k /\ work'[k].read = stock'[work'[k].item]
    <3>1. CASE k = j  BY <1>2, <1>3, <1>4, <2>1, <2>2, <3>1
    <3>2. CASE k # j
      <4>1. holder[work[k].item] = k /\ work[k].read = stock[work[k].item] /\ work[k].item \in Item
        BY <1>1, <2>1, <2>3, <3>2, WorkBefore DEF StockInv, HolderInv, StepOK, ShelvesOK
      <4>2. work[k].item # i  BY <1>4, <4>1, NobodyAssumption
      <4>. QED  BY <1>4, <2>1, <2>2, <3>2, <4>1, <4>2
    <3>. QED  BY <3>1, <3>2
  <2>4. ASSUME NEW l \in Item, holder'[l] # Nobody
        PROVE  work'[holder'[l]].step = "write" /\ work'[holder'[l]].item = l
    <3>1. CASE l = i  BY <1>2, <1>3, <1>4, <2>1, <2>2, <3>1
    <3>2. CASE l # i
      <4>1. holder'[l] = holder[l]  BY <1>4, <2>2, <3>2
      <4>2. holder[l] \in Job /\ Holds(holder[l], l)
        BY <1>1, <2>2, <2>4, <4>1 DEF StockInv, HolderInv
      <4>3. holder[l] # j  BY <1>1, <4>2 DEF Holds
      <4>. QED  BY <2>1, <4>1, <4>2, <4>3 DEF Holds
    <3>. QED  BY <3>1, <3>2
  <2>. QED
    BY <1>1, <1>4, <2>3, <2>4 DEF StockInv, HolderInv, Holds, NeverOverdrawn, NoChangeLost
<1>7. LinkInv' /\ SidesAgree'  BY <1>2, <1>3, <1>4, StockLinks DEF supply
<1>. QED  BY <1>3, <1>4, <1>5, <1>6, <1>7, WorkAfter DEF supply

(* Who is about to write has the row, and nobody else. *)
LEMMA HoldsAlone ==
  ASSUME StockInv, NEW j \in Job, NEW i \in Item, Holds(j, i) \/ holder[i] = Nobody
  PROVE  \A k \in Job \ {j} : ~Holds(k, i)
BY NobodyAssumption DEF StockInv, HolderInv, Holds

LEMMA RowWritten ==
  ASSUME CatalogueInv, NEW j \in Job, NEW i \in Item, Does(j, Rest),
         NEW n \in Int, NEW m \in Nat, n + m >= 0,
         UNCHANGED counters, UNCHANGED <<listed, supply>>,
         stock' = [stock EXCEPT ![i] = n],
         \/ past' = [past EXCEPT !.owed[i] = n, !.takenBack[i] = m]
         \/ UNCHANGED past /\ n = stock[i] /\ m = past.takenBack[i],
         work[j].act \notin {"list", "found", "change"},
         \/ Holds(j, i) /\ holder' = [holder EXCEPT ![i] = Nobody]
         \/ holder[i] = Nobody /\ work[j].step # "write" /\ UNCHANGED holder
  PROVE  CatalogueInv'
<1>1. CatalogueTypeOK /\ ShelvesOK /\ StockInv  BY WorkBefore
<1>2. /\ past' \in Past /\ past'.owed = [past.owed EXCEPT ![i] = n]
      /\ past'.takenBack = [past.takenBack EXCEPT ![i] = m]
      /\ past'.extra = past.extra /\ past'.torn = past.torn
  <2>1. past \in Past /\ past.owed[i] = stock[i]  BY <1>1 DEF ShelvesOK, StockInv, NoChangeLost
  <2>2. CASE UNCHANGED past /\ n = stock[i] /\ m = past.takenBack[i]
    BY <2>1, <2>2 DEF Past
  <2>3. CASE past' = [past EXCEPT !.owed[i] = n, !.takenBack[i] = m]
    <3>. DEFINE o == [past.owed EXCEPT ![i] = n]
                b == [past.takenBack EXCEPT ![i] = m]
    <3>1. o \in [Item -> Int] /\ b \in [Item -> Nat]  BY <2>1 DEF Past
    <3>2. past' = [past EXCEPT !.owed = o, !.takenBack = b]  BY <2>3
    <3>. HIDE DEF o, b
    <3>3. /\ past' \in Past /\ past'.owed = o /\ past'.takenBack = b
          /\ past'.extra = past.extra /\ past'.torn = past.torn
      BY <2>1, <3>1, <3>2 DEF Past
    <3>. QED  BY <3>3 DEF o, b
  <2>. QED  BY <2>2, <2>3
<1>3. ShelvesOK'  BY <1>1, <1>2 DEF ShelvesOK, supply, counters
<1>4. StockInv'
  <2>1. \A k \in Job \ {j} : ~Holds(k, i)  BY <1>1, HoldsAlone
  <2>2. \A k \in Job : work[k].step = "write" => work[k].item \in Item
    BY WorkBefore DEF StepOK, ShelvesOK
  <2>3. \/ Holds(j, i) /\ holder' = [holder EXCEPT ![i] = Nobody]
        \/ work[j].step # "write" /\ UNCHANGED holder
    OBVIOUS
  <2>. QED  BY <1>1, <1>2, <2>1, <2>2, <2>3, StockWritten
<1>5. LinkInv' /\ SidesAgree'
  <2>1. Rest.act = "none"  BY DEF Rest
  <2>. QED  BY <1>2, <2>1, StockLinks, RestFine DEF supply
<1>. QED  BY <1>3, <1>4, <1>5, WorkAfter, RestFine DEF supply

LEMMA WriteKeeps ==
  ASSUME CatalogueInv, NEW j \in Job, Write(j)
  PROVE  CatalogueInv'
<1>. DEFINE t == work[j]
            i == work[j].item
<1>1. /\ ShelvesOK /\ StockInv /\ t \in Task /\ StepOK(t, listed, known) /\ t.step = "write"
  BY WorkBefore DEF Write
<1>2. i \in Item /\ t.act \in {"add", "deduct"} /\ t.amount \in Int
  BY <1>1 DEF StepOK, ShelvesOK, Task
<1>3. /\ t.read = stock[i] /\ stock[i] \in Int /\ past.owed[i] = stock[i] /\ Holds(j, i)
      /\ past.takenBack[i] \in Nat /\ stock[i] + past.takenBack[i] >= 0
  BY <1>1, <1>2 DEF StockInv, HolderInv, NeverOverdrawn, NoChangeLost, Holds, ShelvesOK, Past
<1>4. /\ Does(j, Rest) /\ UNCHANGED counters /\ UNCHANGED <<listed, supply>>
      /\ holder' = [holder EXCEPT ![i] = Nobody]
  BY DEF Write, GoesOn
<1>5. CASE Enough(t)
  <2>. DEFINE n == Applied(t)
              m == past.takenBack[i] + TakenBack(t)
  <2>1. n \in Int /\ m \in Nat
    BY <1>2, <1>3 DEF Applied, Change, TakenBack
  <2>2. n + m >= 0
    <3>1. CASE t.act = "deduct"  BY <1>2, <1>3, <1>5, <3>1 DEF Enough, Applied, Change, TakenBack
    <3>2. CASE t.act = "add"  BY <1>2, <1>3, <3>2 DEF Applied, Change, TakenBack
    <3>. QED  BY <1>2, <3>1, <3>2
  <2>3. n = past.owed[i] + Change(t)  BY <1>3 DEF Applied
  <2>4. /\ stock' = [stock EXCEPT ![i] = n]
        /\ past' = [past EXCEPT !.owed[i] = n, !.takenBack[i] = m]
    <3>1. past' = [past EXCEPT !.owed[i] = past.owed[i] + Change(t), !.takenBack[i] = m]
      BY <1>5 DEF Write
    <3>. QED  BY <1>5, <2>3, <3>1 DEF Write
  <2>. HIDE DEF n, m
  <2>. QED  BY <1>2, <1>3, <1>4, <2>1, <2>2, <2>4, RowWritten
<1>6. CASE ~Enough(t)
  <2>1. stock' = stock /\ past' = past  BY <1>6 DEF Write
  <2>2. stock' = [stock EXCEPT ![i] = stock[i]]  BY <1>1, <2>1 DEF ShelvesOK
  <2>. QED  BY <1>2, <1>3, <1>4, <2>1, <2>2, RowWritten
<1>. QED  BY <1>5, <1>6

LEMMA SaveItemKeeps ==
  ASSUME CatalogueInv, NEW j \in Job, SaveItem(j)
  PROVE  CatalogueInv'
<1>. DEFINE t == work[j]
            i == work[j].item
<1>1. /\ ShelvesOK /\ t \in Task /\ StepOK(t, listed, known) /\ t.step = "saveItem"
  BY WorkBefore DEF SaveItem
<1>2. i \in Item /\ t.act = "edit" /\ t.amount \in Nat
  BY <1>1 DEF StepOK, ShelvesOK, Task
<1>3. /\ Does(j, Rest) /\ UNCHANGED counters /\ UNCHANGED <<listed, holder, supply>>
      /\ holder[i] = Nobody
      /\ stock' = [stock EXCEPT ![i] = t.amount]
      /\ past' = [past EXCEPT !.owed[i] = t.amount, !.takenBack[i] = 0]
  BY DEF SaveItem, GoesOn, Free
<1>4. t.amount \in Int /\ 0 \in Nat /\ t.amount + 0 >= 0  BY <1>2
<1>. QED  BY <1>1, <1>2, <1>3, <1>4, RowWritten

LEMMA ValidateResourceIDsKeeps ==
  ASSUME CatalogueInv, NEW j \in Job, ValidateResourceIDs(j)
  PROVE  CatalogueInv'
<1>. DEFINE h == work[j]
            g == [h EXCEPT !.step = IF h.act = "found" THEN "create" ELSE "saveSupplier"]
<1>1. /\ ShelvesOK /\ h \in Task /\ StepOK(h, listed, known) /\ h.step = "validate"
  BY WorkBefore DEF ValidateResourceIDs
<1>2. /\ g \in Task /\ g.act = h.act /\ g.supplier = h.supplier /\ g.drop = h.drop
      /\ g.step = IF h.act = "found" THEN "create" ELSE "saveSupplier"
  BY <1>1 DEF Task, Step
<1>3. StepOK(g, listed, known)  BY <1>1, <1>2 DEF StepOK
<1>4. PICK t : Does(j, t) /\ t \in {Rest, g}  BY DEF ValidateResourceIDs, GoesOn
<1>5. UNCHANGED <<shelf, supply, past>> /\ UNCHANGED counters
  BY DEF ValidateResourceIDs, GoesOn
<1>6. t \in Task /\ StepOK(t, listed, known) /\ t.step \in {"rest", "create", "saveSupplier"}
  BY <1>2, <1>3, <1>4, RestFine
<1>7. \A s \in Supplier : Tied(t, s) => Tied(h, s)
  BY <1>2, <1>4, RestFine DEF Tied
<1>8. LinksAlone(j, t)
  BY <1>1, <1>4, <1>5, <1>6, <1>7 DEF LinksAlone, supply, ShelvesOK
<1>9. ShelvesOK'  BY <1>1, <1>5 DEF ShelvesOK, shelf, supply, counters
<1>. QED  BY <1>1, <1>5, <1>6, <1>8, <1>9, WorkQuietly

LEMMA AttachKeeps ==
  ASSUME CatalogueInv, NEW j \in Job, AttachToSupplier(j)
  PROVE  CatalogueInv'
<1>. DEFINE h == work[j]
<1>1. /\ ShelvesOK /\ h \in Task /\ StepOK(h, listed, known) /\ h.step = "attach"
  BY WorkBefore DEF AttachToSupplier
<1>2. /\ Does(j, Rest) /\ UNCHANGED counters
      /\ UNCHANGED <<shelf, carried, known, sells, placed>>
  BY DEF AttachToSupplier, GoesOn
<1>3. h.act = "purchase" /\ h.supplier \in Supplier /\ h.purchase \in Purchase
  BY <1>1 DEF StepOK
<1>4. /\ bought' \in [Supplier -> SUBSET Purchase] /\ past' \in Past
      /\ past'.owed = past.owed /\ past'.takenBack = past.takenBack
      /\ past'.extra = past.extra /\ past'.torn = past.torn
  <2>1. CASE h.supplier \in known
    <3>1. bought' \in [Supplier -> SUBSET Purchase]
      BY <1>1, <1>3, <2>1 DEF AttachToSupplier, ShelvesOK
    <3>2. past \in Past
          /\ past' = [past EXCEPT !.linked[h.supplier] = @ \cup {h.purchase}]
      BY <1>1, <2>1 DEF AttachToSupplier, ShelvesOK
    <3>3. past.linked[h.supplier] \cup {h.purchase} \in SUBSET Purchase
      BY <1>3, <3>2 DEF Past
    <3>. QED  BY <1>3, <3>1, <3>2, <3>3 DEF Past
  <2>2. CASE h.supplier \notin known  BY <1>1, <2>2 DEF AttachToSupplier, ShelvesOK
  <2>. QED  BY <2>1, <2>2
<1>5. ShelvesOK'  BY <1>1, <1>2, <1>4 DEF ShelvesOK, shelf, counters
<1>6. LinksAlone(j, Rest)
  BY <1>1, <1>2, <1>3, <1>4, RestFine DEF LinksAlone, Tied, ShelvesOK
<1>. QED  BY <1>1, <1>2, <1>4, <1>5, <1>6, RestFine, WorkQuietly

(* What there is to say of the supplier a handler is tied to. *)
LEMMA TiedLinks ==
  ASSUME CatalogueInv, NEW j \in Job, NEW s \in known \ past.torn, Tied(work[j], s)
  PROVE  /\ LinksOf(work[j], carried[s], sells[s], past.extra[s])
         /\ \A k \in Job \ {j} : ~Tied(work[k], s)
<1>. DEFINE c == carried[s]  b == sells[s]  x == past.extra[s]
<1>1. Orderly(work, s, c, b, x)  BY WorkBefore, OrderlyMeans
<1>. HIDE DEF c, b, x
<1>2. LinksOf(work[j], c, b, x) /\ \A k \in Job \ {j} : ~Tied(work[k], s)
  BY <1>1, OrderlyTied
<1>. QED  BY <1>2 DEF c, b, x

LEMMA CreateWithSupplierKeeps ==
  ASSUME CatalogueInv, NEW j \in Job, CreateWithSupplier(j)
  PROVE  CatalogueInv'
<1>. DEFINE h == work[j]
            i == work[j].item
            s == work[j].supplier
<1>1. /\ CatalogueTypeOK /\ ShelvesOK /\ StockInv /\ LinkInv /\ SidesAgree
      /\ h \in Task /\ StepOK(h, listed, known) /\ h.step = "listItem"
  BY WorkBefore DEF CreateWithSupplier
<1>2. h.act = "list" /\ i \in Item /\ s \in Supplier /\ h.amount \in Nat
  BY <1>1 DEF StepOK, ShelvesOK, Task
<1>3. Does(j, Rest) /\ UNCHANGED counters /\ UNCHANGED <<holder, known, sells, bought, placed>>
  BY DEF CreateWithSupplier, GoesOn
<1>4. CASE i \in listed
  <2>1. UNCHANGED <<listed, stock, carried, past>>  BY <1>4 DEF CreateWithSupplier
  <2>2. ShelvesOK'  BY <1>1, <1>3, <2>1 DEF ShelvesOK, counters
  <2>3. LinksAlone(j, Rest)
    BY <1>1, <1>3, <2>1, RestFine DEF LinksAlone, ShelvesOK
  <2>. QED  BY <1>1, <1>3, <2>1, <2>2, <2>3, RestFine, WorkQuietly DEF shelf
<1>5. CASE i \notin listed
  <2>1. /\ listed' = listed \cup {i}
        /\ stock' = [stock EXCEPT ![i] = h.amount]
        /\ carried' = [carried EXCEPT ![s] = @ \cup {i}]
        /\ past' = [past EXCEPT !.owed[i] = h.amount, !.takenBack[i] = 0,
                                !.extra[s] = @ \cup {i}]
    BY <1>5 DEF CreateWithSupplier
  <2>2. /\ past \in Past /\ past.extra[s] \cup {i} \in SUBSET Item
    BY <1>1, <1>2 DEF ShelvesOK, Past
  <2>3. /\ past' \in Past
        /\ past'.owed = [past.owed EXCEPT ![i] = h.amount]
        /\ past'.takenBack = [past.takenBack EXCEPT ![i] = 0]
        /\ past'.extra = [past.extra EXCEPT ![s] = past.extra[s] \cup {i}]
        /\ past'.torn = past.torn
    <3>. DEFINE o == [past.owed EXCEPT ![i] = h.amount]
                b == [past.takenBack EXCEPT ![i] = 0]
                e == [past.extra EXCEPT ![s] = past.extra[s] \cup {i}]
    <3>1. /\ o \in [Item -> Int] /\ b \in [Item -> Nat]
          /\ e \in [Supplier -> SUBSET Item]
      BY <1>2, <2>2 DEF Past
    <3>2. past' = [past EXCEPT !.owed = o, !.takenBack = b, !.extra = e]  BY <2>1
    <3>. HIDE DEF o, b, e
    <3>3. /\ past' \in Past /\ past'.owed = o /\ past'.takenBack = b
          /\ past'.extra = e /\ past'.torn = past.torn
      BY <2>2, <3>1, <3>2 DEF Past
    <3>. QED  BY <3>3 DEF o, b, e
  <2>4. ShelvesOK'
    <3>1. carried' \in [Supplier -> SUBSET Item]  BY <1>1, <1>2, <2>1 DEF ShelvesOK
    <3>. QED  BY <1>1, <1>2, <1>3, <2>1, <2>3, <3>1 DEF ShelvesOK, counters
  <2>5. StockInv'
    <3>1. \A k \in Job : work[k].step = "write" => work[k].item \in Item /\ work[k].item # i
      BY <1>5, WorkBefore DEF StepOK, ShelvesOK
    <3>2. \A k \in Job \ {j} : ~Holds(k, i)  BY <3>1 DEF Holds
    <3>3. h.amount \in Int /\ 0 \in Nat /\ h.amount + 0 >= 0  BY <1>2
    <3>. QED  BY <1>1, <1>2, <1>3, <2>1, <2>3, <3>1, <3>2, <3>3, StockWritten
  <2>6. LinkInv' /\ SidesAgree'
    <3>1. \A u \in Supplier \ {s} :
            /\ carried'[u] = carried[u] /\ sells'[u] = sells[u] /\ past'.extra[u] = past.extra[u]
            /\ ~Tied(h, u) /\ ~Tied(Rest, u)
      BY <1>1, <1>2, <1>3, <2>1, <2>2, <2>3, RestFine DEF Tied, ShelvesOK, Past
    <3>2. /\ carried'[s] = carried[s] \cup {i} /\ past'.extra[s] = past.extra[s] \cup {i}
          /\ sells'[s] = sells[s] /\ known' = known
      BY <1>1, <1>2, <1>3, <2>1, <2>2, <2>3 DEF ShelvesOK, Past
    <3>3. ASSUME s \in known' \ past'.torn
          PROVE  /\ \A k \in Job \ {j} : ~Tied(work[k], s)
                 /\ carried'[s] = sells'[s] \cup past'.extra[s]
      <4>1. Tied(h, s) /\ s \in known \ past.torn  BY <1>2, <2>3, <3>2, <3>3 DEF Tied
      <4>2. /\ LinksOf(h, carried[s], sells[s], past.extra[s])
            /\ \A k \in Job \ {j} : ~Tied(work[k], s)
        BY <4>1, TiedLinks
      <4>3. carried[s] = sells[s] \cup past.extra[s]  BY <1>1, <4>2 DEF LinksOf
      <4>. QED  BY <3>2, <4>2, <4>3
    <3>4. s \notin known' => carried'[s] = past'.extra[s]
      BY <1>1, <1>2, <3>2 DEF LinkInv
    <3>5. /\ Rest \in Task /\ ~Tied(Rest, s)
          /\ known \subseteq known' /\ known' \subseteq known \cup {s}
          /\ past.torn \subseteq past'.torn \cup {s}
      BY <1>2, <2>3, <3>2, RestFine
    <3>. HIDE DEF s
    <3>. QED  BY <1>1, <1>2, <1>3, <3>1, <3>3, <3>4, <3>5, LinksWritten
  <2>. QED  BY <1>3, <2>1, <2>4, <2>5, <2>6, RestFine, WorkAfter
<1>. QED  BY <1>4, <1>5

LEMMA CreateSupplierKeeps ==
  ASSUME CatalogueInv, NEW j \in Job, NEW s \in Supplier, CreateSupplier(j, s)
  PROVE  CatalogueInv'
<1>. DEFINE h == work[j]
            g == [h EXCEPT !.step = "link", !.supplier = s, !.todo = h.items]
<1>1. /\ CatalogueTypeOK /\ ShelvesOK /\ StockInv /\ LinkInv /\ SidesAgree
      /\ h \in Task /\ StepOK(h, listed, known) /\ h.step = "create"
  BY WorkBefore DEF CreateSupplier
<1>2. h.act = "found" /\ h.supplier = Nobody /\ h.drop = {} /\ h.items \in SUBSET Item
  BY <1>1 DEF StepOK, Task
<1>3. /\ s \notin known /\ known' = known \cup {s}
      /\ sells' = [sells EXCEPT ![s] = h.items]
      /\ carried[s] = {} /\ \A k \in Job : work[k].supplier # s
      /\ UNCHANGED <<shelf, carried, bought, placed, past>> /\ UNCHANGED counters
  BY DEF CreateSupplier, Unused, GoesOn
<1>4. PICK t : /\ Does(j, t)
               /\ t = IF h.items = {} THEN Rest ELSE g
  BY DEF CreateSupplier, GoesOn
<1>5. /\ g \in Task /\ g.act = "found" /\ g.step = "link" /\ g.supplier = s
      /\ g.todo = h.items /\ g.items = h.items /\ g.drop = {}
  BY <1>1, <1>2 DEF Task, Step
<1>6. t \in Task /\ StepOK(t, listed', known') /\ t.step # "write"
  <2>1. StepOK(g, listed', known')  BY <1>3, <1>5 DEF StepOK
  <2>. QED  BY <1>4, <1>5, <2>1, RestFine
<1>7. ShelvesOK'
  <2>1. sells' \in [Supplier -> SUBSET Item]  BY <1>1, <1>2, <1>3 DEF ShelvesOK
  <2>. QED  BY <1>1, <1>3, <2>1 DEF ShelvesOK, shelf, counters
<1>8. StockInv'  BY <1>1, <1>3, <1>4, <1>6, StockUntouched DEF shelf
<1>9. LinkInv' /\ SidesAgree'
  <2>1. \A u \in Supplier \ {s} :
          /\ carried'[u] = carried[u] /\ sells'[u] = sells[u] /\ past'.extra[u] = past.extra[u]
          /\ ~Tied(h, u) /\ ~Tied(t, u)
    BY <1>1, <1>2, <1>3, <1>4, <1>5, RestFine, NobodyAssumption DEF Tied, ShelvesOK
  <2>2. \A k \in Job \ {j} : ~Tied(work[k], s)
    BY <1>3 DEF Tied
  <2>3. carried'[s] = {} /\ past'.extra[s] = {} /\ sells'[s] = h.items
    BY <1>1, <1>3 DEF LinkInv, ShelvesOK
  <2>4. Tied(t, s) => LinksOf(t, carried'[s], sells'[s], past'.extra[s])
    BY <1>4, <1>5, <2>3, RestFine DEF LinksOf
  <2>5. ~Tied(t, s) => carried'[s] = sells'[s] \cup past'.extra[s]
    BY <1>4, <1>5, <2>3 DEF Tied
  <2>6. s \in known' /\ known \subseteq known' /\ known' \subseteq known \cup {s}
        /\ past'.torn = past.torn
    BY <1>3
  <2>. QED  BY <1>1, <1>4, <1>6, <2>1, <2>2, <2>4, <2>5, <2>6, LinksWritten
<1>. QED  BY <1>3, <1>4, <1>6, <1>7, <1>8, <1>9, WorkAfter DEF shelf

LEMMA SaveSupplierKeeps ==
  ASSUME CatalogueInv, NEW j \in Job, SaveSupplier(j)
  PROVE  CatalogueInv'
<1>. DEFINE h == work[j]
            s == work[j].supplier
            g == [h EXCEPT !.step = "compare"]
<1>1. /\ CatalogueTypeOK /\ ShelvesOK /\ StockInv /\ LinkInv /\ SidesAgree
      /\ h \in Task /\ StepOK(h, listed, known) /\ h.step = "saveSupplier"
  BY WorkBefore DEF SaveSupplier
<1>2. h.act = "change" /\ s \in known /\ s \in Supplier
      /\ h.items \in SUBSET Item /\ h.bought \in SUBSET Purchase
  BY <1>1 DEF StepOK, ShelvesOK, Task
<1>3. /\ Does(j, g)
      /\ sells' = [sells EXCEPT ![s] = h.items] /\ bought' = [bought EXCEPT ![s] = h.bought]
      /\ past' = [past EXCEPT !.torn = IF Shared(j, s) THEN @ ELSE @ \ {s}]
      /\ UNCHANGED <<shelf, carried, known, placed>> /\ UNCHANGED counters
  BY DEF SaveSupplier, GoesOn
<1>4. /\ g \in Task /\ g.act = "change" /\ g.step = "compare" /\ g.supplier = s
      /\ g.items = h.items
  BY <1>1, <1>2 DEF Task, Step
<1>5. StepOK(g, listed, known)  BY <1>2, <1>4 DEF StepOK
<1>6. /\ past' \in Past /\ past'.owed = past.owed /\ past'.takenBack = past.takenBack
      /\ past'.extra = past.extra
      /\ past'.torn = IF Shared(j, s) THEN past.torn ELSE past.torn \ {s}
  BY <1>1, <1>3 DEF ShelvesOK, Past
<1>7. ShelvesOK'
  <2>1. sells' \in [Supplier -> SUBSET Item] /\ bought' \in [Supplier -> SUBSET Purchase]
    BY <1>1, <1>2, <1>3 DEF ShelvesOK
  <2>. QED  BY <1>1, <1>3, <1>6, <2>1 DEF ShelvesOK, shelf, counters
<1>8. StockInv'  BY <1>1, <1>3, <1>4, <1>6, StockUntouched DEF shelf
<1>9. LinkInv' /\ SidesAgree'
  <2>1. \A u \in Supplier \ {s} :
          /\ carried'[u] = carried[u] /\ sells'[u] = sells[u] /\ past'.extra[u] = past.extra[u]
          /\ ~Tied(h, u) /\ ~Tied(g, u)
    BY <1>1, <1>2, <1>3, <1>4, <1>6 DEF Tied, ShelvesOK
  <2>2. s \notin past'.torn => \A k \in Job \ {j} : ~Tied(work[k], s)
    <3>1. CASE Shared(j, s)
      <4>1. s \notin past'.torn => Tied(h, s) /\ s \in known \ past.torn
        BY <1>2, <1>6, <3>1 DEF Tied
      <4>. QED  BY <4>1, TiedLinks
    <3>2. CASE ~Shared(j, s)  BY <3>2 DEF Shared
    <3>. QED  BY <3>1, <3>2
  <2>3. /\ Tied(g, s)
        /\ LinksOf(g, carried'[s], sells'[s], past'.extra[s])
    BY <1>1, <1>2, <1>3, <1>4 DEF Tied, LinksOf, ShelvesOK
  <2>4. s \in known' /\ known' = known /\ past.torn \subseteq past'.torn \cup {s}
    BY <1>2, <1>3, <1>6
  <2>. QED  BY <1>1, <1>2, <1>3, <1>4, <2>1, <2>2, <2>3, <2>4, LinksWritten
<1>. QED  BY <1>3, <1>4, <1>5, <1>7, <1>8, <1>9, WorkAfter DEF shelf

LEMMA CompareKeeps ==
  ASSUME CatalogueInv, NEW j \in Job, Compare(j)
  PROVE  CatalogueInv'
<1>. DEFINE h == work[j]
            s == work[j].supplier
            todo == h.items \ carried[s]
            drop == carried[s] \ h.items
            g == [h EXCEPT !.step = "link", !.todo = todo, !.drop = drop]
<1>1. /\ CatalogueTypeOK /\ ShelvesOK /\ StockInv /\ LinkInv /\ SidesAgree
      /\ h \in Task /\ StepOK(h, listed, known) /\ h.step = "compare"
  BY WorkBefore DEF Compare
<1>2. h.act = "change" /\ s \in known /\ s \in Supplier /\ h.items \in SUBSET Item
  BY <1>1 DEF StepOK, ShelvesOK, Task
<1>3. PICK t : /\ Does(j, t)
               /\ t = IF todo \cup drop = {} THEN Rest ELSE g
  BY DEF Compare, Compared, GoesOn
<1>4. past' = [past EXCEPT !.extra[s] = {}] /\ UNCHANGED <<shelf, supply>> /\ UNCHANGED counters
  BY DEF Compare, GoesOn
<1>5. /\ todo \in SUBSET Item /\ drop \in SUBSET Item
  BY <1>1, <1>2 DEF ShelvesOK
<1>6. /\ g \in Task /\ g.act = "change" /\ g.step = "link" /\ g.supplier = s
      /\ g.items = h.items /\ g.todo = todo /\ g.drop = drop
  <2>. HIDE DEF todo, drop
  <2>. QED  BY <1>1, <1>2, <1>5 DEF Task, Step
<1>7. t \in Task /\ StepOK(t, listed, known) /\ t.step # "write"
  <2>1. StepOK(g, listed, known)  BY <1>2, <1>6 DEF StepOK
  <2>. QED  BY <1>3, <1>6, <2>1, RestFine
<1>8. /\ past' \in Past /\ past'.owed = past.owed /\ past'.takenBack = past.takenBack
      /\ past'.torn = past.torn
      /\ past'.extra = [past.extra EXCEPT ![s] = {}]
  BY <1>1, <1>2, <1>4 DEF ShelvesOK, Past
<1>9. ShelvesOK'  BY <1>1, <1>4, <1>8 DEF ShelvesOK, shelf, supply, counters
<1>10. StockInv'  BY <1>1, <1>3, <1>4, <1>7, <1>8, StockUntouched DEF shelf
<1>11. LinkInv' /\ SidesAgree'
  <2>1. past.extra \in [Supplier -> SUBSET Item]  BY <1>1 DEF ShelvesOK, Past
  <2>2. \A u \in Supplier \ {s} :
          /\ carried'[u] = carried[u] /\ sells'[u] = sells[u] /\ past'.extra[u] = past.extra[u]
          /\ ~Tied(h, u) /\ ~Tied(t, u)
    BY <1>2, <1>3, <1>4, <1>6, <1>8, <2>1, RestFine DEF Tied, supply
  <2>3. carried'[s] = carried[s] /\ sells'[s] = sells[s] /\ past'.extra[s] = {}
    BY <1>2, <1>4, <1>8, <2>1 DEF supply
  <2>4. ASSUME s \in known' \ past'.torn
        PROVE  /\ \A k \in Job \ {j} : ~Tied(work[k], s)
               /\ Tied(t, s) => LinksOf(t, carried'[s], sells'[s], past'.extra[s])
               /\ ~Tied(t, s) => carried'[s] = sells'[s] \cup past'.extra[s]
    <3>1. Tied(h, s) /\ s \in known \ past.torn  BY <1>2, <1>8, <2>4 DEF Tied
    <3>2. /\ LinksOf(h, carried[s], sells[s], past.extra[s])
          /\ \A k \in Job \ {j} : ~Tied(work[k], s)
      BY <3>1, TiedLinks
    <3>3. sells[s] = h.items  BY <1>1, <3>2 DEF LinksOf
    <3>4. CASE todo \cup drop = {}
      <4>1. carried[s] = h.items  BY <3>4
      <4>2. t = Rest  BY <1>3, <3>4
      <4>. QED  BY <1>2, <2>3, <3>2, <3>3, <4>1, <4>2, RestFine
    <3>5. CASE todo \cup drop # {}
      <4>1. t = g /\ Tied(t, s)  BY <1>3, <1>6, <3>5 DEF Tied
      <4>2. (carried[s] \ drop) \cup todo = h.items /\ drop \cap h.items = {}  OBVIOUS
      <4>3. LinksOf(g, carried[s], sells[s], {})
        <5>. HIDE DEF todo, drop, g
        <5>. QED  BY <1>6, <3>3, <4>2 DEF LinksOf
      <4>. QED  BY <2>3, <3>2, <4>1, <4>3
    <3>. QED  BY <3>4, <3>5
  <2>5. s \in known' /\ known' = known /\ past'.torn = past.torn  BY <1>2, <1>4, <1>8 DEF supply
  <2>. QED  BY <1>1, <1>2, <1>3, <1>7, <2>2, <2>4, <2>5, LinksWritten
<1>. QED  BY <1>3, <1>4, <1>7, <1>9, <1>10, <1>11, WorkAfter DEF shelf, supply

(* A link is made or removed. *)
LEMMA LinkKeeps ==
  ASSUME CatalogueInv, NEW j \in Job, NEW s, s = work[j].supplier, work[j].step = "link",
         NEW items \in SUBSET Item, NEW t \in Task, Does(j, t),
         carried' = [carried EXCEPT ![s] = items], UNCHANGED counters,
         UNCHANGED <<shelf, known, sells, bought, placed, past>>,
         t = Rest \/ (t.step = "link" /\ t.act = work[j].act /\ t.supplier = s),
         LinksOf(work[j], carried[s], sells[s], past.extra[s]) =>
           IF t = Rest THEN items = sells[s] \cup past.extra[s]
                       ELSE LinksOf(t, items, sells[s], past.extra[s])
  PROVE  CatalogueInv'
<1>. DEFINE h == work[j]
<1>1. /\ CatalogueTypeOK /\ ShelvesOK /\ StockInv /\ LinkInv /\ SidesAgree
      /\ h \in Task /\ StepOK(h, listed, known) /\ h.step = "link"
  BY WorkBefore
<1>2. h.act \in {"found", "change"} /\ s \in known /\ s \in Supplier
  BY <1>1 DEF StepOK, ShelvesOK
<1>3. StepOK(t, listed, known) /\ t.step # "write"  BY <1>2, RestFine DEF StepOK
<1>4. ShelvesOK'
  <2>1. carried' \in [Supplier -> SUBSET Item]  BY <1>1 DEF ShelvesOK
  <2>. QED  BY <1>1, <2>1 DEF ShelvesOK, shelf, counters
<1>5. StockInv'  BY <1>1, <1>3, StockUntouched DEF shelf
<1>6. LinkInv' /\ SidesAgree'
  <2>1. \A u \in Supplier \ {s} :
          /\ carried'[u] = carried[u] /\ sells'[u] = sells[u] /\ past'.extra[u] = past.extra[u]
          /\ ~Tied(h, u) /\ ~Tied(t, u)
    BY <1>1, <1>2, RestFine DEF Tied, ShelvesOK
  <2>2. carried'[s] = items /\ sells'[s] = sells[s] /\ past'.extra[s] = past.extra[s]
    BY <1>1, <1>2 DEF ShelvesOK
  <2>3. ASSUME s \in known' \ past'.torn
        PROVE  /\ \A k \in Job \ {j} : ~Tied(work[k], s)
               /\ Tied(t, s) => LinksOf(t, carried'[s], sells'[s], past'.extra[s])
               /\ ~Tied(t, s) => carried'[s] = sells'[s] \cup past'.extra[s]
    <3>1. Tied(h, s) /\ s \in known \ past.torn  BY <1>2, <2>3 DEF Tied
    <3>2. /\ LinksOf(h, carried[s], sells[s], past.extra[s])
          /\ \A k \in Job \ {j} : ~Tied(work[k], s)
      BY <3>1, TiedLinks
    <3>3. Tied(t, s) <=> t # Rest  BY <1>2, RestFine DEF Tied
    <3>. QED  BY <2>2, <3>2, <3>3
  <2>. QED  BY <1>1, <1>2, <2>1, <2>3, LinksWritten
<1>. QED  BY <1>3, <1>4, <1>5, <1>6, WorkAfter DEF shelf

LEMMA UnlinkKeeps ==
  ASSUME CatalogueInv, NEW j \in Job, NEW i \in Item, Unlink(j, i)
  PROVE  CatalogueInv'
<1>. DEFINE h == work[j]
            g == [h EXCEPT !.drop = @ \ {i}]
<1>1. ShelvesOK /\ h \in Task /\ StepOK(h, listed, known)  BY WorkBefore
<1>2. PICK s : s = h.supplier  OBVIOUS
<1>3. PICK c : c = carried[s]  OBVIOUS
<1>4. PICK t : /\ Does(j, t)
               /\ t = IF h.todo \cup h.drop = {i} THEN Rest ELSE g
  BY DEF Unlink, GoesOn
<1>5. /\ h.step = "link" /\ i \in h.drop
      /\ carried' = [carried EXCEPT ![s] = c \ {i}]
      /\ UNCHANGED <<shelf, known, sells, bought, placed, past>> /\ UNCHANGED counters
  BY <1>2, <1>3 DEF Unlink, GoesOn
<1>6. s \in Supplier /\ c \in SUBSET Item  BY <1>1, <1>2, <1>3, <1>5 DEF StepOK, ShelvesOK
<1>7. /\ g \in Task /\ g.step = "link" /\ g.act = h.act /\ g.supplier = s
      /\ g.items = h.items /\ g.todo = h.todo /\ g.drop = h.drop \ {i}
  BY <1>1, <1>2, <1>5 DEF Task
<1>8. ASSUME LinksOf(h, c, sells[s], past.extra[s])
      PROVE  IF t = Rest THEN c \ {i} = sells[s] \cup past.extra[s]
                         ELSE LinksOf(t, c \ {i}, sells[s], past.extra[s])
  <2>1. /\ sells[s] = h.items /\ past.extra[s] = {}
        /\ (c \ h.drop) \cup h.todo = h.items /\ h.drop \cap h.items = {}
    BY <1>5, <1>8 DEF LinksOf
  <2>2. CASE h.todo \cup h.drop = {i}
    <3>1. h.todo = {} /\ h.drop = {i}  BY <1>5, <2>1, <2>2
    <3>. QED  BY <1>4, <2>1, <2>2, <3>1
  <2>3. CASE h.todo \cup h.drop # {i}
    <3>1. t = g /\ t # Rest  BY <1>4, <1>7, <2>3, RestFine
    <3>2. ((c \ {i}) \ (h.drop \ {i})) \cup h.todo = h.items /\ (h.drop \ {i}) \cap h.items = {}
      BY <1>5, <2>1
    <3>. QED  BY <1>7, <2>1, <3>1, <3>2 DEF LinksOf
  <2>. QED  BY <2>2, <2>3
<1>9. t \in Task /\ (t = Rest \/ (t.step = "link" /\ t.act = h.act /\ t.supplier = s))
  BY <1>4, <1>7, RestFine
<1>10. c \ {i} \in SUBSET Item  BY <1>6
<1>. QED  BY <1>2, <1>3, <1>4, <1>5, <1>8, <1>9, <1>10, LinkKeeps

LEMMA LinkExistingKeeps ==
  ASSUME CatalogueInv, NEW j \in Job, NEW i \in Item, LinkExisting(j, i)
  PROVE  CatalogueInv'
<1>. DEFINE h == work[j]
            g == [h EXCEPT !.todo = @ \ {i}]
<1>1. ShelvesOK /\ h \in Task /\ StepOK(h, listed, known)  BY WorkBefore
<1>2. PICK s : s = h.supplier  OBVIOUS
<1>3. PICK c : c = carried[s]  OBVIOUS
<1>4. PICK t : /\ Does(j, t)
               /\ t = IF h.todo = {i} THEN Rest ELSE g
  BY DEF LinkExisting, GoesOn
<1>5. /\ h.step = "link" /\ h.drop = {} /\ i \in h.todo
      /\ carried' = [carried EXCEPT ![s] = c \cup {i}]
      /\ UNCHANGED <<shelf, known, sells, bought, placed, past>> /\ UNCHANGED counters
  BY <1>2, <1>3 DEF LinkExisting, GoesOn
<1>6. s \in Supplier /\ c \in SUBSET Item  BY <1>1, <1>2, <1>3, <1>5 DEF StepOK, ShelvesOK
<1>7. /\ g \in Task /\ g.step = "link" /\ g.act = h.act /\ g.supplier = s
      /\ g.items = h.items /\ g.todo = h.todo \ {i} /\ g.drop = {}
  BY <1>1, <1>2, <1>5 DEF Task
<1>8. ASSUME LinksOf(h, c, sells[s], past.extra[s])
      PROVE  IF t = Rest THEN c \cup {i} = sells[s] \cup past.extra[s]
                         ELSE LinksOf(t, c \cup {i}, sells[s], past.extra[s])
  <2>1. sells[s] = h.items /\ past.extra[s] = {} /\ c \cup h.todo = h.items
    BY <1>5, <1>8 DEF LinksOf
  <2>2. CASE h.todo = {i}  BY <1>4, <2>1, <2>2
  <2>3. CASE h.todo # {i}
    <3>1. t = g /\ t # Rest  BY <1>4, <1>7, <2>3, RestFine
    <3>2. ((c \cup {i}) \ {}) \cup (h.todo \ {i}) = h.items  BY <1>5, <2>1
    <3>. QED  BY <1>7, <2>1, <3>1, <3>2 DEF LinksOf
  <2>. QED  BY <2>2, <2>3
<1>9. t \in Task /\ (t = Rest \/ (t.step = "link" /\ t.act = h.act /\ t.supplier = s))
  BY <1>4, <1>7, RestFine
<1>10. c \cup {i} \in SUBSET Item  BY <1>6
<1>. QED  BY <1>2, <1>3, <1>4, <1>5, <1>8, <1>9, <1>10, LinkKeeps

LEMMA MishapKeeps ==
  ASSUME CatalogueInv, NEW j \in Job, Mishap(j)
  PROVE  CatalogueInv'
<1>. DEFINE h == work[j]
<1>1. CatalogueTypeOK /\ ShelvesOK /\ StockInv /\ LinkInv /\ SidesAgree
  BY WorkBefore
<1>2. /\ Does(j, Rest) /\ mishaps < MaxMishaps /\ mishaps' = mishaps + 1
      /\ holder' = [i \in Item |-> IF holder[i] = j THEN Nobody ELSE holder[i]]
      /\ past' = [past EXCEPT !.torn =
           IF h.step \in {"compare", "link"} THEN @ \cup {h.supplier} ELSE @]
      /\ UNCHANGED <<listed, stock, supply, begun, sideways>>
  BY DEF Mishap
<1>3. h.step \in {"compare", "link"} => h.supplier \in Supplier
  BY WorkBefore DEF StepOK, ShelvesOK
<1>4. /\ past' \in Past /\ past'.owed = past.owed /\ past'.takenBack = past.takenBack
      /\ past'.extra = past.extra
      /\ past'.torn = IF h.step \in {"compare", "link"} THEN past.torn \cup {h.supplier}
                                                       ELSE past.torn
  <2>. DEFINE n == IF h.step \in {"compare", "link"} THEN past.torn \cup {h.supplier}
                                                     ELSE past.torn
  <2>1. past \in Past /\ n \in SUBSET Supplier  BY <1>1, <1>3 DEF ShelvesOK, Past
  <2>2. past' = [past EXCEPT !.torn = n]  BY <1>2
  <2>. HIDE DEF n
  <2>3. /\ past' \in Past /\ past'.owed = past.owed /\ past'.takenBack = past.takenBack
        /\ past'.extra = past.extra /\ past'.torn = n
    BY <2>1, <2>2 DEF Past
  <2>. QED  BY <2>3 DEF n
<1>5. ShelvesOK'
  <2>1. mishaps' \in 0..MaxMishaps  BY <1>1, <1>2, JobAssumption DEF ShelvesOK
  <2>2. holder' \in [Item -> Job \cup {Nobody}]  BY <1>1, <1>2 DEF ShelvesOK
  <2>. QED  BY <1>1, <1>2, <1>4, <2>1, <2>2 DEF ShelvesOK, supply
<1>6. StockInv'
  <2>1. work'[j] = Rest /\ \A k \in Job \ {j} : work'[k] = work[k]
    BY <1>1, <1>2, DoesType, RestFine
  <2>2. ASSUME NEW k \in Job, work'[k].step = "write"
        PROVE  holder'[work'[k].item] = k /\ work'[k].read = stock'[work'[k].item]
    <3>1. k # j /\ work'[k] = work[k]  BY <2>1, <2>2, RestFine
    <3>2. holder[work[k].item] = k /\ work[k].read = stock[work[k].item] /\ work[k].item \in Item
      BY <1>1, <2>2, <3>1, WorkBefore DEF StockInv, HolderInv, StepOK, ShelvesOK
    <3>. QED  BY <1>2, <3>1, <3>2
  <2>3. ASSUME NEW i \in Item, holder'[i] # Nobody
        PROVE  work'[holder'[i]].step = "write" /\ work'[holder'[i]].item = i
    <3>1. holder'[i] = holder[i] /\ holder[i] # j  BY <1>2, <2>3
    <3>2. holder[i] \in Job /\ Holds(holder[i], i)
      BY <1>1, <2>3, <3>1 DEF StockInv, HolderInv, ShelvesOK
    <3>. QED  BY <2>1, <3>1, <3>2 DEF Holds
  <2>. QED
    BY <1>1, <1>2, <1>4, <2>2, <2>3 DEF StockInv, HolderInv, Holds, NeverOverdrawn, NoChangeLost
<1>7. LinkInv' /\ SidesAgree'
  <2>1. LinksAlone(j, Rest)
    <3>1. ASSUME NEW s \in known \ past'.torn
          PROVE  /\ s \notin past.torn
                 /\ Tied(h, s) => h.step \notin {"compare", "link"}
                 /\ ~Tied(Rest, s)
      BY <1>1, <1>4, <3>1, RestFine DEF Tied, ShelvesOK
    <3>. QED  BY <1>2, <1>4, <3>1 DEF LinksAlone, supply
  <2>. QED  BY <1>1, <2>1, RestFine, LinksUntouched
<1>. QED  BY <1>2, <1>5, <1>6, <1>7, RestFine, WorkAfter DEF supply

-----------------------------------------------------------------------------
(* Theorems.                                                               *)

LEMMA CatalogueInitInv == CatalogueInit => CatalogueInv
<1>. SUFFICES ASSUME CatalogueInit PROVE CatalogueInv
  OBVIOUS
<1>1. stock \in [Item -> Nat]
  <2>1. stock \in {f \in [Item -> Level \cup {0}] : \A i \in Item \ listed : f[i] = 0}
    BY DEF CatalogueInit
  <2>2. stock \in [Item -> Level \cup {0}] /\ Level \cup {0} \subseteq Nat
    <3>. HIDE DEF CatalogueInit
    <3>. QED  BY <2>1, QuantityAssumption
  <2>. QED  BY <2>2
<1>2. CatalogueTypeOK
  <2>1. past \in Past  BY <1>1 DEF CatalogueInit, Past
  <2>2. work \in [Job -> Task]  BY RestFine DEF CatalogueInit
  <2>. QED  BY <1>1, <2>1, <2>2, JobAssumption DEF CatalogueInit, CatalogueTypeOK
<1>3. StepInv  BY RestFine, StepMeans DEF CatalogueInit
<1>4. HolderInv  BY RestFine DEF CatalogueInit, HolderInv
<1>5. LinkInv /\ SidesAgree
  BY <1>2, RestFine DEF CatalogueInit, CatalogueTypeOK, LinkInv, SidesAgree
<1>6. NeverOverdrawn /\ NoChangeLost
  BY <1>1 DEF CatalogueInit, NeverOverdrawn, NoChangeLost
<1>. QED  BY <1>2, <1>3, <1>4, <1>5, <1>6 DEF CatalogueInv

LEMMA CatalogueNextInv == CatalogueInv /\ [CatalogueNext]_catalogue => CatalogueInv'
<1>. SUFFICES ASSUME CatalogueInv, [CatalogueNext]_catalogue PROVE CatalogueInv'
  OBVIOUS
<1>1. CASE UNCHANGED catalogue
  BY <1>1 DEF catalogue, shelf, supply, counters, CatalogueInv, CatalogueTypeOK, StepInv,
              HolderInv, Holds, LinkInv, Tied, NeverOverdrawn, NoChangeLost, SidesAgree
<1>2. CASE \E j \in Job, i \in Item, act \in {"add", "deduct"}, q \in Quantity :
             ChangeStock(j, i, act, q)
  <2>1. Quantity \subseteq Int  BY QuantityAssumption
  <2>. QED  BY <1>2, <2>1, ChangeStockKeeps
<1>3. CASE \E j \in Job, i \in Item, q \in StockUpdate : AddStockToDB(j, i, q)
  <2>1. PICK j \in Job, i \in Item, q \in StockUpdate : ChangeStock(j, i, "add", q)
    BY <1>3 DEF AddStockToDB
  <2>2. q \in Int  BY QuantityAssumption
  <2>. QED  BY <2>1, <2>2, ChangeStockKeeps
<1>4. CASE \E j \in Job, i \in Item, level \in Level :
             EditItem(j, i, level) \/ \E s \in Supplier : AddResource(j, i, s, level)
  BY <1>4, EditItemKeeps, AddResourceKeeps
<1>5. CASE \E j \in Job, items \in SUBSET Item :
             AddSupplier(j, items) \/ \E s \in Supplier : UpdateSupplier(j, s, items)
  BY <1>5, AddSupplierKeeps, UpdateSupplierKeeps
<1>6. CASE \E j \in Job, p \in Purchase, s \in Supplier : AddPurchase(j, p, s)
  BY <1>6, AddPurchaseKeeps
<1>7. ASSUME NEW j \in Job,
             \/ Lock(j) \/ Write(j) \/ SaveItem(j) \/ CreateWithSupplier(j)
             \/ ValidateResourceIDs(j) \/ SaveSupplier(j) \/ Compare(j)
             \/ AttachToSupplier(j) \/ Mishap(j)
             \/ \E s \in Supplier : CreateSupplier(j, s)
             \/ \E i \in Item : Unlink(j, i) \/ LinkExisting(j, i)
      PROVE  CatalogueInv'
  BY <1>7, LockKeeps, WriteKeeps, SaveItemKeeps, CreateWithSupplierKeeps,
     ValidateResourceIDsKeeps, SaveSupplierKeeps, CompareKeeps, AttachKeeps, MishapKeeps,
     CreateSupplierKeeps, UnlinkKeeps, LinkExistingKeeps
<1>. QED  BY <1>1, <1>2, <1>3, <1>4, <1>5, <1>6, <1>7 DEF CatalogueNext

(* What keeps the catalogue in order, types included. *)
THEOREM CatalogueInOrder == CatalogueSpec => []CatalogueInv
<1>. QED  BY CatalogueInitInv, CatalogueNextInv, PTL DEF CatalogueSpec

(* However many deductions, additions and edits of an item are under way, no  *)
(* deduction takes out more than there is: a stock is as far below nothing,  *)
(* at most, as addToDb took it with amounts below nothing since it was last  *)
(* set outright.                                                             *)
THEOREM StockStaysThere == CatalogueSpec => []NeverOverdrawn
<1>1. CatalogueInv => NeverOverdrawn  BY DEF CatalogueInv
<1>. QED  BY <1>1, CatalogueInOrder, PTL

(* The stock of an item is what the committed changes come to. *)
THEOREM ChangesAreKept == CatalogueSpec => []NoChangeLost
<1>1. CatalogueInv => NoChangeLost  BY DEF CatalogueInv
<1>. QED  BY <1>1, CatalogueInOrder, PTL

(* Once the requests about a supplier have ended, both services have it sell  *)
(* the same items, unless two came at a time or the last was cut short.      *)
THEOREM BothSidesAgree == CatalogueSpec => []SidesAgree
<1>1. CatalogueInv => SidesAgree  BY DEF CatalogueInv
<1>. QED  BY <1>1, CatalogueInOrder, PTL

(* UpdateStock, UpdateResource: who waits for a row waits for another that   *)
(* has read it and writes next, so no ring of waiting handlers can form.    *)
THEOREM NobodyWaitsForEver == CatalogueSpec => []WritersDoNotWait
<1>1. CatalogueInv => WritersDoNotWait
  <2>. SUFFICES ASSUME CatalogueInv, NEW j \in Job, Waits(work[j])
                PROVE  /\ holder[work[j].item] \in Job \ {j}
                       /\ Holds(holder[work[j].item], work[j].item)
    BY DEF WritersDoNotWait
  <2>1. work[j].item \in Item
    BY WorkBefore DEF Waits, StepOK, ShelvesOK
  <2>2. holder[work[j].item] \in Job
    BY <2>1, WorkBefore DEF Waits, ShelvesOK
  <2>3. Holds(holder[work[j].item], work[j].item)
    BY <2>1, WorkBefore DEF Waits, StockInv, HolderInv
  <2>4. holder[work[j].item] # j  BY <2>3 DEF Waits, Holds
  <2>. QED  BY <2>2, <2>3, <2>4
<1>. QED  BY <1>1, CatalogueInOrder, PTL

-----------------------------------------------------------------------------
(* Every handler comes to an end.                                          *)

LEMMA StepsOffAre ==
  /\ StepsOff("rest") = 0
  /\ \A step \in {"write", "saveItem", "listItem", "attach"} : StepsOff(step) = 1
  /\ \A step \in {"lock", "link"} : StepsOff(step) = 2
  /\ StepsOff("compare") = 3
  /\ \A step \in {"create", "saveSupplier"} : StepsOff(step) = 4
  /\ StepsOff("validate") = 5
BY DEF StepsOff

LEMMA RestCloser ==
  ASSUME NEW u \in Task, u.step # "rest"
  PROVE  Closer(Rest, u)
<1>1. StepsOff(u.step) >= 1 /\ StepsOff(u.step) \in Nat
  BY StepsOffAre DEF Task, Step
<1>2. StepsOff(Rest.step) = 0  BY RestFine, StepsOffAre
<1>. QED  BY <1>1, <1>2 DEF Closer

(* A handler that becomes t is closer to its answer. *)
TaskCloser(j) == \E t : Does(j, t) /\ Closer(t, work[j])

LEMMA RowCloser ==
  ASSUME CatalogueTypeOK, NEW j \in Job,
         \/ Lock(j) \/ Write(j) \/ SaveItem(j) \/ CreateWithSupplier(j) \/ AttachToSupplier(j)
  PROVE  TaskCloser(j)
<1>. DEFINE u == work[j]
<1>0. u \in Task  BY DEF CatalogueTypeOK
<1>1. CASE Lock(j)
  <2>. DEFINE t == [u EXCEPT !.step = "write", !.read = stock[u.item]]
  <2>1. Does(j, t) /\ u.step = "lock"  BY <1>1 DEF Lock, GoesOn
  <2>2. t.step = "write"  BY <1>0 DEF Task
  <2>3. Closer(t, u)  BY <2>1, <2>2, StepsOffAre DEF Closer
  <2>. QED  BY <2>1, <2>3 DEF TaskCloser
<1>2. CASE Write(j) \/ SaveItem(j) \/ CreateWithSupplier(j) \/ AttachToSupplier(j)
  <2>1. Does(j, Rest) /\ u.step # "rest"
    BY <1>2 DEF Write, SaveItem, CreateWithSupplier, AttachToSupplier, GoesOn
  <2>. QED  BY <1>0, <2>1, RestCloser DEF TaskCloser
<1>. QED  BY <1>1, <1>2

LEMMA SupplierCloser ==
  ASSUME CatalogueTypeOK, NEW j \in Job,
         \/ ValidateResourceIDs(j) \/ SaveSupplier(j) \/ Compare(j)
         \/ \E s \in Supplier : CreateSupplier(j, s)
  PROVE  TaskCloser(j)
<1>. DEFINE u == work[j]
<1>0. u \in Task  BY DEF CatalogueTypeOK
<1>1. ASSUME Does(j, Rest), u.step # "rest"  PROVE TaskCloser(j)
  BY <1>0, <1>1, RestCloser DEF TaskCloser
<1>2. ASSUME NEW t, Does(j, t), StepsOff(t.step) < StepsOff(u.step)  PROVE TaskCloser(j)
  BY <1>2 DEF TaskCloser, Closer
<1>3. CASE ValidateResourceIDs(j)
  <2>. DEFINE t == [u EXCEPT !.step = IF u.act = "found" THEN "create" ELSE "saveSupplier"]
  <2>1. u.step = "validate" /\ (Does(j, Rest) \/ Does(j, t))
    BY <1>3 DEF ValidateResourceIDs, GoesOn
  <2>2. t.step \in {"create", "saveSupplier"}  BY <1>0 DEF Task
  <2>3. StepsOff(t.step) < StepsOff(u.step)  BY <2>1, <2>2, StepsOffAre
  <2>. HIDE DEF t
  <2>. QED  BY <1>1, <1>2, <2>1, <2>3
<1>4. CASE SaveSupplier(j)
  <2>. DEFINE t == [u EXCEPT !.step = "compare"]
  <2>1. u.step = "saveSupplier" /\ Does(j, t)  BY <1>4 DEF SaveSupplier, GoesOn
  <2>2. t.step = "compare"  BY <1>0 DEF Task
  <2>3. StepsOff(t.step) < StepsOff(u.step)  BY <2>1, <2>2, StepsOffAre
  <2>. HIDE DEF t
  <2>. QED  BY <1>2, <2>1, <2>3
<1>5. CASE Compare(j)
  <2>. DEFINE c == Compared(u.supplier, u.items)
              t == [u EXCEPT !.step = "link", !.todo = c.todo, !.drop = c.drop]
  <2>1. u.step = "compare" /\ (Does(j, Rest) \/ Does(j, t))  BY <1>5 DEF Compare, GoesOn
  <2>2. t.step = "link"  BY <1>0 DEF Task
  <2>3. StepsOff(t.step) < StepsOff(u.step)  BY <2>1, <2>2, StepsOffAre
  <2>. HIDE DEF t
  <2>. QED  BY <1>1, <1>2, <2>1, <2>3
<1>6. ASSUME NEW s \in Supplier, CreateSupplier(j, s)  PROVE TaskCloser(j)
  <2>. DEFINE t == [u EXCEPT !.step = "link", !.supplier = s, !.todo = u.items]
  <2>1. u.step = "create" /\ (Does(j, Rest) \/ Does(j, t))
    BY <1>6 DEF CreateSupplier, GoesOn
  <2>2. t.step = "link"  BY <1>0 DEF Task
  <2>3. StepsOff(t.step) < StepsOff(u.step)  BY <2>1, <2>2, StepsOffAre
  <2>. HIDE DEF t
  <2>. QED  BY <1>1, <1>2, <2>1, <2>3
<1>. QED  BY <1>3, <1>4, <1>5, <1>6

LEMMA LinkCloser ==
  ASSUME CatalogueTypeOK, NEW j \in Job, NEW i \in Item, Unlink(j, i) \/ LinkExisting(j, i)
  PROVE  TaskCloser(j)
<1>. DEFINE u == work[j]
<1>0. u \in Task  BY DEF CatalogueTypeOK
<1>1. ASSUME Does(j, Rest), u.step = "link"  PROVE TaskCloser(j)
  BY <1>0, <1>1, RestCloser DEF TaskCloser
<1>2. CASE Unlink(j, i)
  <2>. DEFINE t == [u EXCEPT !.drop = @ \ {i}]
  <2>1. u.step = "link" /\ i \in u.drop /\ (Does(j, Rest) \/ Does(j, t))
    BY <1>2 DEF Unlink, GoesOn
  <2>2. t.step = u.step /\ t.todo = u.todo /\ t.drop = u.drop \ {i}  BY <1>0 DEF Task
  <2>3. Closer(t, u)  BY <2>1, <2>2 DEF Closer
  <2>. QED  BY <1>1, <2>1, <2>3 DEF TaskCloser
<1>3. CASE LinkExisting(j, i)
  <2>. DEFINE t == [u EXCEPT !.todo = @ \ {i}]
  <2>1. u.step = "link" /\ i \in u.todo /\ (Does(j, Rest) \/ Does(j, t))
    BY <1>3 DEF LinkExisting, GoesOn
  <2>2. t.step = u.step /\ t.drop = u.drop /\ t.todo = u.todo \ {i}  BY <1>0 DEF Task
  <2>3. Closer(t, u)  BY <2>1, <2>2 DEF Closer
  <2>. QED  BY <1>1, <2>1, <2>3 DEF TaskCloser
<1>. QED  BY <1>2, <1>3

LEMMA CarriesCloser ==
  ASSUME CatalogueTypeOK, NEW j \in Job, Carries(j)
  PROVE  TaskCloser(j)
BY RowCloser, SupplierCloser, LinkCloser DEF Carries

(* What JobsEnd says of one step. *)
JobsEndStep ==
  \A j \in Job :
    /\ Carries(j) => Closer(work'[j], work[j])
    /\ work[j].step # "rest" => work'[j] = work[j] \/ Closer(work'[j], work[j])

LEMMA JobStep == CatalogueTypeOK /\ [CatalogueNext]_catalogue => JobsEndStep
<1>. SUFFICES ASSUME CatalogueTypeOK, [CatalogueNext]_catalogue, NEW j \in Job
              PROVE  /\ Carries(j) => Closer(work'[j], work[j])
                     /\ work[j].step # "rest" => work'[j] = work[j] \/ Closer(work'[j], work[j])
  BY DEF JobsEndStep
<1>. DEFINE Fine == work[j].step # "rest" => work'[j] = work[j] \/ Closer(work'[j], work[j])
<1>0. work \in [Job -> Task] /\ work[j] \in Task  BY DEF CatalogueTypeOK
<1>1. Carries(j) => Closer(work'[j], work[j])
  BY <1>0, CarriesCloser DEF TaskCloser, Does
<1>2. CASE UNCHANGED catalogue  BY <1>1, <1>2 DEF catalogue
<1>3. ASSUME NEW k \in Job, NEW t, Comes(k, t)  PROVE Fine
  <2>1. work[k].step = "rest" /\ \A l \in Job \ {k} : work'[l] = work[l]
    BY <1>0, <1>3, RestFine DEF Comes, Does
  <2>. QED  BY <2>1
<1>4. ASSUME NEW k \in Job, NEW i \in Item, NEW act, NEW q, ChangeStock(k, i, act, q)
      PROVE  Fine
  BY <1>3, <1>4 DEF ChangeStock
<1>5. ASSUME NEW k \in Job, NEW i \in Item, NEW level,
             EditItem(k, i, level) \/ \E s \in Supplier : AddResource(k, i, s, level)
      PROVE  Fine
  BY <1>3, <1>5 DEF EditItem, AddResource
<1>6. ASSUME NEW k \in Job, NEW items,
             AddSupplier(k, items) \/ \E s \in Supplier : UpdateSupplier(k, s, items)
      PROVE  Fine
  BY <1>3, <1>6 DEF AddSupplier, UpdateSupplier
<1>7. ASSUME NEW k \in Job, NEW p, NEW s, AddPurchase(k, p, s)  PROVE Fine
  BY <1>3, <1>7 DEF AddPurchase
<1>8. ASSUME NEW k \in Job, NEW t, Does(k, t), work[k].step # "rest" => Closer(t, work[k])
      PROVE  Fine
  BY <1>0, <1>8 DEF Does
<1>9. ASSUME NEW k \in Job, Carries(k)  PROVE Fine
  BY <1>8, <1>9, CarriesCloser DEF TaskCloser
<1>10. ASSUME NEW k \in Job, Mishap(k)  PROVE Fine
  <2>1. Does(k, Rest) /\ work[k] \in Task  BY <1>0, <1>10 DEF Mishap
  <2>. QED  BY <1>8, <2>1, RestCloser
<1>. HIDE DEF Fine
<1>11. ASSUME CatalogueNext  PROVE Fine
  BY <1>4, <1>5, <1>6, <1>7, <1>9, <1>10, <1>11 DEF CatalogueNext, Carries, AddStockToDB
<1>. QED  BY <1>1, <1>2, <1>11 DEF Fine

(* The requests of the resource and the profile service that change stock,   *)
(* items and suppliers end: each statement and each call brings a handler   *)
(* closer to its answer or leaves it a link less to write, and none is set  *)
(* back by the others or by a fault.                                        *)
THEOREM JobsComeToAnEnd == CatalogueSpec => JobsEnd
<1>1. CatalogueInv /\ [CatalogueNext]_catalogue => [JobsEndStep]_catalogue
  BY JobStep DEF CatalogueInv
<1>2. CatalogueSpec => [][JobsEndStep]_catalogue
  BY <1>1, CatalogueInOrder, PTL DEF CatalogueSpec
<1>. QED  BY <1>2 DEF JobsEnd, JobsEndStep

==============================================================================
