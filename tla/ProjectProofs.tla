---------------------------- MODULE ProjectProofs ----------------------------
(***************************************************************************)
(* Proofs about Project, for any number of requests, items, vehicles and   *)
(* faults: IInv is inductive, so every row that is ever stored is one that *)
(* the transitions allow, and undoing a creation gives back nothing but    *)
(* what it took.                                                           *)
(***************************************************************************)
EXTENDS Project, TLAPS

-----------------------------------------------------------------------------
(* Types.                                                                  *)

LEMMA NothingType == Nothing \in Usage
BY DEF Nothing, Usage

LEMMA IdleType == Idle \in Handler
BY NothingType DEF Idle, Asked, Handler, PC, NewRow, Row, Status, Payment, Lines

LEMMA WantedType == Wanted \subseteq Usage
<1>1. \A l \in Sale : [Nothing EXCEPT !.lines = l] \in Usage
  BY SaleAssumption DEF Nothing, Usage
<1>2. \A f \in Fleet : [Nothing EXCEPT !.plates = f] \in Usage
  BY FleetAssumption DEF Nothing, Usage
<1>. QED  BY <1>1, <1>2 DEF Wanted

LEMMA JoinedType ==
  ASSUME NEW u \in Usage, NEW v \in Usage
  PROVE  Joined(u, v) \in Usage
BY DEF Joined, Usage

LEMMA AskedType ==
  ASSUME NEW pc \in PC, NEW act \in {"create", "edit", "status", "pay", "none"},
         NEW role \in {"Operasional", "Direksi", "Finance"}, NEW copy \in Row, NEW want \in Usage
  PROVE  Asked(pc, act, role, copy, want) \in Handler
BY NothingType DEF Asked, Handler, Lines

LEMMA QuantityType ==
  ASSUME NEW u \in Usage, NEW i \in Item
  PROVE  u.lines[i] \in Nat
BY DEF Usage

(* Taking n units, or giving back -n of them, moves stock and drawings. *)
LEMMA TakeType ==
  ASSUME TypeOK, NEW i \in Item, NEW n \in Int, Take(i, n)
  PROVE  /\ stock' \in [Item -> Int]
         /\ drawn' \in [Item -> Int]
         /\ drawn'[i] = drawn[i] + n
         /\ \A j \in Item \ {i} : drawn'[j] = drawn[j]
BY DEF TypeOK, Take

(* A handler takes a step. *)
LEMMA BecomeType ==
  ASSUME TypeOK, NEW r \in Request, NEW h \in Handler, Become(r, h)
  PROVE  /\ req' \in [Request -> Handler]
         /\ req'[r] = h
         /\ \A s \in Request \ {r} : req'[s] = req[s]
BY DEF TypeOK, Become

-----------------------------------------------------------------------------
(* How a handler goes on: it keeps what it was asked to do, or it ends.    *)

Onward(h, g) ==
  /\ g \in Handler
  /\ InOrder(g)
  /\ g = Idle \/ (g.copy = h.copy /\ g.act = h.act /\ g.want = h.want)

LEMMA OnwardIdle ==
  ASSUME NEW h PROVE Onward(h, Idle) /\ Taken(Idle) = {}
BY IdleType DEF Onward, InOrder, Idle, Asked, Taken

LEMMA OnwardTo ==
  ASSUME NEW h \in Handler, InOrder(h), NEW g \in Handler,
         g.copy = h.copy, g.act = h.act, g.want = h.want,
         g.pc \in {"insert", "effects", "giveBack", "remove"} => h.act = "create",
         g.pc \notin {"effects", "giveBack", "remove"} => g.done = {}
  PROVE  Onward(h, g)
BY DEF Onward, InOrder

(* TypeOK without the handlers, and RowInv without their copies. *)
TablesOK ==
  /\ kind \in Kind
  /\ project \in Row \cup {None}
  /\ usage \in Usage
  /\ stock \in [Item -> Int]
  /\ drawn \in [Item -> Int]
  /\ booked \subseteq Plate
  /\ others \subseteq Plate
  /\ ledger \in BOOLEAN
  /\ started \in Nat
  /\ faults \in Nat
  /\ history \in History

RowOK ==
  project # None => /\ SoundRow(project, history.begun)
                    /\ project.status = "Dilaksanakan" => history.begun

(* What a step of a running handler does that bears on IInv. *)
Advances(r, g) ==
  /\ Become(r, g)
  /\ Onward(req[r], g)
  /\ TablesOK' /\ RowOK'
  /\ history.begun => history'.begun
  /\ ~history'.settled =>
       /\ ~history.settled
       /\ \A i \in Item : drawn'[i] >= 0
       /\ \A i \in Item : drawn'[i] >= drawn[i] \/ i \in Taken(req[r])
       /\ Covered(g, drawn')

LEMMA NewRowSound == \A begun : NewRow \in Row /\ SoundRow(NewRow, begun)
BY DEF NewRow, Row, Status, Payment, SoundRow

(* Another handler is covered still, since creations come one at a time. *)
LEMMA OthersCovered ==
  ASSUME CreateInv, TypeOK, NEW r \in Request, NEW s \in Request \ {r},
         Covered(req[s], drawn), drawn' \in [Item -> Int],
         \A i \in Item : drawn'[i] >= drawn[i] \/ i \in Taken(req[r])
  PROVE  Covered(req[s], drawn')
<1>. SUFFICES ASSUME NEW i \in Taken(req[s])
              PROVE  drawn'[i] >= req[s].want.lines[i]
  BY DEF Covered
<1>1. req[r] \in Handler /\ req[s] \in Handler  BY DEF TypeOK
<1>2. i \in Item  BY <1>1 DEF Taken, Handler
<1>3. i \notin Taken(req[r])
  <2>1. Taken(req[s]) # {} => req[s].act = "create"  BY DEF CreateInv, InOrder, Taken
  <2>2. i \in Taken(req[r]) => req[r].act = "create"  BY DEF CreateInv, InOrder, Taken
  <2>. QED  BY <2>1, <2>2 DEF CreateInv
<1>4. req[s].want.lines[i] \in Nat  BY <1>1, <1>2, QuantityType DEF Handler
<1>. QED  BY <1>2, <1>3, <1>4 DEF Covered, TypeOK

LEMMA AdvancesKeeps ==
  ASSUME IInv, NEW r \in Request, NEW g, Advances(r, g)
  PROVE  IInv'
<1>0. TypeOK /\ RowInv /\ CreateInv /\ StockInv  BY DEF IInv
<1>1. g \in Handler /\ InOrder(g)  BY DEF Advances, Onward
<1>2. /\ req' \in [Request -> Handler] /\ req'[r] = g
      /\ \A s \in Request \ {r} : req'[s] = req[s]
  BY <1>0, <1>1, BecomeType DEF Advances
<1>3. TypeOK'  BY <1>2 DEF Advances, TablesOK, TypeOK
<1>4. RowInv'
  <2>1. SoundRow(g.copy, history'.begun)
    <3>1. CASE g = Idle  BY <3>1, NewRowSound DEF Idle, Asked
    <3>2. CASE g.copy = req[r].copy
      BY <1>0, <3>2 DEF RowInv, SoundRow, Advances
    <3>. QED  BY <3>1, <3>2 DEF Advances, Onward
  <2>2. \A s \in Request \ {r} : SoundRow(req'[s].copy, history'.begun)
    BY <1>0, <1>2 DEF RowInv, SoundRow, Advances
  <2>. QED  BY <1>2, <2>1, <2>2 DEF RowInv, Advances, RowOK
<1>5. CreateInv'
  <2>1. \A s \in Request : InOrder(req'[s])  BY <1>0, <1>1, <1>2 DEF CreateInv
  <2>2. g.act = "create" => req[r].act = "create"
    BY DEF Advances, Onward, Idle, Asked
  <2>3. \A s \in Request : req'[s].act = "create" => req[s].act = "create"
    BY <1>2, <2>2
  <2>. QED  BY <1>0, <2>1, <2>3 DEF CreateInv
<1>6. StockInv'
  <2>. SUFFICES ASSUME ~history'.settled
                PROVE  /\ \A i \in Item : drawn'[i] >= 0
                       /\ \A s \in Request : Covered(req'[s], drawn')
    BY DEF StockInv
  <2>1. drawn' \in [Item -> Int]  BY <1>3 DEF TypeOK
  <2>2. ASSUME NEW s \in Request \ {r}  PROVE Covered(req'[s], drawn')
    <3>1. Covered(req[s], drawn)  BY <1>0 DEF StockInv, Advances
    <3>2. Covered(req[s], drawn')  BY <1>0, <2>1, <3>1, OthersCovered DEF Advances
    <3>. QED  BY <1>2, <3>2
  <2>3. Covered(req'[r], drawn')  BY <1>2 DEF Advances
  <2>. QED  BY <2>2, <2>3 DEF Advances
<1>. QED  BY <1>3, <1>4, <1>5, <1>6 DEF IInv

(* A step that leaves the stock alone, and the row. *)
LEMMA Quietly ==
  ASSUME IInv, NEW r \in Request, NEW g, Become(r, g), Onward(req[r], g),
         Taken(g) \subseteq Taken(req[r]),
         TablesOK', UNCHANGED <<project, drawn>>,
         history'.begun = history.begun, history'.settled = history.settled
  PROVE  Advances(r, g)
<1>0. TypeOK /\ RowInv /\ StockInv  BY DEF IInv
<1>1. RowOK'  BY <1>0 DEF RowInv, RowOK, SoundRow
<1>2. \A i \in Item : drawn'[i] >= drawn[i]  BY <1>0 DEF TypeOK
<1>3. ~history'.settled => Covered(g, drawn')
  <2>1. Taken(g) # {} => g.want = req[r].want
    BY OnwardIdle DEF Onward
  <2>. QED  BY <1>0, <2>1 DEF StockInv, Covered
<1>. QED  BY <1>0, <1>1, <1>2, <1>3 DEF Advances, StockInv

-----------------------------------------------------------------------------
(* One lemma per action.                                                   *)

LEMMA Before ==
  ASSUME IInv
  PROVE  /\ TablesOK
         /\ \A r \in Request : req[r] \in Handler /\ InOrder(req[r])
BY DEF IInv, TypeOK, TablesOK, CreateInv

LEMMA PlannedOnward ==
  ASSUME NEW h \in Handler, InOrder(h), h.pc = "plan"
  PROVE  Onward(h, Planned(h)) /\ Taken(Planned(h)) = {}
<1>. DEFINE g == Planned(h)
<1>1. /\ g \in Handler
      /\ g.copy = h.copy /\ g.act = h.act /\ g.want = h.want /\ g.done = h.done
      /\ g.pc = IF h.act = "create" THEN "insert" ELSE "save"
  BY DEF Planned, Handler, PC
<1>2. h.done = {}  BY DEF InOrder
<1>3. Onward(h, g)  BY <1>1, <1>2, OnwardTo
<1>. QED  BY <1>1, <1>3 DEF Taken

LEMMA PlanSaleAdvances ==
  ASSUME IInv, NEW r \in Request, PlanSale(r)
  PROVE  \E g : Advances(r, g)
<1>. DEFINE h == req[r]
            next(i) == [h EXCEPT !.todo = @ \ {i}]
<1>1. TablesOK /\ h \in Handler /\ InOrder(h) /\ h.pc = "plan"  BY Before DEF PlanSale
<1>2. TablesOK'  BY <1>1 DEF PlanSale, TablesOK
<1>3. ASSUME NEW i \in h.todo  PROVE Onward(h, next(i)) /\ Taken(next(i)) = {}
  <2>1. /\ next(i) \in Handler
        /\ next(i).copy = h.copy /\ next(i).act = h.act /\ next(i).want = h.want
        /\ next(i).pc = "plan" /\ next(i).done = h.done
    BY <1>1 DEF Handler
  <2>2. h.done = {}  BY <1>1 DEF InOrder
  <2>. QED  BY <1>1, <2>1, <2>2, OnwardTo DEF Taken
<1>4. PICK g : /\ Become(r, g)
               /\ g = Planned(h) \/ g = Idle \/ \E i \in h.todo : g = next(i)
  BY DEF PlanSale, Checked
<1>5. Onward(h, g) /\ Taken(g) = {}  BY <1>1, <1>3, <1>4, PlannedOnward, OnwardIdle
<1>. QED  BY <1>2, <1>4, <1>5, Quietly DEF PlanSale

LEMMA PlanDistributionAdvances ==
  ASSUME IInv, NEW r \in Request, PlanDistribution(r)
  PROVE  \E g : Advances(r, g)
<1>. DEFINE h == req[r]
<1>1. TablesOK /\ h \in Handler /\ InOrder(h) /\ h.pc = "plan"
  BY Before DEF PlanDistribution
<1>2. TablesOK'  BY <1>1 DEF PlanDistribution, TablesOK
<1>3. PICK g : Become(r, g) /\ (g = Planned(h) \/ g = Idle)  BY DEF PlanDistribution
<1>4. Onward(h, g) /\ Taken(g) = {}  BY <1>1, <1>3, PlannedOnward, OnwardIdle
<1>. QED  BY <1>2, <1>3, <1>4, Quietly DEF PlanDistribution

LEMMA InsertAdvances ==
  ASSUME IInv, NEW r \in Request, Insert(r)
  PROVE  \E g : Advances(r, g)
<1>. DEFINE h == req[r]
            g == [h EXCEPT !.pc = "effects", !.todo = Lines(h.want)]
<1>1. TablesOK /\ h \in Handler /\ InOrder(h) /\ h.pc = "insert"  BY Before DEF Insert
<1>2. CASE project = None
  <2>1. /\ g \in Handler
        /\ g.copy = h.copy /\ g.act = h.act /\ g.want = h.want
        /\ g.pc = "effects" /\ g.done = h.done
    BY <1>1 DEF Handler, PC, Lines
  <2>2. h.done = {} /\ h.act = "create" /\ h.copy = NewRow  BY <1>1 DEF InOrder
  <2>3. Onward(h, g) /\ Taken(g) = {}  BY <1>1, <2>1, <2>2, OnwardTo DEF Taken
  <2>4. TablesOK'
    <3>1. project' \in Row  BY <1>2, <2>2, NewRowSound DEF Insert
    <3>2. usage' \in Usage
      BY <1>1, <1>2, JoinedType DEF Insert, Handler, TablesOK
    <3>. QED  BY <1>1, <3>1, <3>2 DEF Insert, TablesOK
  <2>5. RowOK'
    BY <1>2, <2>2, NewRowSound DEF Insert, RowOK, NewRow
  <2>6. \A i \in Item : drawn'[i] >= drawn[i]
    BY <1>1 DEF Insert, TablesOK
  <2>. QED
    BY <1>2, <2>3, <2>4, <2>5, <2>6 DEF Insert, Advances, Covered, IInv, StockInv
<1>3. CASE project # None
  BY <1>1, <1>3, OnwardIdle, Quietly DEF Insert, TablesOK
<1>. QED  BY <1>2, <1>3

LEMMA UnwindingOnward ==
  ASSUME NEW h \in Handler, InOrder(h), h.pc = "effects"
  PROVE  /\ Onward(h, Unwinding(h))
         /\ Unwinding(h).want = h.want
         /\ Taken(Unwinding(h)) = h.done
<1>. DEFINE g == Unwinding(h)
<1>1. /\ g \in Handler
      /\ g.copy = h.copy /\ g.act = h.act /\ g.want = h.want /\ g.done = h.done
      /\ g.todo = h.done /\ g.pc = IF h.done = {} THEN "remove" ELSE "giveBack"
  BY DEF Unwinding, Handler, PC
<1>. QED  BY <1>1, OnwardTo DEF Taken, InOrder

LEMMA ReserveAdvances ==
  ASSUME IInv, NEW r \in Request, Reserve(r)
  PROVE  \E g : Advances(r, g)
<1>. DEFINE h == req[r]
<1>1. TablesOK /\ h \in Handler /\ InOrder(h) /\ h.pc = "effects"  BY Before DEF Reserve
<1>2. TablesOK'  BY <1>1 DEF Reserve, TablesOK, Handler, Usage
<1>3. PICK g : Become(r, g) /\ (g = Idle \/ g = Unwinding(h))  BY DEF Reserve
<1>4. Onward(h, g) /\ Taken(g) \subseteq Taken(h)
  BY <1>1, <1>3, UnwindingOnward, OnwardIdle DEF Taken
<1>. QED  BY <1>2, <1>3, <1>4, Quietly DEF Reserve

LEMMA DeleteAdvances ==
  ASSUME IInv, NEW r \in Request, Delete(r)
  PROVE  \E g : Advances(r, g)
<1>1. TablesOK  BY Before
<1>2. TablesOK' /\ RowOK'  BY <1>1, NothingType DEF Delete, TablesOK, RowOK
<1>3. \A i \in Item : drawn'[i] >= drawn[i]  BY <1>1 DEF Delete, TablesOK
<1>. QED
  BY <1>2, <1>3, OnwardIdle DEF Delete, Advances, Covered, IInv, StockInv

LEMMA DeductStockAdvances ==
  ASSUME IInv, NEW r \in Request, DeductStock(r)
  PROVE  \E g : Advances(r, g)
<1>. DEFINE h == req[r]
            next(i) == [h EXCEPT !.todo = @ \ {i}, !.done = @ \cup {i}]
<1>1. TablesOK /\ TypeOK /\ h \in Handler /\ InOrder(h) /\ h.pc = "effects"
  BY Before DEF DeductStock, IInv
<1>2. ASSUME UNCHANGED <<stock, drawn>>, Become(r, Idle) \/ Become(r, Unwinding(h))
      PROVE  \E g : Advances(r, g)
  <2>1. TablesOK'  BY <1>1, <1>2 DEF DeductStock, TablesOK
  <2>2. PICK g : Become(r, g) /\ (g = Idle \/ g = Unwinding(h))  BY <1>2
  <2>3. Onward(h, g) /\ Taken(g) \subseteq Taken(h)
    BY <1>1, <2>2, UnwindingOnward, OnwardIdle DEF Taken
  <2>. QED  BY <1>2, <2>1, <2>2, <2>3, Quietly DEF DeductStock
<1>3. ASSUME NEW i \in h.todo, CanTake(i, h.want.lines[i]), Take(i, h.want.lines[i]),
             Become(r, Deducted(h, i))
      PROVE  Advances(r, Deducted(h, i))
  <2>. DEFINE g == Deducted(h, i)
  <2>1. /\ next(i) \in Handler
        /\ next(i).copy = h.copy /\ next(i).act = h.act /\ next(i).want = h.want
        /\ next(i).pc = "effects" /\ next(i).done = h.done \cup {i}
    BY <1>1 DEF Handler
  <2>2. Onward(h, g) /\ Taken(g) \subseteq h.done \cup {i} /\ (Taken(g) # {} => g.want = h.want)
    BY <1>1, <2>1, OnwardTo, OnwardIdle DEF InOrder, Deducted, Taken
  <2>3. i \in Item /\ \A j \in Item : h.want.lines[j] \in Nat
    BY <1>1, QuantityType DEF Handler
  <2>4. /\ stock' \in [Item -> Int] /\ drawn' \in [Item -> Int]
        /\ drawn'[i] = drawn[i] + h.want.lines[i]
        /\ \A j \in Item \ {i} : drawn'[j] = drawn[j]
    BY <1>1, <1>3, <2>3, TakeType DEF CanTake
  <2>5. TablesOK' /\ RowOK'
    BY <1>1, <2>4 DEF DeductStock, TablesOK, RowOK, IInv, RowInv
  <2>6. \A j \in Item : drawn[j] \in Int /\ drawn'[j] >= drawn[j]
    BY <2>3, <2>4, <1>1 DEF TypeOK
  <2>7. ~history.settled => Covered(g, drawn')
    <3>. SUFFICES ASSUME ~history.settled, NEW j \in h.done \cup {i}
                  PROVE  drawn'[j] >= h.want.lines[j]
      BY <2>2 DEF Covered
    <3>0. StockInv /\ j \in Item  BY <1>1, <2>3 DEF IInv, Handler
    <3>1. CASE j = i
      BY <3>0, <3>1, <2>3, <2>4, <2>6 DEF StockInv
    <3>2. CASE j \in h.done
      <4>1. drawn[j] >= h.want.lines[j]  BY <3>0, <3>2, <1>1 DEF StockInv, Covered, Taken
      <4>. QED  BY <3>0, <4>1, <2>3, <2>4, <2>6
    <3>. QED  BY <3>1, <3>2
  <2>8. ~history.settled => \A j \in Item : drawn'[j] >= 0
    BY <2>4, <2>6 DEF IInv, StockInv
  <2>. QED  BY <1>3, <2>2, <2>5, <2>6, <2>7, <2>8 DEF Advances, DeductStock
<1>. QED  BY <1>2, <1>3 DEF DeductStock

LEMMA GivenBackOnward ==
  ASSUME NEW h \in Handler, InOrder(h), h.pc = "giveBack", NEW i \in h.todo
  PROVE  /\ Onward(h, GivenBack(h, i))
         /\ GivenBack(h, i).want = h.want
         /\ Taken(GivenBack(h, i)) = h.todo \ {i}
<1>. DEFINE g == GivenBack(h, i)
<1>1. /\ g \in Handler
      /\ g.copy = h.copy /\ g.act = h.act /\ g.want = h.want /\ g.done = h.done
      /\ g.todo = h.todo \ {i} /\ g.pc = IF h.todo = {i} THEN "remove" ELSE "giveBack"
  BY DEF GivenBack, Handler, PC
<1>. QED  BY <1>1, OnwardTo DEF Taken, InOrder

LEMMA ReturnStockAdvances ==
  ASSUME IInv, NEW r \in Request, ReturnStock(r)
  PROVE  \E g : Advances(r, g)
<1>. DEFINE h == req[r]
<1>1. TablesOK /\ TypeOK /\ h \in Handler /\ InOrder(h) /\ h.pc = "giveBack"
  BY Before DEF ReturnStock, IInv
<1>2. PICK i \in h.todo : Take(i, -h.want.lines[i]) /\ Become(r, GivenBack(h, i))
  BY DEF ReturnStock
<1>. DEFINE g == GivenBack(h, i)
<1>3. Onward(h, g) /\ g.want = h.want /\ Taken(g) = h.todo \ {i}
  BY <1>1, <1>2, GivenBackOnward
<1>4. i \in Item /\ \A j \in Item : h.want.lines[j] \in Nat
  BY <1>1, <1>2, QuantityType DEF Handler
<1>5. /\ stock' \in [Item -> Int] /\ drawn' \in [Item -> Int]
      /\ drawn'[i] = drawn[i] - h.want.lines[i]
      /\ \A j \in Item \ {i} : drawn'[j] = drawn[j]
  <2>1. -h.want.lines[i] \in Int  BY <1>4
  <2>2. /\ stock' \in [Item -> Int] /\ drawn' \in [Item -> Int]
        /\ drawn'[i] = drawn[i] + (-h.want.lines[i])
        /\ \A j \in Item \ {i} : drawn'[j] = drawn[j]
    BY <1>1, <1>2, <1>4, <2>1, TakeType
  <2>3. drawn[i] \in Int /\ h.want.lines[i] \in Nat  BY <1>1, <1>4 DEF TypeOK
  <2>. QED  BY <2>2, <2>3
<1>6. TablesOK' /\ RowOK'
  BY <1>1, <1>5 DEF ReturnStock, TablesOK, RowOK, IInv, RowInv
<1>7. Taken(h) = h.todo  BY <1>1 DEF Taken
<1>8. \A j \in Item : drawn[j] \in Int /\ (drawn'[j] >= drawn[j] \/ j \in Taken(h))
  BY <1>1, <1>2, <1>5, <1>7 DEF TypeOK
<1>9. ASSUME ~history.settled
      PROVE  (\A j \in Item : drawn'[j] >= 0) /\ Covered(g, drawn')
  <2>1. /\ \A j \in Item : drawn[j] >= 0
        /\ \A j \in h.todo : drawn[j] >= h.want.lines[j]
    BY <1>7, <1>9 DEF IInv, StockInv, Covered
  <2>2. drawn'[i] >= 0  BY <1>2, <1>4, <1>5, <1>8, <2>1
  <2>3. \A j \in Item : drawn'[j] >= 0  BY <1>5, <2>1, <2>2
  <2>4. \A j \in h.todo \ {i} : j \in Item  BY <1>1 DEF Handler
  <2>. QED  BY <1>3, <1>5, <2>1, <2>3, <2>4 DEF Covered
<1>. QED  BY <1>2, <1>3, <1>6, <1>8, <1>9 DEF Advances, ReturnStock

LEMMA EffectLostAdvances ==
  ASSUME IInv, NEW r \in Request, EffectLost(r)
  PROVE  \E g : Advances(r, g)
<1>. DEFINE h == req[r]
            g == Unwinding(h)
<1>1. TablesOK /\ TypeOK /\ h \in Handler /\ InOrder(h) /\ h.pc = "effects" /\ Become(r, g)
  BY Before DEF EffectLost, IInv
<1>2. Onward(h, g) /\ g.want = h.want /\ Taken(g) = h.done /\ Taken(h) = h.done
  BY <1>1, UnwindingOnward DEF Taken
<1>3. faults' \in Nat /\ history' = history  BY <1>1 DEF EffectLost, Fault, TablesOK
<1>4. /\ stock' \in [Item -> Int] /\ drawn' \in [Item -> Int] /\ booked' \subseteq Plate
      /\ \A j \in Item : drawn'[j] >= drawn[j]
  <2>1. CASE UNCHANGED <<stock, drawn>>
    <3>1. booked' \subseteq Plate
      BY <1>1 DEF EffectLost, TypeOK, Handler, Usage
    <3>. QED  BY <1>1, <2>1, <3>1 DEF TypeOK
  <2>2. ASSUME NEW i \in h.todo, CanTake(i, h.want.lines[i]), Take(i, h.want.lines[i]),
               UNCHANGED booked
        PROVE  /\ stock' \in [Item -> Int] /\ drawn' \in [Item -> Int] /\ booked' \subseteq Plate
               /\ \A j \in Item : drawn'[j] >= drawn[j]
    <3>1. i \in Item /\ h.want.lines[i] \in Nat  BY <1>1, QuantityType DEF Handler
    <3>2. /\ stock' \in [Item -> Int] /\ drawn' \in [Item -> Int]
          /\ drawn'[i] = drawn[i] + h.want.lines[i]
          /\ \A j \in Item \ {i} : drawn'[j] = drawn[j]
      BY <1>1, <2>2, <3>1, TakeType DEF CanTake
    <3>. QED  BY <1>1, <2>2, <3>1, <3>2 DEF TypeOK
  <2>. QED  BY <2>1, <2>2 DEF EffectLost
<1>5. TablesOK' /\ RowOK'
  BY <1>1, <1>3, <1>4 DEF EffectLost, TablesOK, RowOK, IInv, RowInv
<1>6. ASSUME ~history.settled
      PROVE  (\A j \in Item : drawn'[j] >= 0) /\ Covered(g, drawn')
  <2>1. /\ \A j \in Item : drawn[j] \in Int /\ drawn[j] >= 0
        /\ \A j \in h.done : drawn[j] >= h.want.lines[j]
    BY <1>1, <1>2, <1>6 DEF IInv, StockInv, Covered, TypeOK
  <2>2. \A j \in h.done : j \in Item /\ h.want.lines[j] \in Nat
    BY <1>1, QuantityType DEF Handler
  <2>. QED  BY <1>2, <1>4, <2>1, <2>2 DEF Covered
<1>. QED  BY <1>1, <1>2, <1>3, <1>4, <1>5, <1>6 DEF Advances

LEMMA CurrentUsageAdvances ==
  ASSUME IInv, NEW r \in Request, CurrentUsage(r)
  PROVE  \E g : Advances(r, g)
<1>. DEFINE h == req[r]
            g == [h EXCEPT !.pc = "plan", !.held = usage]
<1>1. TablesOK /\ h \in Handler /\ InOrder(h) /\ h.pc = "usage" /\ Become(r, g)
  BY Before DEF CurrentUsage
<1>2. /\ g \in Handler
      /\ g.copy = h.copy /\ g.act = h.act /\ g.want = h.want
      /\ g.pc = "plan" /\ g.done = h.done
  BY <1>1 DEF Handler, PC, TablesOK
<1>3. Onward(h, g) /\ Taken(g) = {}  BY <1>1, <1>2, OnwardTo DEF InOrder, Taken
<1>. QED  BY <1>1, <1>3, Quietly DEF CurrentUsage, TablesOK

(* The handlers of the row go from one statement to the next. *)
LEMMA NextStatement ==
  ASSUME NEW h \in Handler, InOrder(h), NEW pc \in PC,
         {h.pc, pc} \cap {"insert", "effects", "giveBack", "remove"} = {}
  PROVE  /\ Onward(h, [h EXCEPT !.pc = pc])
         /\ Taken([h EXCEPT !.pc = pc]) = {}
<1>. DEFINE g == [h EXCEPT !.pc = pc]
<1>1. /\ g \in Handler
      /\ g.copy = h.copy /\ g.act = h.act /\ g.want = h.want
      /\ g.pc = pc /\ g.done = h.done
  BY DEF Handler
<1>2. pc \notin {"insert", "effects", "giveBack", "remove"} /\ h.done = {}  BY DEF InOrder
<1>. QED  BY <1>1, <1>2, OnwardTo DEF Taken

LEMMA SaveAdvances ==
  ASSUME IInv, NEW r \in Request, Save(r)
  PROVE  \E g : Advances(r, g)
<1>. DEFINE h == req[r]
            pc == IF h.act = "edit" THEN "replace" ELSE "log"
            g == [h EXCEPT !.pc = pc]
<1>1. TablesOK /\ h \in Handler /\ InOrder(h) /\ h.pc = "save" /\ Become(r, g)
  BY Before DEF Save
<1>2. Onward(h, g) /\ Taken(g) = {}
  <2>1. pc \in {"replace", "log"}  OBVIOUS
  <2>2. pc \in PC /\ {h.pc, pc} \cap {"insert", "effects", "giveBack", "remove"} = {}
    BY <1>1, <2>1 DEF PC
  <2>. QED  BY <1>1, <2>2, NextStatement
<1>3. /\ history' \in History
      /\ history'.begun = (history.begun \/ h.copy.status = "Dilaksanakan")
      /\ history'.settled = history.settled
  BY <1>1 DEF Save, History, TablesOK
<1>4. SoundRow(h.copy, history.begun)  BY DEF IInv, RowInv
<1>5. TablesOK'  BY <1>1, <1>3 DEF Save, TablesOK, Handler
<1>6. RowOK'  BY <1>1, <1>3, <1>4 DEF Save, RowOK, SoundRow
<1>7. \A i \in Item : drawn'[i] >= drawn[i]  BY <1>1 DEF Save, TablesOK
<1>. QED
  BY <1>1, <1>2, <1>3, <1>5, <1>6, <1>7 DEF Save, Advances, Covered, IInv, StockInv

LEMMA ReplaceUsageAdvances ==
  ASSUME IInv, NEW r \in Request, ReplaceUsage(r)
  PROVE  \E g : Advances(r, g)
<1>. DEFINE h == req[r]
            g == [h EXCEPT !.pc = "log"]
<1>1. TablesOK /\ h \in Handler /\ InOrder(h) /\ h.pc = "replace" /\ Become(r, g)
  BY Before DEF ReplaceUsage
<1>2. Onward(h, g) /\ Taken(g) = {}  BY <1>1, NextStatement DEF PC
<1>3. TablesOK'  BY <1>1 DEF ReplaceUsage, TablesOK, Handler
<1>. QED  BY <1>1, <1>2, <1>3, Quietly DEF ReplaceUsage

LEMMA AppendLogAdvances ==
  ASSUME IInv, NEW r \in Request, AppendLog(r)
  PROVE  \E g : Advances(r, g)
<1>. DEFINE h == req[r]
            settling == [h EXCEPT !.pc = "settle", !.todo = Changed(h)]
            to(pc) == [h EXCEPT !.pc = pc]
<1>1. TablesOK /\ h \in Handler /\ InOrder(h) /\ h.pc = "log"  BY Before DEF AppendLog
<1>2. PICK g : Become(r, g) /\ g \in {settling, to("release"), to("ledger"), Idle}
  BY DEF AppendLog, AfterLog
<1>3. Onward(h, settling) /\ Taken(settling) = {}
  <2>1. /\ settling \in Handler
        /\ settling.copy = h.copy /\ settling.act = h.act /\ settling.want = h.want
        /\ settling.pc = "settle" /\ settling.done = h.done
    BY <1>1 DEF Handler, PC, Changed
  <2>. QED  BY <1>1, <2>1, OnwardTo DEF InOrder, Taken
<1>4. /\ Onward(h, to("release")) /\ Taken(to("release")) = {}
      /\ Onward(h, to("ledger")) /\ Taken(to("ledger")) = {}
  BY <1>1, NextStatement DEF PC
<1>5. Onward(h, g) /\ Taken(g) = {}  BY <1>2, <1>3, <1>4, OnwardIdle
<1>. QED  BY <1>1, <1>2, <1>5, Quietly DEF AppendLog, TablesOK

LEMMA SettledOnward ==
  ASSUME NEW h \in Handler, InOrder(h), h.pc = "settle", NEW i \in h.todo
  PROVE  Onward(h, Settled(h, i)) /\ Taken(Settled(h, i)) = {}
<1>. DEFINE g == [h EXCEPT !.todo = @ \ {i}]
<1>1. /\ g \in Handler
      /\ g.copy = h.copy /\ g.act = h.act /\ g.want = h.want
      /\ g.pc = "settle" /\ g.done = h.done
  BY DEF Handler
<1>2. Onward(h, g) /\ Taken(g) = {}  BY <1>1, OnwardTo DEF InOrder, Taken
<1>. QED  BY <1>2, OnwardIdle DEF Settled

LEMMA RefusedType ==
  ASSUME TablesOK, Refused
  PROVE  history' \in History /\ history'.begun = history.begun /\ history'.settled = history.settled
BY DEF TablesOK, Refused, History

LEMMA SettleAdvances ==
  ASSUME IInv, NEW r \in Request, Settle(r)
  PROVE  \E g : Advances(r, g)
<1>. DEFINE h == req[r]
            more(i) == h.want.lines[i] - h.held.lines[i]
<1>1. TablesOK /\ TypeOK /\ h \in Handler /\ InOrder(h) /\ h.pc = "settle"
  BY Before DEF Settle, IInv
<1>2. CASE Become(r, Idle) /\ UNCHANGED <<stock, drawn, history>>
  BY <1>1, <1>2, OnwardIdle, Quietly DEF Settle, TablesOK
<1>3. ASSUME NEW i \in h.todo, Become(r, Settled(h, i)), Refused, UNCHANGED <<stock, drawn>>
      PROVE  \E g : Advances(r, g)
  <2>1. Onward(h, Settled(h, i)) /\ Taken(Settled(h, i)) = {}  BY <1>1, SettledOnward
  <2>2. /\ history' \in History /\ history'.begun = history.begun
        /\ history'.settled = history.settled
    BY <1>1, <1>3, RefusedType
  <2>3. TablesOK'  BY <1>1, <1>3, <2>2 DEF Settle, TablesOK
  <2>. QED  BY <1>3, <2>1, <2>2, <2>3, Quietly DEF Settle
<1>4. ASSUME NEW i \in h.todo, Become(r, Settled(h, i)), CanTake(i, more(i)), Take(i, more(i)),
             history' = [history EXCEPT !.settled = TRUE]
      PROVE  \E g : Advances(r, g)
  <2>1. Onward(h, Settled(h, i)) /\ Taken(Settled(h, i)) = {}  BY <1>1, SettledOnward
  <2>2. i \in Item /\ h.want.lines[i] \in Nat /\ h.held.lines[i] \in Nat
    BY <1>1, QuantityType DEF Handler
  <2>3. more(i) \in Int  BY <2>2
  <2>4. stock' \in [Item -> Int] /\ drawn' \in [Item -> Int]
    BY <1>1, <1>4, <2>2, <2>3, TakeType DEF CanTake
  <2>5. history' \in History /\ history'.begun = history.begun /\ history'.settled
    BY <1>1, <1>4 DEF TablesOK, History
  <2>6. TablesOK' /\ RowOK'
    BY <1>1, <2>4, <2>5 DEF Settle, TablesOK, RowOK, SoundRow, IInv, RowInv
  <2>. QED  BY <1>4, <2>1, <2>5, <2>6 DEF Advances
<1>. QED  BY <1>2, <1>3, <1>4 DEF Settle

LEMMA ReleasedOnward ==
  ASSUME NEW h \in Handler, InOrder(h), h.pc = "release"
  PROVE  Onward(h, Released(h)) /\ Taken(Released(h)) = {}
<1>1. Onward(h, [h EXCEPT !.pc = "rebook"]) /\ Taken([h EXCEPT !.pc = "rebook"]) = {}
  BY NextStatement DEF PC
<1>. QED  BY <1>1, OnwardIdle DEF Released

LEMMA ReleaseAdvances ==
  ASSUME IInv, NEW r \in Request, Release(r)
  PROVE  \E g : Advances(r, g)
<1>. DEFINE h == req[r]
<1>1. TablesOK /\ h \in Handler /\ InOrder(h) /\ h.pc = "release" /\ Become(r, Released(h))
  BY Before DEF Release
<1>2. Onward(h, Released(h)) /\ Taken(Released(h)) = {}  BY <1>1, ReleasedOnward
<1>3. /\ history' \in History /\ history'.begun = history.begun
      /\ history'.settled = history.settled
  BY <1>1, RefusedType DEF Release, TablesOK
<1>4. TablesOK'  BY <1>1, <1>3 DEF Release, TablesOK
<1>. QED  BY <1>1, <1>2, <1>3, <1>4, Quietly DEF Release

LEMMA RebookAdvances ==
  ASSUME IInv, NEW r \in Request, Rebook(r)
  PROVE  \E g : Advances(r, g)
<1>1. TablesOK /\ req[r] \in Handler  BY Before
<1>2. /\ history' \in History /\ history'.begun = history.begun
      /\ history'.settled = history.settled
  BY <1>1, RefusedType DEF Rebook, TablesOK
<1>3. TablesOK'  BY <1>1, <1>2 DEF Rebook, TablesOK, Handler, Usage
<1>. QED  BY <1>2, <1>3, OnwardIdle, Quietly DEF Rebook

LEMMA SyncLedgerAdvances ==
  ASSUME IInv, NEW r \in Request, SyncLedger(r)
  PROVE  \E g : Advances(r, g)
<1>1. TablesOK'  BY Before DEF SyncLedger, TablesOK
<1>. QED  BY <1>1, OnwardIdle, Quietly DEF SyncLedger

LEMMA StopAdvances ==
  ASSUME IInv, NEW r \in Request, Stop(r)
  PROVE  \E g : Advances(r, g)
<1>1. TablesOK'  BY Before DEF Stop, Fault, TablesOK
<1>. QED  BY <1>1, OnwardIdle, Quietly DEF Stop

LEMMA SkipAdvances ==
  ASSUME IInv, NEW r \in Request, Skip(r)
  PROVE  \E g : Advances(r, g)
<1>. DEFINE h == req[r]
<1>1. h \in Handler /\ InOrder(h)  BY Before
<1>2. TablesOK'  BY Before DEF Skip, Fault, TablesOK
<1>3. PICK g :
        /\ Become(r, g)
        /\ \/ h.pc = "giveBack" /\ \E i \in h.todo : g = GivenBack(h, i)
           \/ h.pc = "settle" /\ \E i \in h.todo : g = Settled(h, i)
           \/ h.pc = "release" /\ g = Released(h)
           \/ g = Idle
  BY DEF Skip
<1>4. Onward(h, g) /\ Taken(g) \subseteq Taken(h)
  <2>1. CASE h.pc = "giveBack" /\ \E i \in h.todo : g = GivenBack(h, i)
    BY <1>1, <2>1, GivenBackOnward DEF Taken
  <2>2. CASE h.pc = "settle" /\ \E i \in h.todo : g = Settled(h, i)
    BY <1>1, <2>2, SettledOnward
  <2>3. CASE h.pc = "release" /\ g = Released(h)
    BY <1>1, <2>3, ReleasedOnward
  <2>. QED  BY <1>3, <2>1, <2>2, <2>3, OnwardIdle
<1>. QED  BY <1>2, <1>3, <1>4, Quietly DEF Skip

-----------------------------------------------------------------------------
(* A request arrives.                                                      *)

LEMMA EnterKeeps ==
  ASSUME IInv, NEW r \in Request, NEW g \in Handler, Enter(r, g),
         InOrder(g), Taken(g) = {}, SoundRow(g.copy, history.begun),
         g.act = "create" => \A s \in Request : req[s].act # "create"
  PROVE  IInv'
<1>0. TypeOK /\ RowInv /\ CreateInv /\ StockInv  BY DEF IInv
<1>1. /\ req' \in [Request -> Handler] /\ req'[r] = g
      /\ \A s \in Request \ {r} : req'[s] = req[s]
  BY <1>0, BecomeType DEF Enter
<1>2. /\ history' \in History /\ history'.begun = history.begun
      /\ history'.settled = history.settled
  BY <1>0 DEF Enter, TypeOK, History
<1>3. TypeOK'  BY <1>0, <1>1, <1>2, BoundAssumption DEF Enter, TypeOK
<1>4. RowInv'
  <2>1. \A s \in Request : SoundRow(req'[s].copy, history.begun)
    BY <1>0, <1>1 DEF RowInv
  <2>. QED  BY <1>0, <1>2, <2>1 DEF Enter, RowInv
<1>5. CreateInv'
  <2>1. \A s \in Request : InOrder(req'[s])  BY <1>0, <1>1 DEF CreateInv
  <2>2. \A s, q \in Request : req'[s].act = "create" /\ req'[q].act = "create" => s = q
    BY <1>0, <1>1 DEF CreateInv
  <2>. QED  BY <2>1, <2>2 DEF CreateInv
<1>6. StockInv'
  <2>1. Covered(g, drawn)  BY DEF Covered
  <2>2. ~history.settled => \A s \in Request : Covered(req'[s], drawn)
    BY <1>0, <1>1, <2>1 DEF StockInv
  <2>. QED  BY <1>0, <1>2, <2>2 DEF Enter, StockInv
<1>. QED  BY <1>3, <1>4, <1>5, <1>6 DEF IInv

LEMMA ProjectRow ==
  ASSUME IInv, project # None
  PROVE  project \in Row /\ SoundRow(project, history.begun)
BY DEF IInv, TypeOK, RowInv

LEMMA AddProjectKeeps ==
  ASSUME IInv, NEW r \in Request, NEW want \in Wanted, AddProject(r, want)
  PROVE  IInv'
<1>. DEFINE g == Asked("plan", "create", "Operasional", NewRow, want)
<1>1. g \in Handler  BY WantedType, NewRowSound, AskedType DEF PC
<1>2. InOrder(g) /\ Taken(g) = {} /\ g.copy = NewRow /\ g.act = "create"
  BY DEF Asked, InOrder, Taken
<1>. QED  BY <1>1, <1>2, NewRowSound, EnterKeeps DEF AddProject

LEMMA UpdateProjectKeeps ==
  ASSUME IInv, NEW r \in Request, NEW role \in Editor, NEW want \in Wanted,
         UpdateProject(r, role, want)
  PROVE  IInv'
<1>. DEFINE g == Asked("usage", "edit", role, project, want)
<1>1. project \in Row /\ SoundRow(project, history.begun)  BY ProjectRow DEF UpdateProject
<1>2. g \in Handler  BY <1>1, WantedType, EditorAssumption, AskedType DEF PC
<1>3. InOrder(g) /\ Taken(g) = {} /\ g.copy = project /\ g.act = "edit"
  BY DEF Asked, InOrder, Taken
<1>. QED  BY <1>1, <1>2, <1>3, EnterKeeps DEF UpdateProject

LEMMA UpdateStatusKeeps ==
  ASSUME IInv, NEW r \in Request, NEW status \in Status, UpdateStatus(r, status)
  PROVE  IInv'
<1>. DEFINE row == [project EXCEPT !.status = status]
            g == Asked("save", "status", "Operasional", row, Nothing)
<1>1. /\ project \in Row /\ SoundRow(project, history.begun)
      /\ project.status = "Dilaksanakan" => history.begun
      /\ CheckStatusTransition(project, status)
  BY ProjectRow DEF UpdateStatus, IInv, RowInv
<1>2. row \in Row /\ row.status = status /\ row.pay = project.pay  BY <1>1 DEF Row
<1>3. SoundRow(row, history.begun)
  <2>1. row.pay # "Dikembalikan"
    BY <1>1, <1>2 DEF SoundRow, CheckStatusTransition, Active
  <2>2. status = "Selesai" => project.status = "Dilaksanakan"
    BY <1>1 DEF CheckStatusTransition, Active, Row, Status
  <2>. QED  BY <1>1, <1>2, <2>1, <2>2 DEF SoundRow
<1>4. g \in Handler  BY <1>2, NothingType, AskedType DEF PC
<1>5. InOrder(g) /\ Taken(g) = {} /\ g.copy = row /\ g.act = "status"
  BY DEF Asked, InOrder, Taken
<1>. QED  BY <1>3, <1>4, <1>5, EnterKeeps DEF UpdateStatus

LEMMA UpdatePaymentKeeps ==
  ASSUME IInv, NEW r \in Request, NEW pay \in Payment, UpdatePayment(r, pay)
  PROVE  IInv'
<1>. DEFINE row == [project EXCEPT !.pay = pay]
            g == Asked("save", "pay", "Finance", row, Nothing)
<1>1. /\ project \in Row /\ SoundRow(project, history.begun)
      /\ CheckPaymentTransition(project, pay)
  BY ProjectRow DEF UpdatePayment
<1>2. row \in Row /\ row.pay = pay /\ row.status = project.status  BY <1>1 DEF Row
<1>3. SoundRow(row, history.begun)  BY <1>1, <1>2 DEF SoundRow, CheckPaymentTransition
<1>4. g \in Handler  BY <1>2, NothingType, AskedType DEF PC
<1>5. InOrder(g) /\ Taken(g) = {} /\ g.copy = row /\ g.act = "pay"
  BY DEF Asked, InOrder, Taken
<1>. QED  BY <1>3, <1>4, <1>5, EnterKeeps DEF UpdatePayment

(* Others change the stock and the calendar. *)
LEMMA OthersKeep ==
  ASSUME IInv, OthersUseStock \/ OthersUsePlates
  PROVE  IInv'
<1>1. stock' \in [Item -> Int] /\ others' \subseteq Plate
  BY StockAssumption DEF IInv, TypeOK, OthersUseStock, OthersUsePlates
<1>2. UNCHANGED <<kind, project, usage, drawn, booked, ledger, req, started, faults, history>>
  BY DEF OthersUseStock, OthersUsePlates
<1>3. TypeOK'  BY <1>1, <1>2 DEF IInv, TypeOK
<1>4. RowInv' /\ CreateInv' /\ StockInv'
  BY <1>2 DEF IInv, RowInv, CreateInv, StockInv
<1>. QED  BY <1>3, <1>4 DEF IInv

-----------------------------------------------------------------------------
(* The invariant, and what follows from it.                                *)

LEMMA InitIInv == Init => IInv
<1>. SUFFICES ASSUME Init  PROVE IInv
  OBVIOUS
<1>1. TypeOK
  <2>1. stock \in [Item -> Int]  BY StockAssumption DEF Init
  <2>2. req \in [Request -> Handler]  BY IdleType DEF Init
  <2>3. history \in History  BY DEF Init, History
  <2>4. drawn \in [Item -> Int]  BY DEF Init
  <2>5. kind \in Kind /\ project \in Row \cup {None} /\ usage \in Usage /\ ledger \in BOOLEAN
    BY NothingType DEF Init
  <2>6. booked \subseteq Plate /\ others \subseteq Plate /\ started \in Nat /\ faults \in Nat
    BY DEF Init
  <2>. QED  BY <2>1, <2>2, <2>3, <2>4, <2>5, <2>6 DEF TypeOK
<1>2. \A r \in Request : InOrder(req[r]) /\ Taken(req[r]) = {} /\ req[r].act # "create"
  BY DEF Init, Idle, Asked, InOrder, Taken
<1>3. \A r \in Request : SoundRow(req[r].copy, history.begun)
  BY NewRowSound DEF Init, Idle, Asked
<1>4. RowInv /\ CreateInv  BY <1>2, <1>3 DEF RowInv, CreateInv, Init
<1>5. StockInv
  <2>1. \A i \in Item : drawn[i] = 0  BY DEF Init
  <2>. QED  BY <1>2, <2>1 DEF StockInv, Covered
<1>. QED  BY <1>1, <1>4, <1>5 DEF IInv

LEMMA NextIInv == IInv /\ [Next]_vars => IInv'
<1>. SUFFICES ASSUME IInv, [Next]_vars  PROVE IInv'
  OBVIOUS
<1>1. CASE UNCHANGED vars
  BY <1>1 DEF vars, IInv, TypeOK, RowInv, CreateInv, StockInv
<1>2. CASE OthersUseStock \/ OthersUsePlates
  BY <1>2, OthersKeep
<1>3. ASSUME NEW r \in Request, Receive(r)
      PROVE  IInv'
  BY <1>3, AddProjectKeeps, UpdateProjectKeeps, UpdateStatusKeeps, UpdatePaymentKeeps
  DEF Receive
<1>4. ASSUME NEW r \in Request, Continue(r) \/ Stop(r) \/ Skip(r) \/ EffectLost(r)
      PROVE  IInv'
  <2>1. CASE PlanSale(r)  BY <1>4, <2>1, PlanSaleAdvances, AdvancesKeeps
  <2>2. CASE PlanDistribution(r)  BY <1>4, <2>2, PlanDistributionAdvances, AdvancesKeeps
  <2>3. CASE Insert(r)  BY <1>4, <2>3, InsertAdvances, AdvancesKeeps
  <2>4. CASE DeductStock(r)  BY <1>4, <2>4, DeductStockAdvances, AdvancesKeeps
  <2>5. CASE Reserve(r)  BY <1>4, <2>5, ReserveAdvances, AdvancesKeeps
  <2>6. CASE ReturnStock(r)  BY <1>4, <2>6, ReturnStockAdvances, AdvancesKeeps
  <2>7. CASE Delete(r)  BY <1>4, <2>7, DeleteAdvances, AdvancesKeeps
  <2>8. CASE CurrentUsage(r)  BY <1>4, <2>8, CurrentUsageAdvances, AdvancesKeeps
  <2>9. CASE Save(r)  BY <1>4, <2>9, SaveAdvances, AdvancesKeeps
  <2>10. CASE ReplaceUsage(r)  BY <1>4, <2>10, ReplaceUsageAdvances, AdvancesKeeps
  <2>11. CASE AppendLog(r)  BY <1>4, <2>11, AppendLogAdvances, AdvancesKeeps
  <2>12. CASE Settle(r)  BY <1>4, <2>12, SettleAdvances, AdvancesKeeps
  <2>13. CASE Release(r)  BY <1>4, <2>13, ReleaseAdvances, AdvancesKeeps
  <2>14. CASE Rebook(r)  BY <1>4, <2>14, RebookAdvances, AdvancesKeeps
  <2>15. CASE SyncLedger(r)  BY <1>4, <2>15, SyncLedgerAdvances, AdvancesKeeps
  <2>16. CASE Stop(r)  BY <1>4, <2>16, StopAdvances, AdvancesKeeps
  <2>17. CASE Skip(r)  BY <1>4, <2>17, SkipAdvances, AdvancesKeeps
  <2>18. CASE EffectLost(r)  BY <1>4, <2>18, EffectLostAdvances, AdvancesKeeps
  <2>. QED
    BY <1>4, <2>1, <2>2, <2>3, <2>4, <2>5, <2>6, <2>7, <2>8, <2>9, <2>10, <2>11,
       <2>12, <2>13, <2>14, <2>15, <2>16, <2>17, <2>18 DEF Continue
<1>. QED  BY <1>1, <1>2, <1>3, <1>4 DEF Next

(* IInv holds in every reachable state, whatever overlaps and whatever     *)
(* fails.                                                                  *)
THEOREM Inductive == Spec => []IInv
BY InitIInv, NextIInv, PTL DEF Spec

(* checkPaymentTransition: no interleaving of whole-row saves and no       *)
(* failure leaves a refunded project that is not cancelled.                *)
THEOREM RefundsAreOfCancelled == Spec => []RefundedIsCancelled
<1>1. IInv => RefundedIsCancelled
  BY DEF IInv, RowInv, SoundRow, RefundedIsCancelled
<1>. QED  BY Inductive, <1>1, PTL

(* checkStatusTransition: no interleaving leaves a project finished that   *)
(* was never saved as being carried out.                                   *)
THEOREM FinishedAreBegun == Spec => []FinishedWasBegun
<1>1. IInv => FinishedWasBegun
  BY DEF IInv, RowInv, SoundRow, FinishedWasBegun
<1>. QED  BY Inductive, <1>1, PTL

(* applyEffects: undoing a creation gives back only what it took, with any *)
(* number of items, lost calls and requests at once.                       *)
THEOREM UndoIsExact == Spec => []NothingOverReturned
<1>1. IInv => NothingOverReturned
  BY DEF IInv, StockInv, NothingOverReturned
<1>. QED  BY Inductive, <1>1, PTL

-----------------------------------------------------------------------------
(* One request after the other and without a fault: a handler at work finds *)
(* everything as At says, and takes it to the next At.                      *)

LEMMA IdleFields ==
  /\ Idle.pc = "idle" /\ Idle.act = "none"
  /\ Idle.want = Nothing /\ Idle.held = Nothing
  /\ Nothing.plates = {} /\ \A i \in Item : Nothing.lines[i] = 0
BY DEF Idle, Asked, Nothing

(* What holds between two requests. *)
AtRest ==
  /\ project = None => usage = Nothing
  /\ OfKind(usage)
  /\ ledger <=> project # None /\ project.pay = "TelahLunas"
  /\ ~history.refused =>
       /\ \A i \in Item : drawn[i] = usage.lines[i]
       /\ booked = IF project # None /\ Active(project) THEN usage.plates ELSE {}

LEMMA AtIdle == (At(Idle) <=> AtRest) /\ (At(Idle)' <=> AtRest')
<1>1. OfKind(Nothing) /\ OfKind(Nothing)'  BY IdleFields DEF OfKind
<1>. QED
  BY <1>1, IdleFields
  DEF At, AtRest, ActAt, UsageAt, RowAt, LedgerAt, DrawnAt, BookedAt

(* The handler of r takes its next step. *)
Serially(r) ==
  /\ history'.overlaps = history.overlaps
  /\ faults' = faults
  /\ \E g : /\ Become(r, g)
            /\ g.pc = "idle" => g = Idle
            /\ At(g)'

LEMMA SeriallyKeeps ==
  ASSUME IInv, SerialInv, NEW r \in Request, req[r].pc # "idle",
         history'.overlaps = history.overlaps, faults' = faults,
         At(req[r]) => Serially(r)
  PROVE  SerialInv'
<1>. SUFFICES ASSUME history.overlaps = 0, faults = 0
              PROVE  SerialInv'
  BY DEF SerialInv
<1>1. PICK g : /\ Become(r, g)
               /\ g.pc = "idle" => g = Idle
               /\ At(g)'
  BY DEF Serially, SerialInv
<1>2. /\ req'[r] = g
      /\ \A s \in Request \ {r} : req'[s] = req[s]
  BY <1>1 DEF Become, IInv, TypeOK
<1>3. \A s \in Request \ {r} : req'[s].pc = "idle"
  BY <1>2 DEF SerialInv
<1>. QED  BY <1>1, <1>2, <1>3 DEF SerialInv, Quiet

(* A step of the handler alone. *)
LEMMA StillAt ==
  ASSUME NEW r \in Request, NEW g, Become(r, g), At(g), g.pc = "idle" => g = Idle,
         UNCHANGED <<kind, project, usage, drawn, booked, ledger, faults, history>>
  PROVE  Serially(r)
<1>1. At(g)'
  BY DEF At, ActAt, UsageAt, RowAt, LedgerAt, DrawnAt, BookedAt, OfKind
<1>. QED  BY <1>1 DEF Serially

(* Up to its first write a handler may end at any time. *)
LEMMA AtFirst ==
  ASSUME NEW h, At(h), h.pc \in {"idle", "usage", "plan", "insert", "save", "replace"}
  PROVE  AtRest
BY DEF At, AtRest, UsageAt, LedgerAt, DrawnAt, BookedAt

LEMMA PlannedAt ==
  ASSUME NEW h \in Handler, InOrder(h), At(h), h.pc = "plan"
  PROVE  At(Planned(h)) /\ Planned(h).pc # "idle"
<1>1. PICK g : g = Planned(h)  OBVIOUS
<1>2. /\ g.pc = IF h.act = "create" THEN "insert" ELSE "save"
      /\ g.act = h.act /\ g.want = h.want /\ g.held = h.held /\ g.copy = h.copy
  BY <1>1 DEF Planned, Handler
<1>3. h.act \in {"create", "edit"}  BY DEF At, ActAt
<1>4. ActAt(g)  BY <1>2, <1>3 DEF ActAt
<1>5. UsageAt(g)  BY <1>2, <1>3 DEF At, UsageAt
<1>6. RowAt(g)  BY <1>2, <1>3 DEF At, RowAt
<1>7. LedgerAt(g) /\ (\A i \in Item : DrawnAt(g, i) = DrawnAt(h, i)) /\ BookedAt(g) = BookedAt(h)
  BY <1>2, <1>3 DEF At, LedgerAt, DrawnAt, BookedAt
<1>. QED  BY <1>1, <1>2, <1>4, <1>5, <1>6, <1>7 DEF At

LEMMA PlanSaleAt ==
  ASSUME IInv, NEW r \in Request, At(req[r]), PlanSale(r)
  PROVE  Serially(r)
<1>1. PICK h : h = req[r]  OBVIOUS
<1>2. h \in Handler /\ InOrder(h) /\ At(h) /\ h.pc = "plan"
  BY <1>1, Before DEF PlanSale
<1>3. UNCHANGED <<kind, project, usage, drawn, booked, ledger, faults, history>>
  BY DEF PlanSale
<1>4. At(Idle)  BY <1>2, AtFirst, AtIdle
<1>5. ASSUME NEW i  PROVE At([h EXCEPT !.todo = @ \ {i}]) /\ [h EXCEPT !.todo = @ \ {i}].pc = "plan"
  <2>1. PICK g : g = [h EXCEPT !.todo = @ \ {i}]  OBVIOUS
  <2>2. /\ g.pc = "plan" /\ g.act = h.act /\ g.want = h.want /\ g.held = h.held
        /\ g.copy = h.copy
    BY <1>2, <2>1 DEF Handler
  <2>3. At(g)
    BY <1>2, <2>2 DEF At, ActAt, UsageAt, RowAt, LedgerAt, DrawnAt, BookedAt
  <2>. QED  BY <2>1, <2>2, <2>3
<1>6. PICK g : /\ Become(r, g)
               /\ g = Planned(h) \/ g = Idle \/ \E i \in h.todo : g = [h EXCEPT !.todo = @ \ {i}]
  BY <1>1 DEF PlanSale, Checked
<1>7. At(g) /\ (g.pc = "idle" => g = Idle)  BY <1>2, <1>4, <1>5, <1>6, PlannedAt
<1>. QED  BY <1>3, <1>6, <1>7, StillAt

LEMMA PlanDistributionAt ==
  ASSUME IInv, NEW r \in Request, At(req[r]), PlanDistribution(r)
  PROVE  Serially(r)
<1>1. PICK h : h = req[r]  OBVIOUS
<1>2. h \in Handler /\ InOrder(h) /\ At(h) /\ h.pc = "plan"
  BY <1>1, Before DEF PlanDistribution
<1>3. UNCHANGED <<kind, project, usage, drawn, booked, ledger, faults, history>>
  BY DEF PlanDistribution
<1>4. PICK g : Become(r, g) /\ (g = Planned(h) \/ g = Idle)
  BY <1>1 DEF PlanDistribution
<1>5. At(g) /\ (g.pc = "idle" => g = Idle)  BY <1>2, <1>4, AtFirst, AtIdle, PlannedAt
<1>. QED  BY <1>3, <1>4, <1>5, StillAt

LEMMA InsertAt ==
  ASSUME IInv, NEW r \in Request, At(req[r]), Insert(r)
  PROVE  Serially(r)
<1>1. PICK h : h = req[r]  OBVIOUS
<1>2. /\ h \in Handler /\ InOrder(h) /\ At(h) /\ h.pc = "insert" /\ AtRest
      /\ h.act = "create" /\ h.copy = NewRow /\ h.done = {}
      /\ project = None /\ usage = Nothing
  BY <1>1, Before, AtFirst DEF Insert, InOrder, At, RowAt, UsageAt
<1>3. Joined(usage, h.want) = h.want
  <2>1. h.want \in Usage  BY <1>2 DEF Handler
  <2>. QED  BY <1>2, <2>1, IdleFields DEF Joined, Usage
<1>4. PICK g : g = [h EXCEPT !.pc = "effects", !.todo = Lines(h.want)]  OBVIOUS
<1>5. /\ g.pc = "effects" /\ g.act = "create" /\ g.want = h.want /\ g.held = h.held
      /\ g.todo = Lines(h.want) /\ g.done = {}
  BY <1>2, <1>4 DEF Handler
<1>6. /\ Become(r, g) /\ project' = NewRow /\ usage' = h.want
      /\ UNCHANGED <<kind, drawn, booked, ledger, faults, history>>
  BY <1>1, <1>2, <1>3, <1>4 DEF Insert
<1>7. project' # None /\ project'.pay = "BelumLunas"  BY <1>6 DEF NewRow, None
<1>8. /\ ~ledger
      /\ ~history.refused => (\A i \in Item : drawn[i] = 0) /\ booked = {}
  BY <1>2, IdleFields DEF AtRest
<1>9. (ActAt(g) /\ UsageAt(g) /\ RowAt(g) /\ LedgerAt(g))'
  BY <1>2, <1>5, <1>6, <1>7, <1>8 DEF At, ActAt, UsageAt, RowAt, LedgerAt, OfKind
<1>10. At(g)'
  BY <1>5, <1>6, <1>8, <1>9 DEF At, DrawnAt, BookedAt, Taken
<1>. QED  BY <1>5, <1>6, <1>10 DEF Serially

LEMMA UnwindingAt ==
  ASSUME NEW h \in Handler, At(h), h.pc = "effects"
  PROVE  At(Unwinding(h)) /\ Unwinding(h).pc # "idle"
<1>1. PICK g : g = Unwinding(h)  OBVIOUS
<1>2. /\ g.pc = IF h.done = {} THEN "remove" ELSE "giveBack"
      /\ g.act = h.act /\ g.want = h.want /\ g.held = h.held /\ g.copy = h.copy
      /\ g.todo = h.done
  BY <1>1 DEF Unwinding, Handler
<1>3. Taken(g) = Taken(h)  BY <1>2 DEF Taken
<1>4. ActAt(g) /\ UsageAt(g) /\ RowAt(g) /\ LedgerAt(g)
  BY <1>2 DEF At, ActAt, UsageAt, RowAt, LedgerAt
<1>5. (\A i \in Item : DrawnAt(g, i) = DrawnAt(h, i)) /\ BookedAt(g) = BookedAt(h)
  BY <1>2, <1>3 DEF DrawnAt, BookedAt
<1>. QED  BY <1>1, <1>2, <1>4, <1>5 DEF At

LEMMA DeductStockAt ==
  ASSUME IInv, NEW r \in Request, At(req[r]), DeductStock(r)
  PROVE  Serially(r)
<1>1. PICK h : h = req[r]  OBVIOUS
<1>2. /\ TypeOK /\ h \in Handler /\ At(h) /\ h.pc = "effects" /\ kind = "sale"
      /\ project = NewRow /\ usage = h.want /\ h.todo = Lines(h.want) \ h.done
      /\ h.want.plates = {}
  BY <1>1, Before DEF DeductStock, At, UsageAt, RowAt, OfKind, IInv
<1>3. /\ project # None /\ Active(project) /\ project.pay = "BelumLunas" /\ ~ledger
  BY <1>2 DEF NewRow, None, Active, At, LedgerAt
<1>4. /\ \A i \in Item : h.want.lines[i] \in Nat
      /\ ~history.refused => booked = {}
      /\ ~history.refused => \A i \in Item :
           drawn[i] = IF i \in h.done THEN h.want.lines[i] ELSE 0
  BY <1>2, QuantityType DEF At, DrawnAt, BookedAt, Taken, Handler
<1>5. UNCHANGED <<kind, project, usage, booked, ledger, faults, history>>
  BY DEF DeductStock
(* Nothing is left to be taken. *)
<1>6. ASSUME Lines(h.want) \subseteq h.done, UNCHANGED drawn
      PROVE  At(Idle)
  <2>1. \A i \in Item : i \notin h.done => h.want.lines[i] = 0
    BY <1>4, <1>6 DEF Lines
  <2>2. AtRest
    BY <1>2, <1>3, <1>4, <2>1 DEF AtRest, At, UsageAt
  <2>. QED  BY <2>2, AtIdle
<1>7. CASE UNCHANGED drawn /\ (Become(r, Unwinding(h)) \/ (h.todo = {} /\ Become(r, Idle)))
  <2>1. PICK g : /\ Become(r, g) /\ At(g) /\ (g.pc = "idle" => g = Idle)
    BY <1>2, <1>6, <1>7, UnwindingAt
  <2>. QED  BY <1>5, <1>7, <2>1, StillAt
<1>8. ASSUME NEW i \in h.todo, CanTake(i, h.want.lines[i]), Take(i, h.want.lines[i]),
             Become(r, Deducted(h, i))
      PROVE  Serially(r)
  <2>1. /\ i \in Item /\ i \notin h.done
        /\ drawn'[i] = drawn[i] + h.want.lines[i]
        /\ \A j \in Item \ {i} : drawn'[j] = drawn[j]
    BY <1>2, <1>4, <1>8, TakeType DEF CanTake, Handler
  <2>2. ~history.refused => \A j \in Item :
          drawn'[j] = IF j \in h.done \cup {i} THEN h.want.lines[j] ELSE 0
    BY <1>4, <2>1
  <2>3. CASE h.todo = {i}
    <3>1. \A j \in Item : j \notin h.done \cup {i} => h.want.lines[j] = 0
      BY <1>2, <1>4, <2>3 DEF Lines
    <3>2. ~history.refused => \A j \in Item : drawn'[j] = h.want.lines[j]
      BY <2>2, <3>1
    <3>3. AtRest'
      BY <1>2, <1>3, <1>4, <1>5, <3>2 DEF AtRest, At, UsageAt, OfKind, Active
    <3>. QED  BY <1>5, <1>8, <2>3, <3>3, AtIdle DEF Serially, Deducted
  <2>4. CASE h.todo # {i}
    <3>1. PICK g : g = [h EXCEPT !.todo = @ \ {i}, !.done = @ \cup {i}]  OBVIOUS
    <3>2. /\ g.pc = "effects" /\ g.act = h.act /\ g.want = h.want /\ g.held = h.held
          /\ g.copy = h.copy
          /\ g.todo = h.todo \ {i} /\ g.done = h.done \cup {i}
      BY <1>2, <3>1 DEF Handler
    <3>3. (ActAt(g) /\ UsageAt(g) /\ RowAt(g) /\ LedgerAt(g))'
      BY <1>2, <1>5, <3>2 DEF At, ActAt, UsageAt, RowAt, LedgerAt, OfKind
    <3>4. At(g)'
      BY <1>4, <1>5, <2>2, <3>2, <3>3 DEF At, DrawnAt, BookedAt, Taken
    <3>. QED  BY <1>5, <1>8, <2>4, <3>1, <3>2, <3>4 DEF Serially, Deducted
  <2>. QED  BY <2>3, <2>4
<1>9. \/ h.todo = {} /\ Become(r, Idle) /\ UNCHANGED drawn
      \/ \E i \in h.todo :
           \/ CanTake(i, h.want.lines[i]) /\ Take(i, h.want.lines[i]) /\ Become(r, Deducted(h, i))
           \/ Become(r, Unwinding(h)) /\ UNCHANGED drawn
  BY <1>1 DEF DeductStock
<1>. QED  BY <1>7, <1>8, <1>9

LEMMA ReserveAt ==
  ASSUME IInv, NEW r \in Request, At(req[r]), Reserve(r)
  PROVE  Serially(r)
<1>1. PICK h : h = req[r]  OBVIOUS
<1>2. /\ h \in Handler /\ At(h) /\ h.pc = "effects" /\ kind = "distribution"
      /\ project = NewRow /\ usage = h.want /\ h.want.lines = Nothing.lines
  BY <1>1, Before DEF Reserve, At, UsageAt, RowAt, OfKind
<1>3. UNCHANGED <<kind, project, usage, drawn, ledger, faults, history>>
  BY DEF Reserve
<1>4. CASE Become(r, Unwinding(h)) /\ UNCHANGED booked
  BY <1>2, <1>3, <1>4, UnwindingAt, StillAt
<1>5. CASE Become(r, Idle) /\ booked' = booked \cup h.want.plates
  <2>1. project # None /\ Active(project) /\ project.pay = "BelumLunas" /\ ~ledger
    BY <1>2 DEF NewRow, None, Active, At, LedgerAt
  <2>2. ~history.refused => booked = {} /\ \A i \in Item : drawn[i] = 0
    BY <1>2, IdleFields DEF At, DrawnAt, BookedAt
  <2>3. AtRest'
    BY <1>2, <1>3, <1>5, <2>1, <2>2, IdleFields DEF AtRest, At, UsageAt, OfKind, Active
  <2>. QED  BY <1>3, <1>5, <2>3, AtIdle DEF Serially
<1>. QED  BY <1>1, <1>4, <1>5 DEF Reserve

LEMMA ReturnStockAt ==
  ASSUME IInv, NEW r \in Request, At(req[r]), ReturnStock(r)
  PROVE  Serially(r)
<1>1. PICK h : h = req[r]  OBVIOUS
<1>2. /\ TypeOK /\ h \in Handler /\ At(h) /\ h.pc = "giveBack"
  BY <1>1, Before DEF ReturnStock, IInv
<1>3. UNCHANGED <<kind, project, usage, booked, ledger, faults, history>>
  BY DEF ReturnStock
<1>4. PICK i \in h.todo : Take(i, -h.want.lines[i]) /\ Become(r, GivenBack(h, i))
  BY <1>1 DEF ReturnStock
<1>5. PICK g : g = GivenBack(h, i)  OBVIOUS
<1>6. /\ g.pc = IF h.todo = {i} THEN "remove" ELSE "giveBack"
      /\ g.act = h.act /\ g.want = h.want /\ g.held = h.held /\ g.copy = h.copy
      /\ g.todo = h.todo \ {i}
  BY <1>2, <1>5 DEF GivenBack, Handler
<1>7. i \in Item /\ \A j \in Item : h.want.lines[j] \in Nat
  BY <1>2, <1>4, QuantityType DEF Handler
<1>8. /\ drawn'[i] = drawn[i] - h.want.lines[i]
      /\ \A j \in Item \ {i} : drawn'[j] = drawn[j]
  BY <1>2, <1>4, <1>7 DEF Take, TypeOK
<1>9. ~history.refused => /\ booked = {}
                          /\ \A j \in Item :
                               drawn[j] = IF j \in h.todo THEN h.want.lines[j] ELSE 0
  BY <1>2 DEF At, DrawnAt, BookedAt, Taken
<1>10. ~history.refused => \A j \in Item :
         drawn'[j] = IF j \in h.todo \ {i} THEN h.want.lines[j] ELSE 0
  BY <1>4, <1>7, <1>8, <1>9
<1>11. (ActAt(g) /\ UsageAt(g) /\ RowAt(g) /\ LedgerAt(g))'
  BY <1>2, <1>3, <1>6 DEF At, ActAt, UsageAt, RowAt, LedgerAt, OfKind
<1>12. At(g)'
  BY <1>3, <1>6, <1>9, <1>10, <1>11 DEF At, DrawnAt, BookedAt, Taken
<1>. QED  BY <1>3, <1>4, <1>5, <1>6, <1>12 DEF Serially

LEMMA DeleteAt ==
  ASSUME IInv, NEW r \in Request, At(req[r]), Delete(r)
  PROVE  Serially(r)
<1>1. PICK h : h = req[r]  OBVIOUS
<1>2. At(h) /\ h.pc = "remove" /\ project = NewRow
  BY <1>1 DEF Delete, At, RowAt
<1>3. ~ledger
  BY <1>2 DEF NewRow, At, LedgerAt
<1>4. ~history.refused => booked = {} /\ \A i \in Item : drawn[i] = 0
  BY <1>2 DEF At, DrawnAt, BookedAt, Taken
<1>5. /\ project' = None /\ usage' = Nothing /\ Become(r, Idle)
      /\ UNCHANGED <<kind, drawn, booked, ledger, faults, history>>
  BY DEF Delete
<1>6. AtRest'
  BY <1>3, <1>4, <1>5, IdleFields DEF AtRest, OfKind
<1>. QED  BY <1>5, <1>6, AtIdle DEF Serially

LEMMA CurrentUsageAt ==
  ASSUME IInv, NEW r \in Request, At(req[r]), CurrentUsage(r)
  PROVE  Serially(r)
<1>1. PICK h : h = req[r]  OBVIOUS
<1>2. h \in Handler /\ At(h) /\ h.pc = "usage" /\ h.act = "edit"
  BY <1>1, Before DEF CurrentUsage, At, ActAt
<1>3. PICK g : g = [h EXCEPT !.pc = "plan", !.held = usage]  OBVIOUS
<1>4. /\ g.pc = "plan" /\ g.act = h.act /\ g.want = h.want /\ g.held = usage
      /\ g.copy = h.copy
  BY <1>2, <1>3 DEF Handler
<1>5. At(g)
  BY <1>2, <1>4 DEF At, ActAt, UsageAt, RowAt, LedgerAt, DrawnAt, BookedAt
<1>6. /\ Become(r, g)
      /\ UNCHANGED <<kind, project, usage, drawn, booked, ledger, faults, history>>
  BY <1>1, <1>3 DEF CurrentUsage
<1>. QED  BY <1>4, <1>5, <1>6, StillAt

LEMMA SaveAt ==
  ASSUME IInv, NEW r \in Request, At(req[r]), Save(r)
  PROVE  Serially(r)
<1>1. PICK h : h = req[r]  OBVIOUS
<1>2. /\ TypeOK /\ h \in Handler /\ At(h) /\ h.pc = "save" /\ AtRest
      /\ h.act \in {"edit", "status", "pay"} /\ project # None
  BY <1>1, Before, AtFirst DEF Save, At, ActAt, RowAt, IInv
<1>3. PICK g : g = [h EXCEPT !.pc = IF h.act = "edit" THEN "replace" ELSE "log"]  OBVIOUS
<1>4. /\ g.pc = IF h.act = "edit" THEN "replace" ELSE "log"
      /\ g.act = h.act /\ g.want = h.want /\ g.held = h.held /\ g.copy = h.copy
  BY <1>2, <1>3 DEF Handler
<1>5. /\ Become(r, g) /\ project' = h.copy
      /\ UNCHANGED <<kind, usage, drawn, booked, ledger, faults>>
  BY <1>1, <1>3 DEF Save
<1>6. history'.overlaps = history.overlaps /\ history'.refused = history.refused
  BY <1>2 DEF Save, TypeOK, History
<1>7. h.copy # None /\ h.copy.pay \in Payment
  BY <1>2 DEF Handler, Row, None, Status
<1>8. (ActAt(g) /\ UsageAt(g) /\ RowAt(g))'
  BY <1>2, <1>4, <1>5, <1>7 DEF At, ActAt, UsageAt, RowAt, OfKind, Active
<1>9. LedgerAt(g)'
  BY <1>2, <1>4, <1>5, <1>7 DEF At, AtRest, RowAt, LedgerAt
<1>10. h.act = "pay" => h.copy.status = project.status
  BY <1>2 DEF At, RowAt
<1>11. (\A i \in Item : DrawnAt(g, i)' = usage.lines[i]) /\ BookedAt(g)' = BookedAt(h)
  <2>1. CASE h.act = "edit"
    <3>1. h.copy = project /\ h.held = usage  BY <1>2, <2>1 DEF At, RowAt, UsageAt
    <3>. QED  BY <1>2, <1>4, <1>5, <2>1, <3>1 DEF DrawnAt, BookedAt, Active
  <2>2. CASE h.act = "status"
    <3>1. Active(project)  BY <1>2, <2>2 DEF At, RowAt
    <3>. QED  BY <1>2, <1>4, <1>5, <2>2, <3>1 DEF DrawnAt, BookedAt, Active
  <2>3. CASE h.act = "pay"
    BY <1>2, <1>4, <1>5, <1>7, <1>10, <2>3 DEF DrawnAt, BookedAt, Active
  <2>. QED  BY <1>2, <2>1, <2>2, <2>3
<1>12. At(g)'
  BY <1>2, <1>5, <1>6, <1>8, <1>9, <1>11 DEF At, AtRest
<1>. QED  BY <1>4, <1>5, <1>6, <1>12 DEF Serially

LEMMA ReplaceUsageAt ==
  ASSUME IInv, NEW r \in Request, At(req[r]), ReplaceUsage(r)
  PROVE  Serially(r)
<1>1. PICK h : h = req[r]  OBVIOUS
<1>2. /\ h \in Handler /\ At(h) /\ h.pc = "replace" /\ h.act = "edit" /\ AtRest
      /\ h.held = usage /\ project # None /\ project = h.copy /\ Active(project)
  BY <1>1, Before, AtFirst DEF ReplaceUsage, At, ActAt, RowAt, UsageAt
<1>3. PICK g : g = [h EXCEPT !.pc = "log"]  OBVIOUS
<1>4. /\ g.pc = "log" /\ g.act = h.act /\ g.want = h.want /\ g.held = h.held
      /\ g.copy = h.copy
  BY <1>2, <1>3 DEF Handler
<1>5. /\ Become(r, g) /\ usage' = h.want
      /\ UNCHANGED <<kind, project, drawn, booked, ledger, faults, history>>
  BY <1>1, <1>3 DEF ReplaceUsage
<1>6. (ActAt(g) /\ UsageAt(g) /\ RowAt(g) /\ LedgerAt(g))'
  BY <1>2, <1>4, <1>5 DEF At, ActAt, UsageAt, RowAt, LedgerAt, OfKind, Active
<1>7. At(g)'
  BY <1>2, <1>4, <1>5, <1>6 DEF At, AtRest, DrawnAt, BookedAt
<1>. QED  BY <1>4, <1>5, <1>7 DEF Serially

LEMMA AppendLogAt ==
  ASSUME IInv, NEW r \in Request, At(req[r]), AppendLog(r)
  PROVE  Serially(r)
<1>1. PICK h : h = req[r]  OBVIOUS
<1>2. /\ TypeOK /\ h \in Handler /\ At(h) /\ h.pc = "log"
      /\ h.act \in {"edit", "status", "pay"} /\ project # None /\ project = h.copy
  BY <1>1, Before DEF AppendLog, At, ActAt, RowAt, IInv
<1>3. PICK g : g = AfterLog(h)  OBVIOUS
<1>4. Become(r, g) /\ UNCHANGED <<kind, project, usage, drawn, booked, ledger, faults, history>>
  BY <1>1, <1>3 DEF AppendLog
<1>5. CASE h.act = "edit" /\ kind = "sale"
  <2>1. g = [h EXCEPT !.pc = "settle", !.todo = Changed(h)]  BY <1>3, <1>5 DEF AfterLog
  <2>2. /\ g.pc = "settle" /\ g.act = h.act /\ g.want = h.want /\ g.held = h.held
        /\ g.copy = h.copy /\ g.todo = Changed(h)
    BY <1>2, <2>1 DEF Handler
  <2>3. ActAt(g) /\ UsageAt(g) /\ RowAt(g) /\ LedgerAt(g)
    BY <1>2, <1>5, <2>2 DEF At, ActAt, UsageAt, RowAt, LedgerAt
  <2>4. \A i \in Item : DrawnAt(g, i) = DrawnAt(h, i)
    BY <1>2, <1>5, <2>2 DEF DrawnAt, Changed
  <2>5. BookedAt(g) = BookedAt(h)
    BY <1>2, <1>5, <2>2 DEF BookedAt, At, UsageAt, OfKind
  <2>. QED  BY <1>2, <1>4, <2>2, <2>3, <2>4, <2>5, StillAt DEF At
<1>6. CASE (h.act = "edit" /\ kind = "distribution") \/ (h.act = "status" /\ ~Active(h.copy))
  <2>1. g = [h EXCEPT !.pc = "release"]  BY <1>3, <1>6 DEF AfterLog
  <2>2. /\ g.pc = "release" /\ g.act = h.act /\ g.want = h.want /\ g.held = h.held
        /\ g.copy = h.copy
    BY <1>2, <2>1 DEF Handler
  <2>3. ActAt(g) /\ UsageAt(g) /\ RowAt(g) /\ LedgerAt(g)
    BY <1>2, <1>6, <2>2 DEF At, ActAt, UsageAt, RowAt, LedgerAt
  <2>4. \A i \in Item : DrawnAt(g, i) = DrawnAt(h, i)
    <3>1. CASE h.act = "edit"
      <4>1. usage.lines = h.held.lines
        BY <1>2, <1>6, <3>1 DEF At, UsageAt, OfKind
      <4>. QED  BY <1>2, <2>2, <3>1, <4>1 DEF DrawnAt
    <3>2. CASE h.act = "status"
      BY <1>2, <2>2, <3>2 DEF DrawnAt
    <3>. QED  BY <1>6, <3>1, <3>2
  <2>5. BookedAt(g) = BookedAt(h)
    BY <1>2, <2>2 DEF BookedAt
  <2>. QED  BY <1>2, <1>4, <2>2, <2>3, <2>4, <2>5, StillAt DEF At
<1>7. CASE h.act = "pay" /\ h.copy.pay # "BelumLunas"
  <2>1. g = [h EXCEPT !.pc = "ledger"]  BY <1>3, <1>7 DEF AfterLog
  <2>2. /\ g.pc = "ledger" /\ g.act = h.act /\ g.want = h.want /\ g.held = h.held
        /\ g.copy = h.copy
    BY <1>2, <2>1 DEF Handler
  <2>3. ActAt(g) /\ UsageAt(g) /\ RowAt(g) /\ LedgerAt(g)
    BY <1>2, <1>7, <2>2 DEF At, ActAt, UsageAt, RowAt, LedgerAt
  <2>4. (\A i \in Item : DrawnAt(g, i) = DrawnAt(h, i)) /\ BookedAt(g) = BookedAt(h)
    BY <1>2, <1>7, <2>2 DEF DrawnAt, BookedAt
  <2>. QED  BY <1>2, <1>4, <2>2, <2>3, <2>4, StillAt DEF At
<1>8. CASE (h.act = "status" /\ Active(h.copy)) \/ (h.act = "pay" /\ h.copy.pay = "BelumLunas")
  <2>1. g = Idle  BY <1>3, <1>8 DEF AfterLog
  <2>2. AtRest
    BY <1>2, <1>8 DEF At, AtRest, UsageAt, LedgerAt, DrawnAt, BookedAt
  <2>. QED  BY <1>4, <2>1, <2>2, AtIdle, StillAt
<1>9. kind \in {"sale", "distribution"}  BY <1>2 DEF TypeOK, Kind
<1>. QED  BY <1>2, <1>5, <1>6, <1>7, <1>8, <1>9

LEMMA SettleAt ==
  ASSUME IInv, NEW r \in Request, At(req[r]), Settle(r)
  PROVE  Serially(r)
<1>1. PICK h : h = req[r]  OBVIOUS
<1>2. /\ TypeOK /\ h \in Handler /\ At(h) /\ h.pc = "settle" /\ h.act = "edit"
      /\ kind = "sale" /\ usage = h.want /\ h.want.plates = {} /\ h.held.plates = {}
      /\ project # None /\ project = h.copy /\ Active(project)
  BY <1>1, Before DEF Settle, At, ActAt, UsageAt, RowAt, OfKind, IInv
<1>3. UNCHANGED <<kind, project, usage, booked, ledger, faults>>
  BY DEF Settle
<1>4. /\ \A i \in Item : h.want.lines[i] \in Nat /\ h.held.lines[i] \in Nat
      /\ ~history.refused => /\ booked = {}
                             /\ \A i \in Item : drawn[i] =
                                  IF i \in h.todo THEN h.held.lines[i] ELSE h.want.lines[i]
  BY <1>2, QuantityType DEF At, DrawnAt, BookedAt, Handler
<1>5. ASSUME NEW g, Become(r, g), UNCHANGED history.overlaps,
             ~history'.refused => ~history.refused,
             g = Idle \/ (g.pc = "settle" /\ \E i : g = [h EXCEPT !.todo = @ \ {i}]),
             ~history'.refused => \A j \in Item : drawn'[j] =
               IF g # Idle /\ j \in g.todo THEN h.held.lines[j] ELSE h.want.lines[j]
      PROVE  Serially(r)
  <2>1. CASE g = Idle
    <3>1. AtRest'
      BY <1>2, <1>3, <1>4, <1>5, <2>1 DEF AtRest, At, UsageAt, LedgerAt, OfKind, Active
    <3>. QED  BY <1>3, <1>5, <2>1, <3>1, AtIdle DEF Serially
  <2>2. CASE g # Idle
    <3>1. /\ g.pc = "settle" /\ g.act = h.act /\ g.want = h.want /\ g.held = h.held
          /\ g.copy = h.copy
      BY <1>2, <1>5, <2>2 DEF Handler
    <3>2. (ActAt(g) /\ UsageAt(g) /\ RowAt(g) /\ LedgerAt(g))'
      BY <1>2, <1>3, <3>1 DEF At, ActAt, UsageAt, RowAt, LedgerAt, OfKind, Active
    <3>3. At(g)'
      BY <1>2, <1>3, <1>4, <1>5, <2>2, <3>1, <3>2 DEF At, DrawnAt, BookedAt, Active
    <3>. QED  BY <1>3, <1>5, <3>1, <3>3 DEF Serially
  <2>. QED  BY <2>1, <2>2
<1>6. CASE h.todo = {} /\ Become(r, Idle) /\ UNCHANGED <<stock, drawn, history>>
  BY <1>4, <1>5, <1>6
<1>7. ASSUME NEW i \in h.todo, Become(r, Settled(h, i)),
             \/ Refused
             \/ /\ CanTake(i, h.want.lines[i] - h.held.lines[i])
                /\ Take(i, h.want.lines[i] - h.held.lines[i])
                /\ history' = [history EXCEPT !.settled = TRUE]
      PROVE  Serially(r)
  <2>1. PICK g : g = Settled(h, i)  OBVIOUS
  <2>2. g = Idle \/ (g.pc = "settle" /\ g = [h EXCEPT !.todo = @ \ {i}])
    BY <1>2, <2>1 DEF Settled, Handler
  <2>3. /\ g # Idle => g.todo = h.todo \ {i}
        /\ g = Idle => h.todo = {i}
    <3>1. [h EXCEPT !.todo = @ \ {i}].todo = h.todo \ {i}  BY <1>2 DEF Handler
    <3>2. [h EXCEPT !.todo = @ \ {i}] # Idle
      BY <1>2, IdleFields DEF Handler
    <3>. QED  BY <2>1, <3>1, <3>2 DEF Settled
  <2>4. CASE Refused
    <3>1. history'.refused /\ UNCHANGED history.overlaps
      BY <1>2, <2>4 DEF Refused, TypeOK, History
    <3>. QED  BY <1>5, <1>7, <2>1, <2>2, <3>1
  <2>5. CASE /\ CanTake(i, h.want.lines[i] - h.held.lines[i])
             /\ Take(i, h.want.lines[i] - h.held.lines[i])
             /\ history' = [history EXCEPT !.settled = TRUE]
    <3>1. i \in Item  BY <1>2, <1>7 DEF Handler
    <3>2. /\ drawn'[i] = drawn[i] + (h.want.lines[i] - h.held.lines[i])
          /\ \A j \in Item \ {i} : drawn'[j] = drawn[j]
      BY <1>2, <2>5, <3>1 DEF Take, TypeOK
    <3>3. UNCHANGED history.overlaps /\ history'.refused = history.refused
      BY <1>2, <2>5 DEF TypeOK, History
    <3>4. ~history.refused => \A j \in Item : drawn'[j] =
            IF j \in h.todo \ {i} THEN h.held.lines[j] ELSE h.want.lines[j]
      BY <1>4, <1>7, <3>1, <3>2
    <3>5. ~history'.refused => \A j \in Item : drawn'[j] =
            IF g # Idle /\ j \in g.todo THEN h.held.lines[j] ELSE h.want.lines[j]
      BY <2>3, <3>3, <3>4
    <3>. QED  BY <1>5, <1>7, <2>1, <2>2, <3>3, <3>5
  <2>. QED  BY <1>7, <2>4, <2>5
<1>8. \/ h.todo = {} /\ Become(r, Idle) /\ UNCHANGED <<stock, drawn, history>>
      \/ \E i \in h.todo :
           /\ Become(r, Settled(h, i))
           /\ \/ Refused
              \/ /\ CanTake(i, h.want.lines[i] - h.held.lines[i])
                 /\ Take(i, h.want.lines[i] - h.held.lines[i])
                 /\ history' = [history EXCEPT !.settled = TRUE]
  BY <1>1 DEF Settle
<1>. QED  BY <1>6, <1>7, <1>8

LEMMA ReleaseAt ==
  ASSUME IInv, NEW r \in Request, At(req[r]), Release(r)
  PROVE  Serially(r)
<1>1. PICK h : h = req[r]  OBVIOUS
<1>2. /\ TypeOK /\ h \in Handler /\ At(h) /\ h.pc = "release"
      /\ h.act \in {"edit", "status"} /\ project # None /\ project = h.copy
      /\ h.act = "edit" => Active(project) /\ usage = h.want /\ kind = "distribution"
      /\ h.act = "status" => ~Active(project)
  BY <1>1, Before DEF Release, At, ActAt, RowAt, UsageAt, IInv
<1>3. /\ Become(r, Released(h))
      /\ UNCHANGED <<kind, project, usage, drawn, ledger, faults>>
      /\ UNCHANGED history.overlaps
      /\ ~history'.refused => ~history.refused /\ booked' = {}
  <2>1. Refused => history'.refused /\ UNCHANGED history.overlaps
    BY <1>2 DEF Refused, TypeOK, History
  <2>. QED  BY <1>1, <2>1 DEF Release
<1>4. CASE h.act = "edit"
  <2>1. PICK g : g = [h EXCEPT !.pc = "rebook"]  OBVIOUS
  <2>2. /\ g.pc = "rebook" /\ g.act = h.act /\ g.want = h.want /\ g.held = h.held
        /\ g.copy = h.copy
    BY <1>2, <2>1 DEF Handler
  <2>3. (ActAt(g) /\ UsageAt(g) /\ RowAt(g) /\ LedgerAt(g))'
    BY <1>2, <1>3, <1>4, <2>2 DEF At, ActAt, UsageAt, RowAt, LedgerAt, OfKind, Active
  <2>4. At(g)'
    BY <1>2, <1>3, <1>4, <2>2, <2>3 DEF At, DrawnAt, BookedAt
  <2>. QED  BY <1>3, <1>4, <2>1, <2>2, <2>4 DEF Serially, Released
<1>5. CASE h.act = "status"
  <2>1. AtRest'
    BY <1>2, <1>3, <1>5 DEF AtRest, At, UsageAt, LedgerAt, DrawnAt, OfKind, Active
  <2>. QED  BY <1>3, <1>5, <2>1, AtIdle DEF Serially, Released
<1>. QED  BY <1>2, <1>4, <1>5

LEMMA RebookAt ==
  ASSUME IInv, NEW r \in Request, At(req[r]), Rebook(r)
  PROVE  Serially(r)
<1>1. PICK h : h = req[r]  OBVIOUS
<1>2. /\ TypeOK /\ h \in Handler /\ At(h) /\ h.pc = "rebook" /\ h.act = "edit"
      /\ project # None /\ Active(project) /\ usage = h.want
  BY <1>1, Before DEF Rebook, At, ActAt, RowAt, UsageAt, IInv
<1>3. /\ Become(r, Idle)
      /\ UNCHANGED <<kind, project, usage, drawn, ledger, faults>>
      /\ UNCHANGED history.overlaps
      /\ ~history'.refused => ~history.refused /\ booked' = booked \cup h.want.plates
  <2>1. Refused => history'.refused /\ UNCHANGED history.overlaps
    BY <1>2 DEF Refused, TypeOK, History
  <2>. QED  BY <1>1, <2>1 DEF Rebook
<1>4. AtRest'
  BY <1>2, <1>3 DEF AtRest, At, UsageAt, LedgerAt, DrawnAt, BookedAt, OfKind, Active
<1>. QED  BY <1>3, <1>4, AtIdle DEF Serially

LEMMA SyncLedgerAt ==
  ASSUME IInv, NEW r \in Request, At(req[r]), SyncLedger(r)
  PROVE  Serially(r)
<1>1. PICK h : h = req[r]  OBVIOUS
<1>2. /\ At(h) /\ h.pc = "ledger" /\ h.act = "pay" /\ project # None /\ project = h.copy
  BY <1>1 DEF SyncLedger, At, ActAt, RowAt
<1>3. /\ Become(r, Idle) /\ ledger' = (h.copy.pay = "TelahLunas")
      /\ UNCHANGED <<kind, project, usage, drawn, booked, faults, history>>
  BY <1>1 DEF SyncLedger
<1>4. AtRest'
  BY <1>2, <1>3 DEF AtRest, At, UsageAt, DrawnAt, BookedAt, OfKind, Active
<1>. QED  BY <1>3, <1>4, AtIdle DEF Serially

-----------------------------------------------------------------------------
(* A request arrives: it finds the project at rest, or has arrived while    *)
(* another is running.                                                     *)

LEMMA EnterSerial ==
  ASSUME IInv, SerialInv, NEW r \in Request, NEW g, Enter(r, g), g.pc # "idle",
         AtRest => At(g)
  PROVE  SerialInv'
<1>. SUFFICES ASSUME history'.overlaps = 0, faults' = 0
              PROVE  SerialInv'
  BY DEF SerialInv
<1>1. TypeOK /\ faults = 0 /\ UNCHANGED <<kind, project, usage, drawn, booked, ledger, faults>>
  BY DEF Enter, IInv
<1>2. Quiet /\ UNCHANGED history
  <2>1. CASE Quiet  BY <2>1 DEF Enter, Quiet
  <2>2. CASE ~Quiet
    <3>1. history'.overlaps = history.overlaps + 1 /\ history.overlaps \in Nat
      BY <1>1, <2>2 DEF Enter, Quiet, TypeOK, History
    <3>. QED  BY <3>1
  <2>. QED  BY <2>1, <2>2
<1>3. At(g)
  BY <1>1, <1>2, AtIdle DEF SerialInv
<1>4. At(g)'
  BY <1>1, <1>2, <1>3 DEF At, ActAt, UsageAt, RowAt, LedgerAt, DrawnAt, BookedAt, OfKind
<1>5. req'[r] = g /\ \A s \in Request \ {r} : req'[s].pc = "idle"
  BY <1>1, <1>2 DEF Enter, Become, Quiet, TypeOK
<1>. QED  BY <1>4, <1>5 DEF SerialInv, Quiet

LEMMA WantedOfKind ==
  ASSUME NEW want \in Wanted  PROVE OfKind(want)
BY DEF Wanted, OfKind, Nothing

LEMMA AddProjectSerial ==
  ASSUME IInv, SerialInv, NEW r \in Request, NEW want \in Wanted, AddProject(r, want)
  PROVE  SerialInv'
<1>1. PICK g : g = Asked("plan", "create", "Operasional", NewRow, want)  OBVIOUS
<1>2. /\ g.pc = "plan" /\ g.act = "create" /\ g.want = want /\ g.held = Nothing
  BY <1>1 DEF Asked
<1>3. OfKind(want) /\ OfKind(Nothing)  BY WantedOfKind, IdleFields DEF OfKind
<1>4. AtRest => At(g)
  BY <1>2, <1>3
  DEF AddProject, AtRest, At, ActAt, UsageAt, RowAt, LedgerAt, DrawnAt, BookedAt
<1>. QED  BY <1>1, <1>2, <1>4, EnterSerial DEF AddProject

LEMMA UpdateProjectSerial ==
  ASSUME IInv, SerialInv, NEW r \in Request, NEW role \in Editor, NEW want \in Wanted,
         UpdateProject(r, role, want)
  PROVE  SerialInv'
<1>1. PICK g : g = Asked("usage", "edit", role, project, want)  OBVIOUS
<1>2. /\ g.pc = "usage" /\ g.act = "edit" /\ g.want = want /\ g.held = Nothing
      /\ g.copy = project
  BY <1>1 DEF Asked
<1>3. OfKind(want) /\ OfKind(Nothing)  BY WantedOfKind, IdleFields DEF OfKind
<1>4. AtRest => At(g)
  BY <1>2, <1>3
  DEF UpdateProject, AtRest, At, ActAt, UsageAt, RowAt, LedgerAt, DrawnAt, BookedAt
<1>. QED  BY <1>1, <1>2, <1>4, EnterSerial DEF UpdateProject

LEMMA UpdateStatusSerial ==
  ASSUME IInv, SerialInv, NEW r \in Request, NEW status \in Status, UpdateStatus(r, status)
  PROVE  SerialInv'
<1>1. PICK row, g : /\ row = [project EXCEPT !.status = status]
                    /\ g = Asked("save", "status", "Operasional", row, Nothing)
  OBVIOUS
<1>2. /\ project # None /\ project \in Row /\ Active(project)
  BY ProjectRow DEF UpdateStatus, CheckStatusTransition
<1>3. row.pay = project.pay  BY <1>1, <1>2 DEF Row
<1>4. /\ g.pc = "save" /\ g.act = "status" /\ g.want = Nothing /\ g.held = Nothing
      /\ g.copy = row
  BY <1>1 DEF Asked
<1>5. OfKind(Nothing)  BY IdleFields DEF OfKind
<1>6. AtRest => At(g)
  BY <1>2, <1>3, <1>4, <1>5
  DEF AtRest, At, ActAt, UsageAt, RowAt, LedgerAt, DrawnAt, BookedAt
<1>. QED  BY <1>1, <1>4, <1>6, EnterSerial DEF UpdateStatus

LEMMA UpdatePaymentSerial ==
  ASSUME IInv, SerialInv, NEW r \in Request, NEW pay \in Payment, UpdatePayment(r, pay)
  PROVE  SerialInv'
<1>1. PICK row, g : /\ row = [project EXCEPT !.pay = pay]
                    /\ g = Asked("save", "pay", "Finance", row, Nothing)
  OBVIOUS
<1>2. /\ project # None /\ project \in Row /\ CheckPaymentTransition(project, pay)
  BY ProjectRow DEF UpdatePayment
<1>3. row.status = project.status /\ row.pay = pay  BY <1>1, <1>2 DEF Row
<1>4. /\ g.pc = "save" /\ g.act = "pay" /\ g.want = Nothing /\ g.held = Nothing
      /\ g.copy = row
  BY <1>1 DEF Asked
<1>5. pay = "BelumLunas" => project.pay # "TelahLunas"
  BY <1>2 DEF CheckPaymentTransition
<1>6. OfKind(Nothing)  BY IdleFields DEF OfKind
<1>7. AtRest => At(g)
  BY <1>2, <1>3, <1>4, <1>5, <1>6
  DEF AtRest, At, ActAt, UsageAt, RowAt, LedgerAt, DrawnAt, BookedAt
<1>. QED  BY <1>1, <1>4, <1>7, EnterSerial DEF UpdatePayment

LEMMA InitSerial == Init => SerialInv
<1>. SUFFICES ASSUME Init  PROVE SerialInv
  OBVIOUS
<1>1. \A r \in Request : req[r].pc = "idle"  BY IdleFields DEF Init
<1>2. AtRest  BY IdleFields DEF Init, AtRest, OfKind
<1>. QED  BY <1>1, <1>2, AtIdle DEF SerialInv

LEMMA NextSerial == IInv /\ SerialInv /\ [Next]_vars => SerialInv'
<1>. SUFFICES ASSUME IInv, SerialInv, [Next]_vars  PROVE SerialInv'
  OBVIOUS
<1>1. ASSUME UNCHANGED <<kind, project, usage, drawn, booked, ledger, req, faults, history>>
      PROVE  SerialInv'
  <2>1. ASSUME NEW h, At(h)  PROVE At(h)'
    BY <1>1, <2>1 DEF At, ActAt, UsageAt, RowAt, LedgerAt, DrawnAt, BookedAt, OfKind
  <2>. QED  BY <1>1, <2>1 DEF SerialInv, Quiet
<1>2. CASE UNCHANGED vars \/ OthersUseStock \/ OthersUsePlates
  BY <1>1, <1>2 DEF vars, OthersUseStock, OthersUsePlates
<1>3. ASSUME NEW r \in Request, Receive(r)
      PROVE  SerialInv'
  BY <1>3, AddProjectSerial, UpdateProjectSerial, UpdateStatusSerial, UpdatePaymentSerial
  DEF Receive
<1>4. ASSUME NEW r \in Request, Continue(r)
      PROVE  SerialInv'
  <2>1. req[r].pc # "idle" /\ faults' = faults
    BY <1>4
    DEF Continue, PlanSale, PlanDistribution, Insert, DeductStock, Reserve, ReturnStock, Delete,
        CurrentUsage, Save, ReplaceUsage, AppendLog, Settle, Release, Rebook, SyncLedger
  <2>2. history'.overlaps = history.overlaps
    BY <1>4
    DEF Continue, PlanSale, PlanDistribution, Insert, DeductStock, Reserve, ReturnStock, Delete,
        CurrentUsage, Save, ReplaceUsage, AppendLog, Settle, Release, Rebook, SyncLedger,
        Refused, IInv, TypeOK, History
  <2>3. At(req[r]) => Serially(r)
    BY <1>4, PlanSaleAt, PlanDistributionAt, InsertAt, DeductStockAt, ReserveAt, ReturnStockAt,
       DeleteAt, CurrentUsageAt, SaveAt, ReplaceUsageAt, AppendLogAt, SettleAt, ReleaseAt,
       RebookAt, SyncLedgerAt
    DEF Continue
  <2>. QED  BY <2>1, <2>2, <2>3, SeriallyKeeps
<1>5. ASSUME NEW r \in Request, Stop(r) \/ Skip(r) \/ EffectLost(r)
      PROVE  SerialInv'
  <2>1. faults' # 0  BY <1>5 DEF Stop, Skip, EffectLost, Fault, IInv, TypeOK
  <2>. QED  BY <2>1 DEF SerialInv
<1>. QED  BY <1>2, <1>3, <1>4, <1>5 DEF Next

(* The project as the run checks it: its rows under any overlap, and, one   *)
(* request after the other, what each statement finds and leaves.           *)
THEOREM ProjectIsSound == Spec => []ProjectInv
BY InitIInv, NextIInv, InitSerial, NextSerial, PTL DEF Spec, ProjectInv

(* applyEffects, moveHoldings: between two requests the project has drawn   *)
(* and booked what its usages say, for any items, vehicles and quantities,  *)
(* whatever the other projects take meanwhile.                              *)
THEOREM NothingIsLost == Spec => []Balanced
<1>1. ProjectInv => Balanced
  <2>. SUFFICES ASSUME ProjectInv, Undisturbed, Quiet
                PROVE  /\ drawn = usage.lines
                       /\ booked = IF project # None /\ Active(project) THEN usage.plates ELSE {}
                       /\ project = None => usage = Nothing
    BY DEF Balanced
  <2>1. AtRest  BY AtIdle DEF ProjectInv, SerialInv, Undisturbed
  <2>2. drawn \in [Item -> Int] /\ usage.lines \in [Item -> Nat]
    BY DEF ProjectInv, IInv, TypeOK, Usage
  <2>. QED  BY <2>1, <2>2 DEF AtRest, Undisturbed
<1>. QED  BY <1>1, ProjectIsSound, PTL

(* moveHoldings: "the net delta touches each item once".                    *)
THEOREM EachItemOnce == Spec => []NetDelta
<1>1. ProjectInv => NetDelta
  BY DEF ProjectInv, SerialInv, At, DrawnAt, NetDelta, Undisturbed
<1>. QED  BY <1>1, ProjectIsSound, PTL

(* syncLedger: between two requests finance has an entry for the project    *)
(* exactly if it is paid, even when other services have refused its edits.  *)
THEOREM LedgerIsOfPaid == Spec => []LedgerAgrees
<1>1. ProjectInv => LedgerAgrees
  <2>. SUFFICES ASSUME ProjectInv, history.overlaps = 0, faults = 0, Quiet
                PROVE  ledger <=> project # None /\ project.pay = "TelahLunas"
    BY DEF LedgerAgrees
  <2>1. AtRest  BY AtIdle DEF ProjectInv, SerialInv
  <2>. QED  BY <2>1 DEF AtRest
<1>. QED  BY <1>1, ProjectIsSound, PTL

-----------------------------------------------------------------------------
(* Every handler comes to an end, with any number of them overlapping and   *)
(* any of their calls failing.                                             *)

LEMMA Stages ==
  /\ \A pc \in PC : Stage(pc) \in 0..11 /\ (pc # "idle" => Stage(pc) >= 1)
  /\ Stage("idle") = 0 /\ Stage("ledger") = 1 /\ Stage("rebook") = 1
  /\ Stage("release") = 2 /\ Stage("settle") = 2 /\ Stage("log") = 3
  /\ Stage("replace") = 4 /\ Stage("save") = 5 /\ Stage("remove") = 6
  /\ Stage("giveBack") = 7 /\ Stage("effects") = 8 /\ Stage("insert") = 9
  /\ Stage("plan") = 10 /\ Stage("usage") = 11
BY DEF Stage, PC

(* A handler that becomes g is closer to its answer. *)
ComesCloser(r) == \E g : Become(r, g) /\ Closer(g, req[r])

LEMMA IdleCloser ==
  ASSUME NEW h \in Handler, h.pc # "idle"
  PROVE  Closer(Idle, h)
<1>1. Idle.pc = "idle"  BY DEF Idle, Asked
<1>2. h.pc \in PC  BY DEF Handler
<1>3. Stage(Idle.pc) < Stage(h.pc)  BY <1>1, <1>2, Stages
<1>. QED  BY <1>3 DEF Closer

LEMMA FewerCloser ==
  ASSUME NEW h \in Handler, NEW g \in Handler, NEW i \in h.todo,
         g.pc = h.pc, g.todo = h.todo \ {i}
  PROVE  Closer(g, h)
BY DEF Closer

LEMMA PlannedCloser ==
  ASSUME NEW h \in Handler, h.pc = "plan"
  PROVE  Closer(Planned(h), h)
<1>1. Planned(h).pc \in {"insert", "save"}  BY DEF Planned, Handler
<1>. QED  BY <1>1, Stages DEF Closer

LEMMA UnwindingCloser ==
  ASSUME NEW h \in Handler, h.pc = "effects"
  PROVE  Closer(Unwinding(h), h)
<1>1. Unwinding(h).pc \in {"giveBack", "remove"}  BY DEF Unwinding, Handler
<1>. QED  BY <1>1, Stages DEF Closer

LEMMA GivenBackCloser ==
  ASSUME NEW h \in Handler, h.pc = "giveBack", NEW i \in h.todo
  PROVE  Closer(GivenBack(h, i), h)
<1>1. CASE h.todo = {i}
  <2>1. GivenBack(h, i).pc = "remove"  BY <1>1 DEF GivenBack, Handler
  <2>. QED  BY <2>1, Stages DEF Closer
<1>2. CASE h.todo # {i}
  <2>1. GivenBack(h, i).pc = h.pc /\ GivenBack(h, i).todo = h.todo \ {i}
    BY <1>2 DEF GivenBack, Handler
  <2>. QED  BY <2>1 DEF Closer
<1>. QED  BY <1>1, <1>2

LEMMA SettledCloser ==
  ASSUME NEW h \in Handler, h.pc = "settle", NEW i \in h.todo
  PROVE  Closer(Settled(h, i), h)
<1>1. CASE h.todo = {i}  BY <1>1, IdleCloser DEF Settled
<1>2. CASE h.todo # {i}
  <2>1. Settled(h, i).pc = h.pc /\ Settled(h, i).todo = h.todo \ {i}
    BY <1>2 DEF Settled, Handler
  <2>. QED  BY <2>1 DEF Closer
<1>. QED  BY <1>1, <1>2

LEMMA ReleasedCloser ==
  ASSUME NEW h \in Handler, h.pc = "release"
  PROVE  Closer(Released(h), h)
<1>1. CASE h.act = "edit"
  <2>1. Released(h).pc = "rebook"  BY <1>1 DEF Released, Handler
  <2>. QED  BY <2>1, Stages DEF Closer
<1>2. CASE h.act # "edit"  BY <1>2, IdleCloser DEF Released
<1>. QED  BY <1>1, <1>2

LEMMA AfterLogCloser ==
  ASSUME NEW h \in Handler, h.pc = "log"
  PROVE  Closer(AfterLog(h), h)
<1>1. AfterLog(h) = Idle \/ AfterLog(h).pc \in {"settle", "release", "ledger"}
  BY DEF AfterLog, Handler
<1>2. CASE AfterLog(h) = Idle  BY <1>2, IdleCloser
<1>3. CASE AfterLog(h).pc \in {"settle", "release", "ledger"}
  BY <1>3, Stages DEF Closer
<1>. QED  BY <1>1, <1>2, <1>3

(* Checking an item, or taking its stock, leaves one item less. *)
LEMMA CheckedCloser ==
  ASSUME NEW h \in Handler, h.pc = "plan", NEW i \in h.todo
  PROVE  Closer(Checked(h, i), h)
<1>1. CASE h.todo = {i}  BY <1>1, PlannedCloser DEF Checked
<1>2. CASE h.todo # {i}
  <2>1. Checked(h, i).pc = h.pc /\ Checked(h, i).todo = h.todo \ {i}
    BY <1>2 DEF Checked, Handler
  <2>. QED  BY <2>1 DEF Closer
<1>. QED  BY <1>1, <1>2

LEMMA DeductedCloser ==
  ASSUME NEW h \in Handler, h.pc = "effects", NEW i \in h.todo
  PROVE  Closer(Deducted(h, i), h)
<1>1. CASE h.todo = {i}  BY <1>1, IdleCloser DEF Deducted
<1>2. CASE h.todo # {i}
  <2>1. Deducted(h, i).pc = h.pc /\ Deducted(h, i).todo = h.todo \ {i}
    BY <1>2 DEF Deducted, Handler
  <2>. QED  BY <2>1 DEF Closer
<1>. QED  BY <1>1, <1>2

LEMMA ContinueCloser ==
  ASSUME TypeOK, NEW r \in Request, Continue(r) \/ Skip(r)
  PROVE  ComesCloser(r)
<1>. DEFINE h == req[r]
<1>0. h \in Handler  BY DEF TypeOK
<1>1. ASSUME NEW g, Become(r, g), Closer(g, h)  PROVE ComesCloser(r)
  BY <1>1 DEF ComesCloser
<1>2. CASE PlanSale(r)
  <2>1. h.pc = "plan"  BY <1>2 DEF PlanSale
  <2>2. PICK g : /\ Become(r, g)
                 /\ g \in {Planned(h), Idle} \/ \E i \in h.todo : g = Checked(h, i)
    BY <1>2 DEF PlanSale
  <2>. QED  BY <1>0, <1>1, <2>1, <2>2, PlannedCloser, CheckedCloser, IdleCloser
<1>3. CASE PlanDistribution(r)
  <2>1. h.pc = "plan"  BY <1>3 DEF PlanDistribution
  <2>2. PICK g \in {Planned(h), Idle} : Become(r, g)  BY <1>3 DEF PlanDistribution
  <2>. QED  BY <1>0, <1>1, <2>1, <2>2, PlannedCloser, IdleCloser
<1>4. CASE Insert(r)
  <2>1. h.pc = "insert"  BY <1>4 DEF Insert
  <2>2. CASE project = None
    <3>. DEFINE g == [h EXCEPT !.pc = "effects", !.todo = Lines(h.want)]
    <3>1. Become(r, g)  BY <1>4, <2>2 DEF Insert
    <3>2. g.pc = "effects"  BY <1>0 DEF Handler
    <3>3. Closer(g, h)  BY <2>1, <3>2, Stages DEF Closer
    <3>. QED  BY <3>1, <3>3, <1>1
  <2>3. CASE project # None
    <3>1. Become(r, Idle)  BY <1>4, <2>3 DEF Insert
    <3>. QED  BY <1>0, <1>1, <2>1, <3>1, IdleCloser
  <2>. QED  BY <2>2, <2>3
<1>5. CASE DeductStock(r)
  <2>1. h.pc = "effects"  BY <1>5 DEF DeductStock
  <2>2. PICK g : /\ Become(r, g)
                 /\ g \in {Unwinding(h), Idle} \/ \E i \in h.todo : g = Deducted(h, i)
    BY <1>5 DEF DeductStock
  <2>. QED  BY <1>0, <1>1, <2>1, <2>2, UnwindingCloser, DeductedCloser, IdleCloser
<1>6. CASE Reserve(r)
  <2>1. h.pc = "effects"  BY <1>6 DEF Reserve
  <2>2. PICK g \in {Unwinding(h), Idle} : Become(r, g)  BY <1>6 DEF Reserve
  <2>. QED  BY <1>0, <1>1, <2>1, <2>2, UnwindingCloser, IdleCloser
<1>7. CASE ReturnStock(r)
  <2>1. h.pc = "giveBack"  BY <1>7 DEF ReturnStock
  <2>2. PICK i \in h.todo : Become(r, GivenBack(h, i))  BY <1>7 DEF ReturnStock
  <2>. QED  BY <1>0, <1>1, <2>1, <2>2, GivenBackCloser
<1>8. CASE Delete(r) \/ Rebook(r) \/ SyncLedger(r)
  <2>1. h.pc # "idle" /\ Become(r, Idle)  BY <1>8 DEF Delete, Rebook, SyncLedger
  <2>. QED  BY <1>0, <1>1, <2>1, IdleCloser
<1>9. CASE CurrentUsage(r)
  <2>. DEFINE g == [h EXCEPT !.pc = "plan", !.held = usage]
  <2>1. Become(r, g) /\ h.pc = "usage"  BY <1>9 DEF CurrentUsage
  <2>2. g.pc = "plan"  BY <1>0 DEF Handler
  <2>3. Closer(g, h)  BY <2>1, <2>2, Stages DEF Closer
  <2>. QED  BY <2>1, <2>3, <1>1
<1>10. CASE Save(r)
  <2>. DEFINE g == [h EXCEPT !.pc = IF h.act = "edit" THEN "replace" ELSE "log"]
  <2>1. Become(r, g) /\ h.pc = "save"  BY <1>10 DEF Save
  <2>2. g.pc \in {"replace", "log"}  BY <1>0 DEF Handler
  <2>3. Closer(g, h)  BY <2>1, <2>2, Stages DEF Closer
  <2>. QED  BY <2>1, <2>3, <1>1
<1>11. CASE ReplaceUsage(r)
  <2>. DEFINE g == [h EXCEPT !.pc = "log"]
  <2>1. Become(r, g) /\ h.pc = "replace"  BY <1>11 DEF ReplaceUsage
  <2>2. g.pc = "log"  BY <1>0 DEF Handler
  <2>3. Closer(g, h)  BY <2>1, <2>2, Stages DEF Closer
  <2>. QED  BY <2>1, <2>3, <1>1
<1>12. CASE AppendLog(r)
  <2>1. h.pc = "log" /\ Become(r, AfterLog(h))  BY <1>12 DEF AppendLog
  <2>. QED  BY <1>0, <1>1, <2>1, AfterLogCloser
<1>13. CASE Settle(r)
  <2>1. h.pc = "settle"  BY <1>13 DEF Settle
  <2>2. PICK g : Become(r, g) /\ (g = Idle \/ \E i \in h.todo : g = Settled(h, i))
    BY <1>13 DEF Settle
  <2>. QED  BY <1>0, <1>1, <2>1, <2>2, SettledCloser, IdleCloser
<1>14. CASE Release(r)
  <2>1. h.pc = "release" /\ Become(r, Released(h))  BY <1>14 DEF Release
  <2>. QED  BY <1>0, <1>1, <2>1, ReleasedCloser
<1>15. CASE Skip(r)
  <2>1. \/ h.pc = "giveBack" /\ \E i \in h.todo : Become(r, GivenBack(h, i))
        \/ h.pc = "settle" /\ \E i \in h.todo : Become(r, Settled(h, i))
        \/ h.pc = "release" /\ Become(r, Released(h))
        \/ h.pc \in {"rebook", "ledger"} /\ Become(r, Idle)
    BY <1>15 DEF Skip
  <2>. QED  BY <1>0, <1>1, <2>1, GivenBackCloser, SettledCloser, ReleasedCloser, IdleCloser
<1>. QED
  BY <1>2, <1>3, <1>4, <1>5, <1>6, <1>7, <1>8, <1>9, <1>10, <1>11, <1>12, <1>13, <1>14, <1>15
  DEF Continue

(* What HandlersEnd says of one step. *)
HandlersEndStep ==
  \A r \in Request :
    /\ Continue(r) \/ Skip(r) => Closer(req'[r], req[r])
    /\ req[r].pc # "idle" => req'[r] = req[r] \/ Closer(req'[r], req[r])

LEMMA EndStep == TypeOK /\ [Next]_vars => HandlersEndStep
<1>. SUFFICES ASSUME TypeOK, [Next]_vars, NEW r \in Request
              PROVE  /\ Continue(r) \/ Skip(r) => Closer(req'[r], req[r])
                     /\ req[r].pc # "idle" => req'[r] = req[r] \/ Closer(req'[r], req[r])
  BY DEF HandlersEndStep
<1>. DEFINE Fine == req[r].pc # "idle" => req'[r] = req[r] \/ Closer(req'[r], req[r])
<1>0. req \in [Request -> Handler] /\ req[r] \in Handler  BY DEF TypeOK
<1>1. Continue(r) \/ Skip(r) => Closer(req'[r], req[r])
  BY <1>0, ContinueCloser DEF ComesCloser, Become
<1>2. CASE UNCHANGED vars \/ OthersUseStock \/ OthersUsePlates
  BY <1>1, <1>2 DEF vars, OthersUseStock, OthersUsePlates
<1>3. ASSUME NEW s \in Request, Receive(s)  PROVE Fine
  <2>1. req[s].pc = "idle" /\ \A t \in Request \ {s} : req'[t] = req[t]
    BY <1>0, <1>3 DEF Receive, AddProject, UpdateProject, UpdateStatus, UpdatePayment,
                      Enter, Become
  <2>. QED  BY <2>1
<1>4. ASSUME NEW s \in Request, ComesCloser(s)  PROVE Fine
  BY <1>0, <1>4 DEF ComesCloser, Become
<1>5. ASSUME NEW s \in Request, Continue(s) \/ Skip(s)  PROVE Fine
  BY <1>4, <1>5, ContinueCloser
<1>6. ASSUME NEW s \in Request, Stop(s) \/ EffectLost(s)  PROVE Fine
  <2>0. req[s] \in Handler  BY <1>0
  <2>1. \/ req[s].pc # "idle" /\ Become(s, Idle)
        \/ req[s].pc = "effects" /\ Become(s, Unwinding(req[s]))
    BY <1>6 DEF Stop, EffectLost
  <2>. QED  BY <1>4, <2>0, <2>1, IdleCloser, UnwindingCloser DEF ComesCloser
<1>. QED  BY <1>1, <1>2, <1>3, <1>5, <1>6 DEF Next

(* AddProject, UpdateProject, UpdateStatus and UpdatePayment end, what they *)
(* have to undo included: each statement and each call brings a handler    *)
(* closer to its answer, and none is set back by the others or by a fault. *)
THEOREM HandlersComeToAnEnd == Spec => HandlersEnd
<1>1. IInv /\ [Next]_vars => [HandlersEndStep]_vars  BY EndStep DEF IInv
<1>2. Spec => [][HandlersEndStep]_vars  BY <1>1, Inductive, PTL DEF Spec
<1>. QED  BY <1>2 DEF HandlersEnd, HandlersEndStep

=============================================================================
